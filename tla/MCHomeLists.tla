---------------------------- MODULE MCHomeLists ----------------------------
EXTENDS HomeLists

C(net, contract) == [net |-> net, contract |-> contract]

MCChainOf == ("eth" :> "eth" @@ "erc20" :> "eth" @@ "bsc" :> "bsc")

MCCoinLists ==
    {<<C("erc20", "a")>>, <<C("erc20", "a"), C("bsc", Native)>>,
     <<C("eth", "a"), C("erc20", "b")>>}

MCSearches == {{C("eth", "a")}, {C("eth", "b"), C("bsc", "b")}}

MCTasks == Permutations(Procs)

R(chain, cex, yes, save, asks) ==
    [kind |-> "resolve", symbol |-> "S", chain |-> chain, cex |-> cex,
     yes |-> yes, save |-> save, asks |-> asks]

MCJobs ==
    {[kind |-> "add", key |-> <<"S", "eth">>, to |-> [contract |-> "b", venue |-> None]],
     [kind |-> "remove", symbol |-> "S", chain |-> "eth"],
     R(None, FALSE, FALSE, FALSE, TRUE), R(None, FALSE, TRUE, TRUE, FALSE),
     R(None, TRUE, FALSE, FALSE, TRUE), R("bsc", TRUE, FALSE, TRUE, FALSE),
     R("bsc", FALSE, FALSE, FALSE, TRUE)}

MCFold == ("0xab" :> "0xab" @@ "0xAB" :> "0xab" @@ "0xcd" :> "0xcd" @@ "0xef" :> "0xef")

MCBooks == {<<"0xab", "0xcd">>}

(* Bound of the model: only the token list is used, or, where the venue    *)
(* lists no contracts, the book and, by one command, the token list.       *)
MCBound == (book = Absent /\ changes = 0) \/ (coins = NoList /\ jobs <= 1)
=============================================================================
