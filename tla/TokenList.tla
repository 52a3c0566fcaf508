----------------------------- MODULE TokenList -----------------------------
(***************************************************************************)
(* The saved tokens (crates/scope-core/src/tokens.rs) and the commands     *)
(* that read and change them: `tokens add` and `tokens remove` of the TUI  *)
(* session, and the resolution of a token symbol                           *)
(* (crates/scope-cli/src/cli/resolve.rs) that `crawl`, `monitor`, `market`,*)
(* `insights`, `token-health` and each watchlist target begin with.        *)
(*                                                                         *)
(* A command loads the list, may await a venue and the user, and then      *)
(* saves its own copy whole.  Commands of one process or of several run at *)
(* the same time, each with its copy; a process can die between any two    *)
(* steps.  Everything from one await, or one call into the file system, to *)
(* the next is one action.                                                 *)
(*                                                                         *)
(* What the lookups find is chosen freely: a DEX search per resolution,    *)
(* the coin list of the one CEX venue once.  The matches are those of the  *)
(* exact symbol.  The line of `resolutions.jsonl` (nothing reads it) and   *)
(* the notes are left out.                                                 *)
(***************************************************************************)
EXTENDS Naturals, FiniteSets, Sequences, SequencesExt, Functions, TLC, Retain

CONSTANTS
    Procs,      \* tasks that run a command: a pane, a run, another process
    Symbols, Chains, Contracts,
    Networks,   \* names that venues give to chains; a chain is a name of its own
    ChainOf,    \* `chain_for_network`: the chain of each
    CoinLists,  \* coin lists the CEX venue can have, each a sequence of candidates
    Searches,   \* what a DEX search can find, each a set of candidates
    RecentMax,  \* recent tokens kept (20)
    Jobs,       \* commands that are run, of those below
    MaxJobs,    \* bound of the model: commands begun
    Absent, Broken

Native == "native"      \* a coin with no contract
None   == "none"
Venue  == "venue"       \* the CEX venue
Cut    == "cut"         \* what a name that was cut short reads as: no name of its kind
NoList == <<[net |-> None, contract |-> None]>>   \* it does not list contracts

Keys       == Symbols \X (Networks \union {Cut})
Candidates == [net : Networks, contract : Contracts \union {Native}]

(* `TokenInfo`: a binding names its chain once more than its key does.     *)
Bindings   == [chain : Networks \union {Cut}, contract : Contracts \union {Native, Cut},
               venue : {None, Venue, Cut}]
Recents    == [key : Keys, to : Bindings]
Tokens     == [net : Networks \union {Cut}, contract : Contracts \union {Native, Cut}]

ASSUME ChainAssumption  ==
    Chains \subseteq Networks /\ ChainOf \in [Networks -> Chains] /\ Cut \notin Networks
ASSUME BoundAssumption  == RecentMax \in Nat \ {0} /\ MaxJobs \in Nat
ASSUME FileAssumption   == Absent # Broken
ASSUME FoundAssumption  ==
    CoinLists \subseteq Seq(Candidates) /\ \A s \in Searches : s \subseteq Candidates

VARIABLES
    tokens,     \* tokens.yaml
    pen, texts, \* who is writing it, and over what (WholeFile)
    coins,      \* the coin list of the venue, or NoList
    jobs,       \* commands begun
    job,        \* each process: what it runs
    at,         \* what it does next
    view,       \* its copy of the list
    choice,     \* what it offers the user, then what it has chosen
    end,        \* how its last command ended
    \* history
    mixed,      \* the list has been a text made of two (WholeFile)
    meant,      \* the tokens the symbol could mean
    answer,     \* what the user chose
    last,       \* the list as it was last saved whole
    fresh       \* the process has loaded `last`, and nobody has written since

fileVars == <<tokens, pen, texts, mixed>>

vars == <<fileVars, coins, jobs, job, at, view, choice, end, meant, answer, last, fresh>>

File == INSTANCE WholeFile WITH file <- tokens

-----------------------------------------------------------------------------
(* The list: `TokenAliases`.                                               *)
Empty == [aliases |-> <<>>, recent |-> <<>>]

(* `load`: a list that is not there, or does not parse, counts as empty.   *)
Loaded == IF tokens \in {Absent, Broken} THEN Empty ELSE tokens

Without(recent, keys) ==
    Retained(recent, {i \in DOMAIN recent : recent[i].key \notin keys})

Info(k, b) == [chain |-> k[2], contract |-> b.contract, venue |-> b.venue]

AsRecent(symbol, info) == [key |-> <<symbol, info.chain>>, to |-> info]

(* Variant: the binding is the only one of its symbol.                     *)
BoundAlone(l, k, b) ==
    [aliases |-> [x \in {y \in DOMAIN l.aliases : y[1] # k[1]} \union {k} |->
                     IF x = k THEN Info(k, b) ELSE l.aliases[x]],
     recent |-> <<[key |-> k, to |-> Info(k, b)]>> \o Without(l.recent, {k})]

(* `add_binding`.                                                          *)
Bound(l, k, b) ==
    LET recent == <<[key |-> k, to |-> Info(k, b)]>> \o Without(l.recent, {k})
    IN  [aliases |-> [x \in DOMAIN l.aliases \union {k} |->
                         IF x = k THEN Info(k, b) ELSE l.aliases[x]],
         recent  |-> SubSeq(recent, 1, IF Len(recent) > RecentMax THEN RecentMax ELSE Len(recent))]

(* Variant: the recent tokens stay.                                        *)
UnboundKeepsRecent(l, keys) ==
    [aliases |-> Restrict(l.aliases, DOMAIN l.aliases \ keys), recent |-> l.recent]

(* `remove`, of one chain or of all.                                       *)
Unbound(l, keys) ==
    [aliases |-> Restrict(l.aliases, DOMAIN l.aliases \ keys), recent |-> Without(l.recent, keys)]

(* What the last entry of a text that was cut short can read as: it ends   *)
(* with its chain, a time and, if it has one, its venue.                   *)
Ends(b) ==
    {b, [b EXCEPT !.venue = None], [b EXCEPT !.chain = Cut, !.venue = None]}
    \union {[b EXCEPT !.venue = IF @ = None THEN None ELSE Cut]}

(* What an entry can read as that begins as b and ends as one of others.   *)
Halves(b, others) ==
    Ends(b) \union [chain    : {b.chain, Cut} \union {d.chain : d \in others},
                    contract : {b.contract, Cut},
                    venue    : {Cut} \union {d.venue : d \in others}]

Infos(l) == Range(l.aliases) \union {t.to : t \in ToSet(l.recent)}

(* The list of which the text goes up to recent token n of l, which reads  *)
(* as info, and on with the recent tokens of m from the i-th.              *)
Spliced(l, n, info, m, i) ==
    [l EXCEPT !.recent = SubSeq(@, 1, n - 1) \o <<AsRecent(@[n].key[1], info)>>
                         \o SubSeq(m.recent, i, Len(m.recent))]

(* It is cut in binding k, after those of ks (their order is arbitrary, and*)
(* the recent tokens follow them), or in recent token n.                   *)
CutInBinding(l, ks, k) ==
    {[aliases |-> [Restrict(l.aliases, ks \union {k}) EXCEPT ![k] = b], recent |-> << >>] :
        b \in Ends(l.aliases[k])}

CutInRecent(l, n) == {Spliced(l, n, b, Empty, 1) : b \in Ends(l.recent[n].to)}

(* What a text of the list cut short can parse to.                         *)
Parts(l) ==
    {Empty, [l EXCEPT !.recent = << >>]}
    \union (UNION {CutInBinding(l, ks, k) : ks \in SUBSET DOMAIN l.aliases, k \in DOMAIN l.aliases})
    \union (UNION {CutInRecent(l, n) : n \in DOMAIN l.recent})

Rests(m) == 1..(Len(m.recent) + 1)

(* What the text of l can parse to with the rest of a longer one of m      *)
(* after it: further recent tokens, and a venue for the last of l.         *)
Overrun(l, m) ==
    LET n      == Len(l.recent)
        to     == l.recent[n].to
        venues == IF to.venue = None THEN {d.venue : d \in Infos(m)} ELSE {}
    IN  IF n = 0 THEN {}
        ELSE {Spliced(l, n, [to EXCEPT !.venue = v], m, i) :
                 v \in {to.venue} \union venues, i \in Rests(m)}

(* The bindings of ks in l, b for k, and those of ms in m.                 *)
Joined(l, ks, k, b, m, ms) ==
    [x \in ks \union ms \union {k} |->
        IF x = k THEN b ELSE IF x \in ks THEN l.aliases[x] ELSE m.aliases[x]]

(* The text of l ends in binding k or in recent token n, and goes on as    *)
(* one of m.                                                               *)
MetInBinding(l, ks, k, m) ==
    {[aliases |-> Joined(l, ks, k, b, m, ms), recent |-> m.recent] :
        b \in Halves(l.aliases[k], Infos(m)), ms \in SUBSET DOMAIN m.aliases}

MetInRecent(l, n, m) ==
    {Spliced(l, n, b, m, i) : b \in Halves(l.recent[n].to, Infos(m)), i \in Rests(m)}

(* What it can parse to when it was cut short, with the rest of m after it.*)
Patched(l, m) ==
    {m} \union {[l EXCEPT !.recent = SubSeq(m.recent, i, Len(m.recent))] : i \in Rests(m)}
    \union (UNION {MetInBinding(l, ks, k, m) :
                       ks \in SUBSET DOMAIN l.aliases, k \in DOMAIN l.aliases})
    \union (UNION {MetInRecent(l, n, m) : n \in DOMAIN l.recent})

(* The keys a symbol has, on a chain or (no chain given) on all.           *)
KeysOf(symbol, chain) ==
    {k \in Keys : k[1] = symbol /\ (chain = None \/ k[2] = chain)}

-----------------------------------------------------------------------------
Idle    == [kind |-> "none"]
NoEnd   == [how |-> "none"]
Failed(why) == [how |-> "error", why |-> why]
Used(source, token) == [how |-> "ok", source |-> source, token |-> token]

AllJobs ==
    [kind : {"add"}, key : Symbols \X Networks, to : [contract : Contracts, venue : {None}]]
    \union [kind : {"remove"}, symbol : Symbols, chain : Chains \union {None}]
    \union [kind : {"resolve"}, symbol : Symbols, chain : Chains \union {None}, cex : BOOLEAN,
            yes : BOOLEAN, save : BOOLEAN, asks : BOOLEAN]

ASSUME JobAssumption == Jobs \subseteq AllJobs

(* The keys a command may change.                                          *)
Own(j, c) ==
    CASE j.kind = "add" -> {j.key}
      [] j.kind = "remove" -> KeysOf(j.symbol, j.chain)
      [] OTHER -> {<<j.symbol, ChainOf[c.net]>>}

Goto(p, where) == at' = [at EXCEPT ![p] = where]

Finish(p, how) ==
    /\ Goto(p, "idle")
    /\ end' = [end EXCEPT ![p] = how]

Pending(p) == end' = [end EXCEPT ![p] = NoEnd]

(* A binding of process p as the token the command uses.                   *)
Token(b) == [net |-> b.chain, contract |-> b.contract]

(* A binding is found or chosen: on the CEX venue it is checked, when the  *)
(* venue lists contracts; a DEX command uses it.                           *)
UseBinding(p, k, l, j) ==
    IF j.cex /\ coins # NoList
    THEN Goto(p, "check") /\ choice' = [choice EXCEPT ![p] = {k}] /\ Pending(p)
    ELSE Finish(p, Used("binding", Token(l.aliases[k]))) /\ choice' = [choice EXCEPT ![p] = {}]

-----------------------------------------------------------------------------
Init ==
    /\ tokens \in {Absent, Broken}
    /\ pen = [p \in Procs |-> "up"] /\ texts = {} /\ mixed = FALSE
    /\ coins \in CoinLists \union {NoList}
    /\ jobs = 0
    /\ job = [p \in Procs |-> Idle] /\ at = [p \in Procs |-> "idle"]
    /\ view = [p \in Procs |-> Empty] /\ choice = [p \in Procs |-> {}]
    /\ end = [p \in Procs |-> NoEnd]
    /\ meant = [p \in Procs |-> {}] /\ answer = [p \in Procs |-> {}]
    /\ last = Empty
    /\ fresh = [p \in Procs |-> FALSE]

(* `tokens add` and `tokens remove`: load, change the copy, save.          *)
Edit(p, j) ==
    /\ j.kind \in {"add", "remove"}
    /\ view' = [view EXCEPT ![p] =
           IF j.kind = "add" THEN Bound(Loaded, j.key, j.to)
           ELSE Unbound(Loaded, KeysOf(j.symbol, j.chain))]
    /\ Goto(p, "open")
    /\ choice' = [choice EXCEPT ![p] = {}] /\ meant' = [meant EXCEPT ![p] = {}]
    /\ Pending(p)

(* `steps` up to its first await.  One saved binding is used; several (no  *)
(* chain given) are the choice; with none the candidates are looked up,    *)
(* where the source lists any.                                             *)
Resolve(p, j) ==
    LET l == Loaded
        saved == KeysOf(j.symbol, j.chain) \cap DOMAIN l.aliases
    IN  /\ j.kind = "resolve"
        /\ view' = [view EXCEPT ![p] = l]
        /\ meant' = [meant EXCEPT ![p] = {Token(l.aliases[k]) : k \in saved}]
        /\ \/ /\ Cardinality(saved) > 1 /\ j.yes
              /\ Finish(p, Failed("ambiguous")) /\ UNCHANGED choice
           \/ /\ Cardinality(saved) > 1 /\ ~j.yes
              /\ Goto(p, "choose") /\ choice' = [choice EXCEPT ![p] = saved] /\ Pending(p)
           \/ \E k \in saved : saved = {k} /\ UseBinding(p, k, l, j)
           \/ /\ saved = {} /\ j.cex /\ coins = NoList
              /\ Finish(p, Used("unchecked", [net |-> j.chain, contract |-> Native]))
              /\ UNCHANGED choice
           \/ /\ saved = {} /\ ~(j.cex /\ coins = NoList)
              /\ Goto(p, "search") /\ Pending(p) /\ UNCHANGED choice

Begin(p) ==
    /\ at[p] = "idle" /\ jobs < MaxJobs
    /\ jobs' = jobs + 1
    /\ \E j \in Jobs :
          /\ job' = [job EXCEPT ![p] = j]
          /\ Edit(p, j) \/ Resolve(p, j)
    /\ answer' = [answer EXCEPT ![p] = {}]
    /\ fresh' = [fresh EXCEPT ![p] = Loaded = last /\ File!Closed]
    /\ UNCHANGED <<fileVars, coins, last>>

(* The user chooses one of several bindings, or cancels; with no terminal  *)
(* the choice is an error.                                                 *)
ChooseBinding(p) ==
    /\ at[p] = "choose"
    /\ \/ /\ ~job[p].asks
          /\ Finish(p, Failed("ambiguous")) /\ UNCHANGED <<choice, answer>>
       \/ /\ job[p].asks
          /\ Finish(p, Failed("cancelled")) /\ UNCHANGED <<choice, answer>>
       \/ /\ job[p].asks
          /\ \E k \in choice[p] :
                /\ UseBinding(p, k, view[p], job[p])
                /\ answer' = [answer EXCEPT ![p] = {Token(view[p].aliases[k])}]
    /\ UNCHANGED <<fileVars, coins, jobs, job, view, meant, last, fresh>>

(* The venue's first network on a chain.                                   *)
FirstOn(chain) ==
    LET on == {i \in DOMAIN coins : ChainOf[coins[i].net] = chain}
    IN  IF on = {} THEN {} ELSE {coins[CHOOSE i \in on : \A n \in on : i <= n]}

(* `check_binding`, the list once fetched: a symbol listed on other chains *)
(* only, or first with another contract on this chain, is a mismatch.  (A  *)
(* native coin at the venue is not.)                                       *)
Contradicted(b) ==
    /\ coins # <<>>
    /\ \A c \in FirstOn(b.chain) : c.contract # Native /\ c.contract # b.contract

(* The venue's list is fetched and the binding checked; a fetch that fails *)
(* is a note, and the binding is used.                                     *)
CheckBinding(p) ==
    /\ at[p] = "check"
    /\ \E k \in choice[p] :
          LET b == view[p].aliases[k]
          IN  Finish(p, Used("binding", Token(b)))
              \/ Finish(p, IF Contradicted(b) THEN Failed("mismatch")
                           ELSE Used("binding", Token(b)))
    /\ UNCHANGED <<fileVars, coins, jobs, job, view, choice, meant, answer, last, fresh>>

(* What a lookup gives: a DEX search keeps to the chain when one is set; a *)
(* venue's list does not.                                                  *)
Lookups(j) ==
    IF j.cex THEN {ToSet(coins)}
    ELSE {{c \in s : j.chain = None \/ ChainOf[c.net] = ChainOf[j.chain]} : s \in Searches}

Save(p, c) == Goto(p, "open") /\ choice' = [choice EXCEPT ![p] = {c}]

(* Variant: `--yes` takes the first of several candidates.                 *)
SearchTakesFirst(p) ==
    /\ at[p] = "search"
    /\ \E found \in Lookups(job[p]) :
          /\ meant' = [meant EXCEPT ![p] = found]
          /\ \/ found = {} /\ Finish(p, Failed("not found")) /\ UNCHANGED choice
             \/ /\ found # {} /\ (Cardinality(found) = 1 \/ job[p].yes)
                /\ Finish(p, Used("single", CHOOSE c \in found : TRUE)) /\ UNCHANGED choice
             \/ /\ Cardinality(found) > 1 /\ ~job[p].yes
                /\ Goto(p, "pick") /\ choice' = [choice EXCEPT ![p] = found] /\ UNCHANGED end
    /\ UNCHANGED <<fileVars, coins, jobs, job, view, answer, last, fresh>>

(* The lookup ends: none is an error, one is used (and saved with          *)
(* `--save`), several are the choice.                                      *)
Search(p) ==
    /\ at[p] = "search"
    /\ \/ /\ Finish(p, Failed("network"))
          /\ UNCHANGED <<choice, meant>>
       \/ \E found \in Lookups(job[p]) :
             /\ meant' = [meant EXCEPT ![p] = found]
             /\ \/ found = {} /\ Finish(p, Failed("not found")) /\ UNCHANGED choice
                \/ \E c \in found :
                      /\ found = {c} /\ end' = [end EXCEPT ![p] = Used("single", c)]
                      /\ IF job[p].save THEN Save(p, c) ELSE Goto(p, "idle") /\ UNCHANGED choice
                \/ /\ Cardinality(found) > 1 /\ job[p].yes
                   /\ Finish(p, Failed("ambiguous")) /\ UNCHANGED choice
                \/ /\ Cardinality(found) > 1 /\ ~job[p].yes
                   /\ Goto(p, "pick") /\ choice' = [choice EXCEPT ![p] = found] /\ UNCHANGED end
    /\ UNCHANGED <<fileVars, coins, jobs, job, view, answer, last, fresh>>

(* The user picks a candidate; it is saved with `--save`, else the save    *)
(* question follows.                                                       *)
Pick(p) ==
    /\ at[p] = "pick"
    /\ \/ /\ ~job[p].asks
          /\ Finish(p, Failed("ambiguous")) /\ UNCHANGED <<choice, answer>>
       \/ /\ job[p].asks
          /\ Finish(p, Failed("cancelled")) /\ UNCHANGED <<choice, answer>>
       \/ /\ job[p].asks
          /\ \E c \in choice[p] :
                /\ answer' = [answer EXCEPT ![p] = {c}]
                /\ end' = [end EXCEPT ![p] = Used("picked", c)]
                /\ choice' = [choice EXCEPT ![p] = {c}]
                /\ Goto(p, IF job[p].save THEN "open" ELSE "confirm")
    /\ UNCHANGED <<fileVars, coins, jobs, job, view, meant, last, fresh>>

(* Yes saves; no, or a cancel, does not.                                   *)
Confirm(p) ==
    /\ at[p] = "confirm"
    /\ Goto(p, "open") \/ Goto(p, "idle")
    /\ UNCHANGED <<fileVars, coins, jobs, job, view, choice, end, meant, answer, last, fresh>>

Others(p) == [q \in Procs |-> fresh[q] /\ q = p]

(* Variant: the network's own name is the chain of the binding.            *)
ChoiceOnNetwork(j, c) ==
    <<<<j.symbol, c.net>>, [contract |-> c.contract, venue |-> IF j.cex THEN Venue ELSE None]>>

(* The binding `save_choice` makes: under the scope name of the chain, with*)
(* the venue that it was chosen from.                                      *)
Choice(j, c) ==
    <<<<j.symbol, ChainOf[c.net]>>,
      [contract |-> c.contract, venue |-> IF j.cex THEN Venue ELSE None]>>

(* The save begins: the copy gets the choice of a resolution (an edit has  *)
(* changed it already), and the file is opened.  The open can fail, which  *)
(* is a note: the command has its token.                                   *)
OpenList(p) ==
    /\ at[p] = "open"
    /\ view' = [view EXCEPT ![p] =
          IF job[p].kind # "resolve" THEN @
          ELSE LET b == Choice(job[p], CHOOSE c \in choice[p] : TRUE) IN Bound(@, b[1], b[2])]
    /\ \/ File!Open(p) /\ Goto(p, "write") /\ fresh' = Others(p)
       \/ Goto(p, "idle") /\ UNCHANGED <<fileVars, fresh>>
    /\ UNCHANGED <<coins, jobs, job, choice, end, meant, answer, last>>

WriteList(p) ==
    /\ at[p] = "write"
    /\ File!Write(p, view[p], UNION {Overrun(view[p], m) : m \in texts})
    /\ last' = IF tokens' = Broken THEN last ELSE tokens'
    /\ fresh' = Others(p)
    /\ Goto(p, "idle")
    /\ UNCHANGED <<coins, jobs, job, view, choice, end, meant, answer>>

(* The write stops partway, by a full disk or the death of the process.    *)
TearList(p) ==
    /\ at[p] = "write"
    /\ File!Tear(p, Parts(view[p]), UNION {Patched(view[p], m) : m \in texts})
    /\ fresh' = Others(p)
    /\ Goto(p, "idle")
    /\ UNCHANGED <<coins, jobs, job, view, choice, end, meant, answer, last>>

(* The process dies, or the command is cancelled, at an await.             *)
Quit(p) ==
    /\ at[p] \in {"choose", "check", "search", "pick", "confirm"}
    /\ Finish(p, NoEnd)
    /\ UNCHANGED <<fileVars, coins, jobs, job, view, choice, meant, answer, last, fresh>>

Step(p) ==
    \/ Begin(p) \/ ChooseBinding(p) \/ CheckBinding(p) \/ Search(p) \/ Pick(p) \/ Confirm(p)
    \/ OpenList(p) \/ WriteList(p) \/ TearList(p) \/ Quit(p)

Next == \E p \in Procs : Step(p)

Spec == Init /\ [][Next]_vars

-----------------------------------------------------------------------------
Lists == [aliases : UNION {[ks -> Bindings] : ks \in SUBSET Keys},
          recent : Seq(Recents)]

Steps == {"idle", "choose", "check", "search", "pick", "confirm", "open", "write"}

(* Every variable has a value the code can give it.                        *)
TypeOK ==
    /\ tokens \in Lists \union {Absent, Broken}
    /\ pen \in [Procs -> File!Pens] /\ texts \subseteq Lists /\ mixed \in BOOLEAN
    /\ coins \in CoinLists \union {NoList}
    /\ jobs \in 0..MaxJobs
    /\ job \in [Procs -> Jobs \union {Idle}] /\ at \in [Procs -> Steps]
    /\ view \in [Procs -> Lists] /\ last \in Lists
    /\ \A p \in Procs : at[p] \in {"choose", "check"} => choice[p] \subseteq Keys
    /\ \A p \in Procs :
          at[p] \in {"pick", "confirm", "open", "write"} => choice[p] \subseteq Candidates
    /\ meant \in [Procs -> SUBSET Tokens] /\ answer \in [Procs -> SUBSET Tokens]
    /\ fresh \in [Procs -> BOOLEAN]

(* "It never chooses silently" (the words of resolve.rs): a command that   *)
(* uses a token, of several that its symbol could mean, uses the one its   *)
(* user chose.                                                             *)
NeverSilent ==
    \A p \in Procs :
        end[p].how = "ok" /\ Cardinality(meant[p]) > 1 => answer[p] = {end[p].token}

(* A binding that was chosen from the venue's coin list is not refused by  *)
(* that list later, unless the list has two contracts on its chain: the    *)
(* save and the check agree on what a network's chain is and on native     *)
(* coins.  A save that was cut short may have taken the venue off its last *)
(* binding, but not put it on another; two that crossed may.               *)
SavedPassesCheck ==
    \A p \in Procs : end[p] = Failed("mismatch") /\ ~mixed =>
        \E k \in choice[p] :
            \/ view[p].aliases[k].venue # Venue
            \/ Cardinality({c.contract : c \in {d \in ToSet(coins) : ChainOf[d.net] = k[2]}}) > 1

Entry(l, k) == IF k \in DOMAIN l.aliases THEN {l.aliases[k]} ELSE {}

(* A save that no other one has overlapped, since its command loaded the   *)
(* list, changes the entries its command is about and no other: what a     *)
(* long question loses, it loses to another save only.                     *)
SerialSaveIsAtomic ==
    [][\A p \in Procs : at[p] = "write" /\ pen[p] = "down" /\ texts = {} /\ fresh[p]
                           /\ pen'[p] = "up" /\ last' = tokens' =>
          \A k \in Keys \ Own(job[p], CHOOSE c \in choice[p] : TRUE) :
              Entry(tokens', k) = Entry(last, k)]_vars

(* A recent token has the contract that is saved for its symbol and chain, *)
(* whatever was removed, bound again, lost or cut short, unless the cut    *)
(* was in its chain; two saves that crossed may make one of two tokens.    *)
RecentAreSaved ==
    tokens \notin {Absent, Broken} /\ ~mixed =>
        \A t \in ToSet(tokens.recent) :
            t.key[2] # Cut => \E b \in Entry(tokens, t.key) : b.contract = t.to.contract
=============================================================================
