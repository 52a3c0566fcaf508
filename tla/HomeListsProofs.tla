-------------------------- MODULE HomeListsProofs --------------------------
(***************************************************************************)
(* Proofs about HomeLists, for any tasks, symbols, chains and lookups.     *)
(*                                                                         *)
(* No command chooses silently between tokens.  This is not inductive: a   *)
(* binding that waits for its check has been chosen already (Chosen), and  *)
(* a command that looks up has not ended (Looking).                        *)
(*                                                                         *)
(* The properties of the files hold of every copy as well (ListInv,        *)
(* BookInv), since a copy is what a save writes, whole or in part: its     *)
(* recent tokens agree with its bindings (Agree), its bindings to the      *)
(* venue are on the venue's list (FromVenue), its addresses are unique.    *)
(* They hold until a text made of two saves has been read (Sound), of      *)
(* which is known only that it is a list (BlendsAreLists, BookBlends).     *)
(* What a task offers its user comes from its copy or from the lookup      *)
(* (Holds), so its choice is a binding that the copy may get.  A copy that *)
(* no save has overlapped differs from the saved list in the entries of    *)
(* its command only (CopyInv).                                             *)
(***************************************************************************)
EXTENDS HomeLists, FiniteSetTheorems, SequenceTheorems, WellFoundedInduction, TLAPS

(* The variables that belong to tasks have a value for each.               *)
OfTasks ==
    /\ DOMAIN at = Procs /\ DOMAIN end = Procs /\ DOMAIN choice = Procs
    /\ DOMAIN meant = Procs /\ DOMAIN answer = Procs /\ DOMAIN view = Procs

(* The binding to check is the one its user chose, if there was a choice.  *)
Chosen ==
    \A p \in Procs : at[p] = "check" /\ Cardinality(meant[p]) > 1 =>
        \A k \in choice[p] : answer[p] = {Token(view[p].aliases[k])}

Looking == \A p \in Procs : at[p] = "search" => end[p] = NoEnd

SilentInv == OfTasks /\ Chosen /\ Looking /\ NeverSilent

(* No more than one is not several.                                        *)
LEMMA NotSeveral == \A x : ~(Cardinality({}) > 1) /\ ~(Cardinality({x}) > 1)
<1>1. Cardinality({}) = 0
  BY FS_EmptySet
<1>2. \A x : Cardinality({x}) = 1
  BY FS_Singleton
<1> QED
  BY <1>1, <1>2

-----------------------------------------------------------------------------
(* Nothing has been chosen at the start.                                   *)
LEMMA SilentInit == HomeInit => SilentInv
  BY DEF HomeInit, Init, SilentInv, OfTasks, Chosen, Looking, NeverSilent, NoEnd

(* A step of a task on the token list leaves the others alone, so only its *)
(* own part has to be looked at.                                           *)
LEMMA OwnPart ==
    ASSUME SilentInv, NEW p \in Procs, OfTasks',
           \A q \in Procs \ {p} :
               /\ at'[q] = at[q] /\ end'[q] = end[q] /\ choice'[q] = choice[q]
               /\ meant'[q] = meant[q] /\ answer'[q] = answer[q] /\ view'[q] = view[q],
           at'[p] = "check" /\ Cardinality(meant'[p]) > 1 =>
               \A k \in choice'[p] : answer'[p] = {Token(view'[p].aliases[k])},
           at'[p] = "search" => end'[p] = NoEnd,
           end'[p].how = "ok" /\ Cardinality(meant'[p]) > 1 => answer'[p] = {end'[p].token}
    PROVE  SilentInv'
  BY DEF SilentInv, Chosen, Looking, NeverSilent, Token

(* The start of a command: one saved binding is used, several are asked.   *)
LEMMA BeginStep ==
    ASSUME SilentInv, NEW p \in Procs, Begin(p)
    PROVE  SilentInv'
<1> USE DEF SilentInv, OfTasks, Goto, Finish, Pending, NoEnd, Failed, Used, Token
<1>1. PICK j \in Jobs : job' = [job EXCEPT ![p] = j] /\ (Edit(p, j) \/ Resolve(p, j))
  BY DEF Begin
<1>2. answer' = [answer EXCEPT ![p] = {}]
  BY DEF Begin
<1>3. CASE Edit(p, j)
  <2>1. at'[p] = "open" /\ end'[p] = NoEnd
    BY <1>3 DEF Edit
  <2> QED
    BY <1>2, <1>3, <2>1, OwnPart DEF Edit
<1>4. CASE Resolve(p, j)
  <2> DEFINE saved == KeysOf(j.symbol, j.chain) \cap DOMAIN Loaded.aliases
  <2>1. /\ view' = [view EXCEPT ![p] = Loaded]
        /\ meant' = [meant EXCEPT ![p] = {Token(Loaded.aliases[k]) : k \in saved}]
    BY <1>4 DEF Resolve
  <2>2. /\ OfTasks'
        /\ \A q \in Procs \ {p} :
             /\ at'[q] = at[q] /\ end'[q] = end[q] /\ choice'[q] = choice[q]
             /\ meant'[q] = meant[q] /\ answer'[q] = answer[q] /\ view'[q] = view[q]
    BY <1>2, <1>4, <2>1 DEF Resolve, UseBinding
  <2>3. ASSUME NEW k, saved = {k} PROVE ~(Cardinality(meant'[p]) > 1)
    <3>1. meant'[p] = {Token(Loaded.aliases[k])}
      BY <2>1, <2>3
    <3> QED
      BY <3>1, NotSeveral
  <2>4. ASSUME saved = {} PROVE ~(Cardinality(meant'[p]) > 1)
    <3>1. meant'[p] = {}
      BY <2>1, <2>4
    <3> QED
      BY <3>1, NotSeveral
  <2>5. \/ ~(Cardinality(meant'[p]) > 1) /\ (at'[p] = "search" => end'[p] = NoEnd)
        \/ at'[p] \notin {"check", "search"} /\ end'[p].how # "ok"
    <3>1. CASE Cardinality(saved) > 1 /\ j.yes /\ Finish(p, Failed("ambiguous"))
      BY <3>1
    <3>2. CASE Cardinality(saved) > 1 /\ Goto(p, "choose") /\ Pending(p)
      BY <3>2
    <3>3. CASE \E k \in saved : saved = {k} /\ UseBinding(p, k, Loaded, j)
      BY <3>3, <2>3 DEF UseBinding
    <3>4. CASE saved = {} /\ Finish(p, Used("unchecked", [net |-> j.chain, contract |-> Native]))
      BY <3>4, <2>4
    <3>5. CASE saved = {} /\ Goto(p, "search") /\ Pending(p)
      BY <3>5, <2>4
    <3> QED
      BY <1>4, <3>1, <3>2, <3>3, <3>4, <3>5 DEF Resolve
  <2> QED
    BY <2>2, <2>5, OwnPart
<1> QED
  BY <1>1, <1>3, <1>4

(* What follows on the start, up to the end of the save.                   *)
LEMMA LaterStep ==
    ASSUME SilentInv, NEW p \in Procs, Step(p), ~Begin(p)
    PROVE  SilentInv'
<1> USE DEF SilentInv, OfTasks, Goto, Finish, Pending, NoEnd, Failed, Used, Token
<1>1. CASE ChooseBinding(p)
  <2>1. at[p] = "choose" /\ UNCHANGED <<view, meant>>
    BY <1>1 DEF ChooseBinding
  <2>2. ASSUME NEW k \in choice[p], UseBinding(p, k, view[p], job[p]),
               answer' = [answer EXCEPT ![p] = {Token(view[p].aliases[k])}]
        PROVE  SilentInv'
    BY <2>1, <2>2, OwnPart DEF UseBinding
  <2>3. ASSUME NEW why \in {"ambiguous", "cancelled"}, Finish(p, Failed(why)),
               UNCHANGED <<choice, answer>>
        PROVE  SilentInv'
    BY <2>1, <2>3, OwnPart
  <2> QED
    BY <1>1, <2>2, <2>3 DEF ChooseBinding
<1>2. CASE CheckBinding(p)
  <2>1. at[p] = "check" /\ UNCHANGED <<view, choice, meant, answer>>
    BY <1>2 DEF CheckBinding
  <2>2. PICK k \in choice[p] :
          \/ Finish(p, Used("binding", Token(view[p].aliases[k])))
          \/ Finish(p, Failed("mismatch"))
    BY <1>2 DEF CheckBinding
  <2>3. Cardinality(meant[p]) > 1 => answer[p] = {Token(view[p].aliases[k])}
    BY <2>1 DEF Chosen
  <2> QED
    BY <2>1, <2>2, <2>3, OwnPart
<1>3. CASE Search(p)
  <2>1. at[p] = "search" /\ UNCHANGED <<view, answer>> /\ end[p] = NoEnd
    BY <1>3 DEF Search, Looking
  <2>2. CASE Finish(p, Failed("network")) /\ UNCHANGED <<choice, meant>>
    BY <2>1, <2>2, OwnPart
  <2>3. ASSUME NEW found, meant' = [meant EXCEPT ![p] = found], UNCHANGED choice,
               NEW why \in {"not found", "ambiguous"}, Finish(p, Failed(why))
        PROVE  SilentInv'
    <3>1. at'[p] = "idle" /\ end'[p].how = "error"
      BY <2>3
    <3> QED
      BY <2>1, <2>3, <3>1, OwnPart
  <2>4. ASSUME NEW found, NEW c \in found, meant' = [meant EXCEPT ![p] = found],
               found = {c}, end' = [end EXCEPT ![p] = Used("single", c)],
               IF job[p].save THEN Save(p, c) ELSE Goto(p, "idle") /\ UNCHANGED choice
        PROVE  SilentInv'
    <3>1. meant'[p] = {c} /\ ~(Cardinality(meant'[p]) > 1)
      BY <2>4, NotSeveral
    <3> QED
      BY <2>1, <2>4, <3>1, OwnPart DEF Save
  <2>5. ASSUME NEW found, meant' = [meant EXCEPT ![p] = found], Goto(p, "pick"),
               choice' = [choice EXCEPT ![p] = found], UNCHANGED end
        PROVE  SilentInv'
    BY <2>1, <2>5, OwnPart
  <2> QED
    BY <1>3, <2>2, <2>3, <2>4, <2>5 DEF Search
<1>4. CASE Pick(p)
  <2>1. at[p] = "pick" /\ UNCHANGED <<view, meant>>
    BY <1>4 DEF Pick
  <2>2. ASSUME NEW c \in choice[p], answer' = [answer EXCEPT ![p] = {c}],
               end' = [end EXCEPT ![p] = Used("picked", c)],
               choice' = [choice EXCEPT ![p] = {c}],
               Goto(p, IF job[p].save THEN "open" ELSE "confirm")
        PROVE  SilentInv'
    BY <2>1, <2>2, OwnPart
  <2>3. ASSUME NEW why \in {"ambiguous", "cancelled"}, Finish(p, Failed(why)),
               UNCHANGED <<choice, answer>>
        PROVE  SilentInv'
    BY <2>1, <2>3, OwnPart
  <2> QED
    BY <1>4, <2>2, <2>3 DEF Pick
<1>5. CASE Confirm(p)
  BY <1>5, OwnPart DEF Confirm, NeverSilent
<1>6. CASE OpenList(p)
  BY <1>6, OwnPart DEF OpenList, NeverSilent
<1>7. CASE WriteList(p)
  BY <1>7, OwnPart DEF WriteList, NeverSilent
<1>8. CASE TearList(p)
  BY <1>8, OwnPart DEF TearList, NeverSilent
<1>9. CASE Quit(p)
  BY <1>9, OwnPart DEF Quit
<1> QED
  BY <1>1, <1>2, <1>3, <1>4, <1>5, <1>6, <1>7, <1>8, <1>9 DEF Step

LEMMA SilentStep ==
    ASSUME SilentInv, [HomeNext]_allVars
    PROVE  SilentInv'
<1>1. ASSUME NEW p \in Procs, TokenCommand(p) PROVE SilentInv'
  BY <1>1, BeginStep, LaterStep DEF TokenCommand
<1>2. ASSUME UNCHANGED vars PROVE SilentInv'
  BY <1>2 DEF vars, SilentInv, OfTasks, Chosen, Looking, NeverSilent, Token
<1> QED
  BY <1>1, <1>2 DEF HomeNext, BookCommand, allVars

(* "It never chooses silently": of several tokens that a symbol could      *)
(* mean, a command uses the one its user chose, whatever other commands    *)
(* save meanwhile.                                                         *)
THEOREM NeverChoosesSilently == HomeSpec => []NeverSilent
<1>1. SilentInv => NeverSilent
  BY DEF SilentInv
<1> QED
  BY <1>1, SilentInit, SilentStep, PTL DEF HomeSpec

-----------------------------------------------------------------------------
(* `retain` keeps elements of the sequence, each at most once.             *)
LEMMA RetainedPlaces ==
    ASSUME NEW S, NEW s \in Seq(S), NEW places \in SUBSET DOMAIN s
    PROVE  \E m \in Nat : \E from \in [1..m -> places] :
               /\ \A i, j \in 1..m : i # j => from[i] # from[j]
               /\ Retained(s, places) = [n \in 1..m |-> s[from[n]]]
<1> DEFINE m == Cardinality(places)
           upto(i) == {k \in places : k <= i}
           rank == [i \in places |-> Cardinality(upto(i))]
           from == [n \in 1..m |-> CHOOSE i \in places : Cardinality(upto(i)) = n]
<1>1. IsFiniteSet(places) /\ m \in Nat /\ places \subseteq Nat
  <2>1. DOMAIN s = 1..Len(s) /\ Len(s) \in Nat
    OBVIOUS
  <2>2. IsFiniteSet(1..Len(s))
    BY <2>1, FS_Interval
  <2>3. IsFiniteSet(places)
    BY <2>1, <2>2, FS_Subset
  <2> QED
    BY <2>1, <2>3, FS_CardinalityType
<1>2. ASSUME NEW i \in places
      PROVE  IsFiniteSet(upto(i)) /\ Cardinality(upto(i)) \in 1..m
  <2>1. upto(i) \in SUBSET places /\ i \in upto(i)
    BY <1>1
  <2>2. IsFiniteSet(upto(i)) /\ Cardinality(upto(i)) <= m
    BY <1>1, <2>1, FS_Subset
  <2>3. Cardinality(upto(i)) \in Nat /\ Cardinality(upto(i)) # 0
    BY <2>1, <2>2, FS_CardinalityType, FS_EmptySet
  <2> QED
    BY <1>1, <2>2, <2>3
<1>3. ASSUME NEW i \in places, NEW j \in places, i < j
      PROVE  Cardinality(upto(i)) # Cardinality(upto(j))
  <2>1. upto(i) \in SUBSET upto(j)
    BY <1>1, <1>3
  <2>2. j \in upto(j) /\ j \notin upto(i)
    BY <1>1, <1>3
  <2> QED
    BY <1>2, <2>1, <2>2, FS_Subset
<1>4. rank \in Injection(places, 1..m)
  <2>1. rank \in [places -> 1..m]
    BY <1>2
  <2>2. ASSUME NEW i \in places, NEW j \in places, rank[i] = rank[j] PROVE i = j
    <3>1. ~(i < j) /\ ~(j < i)
      BY <1>3, <2>2
    <3> QED
      BY <1>1, <3>1
  <2> QED
    BY <2>1, <2>2 DEF Injection, IsInjective
<1>5. rank \in Surjection(places, 1..m)
  <2>1. IsFiniteSet(1..m) /\ Cardinality(1..m) = m
    BY <1>1, FS_Interval
  <2> QED
    BY <1>4, <2>1, FS_Injection
<1>6. ASSUME NEW n \in 1..m PROVE \E i \in places : Cardinality(upto(i)) = n
  BY <1>5, <1>6 DEF Surjection
<1>7. \A n \in 1..m : from[n] \in places /\ Cardinality(upto(from[n])) = n
  BY <1>6
<1>8. Retained(s, places) = [n \in 1..m |-> s[from[n]]]
  BY DEF Retained
<1>9. from \in [1..m -> places] /\ \A i, j \in 1..m : i # j => from[i] # from[j]
  BY <1>7
<1> QED
  BY <1>1, <1>8, <1>9

-----------------------------------------------------------------------------
(* The operations on the token list.                                       *)

(* The recent tokens have the contracts that are saved for them.           *)
Agree(l) ==
    \A i \in DOMAIN l.recent :
        LET t == l.recent[i]
        IN  /\ t.key[2] = t.to.chain
            /\ t.key[2] # Cut => \E b \in Entry(l, t.key) : b.contract = t.to.contract

(* The same of the recent token t of l.                                    *)
Agrees(l, t) ==
    /\ t.key[2] = t.to.chain
    /\ t.key[2] # Cut => t.key \in DOMAIN l.aliases /\ l.aliases[t.key].contract = t.to.contract

LEMMA AgreeEach ==
    ASSUME NEW l
    PROVE  Agree(l) <=> \A i \in DOMAIN l.recent : Agrees(l, l.recent[i])
  BY DEF Agree, Agrees, Entry

LEMMA ListShape ==
    ASSUME NEW l
    PROVE  l \in Lists <=> /\ l = [aliases |-> l.aliases, recent |-> l.recent]
                           /\ l.recent \in Seq(Recents)
                           /\ DOMAIN l.aliases \subseteq Keys
                           /\ l.aliases \in [DOMAIN l.aliases -> Bindings]
<1>1. \A f : f \in UNION {[ks -> Bindings] : ks \in SUBSET Keys} <=>
             DOMAIN f \subseteq Keys /\ f \in [DOMAIN f -> Bindings]
  OBVIOUS
<1> QED
  BY <1>1 DEF Lists

(* What is left of the recent tokens is one of them.                       *)
LEMMA WithoutKeeps ==
    ASSUME NEW recent \in Seq(Recents), NEW keys
    PROVE  /\ Without(recent, keys) \in Seq(Recents)
           /\ \A n \in DOMAIN Without(recent, keys) :
                 \E i \in DOMAIN recent : /\ Without(recent, keys)[n] = recent[i]
                                          /\ recent[i].key \notin keys
<1> DEFINE places == {i \in DOMAIN recent : recent[i].key \notin keys}
           kept == Retained(recent, places)
<1>1. PICK m \in Nat : \E from \in [1..m -> places] : kept = [n \in 1..m |-> recent[from[n]]]
  <2>1. places \in SUBSET DOMAIN recent
    OBVIOUS
  <2> HIDE DEF places
  <2> QED
    BY <2>1, RetainedPlaces
<1>2. PICK from \in [1..m -> places] : kept = [n \in 1..m |-> recent[from[n]]]
  BY <1>1
<1>3. \A n \in 1..m : from[n] \in DOMAIN recent /\ recent[from[n]].key \notin keys
                      /\ recent[from[n]] \in Recents
  BY <1>2
<1>4. kept \in Seq(Recents) /\ DOMAIN kept = 1..m
  BY <1>2, <1>3
<1> QED
  BY <1>2, <1>3, <1>4 DEF Without

(* A binding is what it was for its token, and for no other.               *)
LEMMA BoundKeeps ==
    ASSUME NEW l \in Lists, NEW k \in Keys, NEW b, Info(k, b) \in Bindings
    PROVE  /\ Bound(l, k, b) \in Lists
           /\ DOMAIN Bound(l, k, b).aliases = DOMAIN l.aliases \union {k}
           /\ Bound(l, k, b).aliases[k] = Info(k, b)
           /\ \A x \in DOMAIN l.aliases : x # k => Bound(l, k, b).aliases[x] = l.aliases[x]
           /\ Agree(l) => Agree(Bound(l, k, b))
<1> DEFINE info == Info(k, b)
           new == [key |-> k, to |-> info]
           rest == Without(l.recent, {k})
           all == <<new>> \o rest
           n == IF Len(all) > RecentMax THEN RecentMax ELSE Len(all)
           aliases == [x \in DOMAIN l.aliases \union {k} |-> IF x = k THEN info ELSE l.aliases[x]]
<1>0. /\ l.recent \in Seq(Recents) /\ DOMAIN l.aliases \subseteq Keys
      /\ l.aliases \in [DOMAIN l.aliases -> Bindings]
  BY ListShape
<1>0a. info \in Bindings /\ info.chain = k[2]
  BY DEF Info
<1> HIDE DEF info
<1>1. /\ rest \in Seq(Recents)
      /\ \A i \in DOMAIN rest : \E j \in DOMAIN l.recent : /\ rest[i] = l.recent[j]
                                                           /\ l.recent[j].key # k
  <2>1. /\ rest \in Seq(Recents)
        /\ \A i \in DOMAIN rest : \E j \in DOMAIN l.recent : /\ rest[i] = l.recent[j]
                                                             /\ l.recent[j].key \notin {k}
    BY <1>0, WithoutKeeps
  <2> QED
    BY <2>1
<1>2. all \in Seq(Recents) /\ Len(all) = Len(rest) + 1 /\ all[1] = new
      /\ \A i \in 2..Len(all) : i - 1 \in DOMAIN rest /\ all[i] = rest[i - 1]
  <2>1. new \in Recents
    BY <1>0a DEF Recents
  <2> HIDE DEF new, rest
  <2> QED
    BY <1>1, <2>1
<1>3. n \in 1..Len(all)
  BY <1>1, <1>2, BoundAssumption
<1>4. Bound(l, k, b) = [aliases |-> aliases, recent |-> SubSeq(all, 1, n)]
  BY DEF Bound, info
<1>4a. Bound(l, k, b).aliases = aliases /\ Bound(l, k, b).recent = SubSeq(all, 1, n)
  <2>1. \A x, y : /\ [aliases |-> x, recent |-> y].aliases = x
                  /\ [aliases |-> x, recent |-> y].recent = y
    OBVIOUS
  <2> HIDE DEF aliases, all, n
  <2> QED
    BY <1>4, <2>1, Zenon
<1>5. SubSeq(all, 1, n) \in Seq(Recents) /\ DOMAIN SubSeq(all, 1, n) = 1..n
      /\ \A i \in 1..n : SubSeq(all, 1, n)[i] = all[i]
  <2> HIDE DEF all, n
  <2> QED
    BY <1>2, <1>3, SubSeqProperties
<1>6. aliases \in [DOMAIN l.aliases \union {k} -> Bindings]
  BY <1>0, <1>0a
<1>7. Bound(l, k, b) \in Lists
  <2> HIDE DEF all, n, aliases
  <2> QED
    BY <1>0, <1>4, <1>5, <1>6, ListShape
<1>8. ASSUME Agree(l), NEW i \in 1..n
      PROVE  Agrees(Bound(l, k, b), all[i])
  <2>1. CASE i = 1
    <3>1. all[i] = new /\ new.key = k /\ new.to = info
      <4> HIDE DEF all
      <4> QED
        BY <1>2, <2>1
    <3>2. k \in DOMAIN aliases /\ aliases[k] = info
      OBVIOUS
    <3> HIDE DEF all, aliases, new
    <3> QED
      BY <1>0a, <1>4a, <3>1, <3>2 DEF Agrees
  <2>2. CASE i # 1
    <3>0. i \in 2..Len(all)
      <4> HIDE DEF all, n
      <4> QED
        BY <1>2, <1>3, <1>8, <2>2
    <3>1. PICK j \in DOMAIN l.recent : all[i] = l.recent[j] /\ l.recent[j].key # k
      <4> HIDE DEF all, n, rest
      <4> QED
        BY <1>1, <1>2, <3>0
    <3>2. Agrees(l, all[i])
      BY <1>8, <3>1, AgreeEach
    <3>3. all[i].key # k
      BY <3>1, Zenon
    <3>4. \A x \in DOMAIN l.aliases : x # k => x \in DOMAIN aliases /\ aliases[x] = l.aliases[x]
      OBVIOUS
    <3> HIDE DEF all, aliases
    <3> QED
      BY <1>4a, <3>2, <3>3, <3>4 DEF Agrees
  <2> QED
    BY <2>1, <2>2
<1>9. Agree(l) => Agree(Bound(l, k, b))
  <2>2. ASSUME Agree(l), NEW i \in DOMAIN Bound(l, k, b).recent
        PROVE  Agrees(Bound(l, k, b), Bound(l, k, b).recent[i])
    <3> HIDE DEF all, n
    <3>1. i \in 1..n /\ Bound(l, k, b).recent[i] = all[i]
      BY <1>4a, <1>5, <2>2
    <3> QED
      BY <1>8, <2>2, <3>1
  <2> QED
    BY <2>2, AgreeEach
<1>10. DOMAIN aliases = DOMAIN l.aliases \union {k} /\ aliases[k] = info
       /\ \A x \in DOMAIN l.aliases : x # k => aliases[x] = l.aliases[x]
  OBVIOUS
<1> QED
  <2> HIDE DEF all, n, aliases
  <2> QED
    BY <1>4a, <1>7, <1>9, <1>10 DEF info

LEMMA UnboundKeeps ==
    ASSUME NEW l \in Lists, NEW keys
    PROVE  /\ Unbound(l, keys) \in Lists
           /\ DOMAIN Unbound(l, keys).aliases = DOMAIN l.aliases \ keys
           /\ \A x \in DOMAIN l.aliases \ keys : Unbound(l, keys).aliases[x] = l.aliases[x]
           /\ Agree(l) => Agree(Unbound(l, keys))
<1> DEFINE rest == Without(l.recent, keys)
           aliases == [x \in DOMAIN l.aliases \ keys |-> l.aliases[x]]
<1>0. /\ l.recent \in Seq(Recents) /\ DOMAIN l.aliases \subseteq Keys
      /\ l.aliases \in [DOMAIN l.aliases -> Bindings]
  BY ListShape
<1>1. /\ rest \in Seq(Recents)
      /\ \A i \in DOMAIN rest : \E j \in DOMAIN l.recent : /\ rest[i] = l.recent[j]
                                                           /\ l.recent[j].key \notin keys
  BY <1>0, WithoutKeeps
<1>2. Unbound(l, keys) = [aliases |-> aliases, recent |-> rest]
  BY DEF Unbound, Restrict
<1>3. Unbound(l, keys).aliases = aliases /\ Unbound(l, keys).recent = rest
  BY Zenon DEF Unbound, Restrict
<1>4. Unbound(l, keys) \in Lists
  <2>1. aliases \in [DOMAIN l.aliases \ keys -> Bindings]
    BY <1>0
  <2> HIDE DEF rest, aliases
  <2> QED
    BY <1>0, <1>1, <1>2, <2>1, ListShape
<1>5. ASSUME Agree(l), NEW i \in DOMAIN rest
      PROVE  Agrees(Unbound(l, keys), rest[i])
  <2>1. PICK j \in DOMAIN l.recent : rest[i] = l.recent[j] /\ l.recent[j].key \notin keys
    BY <1>1, <1>5
  <2>2. Agrees(l, rest[i]) /\ rest[i].key \notin keys
    <3> HIDE DEF rest
    <3> QED
      BY <1>5, <2>1, AgreeEach
  <2>3. \A x \in DOMAIN l.aliases : x \notin keys => x \in DOMAIN aliases /\ aliases[x] = l.aliases[x]
    OBVIOUS
  <2> HIDE DEF rest, aliases
  <2> QED
    BY <1>3, <2>2, <2>3 DEF Agrees
<1>6. Agree(l) => Agree(Unbound(l, keys))
  <2> HIDE DEF rest, aliases
  <2> QED
    BY <1>3, <1>5, AgreeEach
<1>7. DOMAIN aliases = DOMAIN l.aliases \ keys
      /\ \A x \in DOMAIN l.aliases \ keys : aliases[x] = l.aliases[x]
  OBVIOUS
<1> QED
  <2> HIDE DEF rest, aliases
  <2> QED
    BY <1>3, <1>4, <1>6, <1>7

(* The list that counts for one that cannot be read.                       *)
LEMMA EmptyKeeps == Empty \in Lists /\ Agree(Empty) /\ DOMAIN Empty.aliases = {}
<1>1. Empty.aliases = <<>> /\ Empty.recent = <<>>
  BY DEF Empty
<1>2. DOMAIN <<>> = {} /\ <<>> \in Seq(Recents)
  OBVIOUS
<1>3. <<>> \in [{} -> Bindings]
  OBVIOUS
<1>4. Empty \in Lists
  BY <1>1, <1>2, <1>3, ListShape DEF Empty
<1> QED
  BY <1>1, <1>2, <1>4 DEF Agree

-----------------------------------------------------------------------------
(* Lists that were cut short, or read from two texts.                      *)
LEMMA EntriesCut ==
    /\ \A b \in Bindings : \A c \in Ends(b) :
          /\ c \in Bindings /\ c.contract = b.contract /\ c.chain \in {b.chain, Cut}
          /\ c.venue = Venue => c = b
    /\ \A b \in Bindings : \A others \in SUBSET Bindings : Halves(b, others) \subseteq Bindings
    /\ \A l \in Lists : Infos(l) \subseteq Bindings
<1>1. Cut # Venue /\ None # Venue
  BY DEF Cut, None, Venue
<1>2. ASSUME NEW b \in Bindings, NEW c \in Ends(b)
      PROVE  /\ c \in Bindings /\ c.contract = b.contract /\ c.chain \in {b.chain, Cut}
             /\ c.venue = Venue => c = b
  BY <1>1, <1>2 DEF Ends, Bindings
<1>3. ASSUME NEW b \in Bindings, NEW others \in SUBSET Bindings, NEW c \in Halves(b, others)
      PROVE  c \in Bindings
  <2>1. CASE c \in Ends(b)
    BY <1>2, <2>1
  <2>2. CASE c \in [chain    : {b.chain, Cut} \union {d.chain : d \in others},
                    contract : {b.contract, Cut},
                    venue    : {Cut} \union {d.venue : d \in others}]
    BY <2>2 DEF Bindings
  <2> QED
    BY <1>3, <2>1, <2>2 DEF Halves
<1>4. ASSUME NEW l \in Lists, NEW b \in Infos(l) PROVE b \in Bindings
  <2>1. l.recent \in Seq(Recents) /\ l.aliases \in [DOMAIN l.aliases -> Bindings]
    BY ListShape
  <2>2. CASE b \in Range(l.aliases)
    BY <2>1, <2>2 DEF Range
  <2>3. CASE b \in {t.to : t \in ToSet(l.recent)}
    <3>1. PICK i \in DOMAIN l.recent : b = l.recent[i].to
      BY <2>3 DEF ToSet
    <3>2. l.recent[i] \in Recents
      BY <2>1
    <3> QED
      BY <3>1, <3>2 DEF Recents
  <2> QED
    BY <1>4, <2>2, <2>3 DEF Infos
<1> QED
  BY <1>2, <1>3, <1>4

LEMMA RestShape ==
    ASSUME NEW m \in Lists, NEW i \in 1..(Len(m.recent) + 1)
    PROVE  SubSeq(m.recent, i, Len(m.recent)) \in Seq(Recents)
  BY ListShape

(* The recent tokens before the place, the one there and those after it.   *)
LEMMA SplicedShape ==
    ASSUME NEW l \in Lists, NEW m \in Lists, NEW n \in DOMAIN l.recent, NEW b \in Bindings,
           NEW i \in 1..(Len(m.recent) + 1)
    PROVE  LET t == AsRecent(l.recent[n].key[1], b)
               rest == SubSeq(m.recent, i, Len(m.recent))
               spliced == Spliced(l, n, b, m, i)
           IN  /\ spliced \in Lists /\ spliced.aliases = l.aliases
               /\ spliced.recent = SubSeq(l.recent, 1, n - 1) \o <<t>> \o rest
               /\ t \in Recents /\ rest \in Seq(Recents)
               /\ SubSeq(l.recent, 1, n - 1) \in Seq(Recents)
<1> DEFINE t == AsRecent(l.recent[n].key[1], b)
           rest == SubSeq(m.recent, i, Len(m.recent))
           before == SubSeq(l.recent, 1, n - 1)
           recent == before \o <<t>> \o rest
<1>0. /\ l.recent \in Seq(Recents) /\ DOMAIN l.aliases \subseteq Keys
      /\ l.aliases \in [DOMAIN l.aliases -> Bindings]
      /\ l = [aliases |-> l.aliases, recent |-> l.recent]
  BY ListShape
<1>1. rest \in Seq(Recents)
  BY RestShape
<1>2. before \in Seq(Recents)
  BY <1>0
<1>3. t \in Recents
  <2>1. l.recent[n] \in Recents
    BY <1>0
  <2> QED
    BY <2>1 DEF AsRecent, Recents, Keys, Bindings
<1> HIDE DEF t, rest, before
<1>4. recent \in Seq(Recents)
  BY <1>1, <1>2, <1>3
<1>5. Spliced(l, n, b, m, i) = [l EXCEPT !.recent = recent]
  BY <1>0 DEF Spliced, t, rest, before
<1> HIDE DEF recent
<1>6. Spliced(l, n, b, m, i) = [aliases |-> l.aliases, recent |-> recent]
  BY <1>0, <1>5
<1>7. Spliced(l, n, b, m, i).aliases = l.aliases /\ Spliced(l, n, b, m, i).recent = recent
  BY <1>6
<1>8. Spliced(l, n, b, m, i) \in Lists
  BY <1>0, <1>4, <1>6, <1>7, ListShape
<1> QED
  BY <1>1, <1>2, <1>3, <1>7, <1>8 DEF t, rest, before, recent

(* The list with other recent tokens, or with other bindings and none.     *)
LEMMA WithRecent ==
    ASSUME NEW l \in Lists, NEW recent \in Seq(Recents)
    PROVE  /\ [l EXCEPT !.recent = recent] \in Lists
           /\ [l EXCEPT !.recent = recent].aliases = l.aliases
           /\ [l EXCEPT !.recent = recent].recent = recent
<1>0. /\ DOMAIN l.aliases \subseteq Keys /\ l.aliases \in [DOMAIN l.aliases -> Bindings]
      /\ l = [aliases |-> l.aliases, recent |-> l.recent]
  BY ListShape
<1>1. [l EXCEPT !.recent = recent] = [aliases |-> l.aliases, recent |-> recent]
  BY <1>0
<1> QED
  BY <1>0, <1>1, ListShape

LEMMA WithAliases ==
    ASSUME NEW ks \in SUBSET Keys, NEW aliases \in [ks -> Bindings], NEW recent \in Seq(Recents)
    PROVE  [aliases |-> aliases, recent |-> recent] \in Lists
  BY DEF Lists

(* A list cut short has some of the bindings, each as it was but for a     *)
(* last one that has lost its chain or its venue, and recent tokens only   *)
(* after all of them.                                                      *)
LEMMA PartsKeep ==
    ASSUME NEW l \in Lists, NEW part \in Parts(l)
    PROVE  /\ part \in Lists
           /\ DOMAIN part.aliases \subseteq DOMAIN l.aliases
           /\ \A x \in DOMAIN part.aliases :
                 part.aliases[x] = l.aliases[x] \/ part.aliases[x].venue # Venue
           /\ Agree(l) => Agree(part)
<1> DEFINE Kept == /\ part \in Lists
                   /\ DOMAIN part.aliases \subseteq DOMAIN l.aliases
                   /\ \A x \in DOMAIN part.aliases :
                         part.aliases[x] = l.aliases[x] \/ part.aliases[x].venue # Venue
                   /\ Agree(l) => Agree(part)
<1>0. /\ l.recent \in Seq(Recents) /\ DOMAIN l.aliases \subseteq Keys
      /\ l.aliases \in [DOMAIN l.aliases -> Bindings]
  BY ListShape
<1>1. CASE part = Empty
  BY <1>1, EmptyKeeps
<1>2. ASSUME NEW only \in SUBSET DOMAIN l.aliases, NEW k \in DOMAIN l.aliases,
             part \in CutInBinding(l, only, k)
      PROVE  Kept
  <2>0. PICK b \in Ends(l.aliases[k]) :
            part = [aliases |-> [Restrict(l.aliases, only \union {k}) EXCEPT ![k] = b],
                    recent |-> << >>]
    BY <1>2 DEF CutInBinding
  <2> DEFINE ks == only \union {k}
             aliases == [Restrict(l.aliases, ks) EXCEPT ![k] = b]
  <2>1. b \in Bindings /\ (b.venue = Venue => b = l.aliases[k])
    BY <1>0, <2>0, EntriesCut
  <2>2. /\ aliases \in [ks -> Bindings]
        /\ \A x \in ks : aliases[x] = l.aliases[x] \/ aliases[x].venue # Venue
    BY <1>0, <2>1 DEF Restrict
  <2>2a. ks \subseteq DOMAIN l.aliases
    OBVIOUS
  <2> HIDE DEF aliases, ks
  <2>3. part = [aliases |-> aliases, recent |-> << >>]
    BY <2>0 DEF aliases, ks
  <2>4. part.aliases = aliases /\ part.recent = << >>
    BY <2>3
  <2>5. part \in Lists
    <3>1. ks \in SUBSET Keys /\ << >> \in Seq(Recents)
      BY <1>0, <2>2a
    <3> QED
      BY <2>2, <2>3, <3>1, WithAliases
  <2>6. Agree(part)
    BY <2>4 DEF Agree
  <2> QED
    BY <2>2, <2>2a, <2>4, <2>5, <2>6
<1>3. ASSUME NEW n \in DOMAIN l.recent, part \in CutInRecent(l, n)
      PROVE  Kept
  <2>0. PICK b \in Ends(l.recent[n].to) : part = Spliced(l, n, b, Empty, 1)
    BY <1>3 DEF CutInRecent
  <2> DEFINE was == l.recent[n]
             before == SubSeq(l.recent, 1, n - 1)
             t == AsRecent(was.key[1], b)
  <2>1. was \in Recents /\ Len(Empty.recent) = 0 /\ SubSeq(Empty.recent, 1, 0) = << >>
    BY <1>0 DEF Empty
  <2>2. b \in Bindings /\ b.contract = was.to.contract /\ b.chain \in {was.to.chain, Cut}
    BY <2>1, EntriesCut DEF Recents
  <2>3. /\ part \in Lists /\ part.aliases = l.aliases
        /\ part.recent = before \o <<t>> \o << >> /\ t \in Recents /\ before \in Seq(Recents)
    <3>1. Empty \in Lists /\ 1 \in 1..(Len(Empty.recent) + 1)
      BY <2>1, EmptyKeeps
    <3> DEFINE i == 1
               rest == SubSeq(Empty.recent, i, Len(Empty.recent))
    <3>2. i \in 1..(Len(Empty.recent) + 1) /\ rest = << >>
      BY <2>1, <3>1
    <3> HIDE DEF i
    <3>3. /\ Spliced(l, n, b, Empty, i) \in Lists
          /\ Spliced(l, n, b, Empty, i).aliases = l.aliases
          /\ Spliced(l, n, b, Empty, i).recent = before \o <<t>> \o rest
          /\ t \in Recents /\ before \in Seq(Recents)
      BY <2>2, <3>1, <3>2, SplicedShape
    <3> HIDE DEF t, before, rest
    <3> QED
      BY <2>0, <3>2, <3>3 DEF i
  <2>4. ASSUME Agree(l) PROVE Agree(part)
    <3>1. Agrees(l, was)
      BY <2>4, AgreeEach
    <3>2. Agrees(part, t)
      <4>1. t.key = <<was.key[1], b.chain>> /\ t.to = b /\ t.key[2] = b.chain
        BY DEF AsRecent
      <4>2. was.key \in Keys
        BY <2>1 DEF Recents
      <4>3. b.chain # Cut => t.key = was.key
        BY <2>2, <3>1, <4>1, <4>2 DEF Keys, Agrees
      <4> HIDE DEF t, was
      <4> QED
        BY <2>2, <2>3, <3>1, <4>1, <4>3 DEF Agrees
    <3>3. ASSUME NEW i \in 1..(n - 1) PROVE before[i] = l.recent[i] /\ i \in DOMAIN l.recent
      BY <1>0, <3>3
    <3>4. Len(before) = n - 1 /\ n \in Nat
      BY <1>0
    <3>5. \A i \in 1..(n - 1) : Agrees(part, before[i])
      BY <2>3, <2>4, <3>3, AgreeEach DEF Agrees
    <3>6. ASSUME NEW i \in DOMAIN part.recent
          PROVE  (i \in 1..(n - 1) /\ part.recent[i] = before[i]) \/ part.recent[i] = t
      <4> HIDE DEF t, before
      <4>1. before \o <<t>> \in Seq(Recents) /\ part.recent = before \o <<t>>
        BY <2>3
      <4>2. DOMAIN part.recent = 1..n /\ part.recent[n] = t
            /\ \A j \in 1..(n - 1) : part.recent[j] = before[j]
        BY <2>3, <3>4, <4>1
      <4> QED
        BY <3>4, <3>6, <4>2
    <3> HIDE DEF t, before
    <3> QED
      BY <3>2, <3>5, <3>6, AgreeEach
  <2> QED
    BY <2>3, <2>4
<1>4. CASE part = [l EXCEPT !.recent = << >>]
  <2>1. << >> \in Seq(Recents)
    OBVIOUS
  <2>2. part \in Lists /\ part.aliases = l.aliases /\ part.recent = << >>
    BY <1>4, <2>1, WithRecent
  <2> QED
    BY <2>2 DEF Agree
<1> DEFINE some == UNION {CutInBinding(l, ks, k) :
                              ks \in SUBSET DOMAIN l.aliases, k \in DOMAIN l.aliases}
           whole == UNION {CutInRecent(l, n) : n \in DOMAIN l.recent}
<1>5. CASE part \in some
  <2>1. PICK only \in SUBSET DOMAIN l.aliases, k \in DOMAIN l.aliases :
            part \in CutInBinding(l, only, k)
    BY <1>5
  <2> QED
    BY <1>2, <2>1
<1>6. CASE part \in whole
  <2>1. PICK n \in DOMAIN l.recent : part \in CutInRecent(l, n)
    BY <1>6
  <2> QED
    BY <1>3, <2>1
<1>7. part \in {Empty, [l EXCEPT !.recent = << >>]} \union some \union whole
  BY DEF Parts
<1> HIDE DEF some, whole
<1> QED
  BY <1>1, <1>4, <1>5, <1>6, <1>7

(* What two texts can read as is a list.                                   *)
LEMMA BlendsAreLists ==
    ASSUME NEW l \in Lists, NEW m \in Lists, NEW blend \in Overrun(l, m) \union Patched(l, m)
    PROVE  blend \in Lists
<1>0. /\ l.recent \in Seq(Recents) /\ DOMAIN l.aliases \subseteq Keys
      /\ l.aliases \in [DOMAIN l.aliases -> Bindings]
      /\ m.recent \in Seq(Recents) /\ DOMAIN m.aliases \subseteq Keys
      /\ m.aliases \in [DOMAIN m.aliases -> Bindings]
  BY ListShape
<1> USE DEF Rests
<1>1. \A d \in Infos(m) : d \in Bindings
  BY EntriesCut
<1>2. CASE blend \in Overrun(l, m)
  <2> DEFINE n == Len(l.recent)
             info(v) == [l.recent[n].to EXCEPT !.venue = v]
  <2>1. n # 0
    BY <1>2 DEF Overrun
  <2>2. n \in DOMAIN l.recent /\ l.recent[n] \in Recents
    BY <1>0, <2>1
  <2> DEFINE gained == IF l.recent[n].to.venue = None THEN {d.venue : d \in Infos(m)} ELSE {}
  <2>3. PICK v \in {l.recent[n].to.venue} \union gained, i \in Rests(m) :
            blend = Spliced(l, n, info(v), m, i)
    <3> DEFINE all == {Spliced(l, n, info(v), m, i) :
                          v \in {l.recent[n].to.venue} \union gained, i \in Rests(m)}
    <3>1. Overrun(l, m) = IF n = 0 THEN {} ELSE all
      BY DEF Overrun
    <3>2. blend \in all
      <4> HIDE DEF n, all
      <4> QED
        BY <1>2, <2>1, <3>1
    <3> HIDE DEF n, info, gained
    <3> QED
      BY <3>2
  <2>3a. v \in {l.recent[n].to.venue} \union {d.venue : d \in Infos(m)}
    BY <2>3
  <2>4. info(v) \in Bindings
    BY <1>1, <2>2, <2>3a DEF Recents, Bindings
  <2> HIDE DEF n, info
  <2> QED
    BY <2>2, <2>3, <2>4, SplicedShape
<1>3. CASE blend = m
  BY <1>3
<1>4. ASSUME NEW i \in Rests(m),
             blend = [l EXCEPT !.recent = SubSeq(m.recent, i, Len(m.recent))]
      PROVE  blend \in Lists
  BY <1>4, RestShape, WithRecent
<1>5. ASSUME NEW ks \in SUBSET DOMAIN l.aliases, NEW k \in DOMAIN l.aliases,
             blend \in MetInBinding(l, ks, k, m)
      PROVE  blend \in Lists
  <2>1. PICK b \in Halves(l.aliases[k], Infos(m)), ms \in SUBSET DOMAIN m.aliases :
            blend = [aliases |-> Joined(l, ks, k, b, m, ms), recent |-> m.recent]
    BY <1>5 DEF MetInBinding
  <2>2. b \in Bindings
    BY <1>0, <1>1, EntriesCut
  <2> DEFINE all == ks \union ms \union {k}
  <2>3. Joined(l, ks, k, b, m, ms) \in [all -> Bindings] /\ all \in SUBSET Keys
    BY <1>0, <2>2 DEF Joined
  <2> HIDE DEF all
  <2> QED
    BY <1>0, <2>1, <2>3, WithAliases
<1>6. ASSUME NEW n \in DOMAIN l.recent, blend \in MetInRecent(l, n, m)
      PROVE  blend \in Lists
  <2>1. PICK b \in Halves(l.recent[n].to, Infos(m)), i \in Rests(m) :
            blend = Spliced(l, n, b, m, i)
    BY <1>6 DEF MetInRecent
  <2>2. l.recent[n] \in Recents
    BY <1>0
  <2>3. l.recent[n].to \in Bindings
    BY <2>2 DEF Recents
  <2>4. b \in Bindings
    BY <1>1, <2>3, EntriesCut
  <2> QED
    BY <2>1, <2>4, SplicedShape
<1>7. CASE blend \in Patched(l, m)
  <2> DEFINE some == UNION {MetInBinding(l, ks, k, m) :
                                ks \in SUBSET DOMAIN l.aliases, k \in DOMAIN l.aliases}
             whole == UNION {MetInRecent(l, n, m) : n \in DOMAIN l.recent}
             ends == {[l EXCEPT !.recent = SubSeq(m.recent, i, Len(m.recent))] : i \in Rests(m)}
  <2>1. CASE blend \in some
    <3>1. PICK ks \in SUBSET DOMAIN l.aliases, k \in DOMAIN l.aliases :
              blend \in MetInBinding(l, ks, k, m)
      BY <2>1
    <3> QED
      BY <1>5, <3>1
  <2>2. CASE blend \in whole
    <3>1. PICK n \in DOMAIN l.recent : blend \in MetInRecent(l, n, m)
      BY <2>2
    <3> QED
      BY <1>6, <3>1
  <2>3. CASE blend \in ends
    BY <1>4, <2>3, Zenon
  <2>4. blend \in {m} \union ends \union some \union whole
    BY <1>7 DEF Patched
  <2> HIDE DEF some, whole, ends
  <2> QED
    BY <2>1, <2>2, <2>3, <2>4
<1> QED
  BY <1>2, <1>7

-----------------------------------------------------------------------------
(* The address book.                                                       *)
BookInv ==
    /\ Book!BookTypeOK /\ OneEntryPerAddress
    /\ ~bookMixed => \A p \in Procs : Book!Unique(bookView[p])

LEMMA NoEntries == <<>> \in Seq(Addresses) /\ Book!Unique(<<>>)
  BY DEF Book!Unique

LEMMA LoadedEntries ==
    ASSUME BookInv, NEW entries \in Book!LoadedBook
    PROVE  entries \in Seq(Addresses) /\ (~bookMixed => Book!Unique(entries))
<1>1. CASE entries = <<>>
  BY <1>1 DEF Book!Unique
<1>2. CASE book \notin {Absent, Broken} /\ entries = book
  BY <1>2 DEF BookInv, Book!BookTypeOK, OneEntryPerAddress, Book!OneEntryPerAddress
<1> QED
  BY <1>1, <1>2 DEF Book!LoadedBook

LEMMA AddedUnique ==
    ASSUME NEW entries \in Seq(Addresses), NEW a \in Addresses, Book!Unique(entries),
           ~Book!Listed(entries, a)
    PROVE  Append(entries, a) \in Seq(Addresses) /\ Book!Unique(Append(entries, a))
<1> DEFINE more == Append(entries, a)
<1>1. /\ more \in Seq(Addresses) /\ DOMAIN entries = 1..Len(entries) /\ Len(entries) \in Nat
      /\ DOMAIN more = 1..(Len(entries) + 1) /\ more[Len(entries) + 1] = a
      /\ \A i \in 1..Len(entries) : more[i] = entries[i]
  OBVIOUS
<1>2. \A i \in 1..Len(entries) : Fold[entries[i]] # Fold[a]
  BY <1>1 DEF Book!Listed, Book!SameAddress
<1>3. ASSUME NEW i \in DOMAIN more, NEW n \in DOMAIN more, i # n
      PROVE  Fold[more[i]] # Fold[more[n]]
  <2> HIDE DEF more
  <2>1. CASE i \in 1..Len(entries) /\ n \in 1..Len(entries)
    BY <1>1, <1>3, <2>1 DEF Book!Unique
  <2>2. CASE i = Len(entries) + 1 /\ n \in 1..Len(entries)
    BY <1>1, <1>2, <2>2
  <2>3. CASE n = Len(entries) + 1 /\ i \in 1..Len(entries)
    BY <1>1, <1>2, <2>3
  <2> QED
    BY <1>1, <1>3, <2>1, <2>2, <2>3
<1> QED
  BY <1>1, <1>3 DEF Book!Unique

LEMMA RetainedKeeps ==
    ASSUME NEW entries \in Seq(Addresses), NEW places \in SUBSET DOMAIN entries
    PROVE  /\ Book!Retained(entries, places) \in Seq(Addresses)
           /\ Book!Unique(entries) => Book!Unique(Book!Retained(entries, places))
<1> DEFINE kept == Retained(entries, places)
<1>1. PICK m \in Nat : \E from \in [1..m -> places] :
               /\ \A i, j \in 1..m : i # j => from[i] # from[j]
               /\ kept = [n \in 1..m |-> entries[from[n]]]
  BY RetainedPlaces
<1>2. PICK from \in [1..m -> places] :
               /\ \A i, j \in 1..m : i # j => from[i] # from[j]
               /\ kept = [n \in 1..m |-> entries[from[n]]]
  BY <1>1
<1> HIDE DEF kept
<1>3. \A n \in 1..m : from[n] \in DOMAIN entries /\ kept[n] = entries[from[n]]
                      /\ kept[n] \in Addresses
  BY <1>2
<1>4. kept \in Seq(Addresses) /\ DOMAIN kept = 1..m
  BY <1>2, <1>3
<1>5. Book!Unique(entries) => Book!Unique(kept)
  BY <1>2, <1>3, <1>4 DEF Book!Unique
<1>6. Book!Retained(entries, places) = kept
  BY Zenon DEF Book!Retained, Retained, Book!Cardinality, Cardinality, kept
<1> QED
  BY <1>4, <1>5, <1>6

LEMMA PartUnique ==
    ASSUME NEW entries \in Seq(Addresses), Book!Unique(entries),
           NEW part \in Book!BookParts(entries)
    PROVE  part \in Seq(Addresses) /\ Book!Unique(part)
<1>1. PICK n \in 0..Len(entries) : part = SubSeq(entries, 1, n)
  BY DEF Book!BookParts
<1>2. part \in Seq(Addresses) /\ DOMAIN part \subseteq DOMAIN entries
      /\ \A i \in DOMAIN part : part[i] = entries[i]
  BY <1>1, SubSeqProperties
<1> QED
  BY <1>2 DEF Book!Unique

LEMMA BookBlends ==
    ASSUME NEW entries \in Seq(Addresses), NEW other \in Seq(Addresses),
           NEW blend \in Book!BookOverrun(entries, other) \union Book!BookPatched(entries, other)
    PROVE  blend \in Seq(Addresses)
<1>1. \A n \in 1..(Len(other) + 1) : SubSeq(other, n, Len(other)) \in Seq(Addresses)
  OBVIOUS
<1>2. \A i \in 0..Len(entries) : SubSeq(entries, 1, i) \in Seq(Addresses)
  OBVIOUS
<1>3. CASE blend \in Book!BookOverrun(entries, other)
  <2>1. PICK n \in 2..Len(other) : blend = entries \o SubSeq(other, n, Len(other))
    BY <1>3 DEF Book!BookOverrun
  <2> DEFINE rest == SubSeq(other, n, Len(other))
  <2>2. rest \in Seq(Addresses)
    BY <1>1
  <2> HIDE DEF rest
  <2>3. entries \o rest \in Seq(Addresses)
    BY <2>2
  <2> QED
    BY <2>1, <2>3 DEF rest
<1>4. CASE blend \in Book!BookPatched(entries, other)
  <2>1. PICK i \in 0..Len(entries), met \in Book!Pieces, n \in 1..(Len(other) + 1) :
            blend = Book!Met(entries, i, met, other, n)
    BY <1>4 DEF Book!BookPatched
  <2> DEFINE rest == SubSeq(other, n, Len(other))
             before == SubSeq(entries, 1, i)
  <2>2. rest \in Seq(Addresses)
    BY <1>1
  <2>3. before \in Seq(Addresses)
    BY <1>2
  <2>4. met \in Seq(Addresses)
    <3>1. met = <<>> \/ \E a \in Addresses : met = <<a>>
      BY DEF Book!Pieces
    <3>2. ASSUME NEW a \in Addresses PROVE <<a>> \in Seq(Addresses)
      OBVIOUS
    <3>3. <<>> \in Seq(Addresses)
      OBVIOUS
    <3> QED
      BY <3>1, <3>2, <3>3, Zenon
  <2> HIDE DEF rest, before
  <2>5. before \o met \in Seq(Addresses)
    BY <2>3, <2>4
  <2>6. (before \o met) \o rest \in Seq(Addresses) /\ before \o (met \o rest) \in Seq(Addresses)
    BY <2>2, <2>3, <2>4, <2>5
  <2> QED
    BY <2>1, <2>6 DEF Book!Met, rest, before
<1> QED
  BY <1>3, <1>4

(* A change of the book that leaves the file alone.                        *)
LEMMA BookChanges ==
    ASSUME BookInv, NEW p \in Procs, UNCHANGED Book!bookFile, Book!BookTypeOK',
           NEW entries, ~bookMixed => Book!Unique(entries),
           \A q \in Procs : bookView'[q] = bookView[q] \/ bookView'[q] = entries
    PROVE  BookInv'
<1>1. UNCHANGED <<book, bookPen, bookTexts, bookMixed>>
  BY DEF Book!bookFile
<1>2. OneEntryPerAddress'
  BY <1>1 DEF BookInv, OneEntryPerAddress, Book!OneEntryPerAddress, Book!Unique
<1>3. ASSUME ~bookMixed, NEW q \in Procs PROVE Book!Unique(bookView[q])'
  <2>1. Book!Unique(bookView[q]) /\ Book!Unique(entries)
    BY <1>3 DEF BookInv
  <2> QED
    BY <2>1 DEF Book!Unique
<1> QED
  BY <1>1, <1>2, <1>3 DEF BookInv

(* A change that ends with the load.                                       *)
LEMMA BookEnds ==
    ASSUME BookInv, NEW p \in Procs, UNCHANGED <<Book!bookFile, bookView>>,
           NEW how \in {"unreadable", "already there", "not found", "error"},
           Book!BookGoto(p, "idle", how)
    PROVE  BookInv'
<1>1. UNCHANGED <<book, bookPen, bookTexts, bookMixed, bookView>>
  BY DEF Book!bookFile
<1>2. Book!BookTypeOK'
  BY <1>1 DEF BookInv, Book!BookTypeOK, Book!BookGoto
<1>3. Book!Unique(<<>>)
  BY NoEntries
<1>4. \A q \in Procs : bookView'[q] = bookView[q]
  BY <1>1
<1> QED
  BY <1>2, <1>3, <1>4, BookChanges

(* A change whose copy is about to be saved.                               *)
LEMMA BookEdits ==
    ASSUME BookInv, NEW p \in Procs, UNCHANGED Book!bookFile,
           NEW entries \in Seq(Addresses), ~bookMixed => Book!Unique(entries),
           bookView' = [bookView EXCEPT ![p] = entries], Book!BookGoto(p, "open", "none")
    PROVE  BookInv'
<1>1. UNCHANGED <<book, bookPen, bookTexts, bookMixed>>
  BY DEF Book!bookFile
<1>2. Book!BookTypeOK'
  BY <1>1 DEF BookInv, Book!BookTypeOK, Book!BookGoto
<1>3. \A q \in Procs : bookView'[q] = bookView[q] \/ bookView'[q] = entries
  BY DEF BookInv, Book!BookTypeOK
<1> QED
  BY <1>2, <1>3, BookChanges

LEMMA BookKept ==
    ASSUME BookInv, NEW p \in Procs, Book!BookBegin(p) \/ Book!BookStep(p)
    PROVE  BookInv'
<1>1. CASE Book!LoadFails(p)
  BY <1>1, BookEnds DEF Book!LoadFails
<1>2. ASSUME NEW a \in Addresses, Book!AddAddress(p, a) PROVE BookInv'
  <2>1. PICK entries \in Book!LoadedBook :
          IF Book!Listed(entries, a)
          THEN Book!BookGoto(p, "idle", "already there") /\ UNCHANGED bookView
          ELSE /\ bookView' = [bookView EXCEPT ![p] = Append(entries, a)]
               /\ Book!BookGoto(p, "open", "none")
    BY <1>2 DEF Book!AddAddress
  <2>2. UNCHANGED Book!bookFile
    BY <1>2 DEF Book!AddAddress
  <2>3. CASE Book!Listed(entries, a)
    BY <2>1, <2>2, <2>3, BookEnds
  <2>4. CASE ~Book!Listed(entries, a)
    <3> DEFINE more == Append(entries, a)
    <3>1. entries \in Seq(Addresses) /\ (~bookMixed => Book!Unique(entries))
      BY LoadedEntries
    <3>2. more \in Seq(Addresses)
      BY <3>1
    <3>3. ~bookMixed => Book!Unique(more)
      BY <2>4, <3>1, AddedUnique
    <3>4. bookView' = [bookView EXCEPT ![p] = more] /\ Book!BookGoto(p, "open", "none")
      BY <2>1, <2>4
    <3> HIDE DEF more
    <3> QED
      BY <2>2, <3>2, <3>3, <3>4, BookEdits
  <2> QED
    BY <2>3, <2>4
<1>3. ASSUME NEW a \in Addresses, Book!RemoveAddress(p, a) PROVE BookInv'
  <2>1. PICK entries \in Book!LoadedBook :
          IF ~Book!Listed(entries, a)
          THEN Book!BookGoto(p, "idle", "not found") /\ UNCHANGED bookView
          ELSE /\ bookView' = [bookView EXCEPT ![p] =
                      Book!Retained(entries,
                          {i \in DOMAIN entries : ~Book!SameAddress(a, entries[i])})]
               /\ Book!BookGoto(p, "open", "none")
    BY <1>3 DEF Book!RemoveAddress
  <2>2. UNCHANGED Book!bookFile
    BY <1>3 DEF Book!RemoveAddress
  <2>3. CASE ~Book!Listed(entries, a)
    BY <2>1, <2>2, <2>3, BookEnds
  <2>4. CASE Book!Listed(entries, a)
    <3> DEFINE places == {i \in DOMAIN entries : ~Book!SameAddress(a, entries[i])}
               kept == Book!Retained(entries, places)
    <3>1. entries \in Seq(Addresses) /\ (~bookMixed => Book!Unique(entries))
      BY LoadedEntries
    <3>2. places \in SUBSET DOMAIN entries
      OBVIOUS
    <3>3. bookView' = [bookView EXCEPT ![p] = kept] /\ Book!BookGoto(p, "open", "none")
      BY <2>1, <2>4
    <3> HIDE DEF places
    <3>4. kept \in Seq(Addresses) /\ (~bookMixed => Book!Unique(kept))
      BY <3>1, <3>2, RetainedKeeps
    <3> HIDE DEF kept
    <3> QED
      BY <2>2, <3>3, <3>4, BookEdits
  <2> QED
    BY <2>3, <2>4
<1>4. CASE Book!OpenBook(p)
  <2>1. CASE UNCHANGED Book!bookFile /\ Book!BookGoto(p, "idle", "error")
    BY <1>4, <2>1, BookEnds DEF Book!OpenBook
  <2>2. CASE Book!BookFile!Open(p) /\ Book!BookGoto(p, "write", "none")
    <3>1. /\ book' = Broken /\ bookTexts' = {} /\ UNCHANGED <<bookMixed, bookView>>
          /\ bookPen' = [bookPen EXCEPT ![p] = "down"]
      BY <1>4, <2>2 DEF Book!OpenBook, Book!BookFile!Open
    <3>2. Book!BookTypeOK'
      BY <2>2, <3>1 DEF BookInv, Book!BookTypeOK, Book!BookGoto, Book!BookFile!Pens
    <3>3. OneEntryPerAddress'
      BY <3>1 DEF OneEntryPerAddress, Book!OneEntryPerAddress
    <3> QED
      BY <3>1, <3>2, <3>3 DEF BookInv, Book!Unique
  <2> QED
    BY <1>4, <2>1, <2>2 DEF Book!OpenBook
<1>5. CASE Book!WriteBook(p)
  <2> DEFINE entries == bookView[p]
             lost == UNION {Book!BookOverrun(entries, m) : m \in bookTexts}
             torn == UNION {Book!BookPatched(entries, m) : m \in bookTexts}
  <2>1. entries \in Seq(Addresses) /\ (~bookMixed => Book!Unique(entries))
        /\ bookTexts \subseteq Seq(Addresses)
    BY DEF BookInv, Book!BookTypeOK
  <2>2. \A blend \in lost \union torn : blend \in Seq(Addresses)
    <3>1. ASSUME NEW m \in bookTexts,
                 NEW blend \in Book!BookOverrun(entries, m) \union Book!BookPatched(entries, m)
          PROVE  blend \in Seq(Addresses)
      BY <2>1, <3>1, BookBlends
    <3> HIDE DEF entries
    <3> QED
      BY <3>1
  <2>3. PICK how \in {"ok", "error"}, written \in SUBSET {entries} :
            /\ Book!BookGoto(p, "idle", how)
            /\ Book!BookFile!Lift(p, written)
            /\ \/ Book!BookFile!Alone({entries}) \/ Book!BookFile!Alone({Broken})
               \/ Book!BookFile!Alone(Book!BookParts(entries) \union {Broken})
               \/ Book!BookFile!Joined(lost) \/ Book!BookFile!Joined(torn)
    <3>1. CASE /\ Book!BookFile!Write(p, entries, lost) /\ Book!BookGoto(p, "idle", "ok")
      <4> HIDE DEF entries, lost, torn
      <4> QED
        BY <3>1 DEF Book!BookFile!Write
    <3>2. CASE /\ Book!BookFile!Tear(p, Book!BookParts(entries), torn)
               /\ Book!BookGoto(p, "idle", "error")
      <4> HIDE DEF entries, lost, torn
      <4> QED
        BY <3>2 DEF Book!BookFile!Tear
    <3> QED
      BY <1>5, <3>1, <3>2 DEF Book!WriteBook
  <2>4. UNCHANGED bookView
    BY <1>5 DEF Book!WriteBook
  <2> HIDE DEF lost, torn, entries
  <2>5. \/ book' = Broken /\ UNCHANGED bookMixed
        \/ /\ book' \in Seq(Addresses) /\ UNCHANGED bookMixed
           /\ ~bookMixed => Book!Unique(book')
        \/ book' \in Seq(Addresses) /\ bookMixed' = TRUE
    <3>1. CASE Book!BookFile!Alone({entries}) \/ Book!BookFile!Alone({Broken})
      BY <2>1, <3>1 DEF Book!BookFile!Alone
    <3>2. CASE Book!BookFile!Alone(Book!BookParts(entries) \union {Broken})
      <4>1. \A part \in Book!BookParts(entries) :
                part \in Seq(Addresses) /\ (~bookMixed => Book!Unique(part))
        <5>1. ASSUME NEW part \in Book!BookParts(entries)
              PROVE  part \in Seq(Addresses)
          BY <2>1, <5>1 DEF Book!BookParts
        <5> QED
          BY <2>1, <5>1, PartUnique
      <4> QED
        BY <3>2, <4>1 DEF Book!BookFile!Alone
    <3>3. CASE Book!BookFile!Joined(lost) \/ Book!BookFile!Joined(torn)
      BY <2>2, <3>3 DEF Book!BookFile!Joined
    <3> QED
      BY <2>3, <3>1, <3>2, <3>3
  <2>6. /\ bookPen' = [bookPen EXCEPT ![p] = "up"]
        /\ bookTexts' \subseteq bookTexts \union {entries} \union ({book'} \ {Broken})
    BY <2>3 DEF Book!BookFile!Lift
  <2>7. bookTexts' \subseteq Seq(Addresses) /\ book' \in Seq(Addresses) \union {Broken}
    BY <2>1, <2>5, <2>6
  <2>8. Book!BookTypeOK'
    BY <2>3, <2>4, <2>5, <2>6, <2>7 DEF BookInv, Book!BookTypeOK, Book!BookGoto,
       Book!BookFile!Pens
  <2>9. OneEntryPerAddress'
    BY <2>5 DEF OneEntryPerAddress, Book!OneEntryPerAddress, Book!Unique
  <2>10. ~bookMixed' => \A q \in Procs : Book!Unique(bookView[q])'
    BY <2>4, <2>5 DEF BookInv, Book!Unique
  <2> QED
    BY <2>8, <2>9, <2>10 DEF BookInv
<1> QED
  BY <1>1, <1>2, <1>3, <1>4, <1>5 DEF Book!BookBegin, Book!BookStep

LEMMA BookStarts == Book!BookInit => BookInv
<1> SUFFICES ASSUME Book!BookInit PROVE BookInv
  OBVIOUS
<1>1. <<>> \in Seq(Addresses) /\ Book!Unique(<<>>)
  BY NoEntries
<1> QED
  BY <1>1, BooksAssumption DEF Book!BookInit, BookInv, Book!BookTypeOK, OneEntryPerAddress,
     Book!OneEntryPerAddress, Book!BookFile!Pens

-----------------------------------------------------------------------------
(* A binding that was chosen from the venue is on the venue's list.        *)
FromVenue(l, list) ==
    \A k \in DOMAIN l.aliases : l.aliases[k].venue = Venue =>
        /\ l.aliases[k].chain = k[2]
        /\ \E c \in ToSet(list) : ChainOf[c.net] = k[2] /\ c.contract = l.aliases[k].contract

LEMMA FewerFromVenue ==
    ASSUME NEW l, NEW m, NEW list, FromVenue(l, list), DOMAIN m.aliases \subseteq DOMAIN l.aliases,
           \A x \in DOMAIN m.aliases :
               m.aliases[x] = l.aliases[x] \/ m.aliases[x].venue # Venue
    PROVE  FromVenue(m, list)
  BY DEF FromVenue

LEMMA BoundFromVenue ==
    ASSUME NEW l \in Lists, NEW k \in Keys, NEW b, Info(k, b) \in Bindings, NEW list,
           FromVenue(l, list),
           b.venue = Venue =>
               \E c \in ToSet(list) : ChainOf[c.net] = k[2] /\ c.contract = b.contract
    PROVE  FromVenue(Bound(l, k, b), list)
<1> DEFINE new == Bound(l, k, b)
<1>0. Info(k, b).chain = k[2] /\ Info(k, b).contract = b.contract /\ Info(k, b).venue = b.venue
  BY DEF Info
<1>1. /\ DOMAIN new.aliases = DOMAIN l.aliases \union {k} /\ new.aliases[k] = Info(k, b)
      /\ \A x \in DOMAIN l.aliases : x # k => new.aliases[x] = l.aliases[x]
  BY BoundKeeps
<1> HIDE DEF new
<1>2. FromVenue(new, list)
  BY <1>0, <1>1 DEF FromVenue
<1> QED
  BY <1>2 DEF new

(* The least of some natural numbers.                                      *)
Below == {pair \in Nat \X Nat : pair[1] < pair[2]}

LEMMA LeastElement ==
    ASSUME NEW T \in SUBSET Nat, T # {}
    PROVE  \E i \in T : \A n \in T : i <= n
<1>1. IsWellFoundedOn(Below, Nat)
  BY NatLessThanWellFounded, SMT DEF OpToRel, Below
<1>2. PICK i \in T : \A n \in T : ~(<<n, i>> \in Below)
  BY <1>1, WFMin
<1>3. ASSUME NEW n \in T PROVE i <= n
  <2>1. ~(n < i)
    BY <1>2, <1>3 DEF Below
  <2> QED
    BY <2>1
<1> QED
  BY <1>3

(* Two different things are several.                                       *)
LEMMA SeveralAre ==
    ASSUME NEW x, NEW y, x # y
    PROVE  Cardinality({x} \union {y}) > 1
<1>1. IsFiniteSet({x}) /\ Cardinality({x}) = 1 /\ y \notin {x}
  BY FS_Singleton
<1>2. Cardinality({x} \union {y}) = Cardinality({x}) + 1
  BY <1>1, FS_AddElement
<1> QED
  BY <1>1, <1>2

(* The check refuses a binding of the venue only when the venue lists two  *)
(* contracts on its chain.                                                 *)
LEMMA TwoContracts ==
    ASSUME coins \in Seq(Candidates), NEW l, NEW k \in DOMAIN l.aliases, FromVenue(l, coins),
           Contradicted(l.aliases[k]), l.aliases[k].venue = Venue
    PROVE  Cardinality({c.contract : c \in {d \in ToSet(coins) : ChainOf[d.net] = k[2]}}) > 1
<1> DEFINE on == {i \in DOMAIN coins : ChainOf[coins[i].net] = k[2]}
           first == CHOOSE i \in on : \A n \in on : i <= n
           found == {c.contract : c \in {d \in ToSet(coins) : ChainOf[d.net] = k[2]}}
<1>1. PICK i \in on : coins[i].contract = l.aliases[k].contract
  BY DEF FromVenue, ToSet
<1>1a. l.aliases[k].chain = k[2]
  BY DEF FromVenue
<1>2. first \in on
  <2>1. on \in SUBSET Nat /\ on # {}
    BY <1>1
  <2> HIDE DEF on
  <2>2. \E n \in on : \A m \in on : n <= m
    BY <2>1, LeastElement
  <2> QED
    BY <2>2
<1>3. coins[first].contract # l.aliases[k].contract
  <2>1. FirstOn(k[2]) = {coins[first]}
    BY <1>1 DEF FirstOn
  <2> QED
    BY <1>1a, <2>1 DEF Contradicted
<1>4. coins[i].contract \in found /\ coins[first].contract \in found
  <2> HIDE DEF first
  <2> QED
    BY <1>1, <1>2 DEF ToSet
<1>5. IsFiniteSet(found)
  <2> DEFINE at1 == [n \in on |-> coins[n].contract]
  <2>1. IsFiniteSet(on)
    <3>1. DOMAIN coins = 1..Len(coins) /\ Len(coins) \in Nat /\ on \in SUBSET DOMAIN coins
      OBVIOUS
    <3>2. IsFiniteSet(DOMAIN coins)
      BY <3>1, FS_Interval
    <3> HIDE DEF on
    <3> QED
      BY <3>1, <3>2, FS_Subset
  <2>2. at1 \in Surjection(on, found)
    <3>1. found = {coins[n].contract : n \in on}
      BY DEF ToSet
    <3> QED
      BY <3>1 DEF Surjection
  <2> QED
    BY <2>1, <2>2, FS_Surjection
<1>6. Cardinality({coins[i].contract} \union {coins[first].contract}) > 1
  <2> HIDE DEF first
  <2> QED
    BY <1>1, <1>3, SeveralAre
<1>7. Cardinality(found) > 1
  <2> DEFINE two == {coins[i].contract} \union {coins[first].contract}
  <2>1. two \in SUBSET found /\ Cardinality(two) > 1
    BY <1>4, <1>6
  <2> HIDE DEF two, found
  <2>2. Cardinality(two) <= Cardinality(found)
    BY <1>5, <2>1, FS_Subset
  <2>3. Cardinality(two) \in Nat /\ Cardinality(found) \in Nat
    BY <1>5, <2>1, FS_Subset, FS_CardinalityType
  <2> QED
    BY <2>1, <2>2, <2>3
<1> QED
  BY <1>7

-----------------------------------------------------------------------------
(* The token list, in the file and in the copies.                          *)
Shapes ==
    /\ tokens \in Lists \union {Absent, Broken}
    /\ pen \in [Procs -> File!Pens] /\ texts \subseteq Lists /\ mixed \in BOOLEAN
    /\ coins \in CoinLists \union {NoList}
    /\ jobs \in 0..MaxJobs
    /\ job \in [Procs -> Jobs \union {Idle}] /\ at \in [Procs -> Steps]
    /\ view \in [Procs -> Lists] /\ last \in Lists
    /\ meant \in [Procs -> SUBSET Tokens] /\ answer \in [Procs -> SUBSET Tokens]
    /\ fresh \in [Procs -> BOOLEAN]

Resolving == {"choose", "check", "search", "pick", "confirm"}

(* What a task offers its user, or has chosen.                             *)
Holds(p) ==
    /\ at[p] \in Resolving => job[p].kind = "resolve"
    /\ at[p] \in {"open", "write"} => job[p].kind # "none"
    /\ at[p] = "check" \/ (at[p] = "search" /\ job[p].cex) => coins # NoList
    /\ at[p] \in {"choose", "check"} => choice[p] \subseteq DOMAIN view[p].aliases
    /\ at[p] = "pick" =>
          choice[p] \subseteq Candidates /\ (job[p].cex => choice[p] \subseteq ToSet(coins))
    /\ at[p] \in {"confirm", "open", "write"} =>
          IF job[p].kind = "resolve"
          THEN \E c \in Candidates : choice[p] = {c} /\ (job[p].cex => c \in ToSet(coins))
          ELSE choice[p] = {}

(* The venue lists several contracts on the chain of k.                    *)
SeveralListed(k, list) ==
    Cardinality({c.contract : c \in {d \in ToSet(list) : ChainOf[d.net] = k[2]}}) > 1

(* A mismatch ends a command, and is one.                                  *)
Refused(p) ==
    end[p] = Failed("mismatch") =>
        /\ at[p] = "idle"
        /\ mixed \/ \E k \in choice[p] :
                       view[p].aliases[k].venue # Venue \/ SeveralListed(k, coins)

(* What holds of a list while no two texts have been read as one.          *)
Sound(l) == mixed \/ (Agree(l) /\ FromVenue(l, coins))

TaskOK(p) == Holds(p) /\ Refused(p) /\ Sound(view[p])

FileOK == tokens \notin {Absent, Broken} => Sound(tokens)

ListInv == Shapes /\ FileOK /\ \A p \in Procs : TaskOK(p)

LEMMA JobShapes ==
    /\ Idle.kind = "none"
    /\ \A j \in Jobs :
          /\ j.kind \in {"add", "remove", "resolve"}
          /\ j.kind = "add" =>
                j.key \in Keys /\ Info(j.key, j.to) \in Bindings /\ j.to.venue = None
          /\ j.kind # "add" => j.symbol \in Symbols /\ j.chain \in Chains \union {None}
          /\ j.kind = "resolve" => j.cex \in BOOLEAN
<1>1. ASSUME NEW j \in AllJobs
      PROVE  /\ j.kind \in {"add", "remove", "resolve"}
             /\ j.kind = "add" =>
                   j.key \in Keys /\ Info(j.key, j.to) \in Bindings /\ j.to.venue = None
             /\ j.kind # "add" => j.symbol \in Symbols /\ j.chain \in Chains \union {None}
             /\ j.kind = "resolve" => j.cex \in BOOLEAN
  <2>1. CASE j \in [kind : {"add"}, key : Symbols \X Networks,
                    to : [contract : Contracts, venue : {None}]]
    <3>1. j.kind = "add" /\ j.key \in Symbols \X Networks
          /\ j.to.contract \in Contracts /\ j.to.venue = None
      BY <2>1
    <3>2. j.key \in Keys /\ j.key[2] \in Networks
      BY <3>1 DEF Keys
    <3>3. Info(j.key, j.to) \in Bindings
      BY <3>1, <3>2 DEF Info, Bindings
    <3> QED
      BY <3>1, <3>2, <3>3
  <2>2. CASE j \in [kind : {"remove"}, symbol : Symbols, chain : Chains \union {None}]
    BY <2>2
  <2>3. CASE j \in [kind : {"resolve"}, symbol : Symbols, chain : Chains \union {None},
                    cex : BOOLEAN, yes : BOOLEAN, save : BOOLEAN, asks : BOOLEAN]
    BY <2>3
  <2> QED
    BY <1>1, <2>1, <2>2, <2>3 DEF AllJobs
<1> QED
  BY <1>1, JobAssumption DEF Idle

LEMMA LoadedShape ==
    ASSUME ListInv
    PROVE  Loaded \in Lists /\ Sound(Loaded)
<1>1. Sound(Empty)
  BY EmptyKeeps DEF FromVenue, Sound
<1> QED
  BY <1>1, EmptyKeeps DEF ListInv, Shapes, FileOK, Loaded

(* Tokens of the list, and what is found, can be meant.                    *)
LEMMA TokensMeant ==
    ASSUME NEW l \in Lists, NEW k \in DOMAIN l.aliases
    PROVE  Token(l.aliases[k]) \in Tokens
<1>1. l.aliases[k] \in Bindings
  BY ListShape
<1> QED
  BY <1>1 DEF Token, Tokens, Bindings

LEMMA CandidatesMeant == Candidates \subseteq Tokens
  BY DEF Candidates, Tokens

LEMMA CoinsMeant ==
    ASSUME coins \in CoinLists \union {NoList}, coins # NoList
    PROVE  coins \in Seq(Candidates) /\ ToSet(coins) \subseteq Candidates
  BY FoundAssumption DEF ToSet

(* The binding a task saves is of the venue when it was chosen from its    *)
(* list.                                                                   *)
LEMMA ChoiceShape ==
    ASSUME NEW j \in Jobs, j.kind = "resolve", NEW c \in Candidates, NEW list,
           j.cex => c \in ToSet(list)
    PROVE  /\ Choice(j, c)[1] \in Keys /\ Info(Choice(j, c)[1], Choice(j, c)[2]) \in Bindings
           /\ Choice(j, c)[2].venue = Venue =>
                 \E d \in ToSet(list) : /\ ChainOf[d.net] = Choice(j, c)[1][2]
                                        /\ d.contract = Choice(j, c)[2].contract
<1>1. j.symbol \in Symbols /\ ChainOf[c.net] \in Networks
      /\ c.contract \in Contracts \union {Native}
  BY JobShapes, ChainAssumption DEF Candidates
<1>2. Choice(j, c)[1] = <<j.symbol, ChainOf[c.net]>>
      /\ Choice(j, c)[2] = [contract |-> c.contract, venue |-> IF j.cex THEN Venue ELSE None]
  BY DEF Choice
<1>3. Venue # None
  BY DEF Venue, None
<1>4. Choice(j, c)[1] \in Keys /\ Choice(j, c)[1][2] \in Networks
  BY <1>1, <1>2 DEF Keys
<1>5. Info(Choice(j, c)[1], Choice(j, c)[2]) \in Bindings
  BY <1>1, <1>2, <1>4 DEF Info, Bindings
<1> QED
  BY <1>1, <1>2, <1>3, <1>4, <1>5

-----------------------------------------------------------------------------
(* A step of a task leaves the other tasks as they are.                    *)
LEMMA OwnTask ==
    ASSUME ListInv, NEW p \in Procs, UNCHANGED coins, mixed => mixed',
           \A q \in Procs \ {p} :
               /\ at'[q] = at[q] /\ job'[q] = job[q] /\ view'[q] = view[q]
               /\ choice'[q] = choice[q] /\ end'[q] = end[q],
           Shapes', FileOK', TaskOK(p)'
    PROVE  ListInv'
<1>1. ASSUME NEW q \in Procs \ {p} PROVE TaskOK(q)'
  <2>1. TaskOK(q)
    BY DEF ListInv
  <2>2. /\ at'[q] = at[q] /\ job'[q] = job[q] /\ view'[q] = view[q] /\ choice'[q] = choice[q]
        /\ end'[q] = end[q] /\ coins' = coins /\ (mixed => mixed')
    OBVIOUS
  <2>3. Holds(q)'
    BY <2>1, <2>2 DEF TaskOK, Holds
  <2>4. Refused(q)'
    BY <2>1, <2>2 DEF TaskOK, Refused, SeveralListed
  <2>5. Sound(view[q])'
    BY <2>1, <2>2 DEF TaskOK, Sound
  <2> QED
    BY <2>3, <2>4, <2>5 DEF TaskOK
<1> QED
  BY <1>1 DEF ListInv

LEMMA SameFile ==
    ASSUME ListInv, UNCHANGED <<tokens, coins>>, mixed => mixed'
    PROVE  FileOK'
  BY DEF ListInv, FileOK, Sound, FromVenue, Agree, Entry

LEMMA FileKept ==
    ASSUME UNCHANGED fileVars
    PROVE  UNCHANGED <<tokens, pen, texts, mixed>>
  BY DEF fileVars

LEMMA EditList ==
    ASSUME ListInv, OfTasks, NEW p \in Procs, NEW j \in Jobs, Begin(p), Edit(p, j),
           job' = [job EXCEPT ![p] = j]
    PROVE  ListInv'
<1> DEFINE new == IF j.kind = "add" THEN Bound(Loaded, j.key, j.to)
                  ELSE Unbound(Loaded, KeysOf(j.symbol, j.chain))
<1>1. Loaded \in Lists /\ Sound(Loaded)
  BY LoadedShape
<1>2. new \in Lists /\ Sound(new)
  <2>1. CASE j.kind = "add"
    <3>1. j.key \in Keys /\ Info(j.key, j.to) \in Bindings /\ j.to.venue # Venue
      BY <2>1, JobShapes DEF Venue, None
    <3>2. FromVenue(Loaded, coins) => FromVenue(Bound(Loaded, j.key, j.to), coins)
      BY <1>1, <3>1, BoundFromVenue
    <3> QED
      BY <1>1, <2>1, <3>1, <3>2, BoundKeeps DEF Sound
  <2>2. CASE j.kind # "add"
    <3> DEFINE keys == KeysOf(j.symbol, j.chain)
               less == Unbound(Loaded, keys)
    <3> HIDE DEF keys
    <3>1. /\ less \in Lists /\ (Agree(Loaded) => Agree(less))
          /\ DOMAIN less.aliases = DOMAIN Loaded.aliases \ keys
          /\ \A x \in DOMAIN Loaded.aliases \ keys : less.aliases[x] = Loaded.aliases[x]
      BY <1>1, UnboundKeeps
    <3> HIDE DEF less
    <3>2. FromVenue(Loaded, coins) => FromVenue(less, coins)
      BY <3>1, FewerFromVenue
    <3>3. Sound(less)
      BY <1>1, <3>1, <3>2 DEF Sound
    <3> QED
      BY <2>2, <3>1, <3>3 DEF less, keys
  <2> QED
    BY <2>1, <2>2
<1> HIDE DEF new
<1>3. /\ view' = [view EXCEPT ![p] = new] /\ at' = [at EXCEPT ![p] = "open"]
      /\ choice' = [choice EXCEPT ![p] = {}] /\ meant' = [meant EXCEPT ![p] = {}]
      /\ end' = [end EXCEPT ![p] = NoEnd] /\ j.kind \in {"add", "remove"}
  BY DEF Edit, Goto, Pending, new
<1>4. /\ UNCHANGED <<fileVars, coins, last>> /\ jobs' = jobs + 1 /\ jobs < MaxJobs
      /\ answer' = [answer EXCEPT ![p] = {}]
      /\ fresh' = [fresh EXCEPT ![p] = Loaded = last /\ File!Closed]
  BY DEF Begin
<1>5. Shapes'
  BY <1>2, <1>3, <1>4, FileKept, BoundAssumption DEF ListInv, Shapes, Steps
<1>6. TaskOK(p)'
  <2>1. at'[p] = "open" /\ view'[p] = new /\ choice'[p] = {} /\ end'[p] = NoEnd /\ job'[p] = j
    BY <1>3 DEF OfTasks, ListInv, Shapes
  <2>2. Sound(view[p])'
    BY <1>2, <1>4, <2>1, FileKept DEF Sound
  <2>3. Holds(p)'
    BY <1>3, <2>1 DEF Holds, Resolving
  <2>4. Refused(p)'
    BY <2>1 DEF Refused, NoEnd, Failed
  <2> QED
    BY <2>2, <2>3, <2>4 DEF TaskOK
<1> QED
  BY <1>3, <1>4, <1>5, <1>6, FileKept, OwnTask, SameFile

LEMMA ResolveList ==
    ASSUME ListInv, OfTasks, OfTasks', NEW p \in Procs, NEW j \in Jobs, Begin(p), Resolve(p, j),
           job' = [job EXCEPT ![p] = j]
    PROVE  ListInv'
<1> DEFINE l == Loaded
           saved == KeysOf(j.symbol, j.chain) \cap DOMAIN l.aliases
           tokensOf == {Token(l.aliases[k]) : k \in saved}
           Begun ==
             /\ at'[p] \in {"idle", "choose", "check", "search"} /\ at' \in [Procs -> Steps]
             /\ \A q \in Procs \ {p} : at'[q] = at[q] /\ choice'[q] = choice[q] /\ end'[q] = end[q]
             /\ end'[p] # Failed("mismatch")
             /\ at'[p] \in {"choose", "check"} => choice'[p] \subseteq DOMAIN l.aliases
             /\ at'[p] = "check" \/ (at'[p] = "search" /\ j.cex) => coins # NoList
<1>1. l \in Lists /\ Sound(l)
  BY LoadedShape
<1>2. /\ UNCHANGED <<fileVars, coins, last>> /\ jobs' = jobs + 1 /\ jobs < MaxJobs
      /\ answer' = [answer EXCEPT ![p] = {}]
      /\ fresh' = [fresh EXCEPT ![p] = Loaded = last /\ File!Closed]
  BY DEF Begin
<1>3. /\ view' = [view EXCEPT ![p] = l] /\ j.kind = "resolve"
      /\ meant' = [meant EXCEPT ![p] = tokensOf]
  BY DEF Resolve
<1>4. tokensOf \subseteq Tokens
  <2> HIDE DEF l
  <2> QED
    BY <1>1, TokensMeant
<1>5. Begun
  <2>0. at \in [Procs -> Steps]
    BY DEF ListInv, Shapes
  <2> HIDE DEF l
  <2> USE DEF Goto, Finish, Pending, NoEnd, Failed, Used, OfTasks, Steps
  <2>1. CASE Cardinality(saved) > 1 /\ Finish(p, Failed("ambiguous")) /\ UNCHANGED choice
    BY <2>0, <2>1
  <2>2. CASE Goto(p, "choose") /\ choice' = [choice EXCEPT ![p] = saved] /\ Pending(p)
    BY <2>0, <2>2
  <2>3. ASSUME NEW k \in saved, saved = {k}, UseBinding(p, k, l, j)
        PROVE  Begun
    BY <2>0, <2>3 DEF UseBinding
  <2>4. CASE /\ Finish(p, Used("unchecked", [net |-> j.chain, contract |-> Native]))
             /\ UNCHANGED choice
    BY <2>0, <2>4
  <2>5. CASE /\ saved = {} /\ ~(j.cex /\ coins = NoList)
             /\ Goto(p, "search") /\ Pending(p) /\ UNCHANGED choice
    BY <2>0, <2>5
  <2> HIDE DEF Goto, Finish, Pending, NoEnd, Failed, Used, OfTasks, saved, Begun
  <2> QED
    BY <2>1, <2>2, <2>3, <2>4, <2>5 DEF Resolve, l, saved
<1> HIDE DEF l, saved, tokensOf
<1>6. Shapes'
  <2>1. Shapes /\ at' \in [Procs -> Steps] /\ l \in Lists
    BY <1>1, <1>5 DEF ListInv
  <2>2. jobs' \in 0..MaxJobs
    BY <1>2, <2>1, BoundAssumption DEF Shapes
  <2>3. meant' \in [Procs -> SUBSET Tokens] /\ answer' \in [Procs -> SUBSET Tokens]
    BY <1>2, <1>3, <1>4, <2>1 DEF Shapes
  <2>4. view' \in [Procs -> Lists] /\ fresh' \in [Procs -> BOOLEAN]
    BY <1>2, <1>3, <2>1 DEF Shapes
  <2> QED
    BY <1>2, <2>1, <2>2, <2>3, <2>4, FileKept DEF Shapes
<1>7. TaskOK(p)'
  <2>1. view'[p] = l /\ job'[p] = j /\ UNCHANGED coins
    BY <1>2, <1>3 DEF OfTasks, ListInv, Shapes
  <2>2. Sound(view[p])'
    BY <1>1, <1>2, <2>1, FileKept DEF Sound
  <2>3. Holds(p)'
    BY <1>3, <1>5, <2>1 DEF Holds, Resolving
  <2>4. Refused(p)'
    BY <1>5 DEF Refused
  <2> QED
    BY <2>2, <2>3, <2>4 DEF TaskOK
<1>8. \A q \in Procs \ {p} : view'[q] = view[q] /\ job'[q] = job[q]
  BY <1>3 DEF ListInv, Shapes
<1> QED
  BY <1>2, <1>5, <1>6, <1>7, <1>8, FileKept, OwnTask, SameFile

-----------------------------------------------------------------------------
(* A step between the load and the save: the file and the copies stay.     *)
LEMMA AskingStep ==
    ASSUME ListInv, OfTasks, NEW p \in Procs,
           UNCHANGED <<fileVars, coins, jobs, job, view, last, fresh>>,
           NEW to \in Steps, Goto(p, to),
           \A q \in Procs \ {p} : choice'[q] = choice[q] /\ end'[q] = end[q],
           meant' \in [Procs -> SUBSET Tokens], answer' \in [Procs -> SUBSET Tokens],
           Holds(p)', Refused(p)'
    PROVE  ListInv'
<1>1. at' = [at EXCEPT ![p] = to]
  BY DEF Goto
<1>2. \A q \in Procs \ {p} : at'[q] = at[q] /\ job'[q] = job[q] /\ view'[q] = view[q]
  BY <1>1 DEF OfTasks
<1>3. Shapes'
  BY <1>1, FileKept DEF ListInv, Shapes
<1>4. Sound(view[p])'
  BY FileKept DEF ListInv, TaskOK, Sound
<1>5. TaskOK(p)'
  BY <1>4 DEF TaskOK
<1> QED
  BY <1>2, <1>3, <1>5, FileKept, OwnTask, SameFile

(* A step that only ends, or leaves, what the command does.                *)
LEMMA StopsAsking ==
    ASSUME ListInv, OfTasks, OfTasks', NEW p \in Procs,
           UNCHANGED <<fileVars, coins, jobs, job, view, choice, last, fresh, answer>>,
           meant' \in [Procs -> SUBSET Tokens],
           NEW how, how # Failed("mismatch"), Finish(p, how)
    PROVE  ListInv'
<1>1. Goto(p, "idle") /\ end' = [end EXCEPT ![p] = how]
  BY DEF Finish
<1>2. at'[p] = "idle" /\ end'[p] = how
  BY <1>1 DEF OfTasks, Goto
<1>3. Holds(p)' /\ Refused(p)'
  BY <1>2 DEF Holds, Refused, Resolving
<1>4. \A q \in Procs \ {p} : choice'[q] = choice[q] /\ end'[q] = end[q]
  BY <1>1 DEF OfTasks
<1>5. answer' \in [Procs -> SUBSET Tokens] /\ "idle" \in Steps
  BY DEF ListInv, Shapes, Steps
<1> QED
  BY <1>1, <1>3, <1>4, <1>5, AskingStep

LEMMA ListChooses ==
    ASSUME ListInv, OfTasks, OfTasks', NEW p \in Procs, ChooseBinding(p)
    PROVE  ListInv'
<1>1. /\ at[p] = "choose" /\ job[p].kind = "resolve"
      /\ choice[p] \subseteq DOMAIN view[p].aliases
      /\ view[p] \in Lists /\ answer \in [Procs -> SUBSET Tokens]
      /\ meant \in [Procs -> SUBSET Tokens]
  BY DEF ChooseBinding, ListInv, Shapes, TaskOK, Holds, Resolving
<1>2. UNCHANGED <<fileVars, coins, jobs, job, view, meant, last, fresh>>
  BY DEF ChooseBinding
<1>3. ASSUME NEW why \in {"ambiguous", "cancelled"}, Finish(p, Failed(why)),
             UNCHANGED <<choice, answer>>
      PROVE  ListInv'
  <2>1. Failed(why) # Failed("mismatch")
    BY DEF Failed
  <2> QED
    BY <1>1, <1>2, <1>3, <2>1, StopsAsking
<1>4. ASSUME NEW k \in choice[p], UseBinding(p, k, view[p], job[p]),
             answer' = [answer EXCEPT ![p] = {Token(view[p].aliases[k])}]
      PROVE  ListInv'
  <2>1. Token(view[p].aliases[k]) \in Tokens
    BY <1>1, TokensMeant
  <2>2. answer' \in [Procs -> SUBSET Tokens]
    BY <1>1, <1>4, <2>1
  <2>3. CASE job[p].cex /\ coins # NoList
    <3>1. /\ Goto(p, "check") /\ choice' = [choice EXCEPT ![p] = {k}]
          /\ end' = [end EXCEPT ![p] = NoEnd]
      BY <1>4, <2>3 DEF UseBinding, Pending
    <3>2. at'[p] = "check" /\ choice'[p] = {k} /\ end'[p] = NoEnd
      BY <3>1 DEF OfTasks, Goto
    <3>3. Holds(p)' /\ Refused(p)'
      BY <1>1, <1>2, <2>3, <3>2 DEF Holds, Refused, Resolving, NoEnd, Failed
    <3>4. \A q \in Procs \ {p} : choice'[q] = choice[q] /\ end'[q] = end[q]
      BY <3>1 DEF OfTasks
    <3> QED
      BY <1>1, <1>2, <2>2, <3>1, <3>3, <3>4, AskingStep DEF Steps
  <2>4. CASE ~(job[p].cex /\ coins # NoList)
    <3>1. /\ Goto(p, "idle") /\ choice' = [choice EXCEPT ![p] = {}]
          /\ end' = [end EXCEPT ![p] = Used("binding", Token(view[p].aliases[k]))]
      BY <1>4, <2>4 DEF UseBinding, Finish
    <3>2. at'[p] = "idle" /\ choice'[p] = {} /\ end'[p] # Failed("mismatch")
      BY <3>1 DEF OfTasks, Goto, Used, Failed
    <3>3. Holds(p)' /\ Refused(p)'
      BY <3>2 DEF Holds, Refused, Resolving
    <3>4. \A q \in Procs \ {p} : choice'[q] = choice[q] /\ end'[q] = end[q]
      BY <3>1 DEF OfTasks
    <3> QED
      BY <1>1, <1>2, <2>2, <3>1, <3>3, <3>4, AskingStep DEF Steps
  <2> QED
    BY <2>3, <2>4
<1> QED
  BY <1>3, <1>4 DEF ChooseBinding

LEMMA ListChecks ==
    ASSUME ListInv, OfTasks, OfTasks', NEW p \in Procs, CheckBinding(p)
    PROVE  ListInv'
<1>1. /\ at[p] = "check" /\ choice[p] \subseteq DOMAIN view[p].aliases
      /\ view[p] \in Lists /\ Sound(view[p])
      /\ answer \in [Procs -> SUBSET Tokens] /\ meant \in [Procs -> SUBSET Tokens]
      /\ coins \in CoinLists \union {NoList} /\ coins # NoList
  BY DEF CheckBinding, ListInv, Shapes, TaskOK, Holds
<1>2. UNCHANGED <<fileVars, coins, jobs, job, view, choice, meant, answer, last, fresh>>
  BY DEF CheckBinding
<1>3. PICK k \in choice[p] :
        \/ Finish(p, Used("binding", Token(view[p].aliases[k])))
        \/ Finish(p, IF Contradicted(view[p].aliases[k]) THEN Failed("mismatch")
                     ELSE Used("binding", Token(view[p].aliases[k])))
  BY DEF CheckBinding
<1>4. CASE Finish(p, Used("binding", Token(view[p].aliases[k])))
  <2>1. Used("binding", Token(view[p].aliases[k])) # Failed("mismatch")
    BY DEF Used, Failed
  <2> QED
    BY <1>1, <1>2, <1>4, <2>1, StopsAsking
<1>5. CASE Contradicted(view[p].aliases[k]) /\ Finish(p, Failed("mismatch"))
  <2>1. mixed \/ view[p].aliases[k].venue # Venue \/ SeveralListed(k, coins)
    BY <1>1, <1>5, CoinsMeant, TwoContracts DEF SeveralListed, Sound
  <2>2. Goto(p, "idle") /\ end' = [end EXCEPT ![p] = Failed("mismatch")]
    BY <1>5 DEF Finish
  <2>3. at'[p] = "idle"
    BY <2>2 DEF OfTasks, Goto
  <2>4. Holds(p)'
    BY <2>3 DEF Holds, Resolving
  <2>5. Refused(p)'
    BY <1>2, <2>1, <2>3, FileKept DEF Refused, SeveralListed
  <2>6. \A q \in Procs \ {p} : choice'[q] = choice[q] /\ end'[q] = end[q]
    BY <1>2, <2>2 DEF OfTasks
  <2> QED
    BY <1>1, <1>2, <2>2, <2>4, <2>5, <2>6, AskingStep DEF Steps
<1> QED
  BY <1>3, <1>4, <1>5

(* What is found can be meant.                                             *)
LEMMA FoundMeant ==
    ASSUME NEW j, coins \in CoinLists \union {NoList}, j.cex => coins # NoList,
           NEW found \in Lookups(j)
    PROVE  found \subseteq Candidates /\ (j.cex => found \subseteq ToSet(coins))
<1>1. CASE j.cex
  BY <1>1, CoinsMeant DEF Lookups
<1>2. CASE ~j.cex
  BY <1>2, FoundAssumption DEF Lookups
<1> QED
  BY <1>1, <1>2

(* A task has a token, and saves it or ends.                               *)
LEMMA HasToken ==
    ASSUME ListInv, OfTasks, OfTasks', NEW p \in Procs,
           UNCHANGED <<fileVars, coins, jobs, job, view, last, fresh>>,
           job[p].kind = "resolve", NEW c \in Candidates, job[p].cex => c \in ToSet(coins),
           choice' = [choice EXCEPT ![p] = {c}], NEW to \in {"open", "confirm"}, Goto(p, to),
           NEW source, end' = [end EXCEPT ![p] = Used(source, c)],
           meant' \in [Procs -> SUBSET Tokens], answer' \in [Procs -> SUBSET Tokens]
    PROVE  ListInv'
<1>1. at'[p] = to /\ choice'[p] = {c} /\ end'[p] = Used(source, c)
  BY DEF OfTasks, Goto
<1>2. Holds(p)'
  BY <1>1 DEF Holds, Resolving
<1>3. Refused(p)'
  BY <1>1 DEF Refused, Used, Failed
<1>4. \A q \in Procs \ {p} : choice'[q] = choice[q] /\ end'[q] = end[q]
  BY DEF OfTasks
<1> QED
  BY <1>2, <1>3, <1>4, AskingStep DEF Steps

LEMMA ListSearches ==
    ASSUME ListInv, OfTasks, OfTasks', NEW p \in Procs, Search(p)
    PROVE  ListInv'
<1>1. /\ at[p] = "search" /\ job[p].kind = "resolve" /\ (job[p].cex => coins # NoList)
      /\ end[p] # Failed("mismatch") /\ coins \in CoinLists \union {NoList}
      /\ answer \in [Procs -> SUBSET Tokens] /\ meant \in [Procs -> SUBSET Tokens]
  BY DEF Search, ListInv, Shapes, TaskOK, Holds, Refused, Resolving
<1>2. UNCHANGED <<fileVars, coins, jobs, job, view, answer, last, fresh>>
  BY DEF Search
<1>3. CASE Finish(p, Failed("network")) /\ UNCHANGED <<choice, meant>>
  <2>1. Failed("network") # Failed("mismatch")
    BY DEF Failed
  <2> QED
    BY <1>1, <1>2, <1>3, <2>1, StopsAsking
<1>4. ASSUME NEW found \in Lookups(job[p]), meant' = [meant EXCEPT ![p] = found],
             \/ found = {} /\ Finish(p, Failed("not found")) /\ UNCHANGED choice
             \/ \E c \in found :
                   /\ found = {c} /\ end' = [end EXCEPT ![p] = Used("single", c)]
                   /\ IF job[p].save THEN Save(p, c) ELSE Goto(p, "idle") /\ UNCHANGED choice
             \/ Finish(p, Failed("ambiguous")) /\ UNCHANGED choice
             \/ Goto(p, "pick") /\ choice' = [choice EXCEPT ![p] = found] /\ UNCHANGED end
      PROVE  ListInv'
  <2>1. found \subseteq Candidates /\ (job[p].cex => found \subseteq ToSet(coins))
    BY <1>1, FoundMeant
  <2>2. meant' \in [Procs -> SUBSET Tokens] /\ answer' \in [Procs -> SUBSET Tokens]
    BY <1>1, <1>2, <1>4, <2>1, CandidatesMeant
  <2>3. ASSUME NEW why \in {"not found", "ambiguous"}, Finish(p, Failed(why)), UNCHANGED choice
        PROVE  ListInv'
    <3>1. Failed(why) # Failed("mismatch")
      BY DEF Failed
    <3> QED
      BY <1>2, <2>2, <2>3, <3>1, StopsAsking
  <2>4. ASSUME NEW c \in found, end' = [end EXCEPT ![p] = Used("single", c)], Save(p, c)
        PROVE  ListInv'
    <3>1. c \in Candidates /\ (job[p].cex => c \in ToSet(coins))
      BY <2>1
    <3>2. Goto(p, "open") /\ choice' = [choice EXCEPT ![p] = {c}]
      BY <2>4 DEF Save
    <3> QED
      BY <1>1, <1>2, <2>2, <2>4, <3>1, <3>2, HasToken
  <2>5. ASSUME NEW c \in found, end' = [end EXCEPT ![p] = Used("single", c)], Goto(p, "idle"),
               UNCHANGED choice
        PROVE  ListInv'
    <3>1. Used("single", c) # Failed("mismatch") /\ Finish(p, Used("single", c))
      BY <2>5 DEF Used, Failed, Finish
    <3> QED
      BY <1>2, <2>2, <2>5, <3>1, StopsAsking
  <2>6. CASE Goto(p, "pick") /\ choice' = [choice EXCEPT ![p] = found] /\ UNCHANGED end
    <3>1. at'[p] = "pick" /\ choice'[p] = found /\ end'[p] = end[p]
      BY <2>6 DEF OfTasks, Goto
    <3>2. Holds(p)'
      BY <1>1, <1>2, <2>1, <3>1 DEF Holds, Resolving
    <3>3. Refused(p)'
      BY <1>1, <3>1 DEF Refused, Failed
    <3>4. \A q \in Procs \ {p} : choice'[q] = choice[q] /\ end'[q] = end[q]
      BY <2>6 DEF OfTasks
    <3> QED
      BY <1>2, <2>2, <2>6, <3>2, <3>3, <3>4, AskingStep DEF Steps
  <2> QED
    BY <1>4, <2>3, <2>4, <2>5, <2>6
<1> QED
  BY <1>3, <1>4 DEF Search

LEMMA ListPicks ==
    ASSUME ListInv, OfTasks, OfTasks', NEW p \in Procs, Pick(p)
    PROVE  ListInv'
<1>1. /\ at[p] = "pick" /\ job[p].kind = "resolve" /\ choice[p] \subseteq Candidates
      /\ job[p].cex => choice[p] \subseteq ToSet(coins)
      /\ answer \in [Procs -> SUBSET Tokens] /\ meant \in [Procs -> SUBSET Tokens]
  BY DEF Pick, ListInv, Shapes, TaskOK, Holds, Resolving
<1>2. UNCHANGED <<fileVars, coins, jobs, job, view, meant, last, fresh>>
  BY DEF Pick
<1>3. ASSUME NEW why \in {"ambiguous", "cancelled"}, Finish(p, Failed(why)),
             UNCHANGED <<choice, answer>>
      PROVE  ListInv'
  <2>1. Failed(why) # Failed("mismatch")
    BY DEF Failed
  <2> QED
    BY <1>1, <1>2, <1>3, <2>1, StopsAsking
<1>4. ASSUME NEW c \in choice[p], answer' = [answer EXCEPT ![p] = {c}],
             end' = [end EXCEPT ![p] = Used("picked", c)], choice' = [choice EXCEPT ![p] = {c}],
             NEW to \in {"open", "confirm"}, Goto(p, to)
      PROVE  ListInv'
  <2>1. c \in Candidates /\ (job[p].cex => c \in ToSet(coins))
    BY <1>1
  <2>2. answer' \in [Procs -> SUBSET Tokens]
    BY <1>1, <1>4, <2>1, CandidatesMeant
  <2> QED
    BY <1>1, <1>2, <1>4, <2>1, <2>2, HasToken
<1> QED
  BY <1>3, <1>4 DEF Pick

(* The save question and the death of a task change where it is, no more.  *)
LEMMA ListConfirms ==
    ASSUME ListInv, OfTasks, OfTasks', NEW p \in Procs, Confirm(p)
    PROVE  ListInv'
<1>1. /\ at[p] = "confirm" /\ Holds(p) /\ Refused(p) /\ job[p].kind = "resolve"
      /\ answer \in [Procs -> SUBSET Tokens] /\ meant \in [Procs -> SUBSET Tokens]
  BY DEF Confirm, ListInv, Shapes, TaskOK, Holds, Resolving
<1>2. UNCHANGED <<fileVars, coins, jobs, job, view, choice, end, meant, answer, last, fresh>>
  BY DEF Confirm
<1>3. PICK to \in {"open", "idle"} : Goto(p, to)
  BY DEF Confirm
<1>4. at'[p] = to
  BY <1>3 DEF OfTasks, Goto
<1>5. Holds(p)'
  BY <1>1, <1>2, <1>4 DEF Holds, Resolving
<1>6. Refused(p)'
  BY <1>1, <1>2, <1>4, FileKept DEF Refused, SeveralListed
<1> QED
  BY <1>1, <1>2, <1>3, <1>5, <1>6, AskingStep DEF Steps

LEMMA ListQuits ==
    ASSUME ListInv, OfTasks, OfTasks', NEW p \in Procs, Quit(p)
    PROVE  ListInv'
<1>1. answer \in [Procs -> SUBSET Tokens] /\ meant \in [Procs -> SUBSET Tokens]
  BY DEF ListInv, Shapes
<1>2. UNCHANGED <<fileVars, coins, jobs, job, view, choice, meant, answer, last, fresh>>
  BY DEF Quit
<1>3. Finish(p, NoEnd) /\ NoEnd # Failed("mismatch")
  BY DEF Quit, NoEnd, Failed
<1> QED
  BY <1>1, <1>2, <1>3, StopsAsking

-----------------------------------------------------------------------------
(* The save.                                                               *)
LEMMA ListOpens ==
    ASSUME ListInv, OfTasks, OfTasks', NEW p \in Procs, OpenList(p)
    PROVE  ListInv'
<1>1. /\ at[p] = "open" /\ Holds(p) /\ Refused(p) /\ Sound(view[p])
      /\ view \in [Procs -> Lists] /\ job[p] \in Jobs \union {Idle}
  BY DEF OpenList, ListInv, Shapes, TaskOK
<1>2. UNCHANGED <<coins, jobs, job, choice, end, meant, answer, last>>
  BY DEF OpenList
<1>3. PICK new : /\ view' = [view EXCEPT ![p] = new] /\ new \in Lists
                 /\ Sound(new)
  <2>1. CASE job[p].kind # "resolve"
    <3>1. view' = [view EXCEPT ![p] = view[p]]
      BY <2>1 DEF OpenList
    <3> QED
      BY <1>1, <3>1
  <2>2. CASE job[p].kind = "resolve"
    <3>1. PICK c \in Candidates : choice[p] = {c} /\ (job[p].cex => c \in ToSet(coins))
      BY <1>1, <2>2 DEF Holds
    <3>2. (CHOOSE d \in choice[p] : TRUE) = c
      BY <3>1
    <3> DEFINE b == Choice(job[p], c)
    <3>3. view' = [view EXCEPT ![p] = Bound(@, b[1], b[2])]
      BY <2>2, <3>2 DEF OpenList
    <3>4. job[p] \in Jobs
      BY <1>1, <2>2, JobShapes
    <3>5. /\ b[1] \in Keys /\ Info(b[1], b[2]) \in Bindings
          /\ b[2].venue = Venue =>
                \E d \in ToSet(coins) : ChainOf[d.net] = b[1][2] /\ d.contract = b[2].contract
      BY <2>2, <3>1, <3>4, ChoiceShape
    <3> HIDE DEF b
    <3>6. /\ Bound(view[p], b[1], b[2]) \in Lists
          /\ Agree(view[p]) => Agree(Bound(view[p], b[1], b[2]))
      BY <1>1, <3>5, BoundKeeps
    <3>7. FromVenue(view[p], coins) => FromVenue(Bound(view[p], b[1], b[2]), coins)
      BY <1>1, <3>5, BoundFromVenue
    <3>8. Sound(Bound(view[p], b[1], b[2]))
      BY <1>1, <3>6, <3>7 DEF Sound
    <3>9. view' = [view EXCEPT ![p] = Bound(view[p], b[1], b[2])]
      BY <1>1, <3>3
    <3> QED
      BY <3>6, <3>8, <3>9
  <2> QED
    BY <2>1, <2>2
<1>4. PICK to \in {"write", "idle"} :
          /\ at' = [at EXCEPT ![p] = to]
          /\ \/ File!Open(p) /\ fresh' = Others(p)
             \/ UNCHANGED <<fileVars, fresh>>
  BY DEF OpenList, Goto
<1>5. /\ tokens' = Broken \/ tokens' = tokens
      /\ UNCHANGED mixed /\ (texts' = {} \/ texts' = texts)
  BY <1>4, FileKept DEF File!Open
<1>6. Shapes'
  <2>1. Shapes
    BY DEF ListInv
  <2>2. pen' \in [Procs -> File!Pens] /\ fresh' \in [Procs -> BOOLEAN]
    <3>1. CASE File!Open(p) /\ fresh' = Others(p)
      BY <2>1, <3>1 DEF Shapes, File!Open, File!Pens, Others
    <3>2. CASE UNCHANGED <<fileVars, fresh>>
      BY <2>1, <3>2, FileKept DEF Shapes
    <3> QED
      BY <1>4, <3>1, <3>2
  <2>3. tokens' \in Lists \union {Absent, Broken} /\ view' \in [Procs -> Lists]
    BY <1>3, <1>5, <2>1 DEF Shapes
  <2>4. at' \in [Procs -> Steps]
    BY <1>4, <2>1 DEF Shapes, Steps
  <2> QED
    BY <1>2, <1>5, <2>1, <2>2, <2>3, <2>4 DEF Shapes
<1>7. TaskOK(p)'
  <2>1. view'[p] = new /\ at'[p] = to
    BY <1>3, <1>4 DEF OfTasks
  <2>2. Sound(view[p])'
    BY <1>2, <1>3, <1>5, <2>1 DEF Sound
  <2>3. Holds(p)'
    BY <1>1, <1>2, <2>1 DEF Holds, Resolving
  <2>4. Refused(p)'
    BY <1>1, <1>2 DEF Refused
  <2> QED
    BY <2>2, <2>3, <2>4 DEF TaskOK
<1>8. FileOK'
  <2>1. CASE tokens' = Broken
    BY <2>1 DEF FileOK
  <2>2. CASE tokens' = tokens
    BY <1>2, <1>5, <2>2, SameFile
  <2> QED
    BY <1>5, <2>1, <2>2
<1>9. \A q \in Procs \ {p} : at'[q] = at[q] /\ view'[q] = view[q]
  BY <1>3, <1>4 DEF OfTasks
<1> QED
  BY <1>2, <1>5, <1>6, <1>7, <1>8, <1>9, OwnTask

(* What a write leaves: the copy, a part of it, what does not parse, or a  *)
(* text made of two.                                                       *)
LEMMA ListWrites ==
    ASSUME ListInv, OfTasks, OfTasks', NEW p \in Procs, WriteList(p) \/ TearList(p)
    PROVE  ListInv'
<1>1. /\ at[p] = "write" /\ Holds(p) /\ Refused(p) /\ Sound(view[p])
      /\ view[p] \in Lists /\ texts \subseteq Lists
  BY DEF WriteList, TearList, ListInv, Shapes, TaskOK
<1> DEFINE lost == UNION {Overrun(view[p], m) : m \in texts}
           torn == UNION {Patched(view[p], m) : m \in texts}
           parts == Parts(view[p])
<1>2. UNCHANGED <<coins, jobs, job, view, choice, end, meant, answer>>
      /\ at' = [at EXCEPT ![p] = "idle"] /\ fresh' = Others(p)
  BY DEF WriteList, TearList, Goto
<1>3. \A blend \in lost \union torn : blend \in Lists
  <2>1. ASSUME NEW m \in texts, NEW blend \in Overrun(view[p], m) \union Patched(view[p], m)
        PROVE  blend \in Lists
    BY <1>1, BlendsAreLists
  <2> QED
    BY <2>1
<1>4. \A part \in parts : part \in Lists /\ (Sound(view[p]) => Sound(part))
  <2>1. ASSUME NEW part \in parts
        PROVE  part \in Lists /\ (Sound(view[p]) => Sound(part))
    <3>1. /\ part \in Lists /\ (Agree(view[p]) => Agree(part))
          /\ DOMAIN part.aliases \subseteq DOMAIN view[p].aliases
          /\ \A x \in DOMAIN part.aliases :
                part.aliases[x] = view[p].aliases[x] \/ part.aliases[x].venue # Venue
      BY <1>1, PartsKeep
    <3>2. FromVenue(view[p], coins) => FromVenue(part, coins)
      BY <3>1, FewerFromVenue
    <3> QED
      BY <3>1, <3>2 DEF Sound
  <2> QED
    BY <2>1
<1>5. PICK written \in SUBSET {view[p]} :
          /\ File!Lift(p, written)
          /\ \/ File!Alone({view[p]}) \/ File!Alone({Broken}) \/ File!Alone(parts \union {Broken})
             \/ File!Joined(lost) \/ File!Joined(torn)
  <2>1. CASE File!Write(p, view[p], lost)
    <3> HIDE DEF lost, torn, parts
    <3> QED
      BY <2>1 DEF File!Write
  <2>2. CASE File!Tear(p, parts, torn)
    <3> HIDE DEF lost, torn, parts
    <3> QED
      BY <2>2 DEF File!Tear
  <2> QED
    BY <2>1, <2>2 DEF WriteList, TearList
<1> HIDE DEF lost, torn, parts
<1>6. \/ tokens' = Broken /\ UNCHANGED mixed
      \/ tokens' \in Lists /\ Sound(tokens') /\ UNCHANGED mixed
      \/ tokens' \in Lists /\ mixed' = TRUE
  <2>1. CASE File!Alone({view[p]}) \/ File!Alone({Broken})
    BY <1>1, <2>1 DEF File!Alone
  <2>2. CASE File!Alone(parts \union {Broken})
    BY <1>1, <1>4, <2>2 DEF File!Alone
  <2>3. CASE File!Joined(lost) \/ File!Joined(torn)
    BY <1>3, <2>3 DEF File!Joined
  <2> QED
    BY <1>5, <2>1, <2>2, <2>3
<1>7. /\ pen' = [pen EXCEPT ![p] = "up"]
      /\ texts' \subseteq texts \union {view[p]} \union ({tokens'} \ {Broken})
  BY <1>5 DEF File!Lift
<1>8. last' = last \/ (last' = tokens' /\ tokens' # Broken)
  BY DEF WriteList, TearList
<1>9. Shapes'
  <2>1. Shapes
    BY DEF ListInv
  <2>2. pen' \in [Procs -> File!Pens]
    BY <1>7, <2>1 DEF Shapes, File!Pens
  <2>3. tokens' \in Lists \union {Absent, Broken} /\ last' \in Lists /\ mixed' \in BOOLEAN
    BY <1>6, <1>8, <2>1 DEF Shapes
  <2>4. texts' \subseteq Lists
    BY <1>1, <1>6, <1>7
  <2>5. at' \in [Procs -> Steps] /\ fresh' \in [Procs -> BOOLEAN]
    BY <1>2, <2>1 DEF Shapes, Steps, Others
  <2> QED
    BY <1>2, <2>1, <2>2, <2>3, <2>4, <2>5 DEF Shapes
<1>10. TaskOK(p)'
  <2>1. at'[p] = "idle"
    BY <1>2 DEF OfTasks
  <2>2. Sound(view[p])'
    BY <1>1, <1>2, <1>6 DEF Sound
  <2>3. Holds(p)'
    BY <2>1 DEF Holds, Resolving
  <2>4. Refused(p)'
    BY <1>1, <1>2, <1>6, <2>1 DEF Refused
  <2> QED
    BY <2>2, <2>3, <2>4 DEF TaskOK
<1>11. FileOK'
  <2>1. CASE tokens' = Broken \/ mixed' = TRUE
    BY <2>1 DEF FileOK, Sound
  <2>2. CASE Sound(tokens') /\ UNCHANGED mixed
    <3>1. Sound(tokens)'
      BY <1>2, <2>2 DEF Sound, Agree, Entry, FromVenue
    <3> QED
      BY <3>1 DEF FileOK
  <2> QED
    BY <1>6, <2>1, <2>2
<1>12. \A q \in Procs \ {p} : at'[q] = at[q]
  BY <1>2 DEF OfTasks
<1> QED
  BY <1>2, <1>6, <1>9, <1>10, <1>11, <1>12, OwnTask

LEMMA ListStep ==
    ASSUME ListInv, OfTasks, OfTasks', NEW p \in Procs, Step(p)
    PROVE  ListInv'
<1>1. CASE Begin(p)
  <2>1. PICK j \in Jobs : job' = [job EXCEPT ![p] = j] /\ (Edit(p, j) \/ Resolve(p, j))
    BY <1>1 DEF Begin
  <2> QED
    BY <1>1, <2>1, EditList, ResolveList
<1> QED
  BY <1>1, ListChooses, ListChecks, ListSearches, ListPicks, ListConfirms, ListOpens,
     ListWrites, ListQuits DEF Step

LEMMA ListInit == HomeInit => ListInv
<1> SUFFICES ASSUME HomeInit PROVE ListInv
  OBVIOUS
<1>1. Empty \in Lists /\ Sound(Empty)
  BY EmptyKeeps DEF FromVenue, Sound
<1>2. Shapes
  <2>1. Init /\ 0 \in 0..MaxJobs
    BY BoundAssumption DEF HomeInit
  <2>2. /\ pen \in [Procs -> File!Pens] /\ at \in [Procs -> Steps]
        /\ fresh \in [Procs -> BOOLEAN] /\ job \in [Procs -> Jobs \union {Idle}]
    BY <2>1 DEF Init, File!Pens, Steps
  <2>3. view \in [Procs -> Lists] /\ last \in Lists
    BY <1>1, <2>1 DEF Init
  <2>4. meant \in [Procs -> SUBSET Tokens] /\ answer \in [Procs -> SUBSET Tokens]
    BY <2>1 DEF Init
  <2>5. /\ tokens \in Lists \union {Absent, Broken} /\ texts \subseteq Lists
        /\ mixed \in BOOLEAN /\ coins \in CoinLists \union {NoList} /\ jobs \in 0..MaxJobs
    BY <2>1 DEF Init
  <2> QED
    BY <2>2, <2>3, <2>4, <2>5 DEF Shapes
<1>3. ASSUME NEW p \in Procs PROVE TaskOK(p)
  <2>1. at[p] = "idle" /\ end[p] = NoEnd /\ view[p] = Empty
    BY DEF HomeInit, Init
  <2> QED
    BY <1>1, <2>1 DEF TaskOK, Holds, Refused, Resolving, NoEnd, Failed
<1> QED
  BY <1>2, <1>3 DEF HomeInit, Init, ListInv, FileOK

-----------------------------------------------------------------------------
(* The copy of a task that no save has overlapped: what it loaded, but for *)
(* the entries its command is about.                                       *)
CopyOK(p) ==
    fresh[p] /\ at[p] # "idle" =>
        IF job[p].kind = "resolve" /\ at[p] # "write" THEN view[p] = last
        ELSE \A k \in Keys \ Own(job[p], CHOOSE c \in choice[p] : TRUE) :
                 Entry(view[p], k) = Entry(last, k)

CopyInv == \A p \in Procs : CopyOK(p)

LEMMA OwnBound ==
    ASSUME NEW l \in Lists, NEW key \in Keys, NEW b, Info(key, b) \in Bindings,
           NEW k \in Keys \ {key}
    PROVE  Entry(Bound(l, key, b), k) = Entry(l, k)
<1> DEFINE new == Bound(l, key, b)
<1>1. /\ DOMAIN new.aliases = DOMAIN l.aliases \union {key}
      /\ \A x \in DOMAIN l.aliases : x # key => new.aliases[x] = l.aliases[x]
  BY BoundKeeps
<1> HIDE DEF new
<1>2. Entry(new, k) = Entry(l, k)
  BY <1>1 DEF Entry
<1> QED
  BY <1>2 DEF new

LEMMA OwnUnbound ==
    ASSUME NEW l \in Lists, NEW keys, NEW k \in Keys \ keys
    PROVE  Entry(Unbound(l, keys), k) = Entry(l, k)
<1> DEFINE new == Unbound(l, keys)
<1>1. /\ DOMAIN new.aliases = DOMAIN l.aliases \ keys
      /\ \A x \in DOMAIN l.aliases \ keys : new.aliases[x] = l.aliases[x]
  BY UnboundKeeps
<1> HIDE DEF new
<1>2. Entry(new, k) = Entry(l, k)
  BY <1>1 DEF Entry
<1> QED
  BY <1>2 DEF new

(* The other tasks, when the list was not saved.                           *)
LEMMA OwnCopy ==
    ASSUME CopyInv, NEW p \in Procs, UNCHANGED last,
           \A q \in Procs \ {p} :
               /\ at'[q] = at[q] /\ job'[q] = job[q] /\ view'[q] = view[q]
               /\ choice'[q] = choice[q] /\ (fresh'[q] => fresh[q]),
           CopyOK(p)'
    PROVE  CopyInv'
<1>1. ASSUME NEW q \in Procs \ {p} PROVE CopyOK(q)'
  <2>1. CopyOK(q)
    BY DEF CopyInv
  <2>2. /\ at'[q] = at[q] /\ job'[q] = job[q] /\ view'[q] = view[q] /\ choice'[q] = choice[q]
        /\ fresh'[q] => fresh[q]
    OBVIOUS
  <2>3. ASSUME fresh'[q], at'[q] # "idle", job'[q].kind = "resolve" /\ at'[q] # "write"
        PROVE  view'[q] = last'
    BY <2>1, <2>2, <2>3 DEF CopyOK
  <2>4. ASSUME fresh'[q], at'[q] # "idle", ~(job'[q].kind = "resolve" /\ at'[q] # "write"),
               NEW k \in Keys \ Own(job'[q], CHOOSE c \in choice'[q] : TRUE)
        PROVE  Entry(view'[q], k) = Entry(last', k)
    BY <2>1, <2>2, <2>4 DEF CopyOK
  <2> QED
    BY <2>3, <2>4 DEF CopyOK, Own, Entry
<1> QED
  BY <1>1 DEF CopyInv

LEMMA CopyBegins ==
    ASSUME ListInv, CopyInv, OfTasks, OfTasks', NEW p \in Procs, Begin(p)
    PROVE  CopyInv'
<1>1. PICK j \in Jobs : job' = [job EXCEPT ![p] = j] /\ (Edit(p, j) \/ Resolve(p, j))
  BY DEF Begin
<1>2. UNCHANGED last /\ fresh' = [fresh EXCEPT ![p] = Loaded = last /\ File!Closed]
  BY DEF Begin
<1>3. job'[p] = j /\ (fresh'[p] => Loaded = last) /\ Loaded \in Lists
  BY <1>1, <1>2, LoadedShape DEF ListInv, Shapes
<1>4. \A q \in Procs \ {p} :
           /\ at'[q] = at[q] /\ job'[q] = job[q] /\ view'[q] = view[q]
           /\ choice'[q] = choice[q] /\ (fresh'[q] => fresh[q])
  <2>1. \A q \in Procs \ {p} : job'[q] = job[q] /\ (fresh'[q] => fresh[q])
    BY <1>1, <1>2 DEF ListInv, Shapes
  <2>2. \A q \in Procs \ {p} : at'[q] = at[q] /\ view'[q] = view[q] /\ choice'[q] = choice[q]
    <3>1. CASE Edit(p, j)
      BY <3>1 DEF Edit, Goto, OfTasks
    <3>2. CASE Resolve(p, j)
      <4>1. view' = [view EXCEPT ![p] = Loaded]
        BY <3>2 DEF Resolve
      <4>2. \E where, what : at' = [at EXCEPT ![p] = where]
                             /\ (UNCHANGED choice \/ choice' = [choice EXCEPT ![p] = what])
        BY <3>2 DEF Resolve, UseBinding, Goto, Finish
      <4> QED
        BY <4>1, <4>2 DEF OfTasks
    <3> QED
      BY <1>1, <3>1, <3>2
  <2> QED
    BY <2>1, <2>2
<1>5. CopyOK(p)'
  <2>1. CASE Resolve(p, j)
    <3>1. view'[p] = Loaded /\ j.kind = "resolve"
      BY <2>1 DEF Resolve, OfTasks
    <3>2. at'[p] # "write"
      BY <2>1 DEF Resolve, UseBinding, Goto, Finish, OfTasks
    <3> QED
      BY <1>2, <1>3, <3>1, <3>2 DEF CopyOK
  <2>2. CASE Edit(p, j)
    <3>1. /\ view'[p] = IF j.kind = "add" THEN Bound(Loaded, j.key, j.to)
                        ELSE Unbound(Loaded, KeysOf(j.symbol, j.chain))
          /\ j.kind \in {"add", "remove"}
      BY <2>2 DEF Edit, OfTasks
    <3>2. ASSUME NEW c, NEW k \in Keys \ Own(j, c)
          PROVE  Entry(view'[p], k) = Entry(Loaded, k)
      <4>1. CASE j.kind = "add"
        <5>1. j.key \in Keys /\ Info(j.key, j.to) \in Bindings /\ k \in Keys \ {j.key}
          BY <3>2, <4>1, JobShapes DEF Own
        <5> QED
          BY <1>3, <3>1, <4>1, <5>1, OwnBound
      <4>2. CASE j.kind = "remove"
        <5>1. k \in Keys \ KeysOf(j.symbol, j.chain)
          BY <3>2, <4>2 DEF Own
        <5> QED
          BY <1>3, <3>1, <4>2, <5>1, OwnUnbound
      <4> QED
        BY <3>1, <4>1, <4>2
    <3>3. j.kind # "resolve"
      BY <3>1
    <3>4. ASSUME fresh'[p], NEW k \in Keys \ Own(job'[p], CHOOSE c \in choice'[p] : TRUE)
          PROVE  Entry(view'[p], k) = Entry(last', k)
      BY <1>2, <1>3, <3>2, <3>4
    <3> QED
      BY <1>3, <3>3, <3>4 DEF CopyOK, Own, Entry
  <2> QED
    BY <1>1, <2>1, <2>2
<1> QED
  BY <1>2, <1>4, <1>5, OwnCopy

LEMMA CopyOpens ==
    ASSUME ListInv, CopyInv, OfTasks, OfTasks', NEW p \in Procs, OpenList(p)
    PROVE  CopyInv'
<1>1. /\ at[p] = "open" /\ Holds(p) /\ CopyOK(p)
      /\ view \in [Procs -> Lists] /\ fresh \in [Procs -> BOOLEAN] /\ job[p] \in Jobs \union {Idle}
  BY DEF OpenList, CopyInv, ListInv, Shapes, TaskOK
<1>2. UNCHANGED <<coins, job, choice, last>>
  BY DEF OpenList
<1>3. PICK to \in {"write", "idle"} :
          /\ at' = [at EXCEPT ![p] = to]
          /\ fresh' = Others(p) \/ UNCHANGED fresh
  BY DEF OpenList, Goto
<1>4. fresh'[p] => fresh[p]
  BY <1>3 DEF Others
<1>5. ASSUME fresh[p], NEW k \in Keys \ Own(job[p], CHOOSE c \in choice[p] : TRUE)
      PROVE  Entry(view'[p], k) = Entry(last, k)
  <2>1. CASE job[p].kind # "resolve"
    <3>1. view'[p] = view[p]
      BY <1>1, <2>1 DEF OpenList
    <3> QED
      BY <1>1, <1>5, <2>1, <3>1 DEF CopyOK
  <2>2. CASE job[p].kind = "resolve"
    <3>1. view[p] = last
      BY <1>1, <1>5, <2>2 DEF CopyOK
    <3>2. PICK c \in Candidates : choice[p] = {c} /\ (job[p].cex => c \in ToSet(coins))
      BY <1>1, <2>2 DEF Holds
    <3>3. (CHOOSE d \in choice[p] : TRUE) = c
      BY <3>2
    <3> DEFINE b == Choice(job[p], c)
    <3>4. view'[p] = Bound(view[p], b[1], b[2])
      BY <1>1, <2>2, <3>3 DEF OpenList
    <3>5. b[1] \in Keys /\ Info(b[1], b[2]) \in Bindings
      <4>1. job[p] \in Jobs
        BY <1>1, <2>2, JobShapes
      <4> QED
        BY <2>2, <3>2, <4>1, ChoiceShape
    <3>6. k \in Keys \ {b[1]}
      BY <1>5, <2>2, <3>3 DEF Own, Choice
    <3> HIDE DEF b
    <3> QED
      BY <1>1, <3>1, <3>4, <3>5, <3>6, OwnBound
  <2> QED
    BY <2>1, <2>2
<1>6. CopyOK(p)'
  <2>1. at'[p] = to
    BY <1>3 DEF OfTasks
  <2>2. ASSUME fresh'[p], NEW k \in Keys \ Own(job'[p], CHOOSE c \in choice'[p] : TRUE)
        PROVE  Entry(view'[p], k) = Entry(last', k)
    BY <1>2, <1>4, <1>5, <2>2
  <2> QED
    BY <2>1, <2>2 DEF CopyOK, Own, Entry
<1>7. \A q \in Procs \ {p} :
           /\ at'[q] = at[q] /\ view'[q] = view[q] /\ (fresh'[q] => fresh[q])
  <2>1. \A q \in Procs \ {p} : at'[q] = at[q] /\ (fresh'[q] => fresh[q])
    BY <1>3 DEF OfTasks, Others
  <2>2. \A q \in Procs \ {p} : view'[q] = view[q]
    BY DEF OpenList, OfTasks
  <2> QED
    BY <2>1, <2>2
<1> QED
  BY <1>2, <1>6, <1>7, OwnCopy

(* A step between the load and the save, and the end of a save.            *)
LEMMA CopyWaits ==
    ASSUME ListInv, CopyInv, OfTasks, OfTasks', NEW p \in Procs,
           at[p] \in Resolving, UNCHANGED <<job, view, last, fresh>>,
           NEW to \in Steps \ {"write"}, Goto(p, to),
           \A q \in Procs \ {p} : choice'[q] = choice[q]
    PROVE  CopyInv'
<1>1. at'[p] = to /\ job[p].kind = "resolve" /\ CopyOK(p) /\ at[p] \notin {"idle", "write"}
  BY DEF Goto, OfTasks, CopyInv, ListInv, TaskOK, Holds, Resolving
<1>2. CopyOK(p)'
  BY <1>1 DEF CopyOK
<1>3. \A q \in Procs \ {p} : at'[q] = at[q]
  BY DEF Goto, OfTasks
<1> QED
  BY <1>2, <1>3, OwnCopy

LEMMA CopySaved ==
    ASSUME CopyInv, OfTasks, NEW p \in Procs, WriteList(p) \/ TearList(p)
    PROVE  CopyInv'
<1>1. at' = [at EXCEPT ![p] = "idle"] /\ fresh' = Others(p)
  BY DEF WriteList, TearList, Goto
<1>2. \A q \in Procs : ~(fresh'[q] /\ at'[q] # "idle")
  BY <1>1 DEF Others, OfTasks
<1> QED
  BY <1>2 DEF CopyInv, CopyOK

LEMMA CopyStep ==
    ASSUME ListInv, CopyInv, OfTasks, OfTasks', NEW p \in Procs, Step(p)
    PROVE  CopyInv'
<1> USE DEF Resolving, Steps, Finish, OfTasks
<1>1. CASE ChooseBinding(p)
  <2>1. at[p] = "choose" /\ UNCHANGED <<job, view, last, fresh>>
    BY <1>1 DEF ChooseBinding
  <2>2. \E to \in {"idle", "check"} : Goto(p, to)
    BY <1>1 DEF ChooseBinding, UseBinding
  <2>3. \A q \in Procs \ {p} : choice'[q] = choice[q]
    BY <1>1 DEF ChooseBinding, UseBinding
  <2> QED
    BY <2>1, <2>2, <2>3, CopyWaits
<1>2. CASE CheckBinding(p)
  <2>1. at[p] = "check" /\ UNCHANGED <<job, view, last, fresh, choice>> /\ Goto(p, "idle")
    BY <1>2 DEF CheckBinding
  <2> QED
    BY <2>1, CopyWaits
<1>3. CASE Search(p)
  <2>1. at[p] = "search" /\ UNCHANGED <<job, view, last, fresh>>
    BY <1>3 DEF Search
  <2>2. \E to \in {"idle", "open", "pick"} : Goto(p, to)
    BY <1>3 DEF Search, Save
  <2>3. \A q \in Procs \ {p} : choice'[q] = choice[q]
    <3>1. choice' = choice \/ \E s : choice' = [choice EXCEPT ![p] = s]
      BY <1>3 DEF Search, Save
    <3> QED
      BY <3>1
  <2> QED
    BY <2>1, <2>2, <2>3, CopyWaits
<1>4. CASE Pick(p)
  <2>1. at[p] = "pick" /\ UNCHANGED <<job, view, last, fresh>>
    BY <1>4 DEF Pick
  <2>2. \E to \in {"idle", "open", "confirm"} : Goto(p, to)
    BY <1>4 DEF Pick
  <2>3. \A q \in Procs \ {p} : choice'[q] = choice[q]
    BY <1>4 DEF Pick
  <2> QED
    BY <2>1, <2>2, <2>3, CopyWaits
<1>5. CASE Confirm(p)
  <2>1. at[p] = "confirm" /\ UNCHANGED <<job, view, last, fresh, choice>>
        /\ \E to \in {"idle", "open"} : Goto(p, to)
    BY <1>5 DEF Confirm
  <2> QED
    BY <2>1, CopyWaits
<1>6. CASE Quit(p)
  <2>1. at[p] \in Resolving /\ UNCHANGED <<job, view, last, fresh, choice>> /\ Goto(p, "idle")
    BY <1>6 DEF Quit
  <2> QED
    BY <2>1, CopyWaits
<1> QED
  BY <1>1, <1>2, <1>3, <1>4, <1>5, <1>6, CopyBegins, CopyOpens, CopySaved DEF Step

-----------------------------------------------------------------------------
(* Everything that holds of the two lists at all times.                    *)
HomeInv == SilentInv /\ ListInv /\ CopyInv /\ BookInv

LEMMA HomeStarts == HomeInit => HomeInv
<1>1. HomeInit => CopyInv
  BY DEF HomeInit, Init, CopyInv, CopyOK
<1>2. HomeInit => BookInv
  BY BookStarts DEF HomeInit
<1> QED
  BY <1>1, <1>2, SilentInit, ListInit DEF HomeInv

LEMMA HomeSteps == HomeInv /\ [HomeNext]_allVars => HomeInv'
<1> SUFFICES ASSUME HomeInv, [HomeNext]_allVars PROVE HomeInv'
  OBVIOUS
<1>1. SilentInv' /\ OfTasks /\ OfTasks'
  BY SilentStep DEF HomeInv, SilentInv
<1>2. ASSUME NEW p \in Procs, TokenCommand(p) PROVE ListInv' /\ CopyInv'
  BY <1>1, <1>2, ListStep, CopyStep DEF HomeInv, TokenCommand
<1>3. ASSUME UNCHANGED vars PROVE ListInv' /\ CopyInv'
  <2> USE DEF HomeInv, vars
  <2>1. Shapes' /\ FileOK'
    BY <1>3, FileKept, SameFile DEF ListInv, Shapes
  <2>2. ASSUME NEW p \in Procs PROVE TaskOK(p)' /\ CopyOK(p)'
    <3>1. TaskOK(p) /\ CopyOK(p)
      BY DEF ListInv, CopyInv
    <3>2. UNCHANGED <<at, job, view, choice, end, coins, last, fresh, mixed>>
      BY <1>3, FileKept
    <3>3. Holds(p)' /\ Refused(p)'
      BY <3>1, <3>2 DEF TaskOK, Holds, Refused, SeveralListed
    <3>4. Sound(view[p])'
      BY <3>1, <3>2 DEF TaskOK, Sound
    <3>5. CopyOK(p)'
      BY <3>1, <3>2 DEF CopyOK, Own, Entry
    <3> QED
      BY <3>3, <3>4, <3>5 DEF TaskOK
  <2> QED
    BY <2>1, <2>2 DEF ListInv, CopyInv
<1>4. ASSUME NEW p \in Procs, BookCommand(p) PROVE BookInv'
  <2>1. BookInv
    BY DEF HomeInv
  <2> QED
    BY <1>4, <2>1, BookKept DEF BookCommand
<1>5. ASSUME UNCHANGED bookVars PROVE BookInv'
  <2>1. /\ Book!BookTypeOK /\ OneEntryPerAddress
        /\ ~bookMixed => \A p \in Procs : Book!Unique(bookView[p])
    BY DEF HomeInv, BookInv
  <2>2. UNCHANGED <<book, bookPen, bookTexts, bookMixed, bookAt, bookView, bookEnd>>
    BY <1>5 DEF bookVars
  <2>3. Book!BookTypeOK'
    BY <2>1, <2>2 DEF Book!BookTypeOK
  <2>4. OneEntryPerAddress'
    BY <2>1, <2>2 DEF OneEntryPerAddress, Book!OneEntryPerAddress, Book!Unique
  <2>5. ~bookMixed' => \A p \in Procs : Book!Unique(bookView[p])'
    BY <2>1, <2>2 DEF Book!Unique
  <2> QED
    BY <2>3, <2>4, <2>5 DEF BookInv
<1>6. ListInv' /\ CopyInv'
  BY <1>2, <1>3 DEF HomeNext, BookCommand, allVars
<1>7. BookInv'
  BY <1>4, <1>5 DEF HomeNext, TokenCommand, allVars, bookVars
<1> QED
  BY <1>1, <1>6, <1>7 DEF HomeInv

(* The two lists keep their invariant.                                     *)
THEOREM HomeInvariant == HomeSpec => []HomeInv
  BY HomeStarts, HomeSteps, PTL DEF HomeSpec

(* Every variable of the token list and of the address book has a value    *)
(* the code can give it.                                                   *)
THEOREM HomeTypeCorrect == HomeSpec => [](TypeOK /\ Book!BookTypeOK)
<1>1. HomeInv => TypeOK /\ Book!BookTypeOK
  <2> SUFFICES ASSUME HomeInv PROVE TypeOK
    BY DEF HomeInv, BookInv
  <2>1. Shapes
    BY DEF HomeInv, ListInv
  <2>2. ASSUME NEW p \in Procs
        PROVE  /\ at[p] \in {"choose", "check"} => choice[p] \subseteq Keys
               /\ at[p] \in {"pick", "confirm", "open", "write"} => choice[p] \subseteq Candidates
    <3>1. Holds(p) /\ DOMAIN view[p].aliases \subseteq Keys
      BY <2>1, ListShape DEF HomeInv, ListInv, TaskOK, Shapes
    <3> QED
      BY <3>1 DEF Holds
  <2> QED
    BY <2>1, <2>2 DEF TypeOK, Shapes
<1> QED
  BY <1>1, HomeInvariant, PTL

(* The book never lists an address twice, in any case, whatever saves were *)
(* lost or cut short, unless two have been written one over the other and  *)
(* what is left of the longer text has been read with the other.           *)
THEOREM BookListsOnce == HomeSpec => []OneEntryPerAddress
<1>1. HomeInv => OneEntryPerAddress
  BY DEF HomeInv, BookInv
<1> QED
  BY <1>1, HomeInvariant, PTL

(* A recent token has the contract that is saved for its symbol and chain, *)
(* whatever was removed, bound again, lost or cut short (but for a token   *)
(* that was cut in the name of its chain), unless what is left of a longer *)
(* text has been read with another.                                        *)
THEOREM RecentTokensAreSaved == HomeSpec => []RecentAreSaved
<1>1. HomeInv => RecentAreSaved
  <2> SUFFICES ASSUME HomeInv, tokens \notin {Absent, Broken}, ~mixed,
                      NEW t \in ToSet(tokens.recent), t.key[2] # Cut
               PROVE  \E b \in Entry(tokens, t.key) : b.contract = t.to.contract
    BY DEF RecentAreSaved
  <2>1. Agree(tokens)
    BY DEF HomeInv, ListInv, FileOK, Sound
  <2>2. PICK i \in DOMAIN tokens.recent : t = tokens.recent[i]
    BY DEF ToSet
  <2> QED
    BY <2>1, <2>2 DEF Agree
<1> QED
  BY <1>1, HomeInvariant, PTL

(* The venue's list refuses a binding that was chosen from it only when it *)
(* has two contracts on the chain, unless what is left of a longer text    *)
(* has been read with another.                                             *)
THEOREM SavedBindingsPass == HomeSpec => []SavedPassesCheck
<1>1. HomeInv => SavedPassesCheck
  <2> SUFFICES ASSUME HomeInv, NEW p \in Procs, end[p] = Failed("mismatch"), ~mixed
               PROVE  \E k \in choice[p] :
                         \/ view[p].aliases[k].venue # Venue
                         \/ Cardinality({c.contract :
                                c \in {d \in ToSet(coins) : ChainOf[d.net] = k[2]}}) > 1
    BY DEF SavedPassesCheck
  <2>1. Refused(p)
    BY DEF HomeInv, ListInv, TaskOK
  <2> QED
    BY <2>1 DEF Refused, SeveralListed
<1> QED
  BY <1>1, HomeInvariant, PTL

(* A save that no other one has overlapped, since its command loaded the   *)
(* list, changes the entries its command is about and no other.            *)
THEOREM SerialSavesAreAtomic == HomeSpec => SerialSaveIsAtomic
<1> DEFINE Atomic(p) ==
      at[p] = "write" /\ pen[p] = "down" /\ texts = {} /\ fresh[p]
         /\ pen'[p] = "up" /\ last' = tokens' =>
          \A k \in Keys \ Own(job[p], CHOOSE c \in choice[p] : TRUE) :
              Entry(tokens', k) = Entry(last, k)
<1>1. HomeInv /\ [HomeNext]_allVars => [\A p \in Procs : Atomic(p)]_vars
  <2> SUFFICES ASSUME HomeInv, NEW q \in Procs, Step(q), NEW p \in Procs,
                      at[p] = "write", pen[p] = "down", texts = {}, fresh[p],
                      pen'[p] = "up", last' = tokens',
                      NEW k \in Keys \ Own(job[p], CHOOSE c \in choice[p] : TRUE)
               PROVE  Entry(tokens', k) = Entry(last, k)
    BY DEF HomeNext, TokenCommand, BookCommand, allVars, vars
  <2>1. pen \in [Procs -> File!Pens] /\ CopyOK(p)
    BY DEF HomeInv, ListInv, Shapes, CopyInv
  <2>2. q = p /\ (WriteList(p) \/ TearList(p))
    <3>1. pen' # pen
      OBVIOUS
    <3>2. WriteList(q) \/ TearList(q) \/ (OpenList(q) /\ File!Open(q))
      BY <3>1, FileKept DEF Step, Begin, ChooseBinding, CheckBinding, Search, Pick, Confirm, OpenList, Quit
    <3>3. pen' = [pen EXCEPT ![q] = "up"] \/ pen' = [pen EXCEPT ![q] = "down"]
      BY <3>2 DEF WriteList, TearList, File!Write, File!Tear, File!Open, File!Lift
    <3>4. q = p
      BY <2>1, <3>3
    <3>5. ~OpenList(p)
      BY DEF OpenList
    <3> QED
      BY <3>2, <3>4, <3>5
  <2>3. CASE WriteList(p)
    <3>0. UNION {Overrun(view[p], m) : m \in texts} = {}
      OBVIOUS
    <3>1. tokens' = view[p]
      BY <2>3, <3>0 DEF WriteList, File!Write, File!Alone, File!Joined
    <3>2. Entry(view[p], k) = Entry(last, k)
      BY <2>1 DEF CopyOK
    <3> QED
      BY <3>1, <3>2
  <2>4. CASE TearList(p)
    <3>1. last' = last
      BY <2>4 DEF TearList
    <3> QED
      BY <3>1
  <2> QED
    BY <2>2, <2>3, <2>4
<1> QED
  BY <1>1, HomeInvariant, PTL DEF HomeSpec, SerialSaveIsAtomic

-----------------------------------------------------------------------------
(* An address book that does not parse, and that nobody is saving, stays.  *)
THEOREM BrokenBookStays == HomeSpec => BrokenBookKept
<1>1. [HomeNext]_allVars => [Book!BrokenAtRest => Book!BrokenAtRest']_bookVars
  <2> SUFFICES ASSUME NEW p \in Procs, BookCommand(p), Book!BrokenAtRest
               PROVE  Book!BrokenAtRest'
    BY DEF HomeNext, TokenCommand, allVars, bookVars
  <2>1. bookAt[p] = "idle" /\ book = Broken
    BY DEF Book!BrokenAtRest
  <2>2. Book!BookBegin(p)
    BY <2>1 DEF BookCommand, Book!BookStep, Book!OpenBook, Book!WriteBook
  <2>3. Book!LoadFails(p)
    BY <2>1, <2>2, FileAssumption DEF Book!BookBegin, Book!AddAddress,
       Book!RemoveAddress, Book!LoadedBook
  <2> QED
    BY <2>1, <2>3 DEF Book!LoadFails, Book!BookGoto, Book!BrokenAtRest,
       Book!bookFile
<1> QED
  BY <1>1, PTL DEF HomeSpec, BrokenBookKept
=============================================================================
