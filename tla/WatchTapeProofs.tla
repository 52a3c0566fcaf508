-------------------------- MODULE WatchTapeProofs --------------------------
(***************************************************************************)
(* Proofs about WatchTape, for every window, tape length and bound: no     *)
(* trade is judged on two ticks, and none that a reading could see is      *)
(* missed.                                                                 *)
(*                                                                         *)
(* JudgedOnce is not inductive: that a trade a tick counts was not counted *)
(* before follows from the newest instant known, which every counted trade *)
(* is at or before (Past).  That the next tick counts the rest follows     *)
(* from the order of the tape and from every known instant having been an  *)
(* edge of a reading (Ordered, KnownEdge).                                 *)
(***************************************************************************)
EXTENDS WatchTape, TLAPS

(* The tape is in the order of its times, and nothing is in the future.    *)
Ordered ==
    /\ \A i, j \in 1..Len(trades) : i <= j => trades[i] <= trades[j]
    /\ \A i \in 1..Len(trades) : trades[i] <= now
    /\ clock <= now /\ last <= now

(* The newest instant known is that of the newest trade of some reading.   *)
KnownEdge == last # None => last \in edges

(* What was counted is at or before the newest instant known.              *)
Past == \A i \in Ids : counted[i] > 0 =>
            i <= Len(trades) /\ last # None /\ trades[i] <= last

TapeInv == TypeOK /\ Ordered /\ KnownEdge /\ Past /\ JudgedOnce /\ NoneMissed

-----------------------------------------------------------------------------
(* Where a tick begins to count is an instant.                             *)
LEMMA AfterIsTime == TypeOK => /\ After \in 0..MaxTime
                               /\ last # None => After = last
  BY WindowAssumption, BoundsAssumption DEF TypeOK, After, Max2, None

(* The trades a tick judges are on the tape, and after where it begins.    *)
LEMMA NewOnTape == OnTape \subseteq 1..Len(trades) /\ NewTrades \subseteq OnTape
  BY DEF OnTape, NewTrades

(* What a reading of a tape that holds a trade leaves.                     *)
LEMMA NewestFacts ==
    ASSUME TypeOK, Ordered, OnTape # {}
    PROVE  /\ Len(trades) \in 1..MaxTrades
           /\ Newest \in 0..MaxTime /\ Newest <= now
           /\ \A i \in 1..Len(trades) : trades[i] <= Newest
           /\ Max2(last, Newest) \in 0..MaxTime
           /\ Max2(last, Newest) <= now
           /\ Max2(last, Newest) >= last /\ Max2(last, Newest) >= Newest
           /\ Max2(last, Newest) \in {last, Newest}
           /\ last = None => Max2(last, Newest) = Newest
<1>1. Len(trades) \in Nat /\ Len(trades) <= MaxTrades
  BY BoundsAssumption DEF TypeOK
<1>2. Len(trades) \in 1..MaxTrades
  BY <1>1, BoundsAssumption DEF OnTape
<1>3. Newest \in 0..MaxTime
  BY <1>2, BoundsAssumption DEF TypeOK, Newest
<1>4. Newest <= now /\ \A i \in 1..Len(trades) : trades[i] <= Newest
  BY <1>1, <1>2 DEF Ordered, Newest
<1> QED
  BY <1>2, <1>3, <1>4, BoundsAssumption DEF TypeOK, Ordered, Max2, None

-----------------------------------------------------------------------------
(* The step that does the work: a tape that holds a trade is read.         *)
LEMMA ReadTapeStep == TapeInv /\ ReadTape => TapeInv'
<1> SUFFICES ASSUME TapeInv, ReadTape PROVE TapeInv'
  OBVIOUS
<1> USE BoundsAssumption, WindowAssumption
<1>1. /\ Len(trades) \in 1..MaxTrades /\ Newest \in 0..MaxTime /\ Newest <= now
      /\ \A i \in 1..Len(trades) : trades[i] <= Newest
      /\ last' \in 0..MaxTime /\ last' <= now /\ last' >= last /\ last' >= Newest
      /\ last' \in {last, Newest}
      /\ last = None => last' = Newest
  BY NewestFacts DEF TapeInv, ReadTape
<1>2. /\ trades' = trades /\ now' = now /\ clock' = clock
      /\ last' # None
  BY <1>1 DEF ReadTape, None
<1>3. \A i \in Ids : counted[i] \in Nat /\ counted'[i] \in Nat
                     /\ counted'[i] = IF i \in NewTrades THEN counted[i] + 1 ELSE counted[i]
  BY DEF TapeInv, TypeOK, ReadTape
(* A trade this tick counts was not counted before.                        *)
<1>4. \A i \in NewTrades : i \in 1..Len(trades) /\ i \in Ids /\ counted[i] = 0
  <2> SUFFICES ASSUME NEW i \in NewTrades
               PROVE  i \in 1..Len(trades) /\ i \in Ids /\ counted[i] = 0
    OBVIOUS
  <2>1. i \in 1..Len(trades) /\ trades[i] > After
    BY NewOnTape DEF NewTrades
  <2>2. i \in Ids
    BY <2>1, <1>1 DEF Ids
  <2>3. trades[i] \in 0..MaxTime
    BY <2>1 DEF TapeInv, TypeOK
  <2>4. ~(counted[i] > 0)
    BY <2>1, <2>2, <2>3, AfterIsTime DEF TapeInv, Past
  <2> QED
    BY <2>1, <2>2, <2>4, <1>3
<1>5. TypeOK'
  <2>1. counted' \in [Ids -> Nat]
    BY <1>3 DEF ReadTape
  <2>2. since' \in {None} \union (0..MaxTime)
    BY AfterIsTime DEF TapeInv, TypeOK, ReadTape
  <2>3. edges' \subseteq 0..MaxTime
    BY <1>1 DEF TapeInv, TypeOK, ReadTape
  <2>4. fell' \subseteq Ids
    <3>1. 1..Len(trades) \subseteq Ids
      BY <1>1 DEF Ids
    <3>2. fell \subseteq Ids /\ fell' = fell \union ((1..Len(trades)) \ OnTape)
      BY DEF TapeInv, TypeOK, ReadTape
    <3> QED
      BY <3>1, <3>2
  <2> QED
    BY <2>1, <2>2, <2>3, <2>4, <1>1, <1>2 DEF TapeInv, TypeOK, ReadTape
<1>6. Ordered'
  BY <1>1, <1>2 DEF TapeInv, Ordered
<1>7. KnownEdge'
  BY <1>1, <1>2 DEF TapeInv, KnownEdge, TypeOK, ReadTape
<1>8. Past'
  <2> SUFFICES ASSUME NEW i \in Ids, counted'[i] > 0
               PROVE  i <= Len(trades) /\ trades[i] <= last'
    BY <1>2 DEF Past
  <2>1. CASE i \in NewTrades
    <3>1. i \in 1..Len(trades) /\ trades[i] <= Newest /\ trades[i] \in 0..MaxTime
      BY <2>1, <1>4, <1>1 DEF TapeInv, TypeOK
    <3> QED
      BY <3>1, <1>1
  <2>2. CASE i \notin NewTrades
    <3>1. counted[i] > 0
      BY <2>2, <1>3
    <3>2. i <= Len(trades) /\ trades[i] <= last
      BY <3>1 DEF TapeInv, Past
    <3>3. trades[i] \in 0..MaxTime
      <4>1. i \in 1..Len(trades)
        BY <3>2, <1>1 DEF Ids
      <4> QED
        BY <4>1 DEF TapeInv, TypeOK
    <3>4. last \in Int /\ last' \in Int /\ trades[i] \in Int /\ last <= last'
      BY <3>3, <1>1 DEF TapeInv, TypeOK, None
    <3> QED
      BY <3>2, <3>4
  <2> QED
    BY <2>1, <2>2
<1>9. JudgedOnce'
  BY <1>3, <1>4 DEF TapeInv, JudgedOnce
<1>10. NoneMissed'
  <2> SUFFICES ASSUME NEW i \in 1..Len(trades),
                      trades[i] > since', trades[i] < last',
                      trades[i] \notin edges', i \notin fell'
               PROVE  counted'[i] = 1
    BY <1>2 DEF NoneMissed
  <2>1. i \in Ids /\ trades[i] \in 0..MaxTime
    BY <1>1 DEF TapeInv, TypeOK, Ids
  <2>2. trades[i] \notin edges /\ i \notin fell /\ i \in OnTape
    BY <2>1 DEF ReadTape
  <2>3. CASE last = None
    <3>1. trades[i] > After
      BY <2>3 DEF ReadTape
    <3>2. i \in NewTrades
      BY <3>1, <2>2 DEF NewTrades
    <3> QED
      BY <3>2, <1>3, <1>4
  <2>4. CASE last # None
    <3>1. trades[i] > since /\ trades[i] # last /\ After = last
      BY <2>2, <2>4, AfterIsTime DEF TapeInv, KnownEdge, ReadTape
    <3>2. CASE trades[i] > last
      <4>1. i \in NewTrades
        BY <3>1, <3>2, <2>2 DEF NewTrades
      <4> QED
        BY <4>1, <1>3, <1>4
    <3>3. CASE trades[i] < last
      <4>1. i \notin NewTrades
        BY <3>1, <3>3, <2>1, AfterIsTime DEF NewTrades, TapeInv, TypeOK
      <4>2. counted[i] = 1
        BY <3>1, <3>3, <2>2 DEF TapeInv, NoneMissed
      <4> QED
        BY <4>1, <4>2, <2>1, <1>3
    <3>4. last \in Int /\ trades[i] \in Int
      BY <2>1 DEF TapeInv, TypeOK, None
    <3> QED
      BY <3>1, <3>2, <3>3, <3>4
  <2> QED
    BY <2>3, <2>4
<1> QED
  BY <1>5, <1>6, <1>7, <1>8, <1>9, <1>10 DEF TapeInv

(* A trade is made: it is the newest, and no instant known is after it.    *)
LEMMA TradeStep == TapeInv /\ Trade => TapeInv'
<1> SUFFICES ASSUME TapeInv, Trade PROVE TapeInv'
  OBVIOUS
<1> USE BoundsAssumption
<1>1. /\ trades' \in Seq(0..MaxTime) /\ Len(trades) \in Nat
      /\ Len(trades') = Len(trades) + 1 /\ Len(trades') <= MaxTrades
      /\ trades'[Len(trades')] = now
      /\ \A i \in 1..Len(trades) : trades'[i] = trades[i] /\ trades[i] \in 0..MaxTime
  BY DEF TapeInv, TypeOK, Trade
<1>2. \A i \in 1..Len(trades') : i \in 1..Len(trades) \/ i = Len(trades')
  BY <1>1
<1>3. TypeOK'
  BY <1>1 DEF TapeInv, TypeOK, Trade
<1>4. Ordered'
  <2> DEFINE n == Len(trades)
  <2>1. /\ \A i \in 1..n : trades'[i] = trades[i] /\ trades[i] <= now
        /\ \A i, j \in 1..n : i <= j => trades[i] <= trades[j]
        /\ n \in Nat /\ Len(trades') = n + 1 /\ trades'[n + 1] = now /\ now \in Int
    BY <1>1 DEF TapeInv, Ordered, TypeOK
  <2> HIDE DEF n
  <2>2. \A i \in 1..Len(trades') : trades'[i] <= now
    <3> SUFFICES ASSUME NEW i \in 1..Len(trades') PROVE trades'[i] <= now
      OBVIOUS
    <3>1. CASE i \in 1..n
      BY <2>1, <3>1
    <3>2. CASE i = n + 1
      BY <2>1, <3>2
    <3> QED
      BY <2>1, <3>1, <3>2
  <2>3. \A i, j \in 1..Len(trades') : i <= j => trades'[i] <= trades'[j]
    <3> SUFFICES ASSUME NEW i \in 1..Len(trades'), NEW j \in 1..Len(trades'), i <= j
                 PROVE  trades'[i] <= trades'[j]
      OBVIOUS
    <3>1. CASE j \in 1..n
      <4>1. i \in 1..n
        BY <2>1, <3>1
      <4> QED
        BY <2>1, <3>1, <4>1
    <3>2. CASE j = n + 1
      BY <2>1, <2>2, <3>2
    <3> QED
      BY <2>1, <3>1, <3>2
  <2> QED
    BY <2>2, <2>3 DEF TapeInv, Ordered, Trade
<1>5. KnownEdge'
  BY DEF TapeInv, KnownEdge, Trade
<1>6. Past'
  <2> SUFFICES ASSUME NEW i \in Ids, counted[i] > 0
               PROVE  i <= Len(trades') /\ last # None /\ trades'[i] <= last
    BY DEF Past, Trade
  <2>1. i <= Len(trades) /\ last # None /\ trades[i] <= last
    BY DEF TapeInv, Past
  <2>2. i \in 1..Len(trades)
    BY <2>1, <1>1 DEF Ids
  <2> QED
    BY <2>1, <2>2, <1>1
<1>7. JudgedOnce'
  BY DEF TapeInv, JudgedOnce, Trade
<1>8. NoneMissed'
  <2> SUFFICES ASSUME NEW i \in 1..Len(trades'),
                      trades'[i] > since, trades'[i] < last,
                      trades'[i] \notin edges, i \notin fell
               PROVE  counted[i] = 1
    BY DEF NoneMissed, Trade
  <2>1. i # Len(trades')
    BY <1>1 DEF TapeInv, TypeOK, Ordered, None
  <2>2. i \in 1..Len(trades) /\ trades'[i] = trades[i]
    BY <2>1, <1>1, <1>2
  <2> QED
    BY <2>2 DEF TapeInv, NoneMissed
<1> QED
  BY <1>3, <1>4, <1>5, <1>6, <1>7, <1>8 DEF TapeInv

(* The other steps move the clock or the tick, and count nothing.          *)
LEMMA OtherSteps ==
    TapeInv /\ (Advance \/ BeginTick \/ ReadEmptyTape \/ ReadFails \/ UNCHANGED vars)
        => TapeInv'
<1> SUFFICES ASSUME TapeInv,
                    Advance \/ BeginTick \/ ReadEmptyTape \/ ReadFails \/ UNCHANGED vars
             PROVE  TapeInv'
  OBVIOUS
<1> USE BoundsAssumption
<1>1. /\ trades' = trades /\ last' = last /\ counted' = counted
      /\ since' = since /\ edges' = edges
      /\ fell \subseteq fell' /\ fell' \subseteq fell \union (1..Len(trades))
      /\ now' \in 0..MaxTime /\ now <= now'
      /\ clock' \in 0..MaxTime /\ clock' <= now'
      /\ pc' \in {"wait", "reading"}
  BY DEF TapeInv, TypeOK, Ordered, Advance, BeginTick, ReadEmptyTape, ReadFails, vars
<1>2. TypeOK'
  <2>1. fell' \subseteq Ids
    BY <1>1 DEF TapeInv, TypeOK, Ids
  <2> QED
    BY <2>1, <1>1 DEF TapeInv, TypeOK
<1>3. Ordered'
  BY <1>1 DEF TapeInv, TypeOK, Ordered, None
<1>4. KnownEdge' /\ Past' /\ JudgedOnce'
  BY <1>1 DEF TapeInv, KnownEdge, Past, JudgedOnce
<1>5. NoneMissed'
  BY <1>1 DEF TapeInv, NoneMissed
<1> QED
  BY <1>2, <1>3, <1>4, <1>5 DEF TapeInv

(* Before the first tick nothing is counted.                               *)
LEMMA StartsSound == Init => TapeInv
<1> SUFFICES ASSUME Init PROVE TapeInv
  OBVIOUS
<1> USE BoundsAssumption
<1>1. trades = <<>> /\ Len(trades) = 0 /\ 1..Len(trades) = {}
  BY DEF Init
<1>2. TypeOK
  BY <1>1 DEF Init, TypeOK, None
<1>3. Ordered /\ KnownEdge /\ Past /\ JudgedOnce /\ NoneMissed
  BY <1>1 DEF Init, Ordered, KnownEdge, Past, JudgedOnce, NoneMissed, None
<1> QED
  BY <1>2, <1>3 DEF TapeInv

(* In every state the tape is in order, the newest instant known is an     *)
(* edge of a reading, and what was counted is behind it.                   *)
THEOREM TapeSound == Spec => []TapeInv
<1>1. TapeInv /\ [Next]_vars => TapeInv'
  BY ReadTapeStep, TradeStep, OtherSteps DEF Next
<1> QED
  BY <1>1, StartsSound, PTL DEF Spec

(* Every variable has a value the code can give it, for every window, tape *)
(* and bound.                                                              *)
THEOREM TypeCorrect == Spec => []TypeOK
<1>1. TapeInv => TypeOK
  BY DEF TapeInv
<1> QED
  BY <1>1, TapeSound, PTL

(* No trade is judged on two ticks: a large trade is one breach of         *)
(* `largest_trade`, however long it stays on the venue's tape.             *)
THEOREM NeverJudgedTwice == Spec => []JudgedOnce
<1>1. TapeInv => JudgedOnce
  BY DEF TapeInv
<1> QED
  BY <1>1, TapeSound, PTL

(* No trade that a reading could see is missed, whatever readings fail or  *)
(* come late.                                                              *)
THEOREM NeverMissed == Spec => []NoneMissed
<1>1. TapeInv => NoneMissed
  BY DEF TapeInv
<1> QED
  BY <1>1, TapeSound, PTL
=============================================================================
