---------------------------- MODULE RepeatProofs ----------------------------
(***************************************************************************)
(* What holds of the repeat runner for every interval and every duration.  *)
(*                                                                         *)
(* The invariant is an inequality between the number of the run and its    *)
(* slot: a run that is not cut to the end is due (run - 1) intervals after *)
(* the start or later.  A run cut to the end follows one that began before *)
(* the end, so its number is at most two more than the whole intervals     *)
(* that fit before the end, which is the count total() gives.              *)
(***************************************************************************)
EXTENDS Repeat, TLAPS

(* The runs before the end, counted by whole intervals: n of them fit in   *)
(* the duration only if total() counts them.                               *)
LEMMA TotalBound ==
    ASSUME NEW n \in Nat, n * Every < Duration
    PROVE  n + 2 <= Total
<1> DEFINE q == (Duration + Every - 1) \div Every
<1>1. q \in Int /\ Every * q <= Duration + Every - 1
      /\ Duration + Every - 1 < Every * q + Every
  BY EveryAssumption, DurationAssumption, Z3
<1>2. Every * n < Every * q
  BY <1>1, EveryAssumption, DurationAssumption, SMT
<1>3. n < q
  BY <1>1, <1>2, EveryAssumption, SMT
<1> QED
  BY <1>1, <1>3 DEF Total


(* A slot cut to the end of the repeat.                                    *)
Cut == HasEnd /\ slot = Duration

(* The number of the run against its slot, and the slot against when the   *)
(* run began: what RunsWithinTotal and NeverEarly follow from.             *)
GridInv ==
    /\ pc = "step" => run >= 1 /\ began >= slot
    /\ pc = "sleep" => run >= 2
    /\ pc \in {"step", "sleep"} => Cut \/ slot >= (run - 1) * Every
    /\ HasEnd /\ run >= 2 => (run - 2) * Every < Duration

(* The slot against when the runs before began: a run is due at the end of *)
(* the one before or later, so one interval after the one before that.     *)
SpacingInv ==
    /\ pc = "start" => before.one = None /\ before.two = None
    /\ pc \in {"step", "sleep"} => began <= now
    /\ pc = "step" =>
        /\ before.one # None => Cut \/ slot >= before.one
        /\ before.two # None => Cut \/ slot >= before.two + Every
    /\ pc = "sleep" =>
        /\ Cut \/ slot >= began
        /\ before.one # None => Cut \/ slot >= before.one + Every

-----------------------------------------------------------------------------
(* The slot after a run is an instant, an interval past the run's own slot *)
(* and not past when it is chosen, unless the end cuts it.                 *)
LEMMA NextSlotBounds ==
    ASSUME TypeOK
    PROVE  /\ NextSlot \in Nat
           /\ \/ HasEnd /\ NextSlot = Duration
              \/ NextSlot >= slot + Every /\ NextSlot >= now
  BY EveryAssumption, DurationAssumption
     DEF TypeOK, NextSlot, CutToEnd, Max2, Min2

(* Type correctness of the runner's state.                                 *)
THEOREM TypeCorrect == Spec => []TypeOK
<1>1. Init => TypeOK
  <2> SUFFICES ASSUME Init
               PROVE  TypeOK
    OBVIOUS
  <2>1. before \in [one : Nat \cup {None}, two : Nat \cup {None}]
    BY DEF Init
  <2> QED
    BY <2>1 DEF Init, TypeOK
<1>2. TypeOK /\ [Next]_vars => TypeOK'
  <2> SUFFICES ASSUME TypeOK, [Next]_vars
               PROVE  TypeOK'
    OBVIOUS
  <2> USE DEF TypeOK
  <2>1. CASE Start
    BY <2>1 DEF Start
  <2>2. CASE HeaderFails \/ StepFails \/ RowFails \/ PrintFails \/ Cancel
    BY <2>2 DEF HeaderFails, StepFails, RowFails, PrintFails, Cancel
  <2>3. CASE Complete
    BY <2>3 DEF Complete
  <2>4. CASE Continue
    <3>1. NextSlot \in Nat
      BY NextSlotBounds
    <3>2. Max2(NextSlot, now) \in Nat
      BY <3>1 DEF Max2
    <3> QED
      BY <2>4, <3>1, <3>2 DEF Continue
  <2>5. CASE Wake
    BY <2>5 DEF Wake, None
  <2>6. CASE Tick
    BY <2>6 DEF Tick
  <2>7. CASE UNCHANGED vars
    BY <2>7 DEF vars
  <2> QED
    BY <2>1, <2>2, <2>3, <2>4, <2>5, <2>6, <2>7 DEF Next, Returned
<1> QED
  BY <1>1, <1>2, PTL DEF Spec

(* The number of the run and its slot keep their inequality.               *)
LEMMA GridInvariant == Spec => []GridInv
<1>1. Init => GridInv
  BY DEF Init, GridInv
<1>2. TypeOK /\ GridInv /\ [Next]_vars => GridInv'
  <2> SUFFICES ASSUME TypeOK, GridInv, [Next]_vars
               PROVE  GridInv'
    OBVIOUS
  <2> USE EveryAssumption, DurationAssumption DEF TypeOK, GridInv, Cut
  <2>1. CASE Start
    BY <2>1 DEF Start
  <2>2. CASE HeaderFails \/ StepFails \/ RowFails \/ PrintFails \/ Cancel
    BY <2>2 DEF HeaderFails, StepFails, RowFails, PrintFails, Cancel
  <2>3. CASE Complete
    BY <2>3 DEF Complete
  <2>4. CASE Continue
    <3>1. /\ run >= 1 /\ began >= slot /\ began \in Nat
          /\ HasEnd => began < Duration
      BY <2>4 DEF Continue, IsLast
    <3>2. slot >= (run - 1) * Every
      BY <3>1, <2>4 DEF Continue
    <3>3. run' = run + 1 /\ slot' = NextSlot /\ pc' = "sleep"
      BY <2>4 DEF Continue
    <3>4. (run' - 2) = run - 1 /\ run' >= 2
      BY <3>1, <3>3
    <3>5. HasEnd => (run - 1) * Every < Duration
      BY <3>1, <3>2
    <3>6. (run - 1) * Every + Every = (run' - 1) * Every
      BY <3>3
    <3>7. (HasEnd /\ slot' = Duration) \/ slot' >= (run' - 1) * Every
      <4>1. (run - 1) * Every \in Int /\ (run' - 1) * Every \in Int
        BY <3>3
      <4> HIDE DEF GridInv, Cut
      <4> QED
        BY <4>1, <3>2, <3>3, <3>6, NextSlotBounds
    <3> QED
      BY <3>3, <3>4, <3>5, <3>7
  <2>5. CASE Wake
    BY <2>5 DEF Wake
  <2>6. CASE Tick
    BY <2>6 DEF Tick
  <2>7. CASE UNCHANGED vars
    BY <2>7 DEF vars
  <2> QED
    BY <2>1, <2>2, <2>3, <2>4, <2>5, <2>6, <2>7 DEF Next, Returned
<1> QED
  BY <1>1, <1>2, TypeCorrect, PTL DEF Spec

(* The slot keeps its distance from the two runs before.                   *)
LEMMA SpacingInvariant == Spec => []SpacingInv
<1>1. Init => SpacingInv
  BY DEF Init, SpacingInv
<1>2. TypeOK /\ GridInv /\ SpacingInv /\ [Next]_vars => SpacingInv'
  <2> SUFFICES ASSUME TypeOK, GridInv, SpacingInv, [Next]_vars
               PROVE  SpacingInv'
    OBVIOUS
  <2> USE EveryAssumption, DurationAssumption DEF TypeOK, SpacingInv, Cut
  <2>1. CASE Start
    BY <2>1 DEF Start
  <2>2. CASE HeaderFails \/ StepFails \/ RowFails \/ PrintFails \/ Cancel
    BY <2>2 DEF HeaderFails, StepFails, RowFails, PrintFails, Cancel
  <2>3. CASE Complete
    BY <2>3 DEF Complete
  <2>4. CASE Continue
    <3>1. ~Cut
      BY <2>4 DEF Continue, IsLast, GridInv
    <3> QED
      BY <3>1, <2>4, NextSlotBounds DEF Continue
  <2>5. CASE Wake
    BY <2>5 DEF Wake
  <2>6. CASE Tick
    BY <2>6 DEF Tick
  <2>7. CASE UNCHANGED vars
    BY <2>7 DEF vars
  <2> QED
    BY <2>1, <2>2, <2>3, <2>4, <2>5, <2>6, <2>7 DEF Next, Returned
<1> QED
  BY <1>1, <1>2, TypeCorrect, GridInvariant, PTL DEF Spec

-----------------------------------------------------------------------------
(* A repeat with an end never begins more runs than Schedule::total().     *)
THEOREM NeverMoreThanTotal == Spec => []RunsWithinTotal
<1>1. TypeOK /\ GridInv => RunsWithinTotal
  <2> SUFFICES ASSUME TypeOK, GridInv, HasEnd
               PROVE  run <= Total
    BY DEF RunsWithinTotal
  <2>1. CASE run >= 2
    <3>1. run - 2 \in Nat /\ (run - 2) * Every < Duration
      BY <2>1 DEF TypeOK, GridInv
    <3>2. (run - 2) + 2 <= Total
      BY <3>1, TotalBound
    <3> QED
      BY <3>2 DEF TypeOK
  <2>2. CASE run < 2
    <3>1. Total >= 1
      BY EveryAssumption, DurationAssumption, Z3 DEF Total
    <3>2. Total \in Int
      BY EveryAssumption, DurationAssumption DEF Total
    <3> QED
      BY <2>2, <3>1, <3>2 DEF TypeOK
  <2> QED
    BY <2>1, <2>2 DEF TypeOK
<1> QED
  BY <1>1, TypeCorrect, GridInvariant, PTL

(* No run begins before its place on the grid.                             *)
THEOREM NeverBeforeItsSlot == Spec => []NeverEarly
<1>1. TypeOK /\ GridInv => NeverEarly
  BY EveryAssumption, DurationAssumption
     DEF TypeOK, GridInv, Cut, NeverEarly, IsLast
<1> QED
  BY <1>1, TypeCorrect, GridInvariant, PTL

(* Overruns and late timers never lead to a burst of runs.                 *)
THEOREM NeverABurst == Spec => []NoBurst
<1>1. TypeOK /\ GridInv /\ SpacingInv => NoBurst
  BY EveryAssumption, DurationAssumption
     DEF TypeOK, GridInv, SpacingInv, Cut, NoBurst, IsLast
<1> QED
  BY <1>1, TypeCorrect, GridInvariant, SpacingInvariant, PTL

(* The grid is laid at the start, at 0.                                    *)
LaidAtStart == pc = "start" => now = 0

(* The time a run takes does not push the later ones back.                 *)
THEOREM StaysOnTheGrid == Spec => []OnTheGrid
<1> DEFINE I == LaidAtStart /\ OnTheGrid
<1>1. Init => I
  BY DEF Init, LaidAtStart, OnTheGrid
<1>2. TypeOK /\ GridInv /\ I /\ [Next]_vars => I'
  <2> SUFFICES ASSUME TypeOK, GridInv, I, [Next]_vars
               PROVE  I'
    OBVIOUS
  <2> USE EveryAssumption, DurationAssumption DEF TypeOK, LaidAtStart, OnTheGrid
  <2>1. CASE Start
    <3>1. run' = 1 /\ slot' = 0 /\ pc' = "step"
      BY <2>1 DEF Start
    <3>2. slot' = (run' - 1) * Every
      BY <3>1
    <3> QED
      BY <3>1, <3>2
  <2>2. CASE HeaderFails \/ StepFails \/ RowFails \/ PrintFails \/ Cancel
    BY <2>2 DEF HeaderFails, StepFails, RowFails, PrintFails, Cancel
  <2>3. CASE Complete
    BY <2>3 DEF Complete
  <2>4. CASE Continue
    <3>0. LaidAtStart'
      BY <2>4 DEF Continue
    <3> SUFFICES ASSUME ~overran'
                 PROVE  slot' = (run' - 1) * Every \/ (HasEnd /\ slot' = Duration)
      <4> HIDE DEF TypeOK, LaidAtStart
      <4> QED
        BY <3>0, Zenon DEF OnTheGrid
    <3>1. run' = run + 1 /\ slot' = NextSlot /\ ~overran /\ ~(now > slot + Every)
      BY <2>4, Zenon DEF Continue
    <3>2. run > 0 /\ ~(HasEnd /\ slot = Duration)
      BY <2>4 DEF Continue, IsLast, GridInv
    <3>3. slot = (run - 1) * Every
      BY <3>1, <3>2, Zenon DEF OnTheGrid
    <3>4. NextSlot = slot + Every \/ (HasEnd /\ NextSlot = Duration)
      BY <3>1 DEF NextSlot, CutToEnd, Max2, Min2
    <3>5. slot + Every = (run' - 1) * Every
      BY <3>1, <3>3
    <3> QED
      BY <3>1, <3>4, <3>5
  <2>5. CASE Wake
    BY <2>5 DEF Wake
  <2>6. CASE Tick
    BY <2>6 DEF Tick
  <2>7. CASE UNCHANGED vars
    BY <2>7 DEF vars
  <2> QED
    BY <2>1, <2>2, <2>3, <2>4, <2>5, <2>6, <2>7 DEF Next, Returned
<1> QED
  BY <1>1, <1>2, TypeCorrect, GridInvariant, PTL DEF Spec
=============================================================================
