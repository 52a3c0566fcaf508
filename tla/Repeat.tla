------------------------------- MODULE Repeat -------------------------------
(***************************************************************************)
(* The repeat runner of the commands that take --every and --duration      *)
(* (crates/scope-cli/src/cli/repeat.rs).                                   *)
(*                                                                         *)
(* One behaviour is one call of `run`: the runs of `step`, the row each    *)
(* one appends to the CSV file, the record it adds to the screen's series, *)
(* and the grid of slots the runner sleeps to in between.  The clock is    *)
(* tokio's, counted in ticks from the call (`start` is 0), and moves on    *)
(* its own while a step runs or the runner sleeps.  Everything from the    *)
(* end of a step to the next await is one action: nothing else can run on  *)
(* the task there.                                                         *)
(***************************************************************************)
EXTENDS Integers

CONSTANTS
    Every,      \* Schedule::every, in ticks
    HasEnd,     \* whether Schedule::duration is Some
    Duration,   \* its value then
    MaxTime     \* bound of the model: the clock stops here

ASSUME EveryAssumption    == Every \in Nat /\ Every > 0     \* Schedule::with
ASSUME DurationAssumption == Duration \in Nat /\ HasEnd \in BOOLEAN
ASSUME MaxTimeAssumption  == MaxTime \in Nat /\ MaxTime >= Duration

VARIABLES
    now,        \* the clock
    pc,         \* where the task is; "step" and "sleep" are its awaits
    run,        \* the number of the run
    slot,       \* the slot the run was due at
    began,      \* when the run began
    nextAt,     \* Progress::next_at: when the screen says the next run is
    rows,       \* rows in the CSV file
    records,    \* runs recorded in the series (or printed)
    before,     \* history: when the two runs before this one began
    overran     \* history: whether a run was still going at its next slot

vars == <<now, pc, run, slot, began, nextAt, rows, records, before, overran>>

None == -1      \* no instant

Max2(a, b) == IF a >= b THEN a ELSE b
Min2(a, b) == IF a <= b THEN a ELSE b

(* How many runs the schedule makes: ceil(duration / every) + 1.           *)
Total == (Duration + Every - 1) \div Every + 1

(* The last run is the one that begins at the end or past it.              *)
IsLast == HasEnd /\ began >= Duration

CutToEnd(grid) == IF HasEnd THEN Min2(grid, Duration) ELSE grid

(* Variants, each the code with one plausible slip in it, which the        *)
(* properties tell from the code: no move past an overrun, a grid laid     *)
(* anew by every run, an interval one tick short.                          *)
NextSlotBursts  == CutToEnd(slot + Every)
NextSlotDrifts  == CutToEnd(now + Every)
NextSlotShort   == CutToEnd(Max2(slot + Every - 1, now))

(* The slot after this one: the next of the grid, moved to now when the    *)
(* run has overrun it, and cut to the end.                                 *)
NextSlot == CutToEnd(Max2(slot + Every, now))

-----------------------------------------------------------------------------
Init ==
    /\ now = 0 /\ pc = "start" /\ run = 0 /\ slot = 0 /\ began = 0
    /\ nextAt = None /\ rows = 0 /\ records = 0
    /\ before = [one |-> None, two |-> None]
    /\ overran = FALSE

(* The header of the CSV file is written and the first run begins.         *)
Start ==
    /\ pc = "start"
    /\ pc' = "step" /\ run' = 1 /\ began' = now /\ slot' = now
    /\ UNCHANGED <<now, nextAt, rows, records, before, overran>>

(* The CSV file cannot be written: no run begins.                          *)
HeaderFails ==
    /\ pc = "start"
    /\ pc' = "failed"
    /\ UNCHANGED <<now, run, slot, began, nextAt, rows, records, before, overran>>

(* `step` returns an error: it ends the repeat.                            *)
StepFails ==
    /\ pc = "step"
    /\ pc' = "failed"
    /\ UNCHANGED <<now, run, slot, began, nextAt, rows, records, before, overran>>

(* The run's row cannot be appended: the repeat ends before the record.    *)
RowFails ==
    /\ pc = "step"
    /\ pc' = "failed"
    /\ UNCHANGED <<now, run, slot, began, nextAt, rows, records, before, overran>>

(* Outside the TUI the record is printed; it cannot be, after its row.     *)
PrintFails ==
    /\ pc = "step"
    /\ rows' = rows + 1
    /\ pc' = "failed"
    /\ UNCHANGED <<now, run, slot, began, nextAt, records, before, overran>>

(* Variant: the loop is not left at the end.                               *)
CompleteLoops ==
    /\ pc = "step" /\ IsLast
    /\ pc' = "sleep" /\ slot' = NextSlot
    /\ UNCHANGED <<now, run, began, nextAt, rows, records, before, overran>>

(* The last run is done: its row, its record, and the repeat returns.      *)
Complete ==
    /\ pc = "step" /\ IsLast
    /\ rows' = rows + 1 /\ records' = records + 1
    /\ pc' = "done"
    /\ UNCHANGED <<now, run, slot, began, nextAt, before, overran>>

(* A run that is not the last is done: its row, its record, the next slot, *)
(* and the runner sleeps.                                                  *)
Continue ==
    /\ pc = "step" /\ ~IsLast
    /\ rows' = rows + 1 /\ records' = records + 1
    /\ run' = run + 1
    /\ slot' = NextSlot
    /\ nextAt' = Max2(NextSlot, now)
    /\ overran' = (overran \/ now > slot + Every)
    /\ pc' = "sleep"
    /\ UNCHANGED <<now, began, before>>

(* The sleep is over (the timer may be late): the run begins.              *)
Wake ==
    /\ pc = "sleep" /\ now >= slot
    /\ began' = now /\ nextAt' = None
    /\ before' = [one |-> began, two |-> before.one]
    /\ pc' = "step"
    /\ UNCHANGED <<now, run, slot, rows, records, overran>>

(* The user cancels the command: its future is dropped at an await.        *)
Cancel ==
    /\ pc \in {"step", "sleep"}
    /\ pc' = "cancelled"
    /\ UNCHANGED <<now, run, slot, began, nextAt, rows, records, before, overran>>

(* Time passes while the task waits, bounded by MaxTime.                   *)
Tick ==
    /\ pc \in {"step", "sleep"} /\ now < MaxTime
    /\ now' = now + 1
    /\ UNCHANGED <<pc, run, slot, began, nextAt, rows, records, before, overran>>

Ended == pc \in {"done", "failed", "cancelled"}

(* The call has returned.                                                  *)
Returned == Ended /\ UNCHANGED vars

Next ==
    \/ Start \/ HeaderFails
    \/ StepFails \/ RowFails \/ PrintFails \/ Complete \/ Continue
    \/ Wake \/ Cancel \/ Tick
    \/ Returned

Spec == Init /\ [][Next]_vars

(* Every step of a command ends (its requests have time limits), the timer *)
(* fires, and the clock moves.  Nobody has to cancel and nothing has to    *)
(* fail.                                                                   *)
Fairness ==
    /\ WF_vars(Start) /\ WF_vars(Complete \/ Continue)
    /\ WF_vars(Wake) /\ WF_vars(Tick)

FairSpec == Spec /\ Fairness

-----------------------------------------------------------------------------
(* Every variable has a value the code can give it.                        *)
TypeOK ==
    /\ now \in Nat
    /\ pc \in {"start", "step", "sleep", "done", "failed", "cancelled"}
    /\ run \in Nat /\ slot \in Nat /\ began \in Nat
    /\ nextAt \in Nat \cup {None}
    /\ rows \in Nat /\ records \in Nat
    /\ before \in [one : Nat \cup {None}, two : Nat \cup {None}]
    /\ overran \in BOOLEAN

(* However long the runs take and however late the timer is, a repeat with *)
(* an end never begins more runs than Schedule::total() says, the count    *)
(* the progress line shows.                                                *)
RunsWithinTotal == HasEnd => run <= Total

(* A run never begins before its place on the grid: run n of a repeat that *)
(* has not reached its end begins (n - 1) intervals after the start at the *)
(* earliest, overruns and late timers included.                            *)
NeverEarly ==
    pc = "step" /\ ~IsLast => began >= (run - 1) * Every

(* An overrun moves the grid instead of starting a burst of catch-up runs: *)
(* a run begins at least one interval after the run two before it began,   *)
(* unless it is the last one, which follows at once.                       *)
NoBurst ==
    pc = "step" /\ ~IsLast /\ before.two # None => began >= before.two + Every

(* The time a run takes does not push the later ones back: while no run    *)
(* has overrun its slot, every run is due on the grid the start laid, or   *)
(* at the end.                                                             *)
OnTheGrid ==
    ~overran /\ run > 0 =>
        \/ slot = (run - 1) * Every
        \/ HasEnd /\ slot = Duration

(* A repeat with an end returns: the sleeps are cut to the end, so a last  *)
(* run always comes.                                                       *)
EndedRepeatReturns == HasEnd => <>Ended
=============================================================================
