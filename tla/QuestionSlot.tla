---------------------------- MODULE QuestionSlot ----------------------------
(***************************************************************************)
(* What the ask slot of the TUI promises, with no word of screens and      *)
(* lines: a question is put in the slot when no other waits there, comes   *)
(* on the screen when no other is open, and from there gets an answer.     *)
(* None is lost on the way: while its asker goes on, a question ends in an *)
(* answer or is dropped, which its asker is told.                          *)
(***************************************************************************)
CONSTANTS
    Askers,
    Pane        \* the one whose end takes every question with it

VARIABLES
    alive,      \* the askers that go on
    stage       \* of each one's question: "none", "wait" (for the slot), "slot", "shown",
                \* "replied" or "dropped"

slotVars == <<alive, stage>>

SlotInit ==
    /\ alive \in [Askers -> BOOLEAN]
    /\ stage = [a \in Askers |-> "none"]

Start(a) ==
    /\ ~alive[a] /\ stage[a] = "none"
    /\ alive' = [alive EXCEPT ![a] = TRUE] /\ UNCHANGED stage

Move(a, from, to) ==
    /\ alive[a] /\ stage[a] \in from
    /\ stage' = [stage EXCEPT ![a] = to] /\ UNCHANGED alive

Queue(a) == Move(a, {"none"}, "wait")

Put(a) == Move(a, {"none", "wait"}, "slot") /\ \A b \in Askers : stage[b] # "slot"

Show(a) == Move(a, {"slot"}, "shown") /\ \A b \in Askers : stage[b] # "shown"

Reply(a) == Move(a, {"shown"}, "replied")

Learn(a) == Move(a, {"replied", "dropped"}, "none")

(* The asker ends, and nobody awaits its question.                         *)
End(a) ==
    /\ alive[a]
    /\ alive' = [alive EXCEPT ![a] = FALSE]
    /\ stage' = [stage EXCEPT ![a] = "none"]

(* The pane command ends, if one runs, or the session: every question that *)
(* is in the slot or on the screen is dropped.                             *)
DropAll ==
    /\ alive' = [alive EXCEPT ![Pane] = FALSE]
    /\ stage' = [a \in Askers |->
                    IF a = Pane THEN "none"
                    ELSE IF stage[a] \in {"slot", "shown"} THEN "dropped" ELSE stage[a]]

SlotNext ==
    \/ \E a \in Askers : \/ Start(a) \/ Queue(a) \/ Put(a) \/ Show(a) \/ Reply(a)
                         \/ Learn(a) \/ End(a)
    \/ DropAll

SlotSpec == SlotInit /\ [][SlotNext]_slotVars
=============================================================================
