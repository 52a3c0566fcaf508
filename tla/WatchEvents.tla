---------------------------- MODULE WatchEvents ----------------------------
(***************************************************************************)
(* The events of a watch run: from the readings of a tick to the bell.     *)
(*                                                                         *)
(*   - crates/scope-core/src/watch/diff.rs: the events between two ticks;  *)
(*   - crates/scope-core/src/watch/preset.rs, rule.rs and market/health.rs,*)
(*     crates/scope-cli/src/cli/watch/fetch.rs: which cells a tick can     *)
(*     have, and which status each of them;                                *)
(*   - crates/scope-cli/src/cli/watch/run.rs: the tick, its CSV rows, and  *)
(*     the call that sends it to the grid;                                 *)
(*   - crates/scope-cli/src/cli/tui/grid.rs, app.rs and mod.rs: the grid   *)
(*     that takes the messages, and the loop that rings its bell.          *)
(*                                                                         *)
(* Every row watches one market with the market health preset and one      *)
(* rule.  A cell is known by its row and its label, and the label of a     *)
(* preset check is the name in its message: the depth check always has     *)
(* the same one; the check for sells below the peg is one label when it    *)
(* passes and, when it fails, a label that holds the amount of the sells.  *)
(***************************************************************************)
EXTENDS Naturals, Sequences

CONSTANTS
    Rows,       \* the rows of the watchlist, one market each
    Amounts,    \* labels of the check for sells below the peg, when it fails
    HasCsv,     \* whether Outputs::csv is given
    MaxTicks    \* bound of the model

ASSUME NamesAssumption  ==
    Amounts \cap {"market health", "Depth/volume", "No sells below peg", "rule"} = {}
ASSUME BoundsAssumption == MaxTicks \in Nat /\ HasCsv \in BOOLEAN

Labels   == {"market health", "Depth/volume", "No sells below peg", "rule"} \union Amounts
Cells    == Rows \X Labels
Statuses == {"absent", "pass", "warn", "fail", "na", "error"}
Nothing  == [c \in Cells |-> "absent"]      \* Snapshot::default()

VARIABLES
    prev,       \* the snapshot of the last tick
    ticks,      \* ticks read
    written,    \* ticks whose rows are in the CSV file
    mode,       \* the run: "running", "done", or "failed" by its CSV file
    queue,      \* grid_rx: the messages the grid has not taken
    run,        \* GridState::run
    banner,     \* the cell of GridState::banner, or "none"
    cleared,    \* the rows of GridState::cleared
    bell,       \* GridState::bell
    told,       \* history: cells whose breach started, and did not end, by the events
    warned,     \* history: the same of warnings
    due         \* history: a breach has started that no bell has rung for

grid == <<run, banner, cleared, bell>>
vars == <<prev, ticks, written, mode, queue, grid, told, warned, due>>

-----------------------------------------------------------------------------
(* What a row can read.                                                    *)

(* The summary of the market cannot be read: the preset is one error cell, *)
(* its checks have none, and the rule is an error.                         *)
Unread == [l \in Labels |-> IF l \in {"market health", "rule"} THEN "error" ELSE "absent"]

(* It can: one cell per check and per rule.                                *)
Markets == [depth : {"pass", "warn", "fail", "na"},
            peg   : {"No sells below peg"} \union Amounts,
            rule  : {"pass", "fail", "na", "error"}]

ReadAs(m) ==
    [l \in Labels |-> CASE l = "Depth/volume" -> m.depth
                        [] l = m.peg -> IF l = "No sells below peg" THEN "pass" ELSE "fail"
                        [] l = "rule" -> m.rule
                        [] OTHER -> "absent"]

RowReadings == {Unread} \union {ReadAs(m) : m \in Markets}

Snapshots ==
    {[c \in Cells |-> f[c[1]][c[2]]] : f \in [Rows -> RowReadings]}

-----------------------------------------------------------------------------
(* `diff`: the cells with an event of each kind, from snapshot b to a.     *)

(* Variants: a breach starts only from a pass, an error clears.            *)
StartsFromPass(b, a) == {c \in Cells : a[c] = "fail" /\ b[c] \in {"pass", "warn", "na"}}
ClearsOnError(b, a)  == {c \in Cells : b[c] = "fail" /\ a[c] \in {"pass", "na", "error"}}

BreachStarts(b, a) == {c \in Cells : a[c] = "fail" /\ b[c] # "fail"}
BreachClears(b, a) == {c \in Cells : b[c] = "fail" /\ a[c] \in {"pass", "na"}}
WarnStarts(b, a)   == {c \in Cells : a[c] = "warn" /\ b[c] # "warn"}
WarnClears(b, a)   == {c \in Cells : b[c] = "warn" /\ a[c] \in {"pass", "na", "fail"}}

-----------------------------------------------------------------------------
Init ==
    /\ prev = Nothing /\ ticks = 0 /\ written = 0 /\ mode = "running"
    /\ queue = <<>>
    /\ run = 0 /\ banner = "none" /\ cleared = {} /\ bell = FALSE
    /\ told = {} /\ warned = {} /\ due = FALSE

(* The tick is shown and remembered.                                       *)
Shown(cur) ==
    LET started == BreachStarts(prev, cur)
        ended   == BreachClears(prev, cur)
    IN  /\ queue' = Append(queue, [run |-> ticks + 1, started |-> started, ended |-> ended])
        /\ prev' = cur
        /\ told' = (told \union started) \ ended
        /\ warned' = (warned \union WarnStarts(prev, cur)) \ WarnClears(prev, cur)
        /\ due' = (due \/ started # {})

(* One tick: read, compared, written, sent.                                *)
Tick(cur) ==
    /\ mode = "running" /\ ticks < MaxTicks
    /\ ticks' = ticks + 1
    /\ written' = IF HasCsv THEN written + 1 ELSE written
    /\ Shown(cur)
    /\ UNCHANGED <<mode, grid>>

(* The rows of a tick cannot be written: the run ends, and nobody sees it. *)
CsvFails ==
    /\ mode = "running" /\ ticks < MaxTicks /\ HasCsv
    /\ ticks' = ticks + 1
    /\ mode' = "failed"
    /\ UNCHANGED <<prev, written, queue, grid, told, warned, due>>

(* The schedule ends, or the user stops the run: the stop falls at an      *)
(* await, before the rows of a tick or after it is sent.                   *)
Finish ==
    /\ mode = "running"
    /\ mode' = "done"
    /\ UNCHANGED <<prev, ticks, written, queue, grid, told, warned, due>>

(* Variant: the bell is what the last message says.                        *)
ApplyAssigns ==
    /\ queue # <<>>
    /\ LET m == Head(queue) IN
           /\ run' = m.run
           /\ bell' = (m.started # {})
           /\ banner' \in IF m.started = {} THEN {banner} ELSE m.started
           /\ cleared' = {c[1] : c \in m.ended}
    /\ queue' = Tail(queue)
    /\ UNCHANGED <<prev, ticks, written, mode, told, warned, due>>

(* GridState::apply: the grid takes one message.  With several breaches    *)
(* the banner is the last of them.                                         *)
Apply ==
    /\ queue # <<>>
    /\ LET m == Head(queue) IN
           /\ run' = m.run
           /\ bell' = (bell \/ m.started # {})
           /\ banner' \in IF m.started = {} THEN {banner} ELSE m.started
           /\ cleared' = {c[1] : c \in m.ended}
    /\ queue' = Tail(queue)
    /\ UNCHANGED <<prev, ticks, written, mode, told, warned, due>>

(* A key takes the banner away.                                            *)
Key ==
    /\ banner # "none"
    /\ banner' = "none"
    /\ UNCHANGED <<prev, ticks, written, mode, queue, run, cleared, bell, told, warned, due>>

(* The loop has taken every message (poll_watch) and takes the bell.       *)
TakeBell ==
    /\ queue = <<>> /\ bell
    /\ bell' = FALSE /\ due' = FALSE
    /\ UNCHANGED <<prev, ticks, written, mode, queue, run, banner, cleared, told, warned>>

Next ==
    \/ \E cur \in Snapshots : Tick(cur)
    \/ CsvFails \/ Finish \/ Apply \/ Key \/ TakeBell

Spec == Init /\ [][Next]_vars

(* The loop goes round every tick of its own clock, whatever the run does. *)
Fairness == WF_vars(Apply) /\ WF_vars(TakeBell)

FairSpec == Spec /\ Fairness

-----------------------------------------------------------------------------
(* Every variable has a value the code can give it.                        *)
TypeOK ==
    /\ prev \in [Cells -> Statuses]
    /\ ticks \in 0..MaxTicks /\ written \in 0..MaxTicks /\ run \in 0..MaxTicks
    /\ mode \in {"running", "done", "failed"}
    /\ queue \in Seq([run : 1..MaxTicks, started : SUBSET Cells, ended : SUBSET Cells])
    /\ Len(queue) <= MaxTicks
    /\ banner = "none" \/ banner \in Cells
    /\ cleared \subseteq Rows
    /\ bell \in BOOLEAN /\ due \in BOOLEAN
    /\ told \subseteq Cells /\ warned \subseteq Cells

(* Whoever follows the events knows every cell that fails now, and every   *)
(* one that warns, whatever order the readings came in: after an error, a  *)
(* market that could not be read, a first tick.                            *)
EveryStateAnnounced ==
    \A c \in Cells :
        /\ prev[c] = "fail" => c \in told
        /\ prev[c] = "warn" => c \in warned

(* A reading that says nothing about the breach (an error, or no reading   *)
(* at all) does not end it.                                                *)
ErrorClearsNothing ==
    [][\A c \in told : prev'[c] \in {"error", "absent"} => c \in told']_vars

(* Nothing is on the screen that is not in the CSV file.                   *)
CsvBeforeScreen ==
    HasCsv => /\ run <= written
              /\ \A i \in DOMAIN queue : queue[i].run <= written

(* No bell is lost: a breach that started is in a message the grid will    *)
(* take, or the grid has the bell for it.                                  *)
BellNotLost ==
    due => bell \/ \E i \in DOMAIN queue : queue[i].started # {}

(* So it rings.                                                            *)
BellRings == due ~> ~due
=============================================================================
