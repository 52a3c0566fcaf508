----------------------------- MODULE WatchTape -----------------------------
(***************************************************************************)
(* Which trades a watch run's `largest_trade` judges, and on which tick    *)
(* (crates/scope-core/src/watch/history.rs, `largest_trade`, as            *)
(* crates/scope-cli/src/cli/watch/fetch.rs calls it).                      *)
(*                                                                         *)
(* A tick takes its clock first and reads the venue's tape later, or fails *)
(* to.  Trades go on meanwhile; the tape holds the newest of them.  Time   *)
(* is in milliseconds, and several trades can share one.                   *)
(***************************************************************************)
EXTENDS Integers, Sequences

CONSTANTS
    Window,     \* one interval, what the first tick looks back
    Limit,      \* how many trades the venue's tape holds
    MaxTime,    \* bound of the model: the clock stops here
    MaxTrades   \* bound of the model: trades

ASSUME WindowAssumption == Window \in Nat /\ Limit \in Nat
ASSUME BoundsAssumption == MaxTime \in Nat /\ MaxTrades \in Nat

None == -1      \* no instant
Ids  == 1..MaxTrades

VARIABLES
    now,        \* the clock of the machine, and of the venue
    trades,     \* the times of the trades so far, in order
    pc,         \* the tick: "wait" for the next one, or "reading"
    clock,      \* Clock::now_ms of the tick
    last,       \* Memory::last_trade_ms
    counted,    \* history: on how many ticks each trade was judged
    since,      \* history: where the first tick that saw a trade began to count
    edges,      \* history: the newest instant of each reading
    fell        \* history: trades that a reading found no longer on the tape

vars == <<now, trades, pc, clock, last, counted, since, edges, fell>>

Max2(a, b) == IF a >= b THEN a ELSE b

OnTape == {i \in 1..Len(trades) : i > Len(trades) - Limit}

(* Where this tick begins to count: after the newest trade it knows, or    *)
(* one interval before its clock.                                          *)
After == IF last = None THEN Max2(0, clock - Window) ELSE last

(* Variant: the trades of the last known instant count again.              *)
NewTradesAgain == {i \in OnTape : trades[i] >= After}

NewTrades == {i \in OnTape : trades[i] > After}

(* The newest trade of a tape, in order as it is.                          *)
Newest == trades[Len(trades)]

-----------------------------------------------------------------------------
Init ==
    /\ now \in 0..MaxTime /\ trades = <<>>
    /\ pc = "wait" /\ clock = 0 /\ last = None
    /\ counted = [i \in Ids |-> 0]
    /\ since = None /\ edges = {} /\ fell = {}

(* The interval, or a slow request, goes by.                               *)
Advance ==
    /\ now < MaxTime
    /\ now' = now + 1
    /\ UNCHANGED <<trades, pc, clock, last, counted, since, edges, fell>>

Trade ==
    /\ Len(trades) < MaxTrades
    /\ trades' = Append(trades, now)
    /\ UNCHANGED <<now, pc, clock, last, counted, since, edges, fell>>

BeginTick ==
    /\ pc = "wait"
    /\ clock' = now /\ pc' = "reading"
    /\ UNCHANGED <<now, trades, last, counted, since, edges, fell>>

(* The tape is read, and its newest trade remembered.                      *)
ReadTape ==
    /\ pc = "reading" /\ OnTape # {}
    /\ counted' = [i \in Ids |-> IF i \in NewTrades THEN counted[i] + 1 ELSE counted[i]]
    /\ last' = Max2(last, Newest)
    /\ since' = IF last = None THEN After ELSE since
    /\ edges' = edges \union {Newest}
    /\ fell' = fell \union ((1..Len(trades)) \ OnTape)
    /\ pc' = "wait"
    /\ UNCHANGED <<now, trades, clock>>

(* The tape is read, and there is no trade on it: nothing to remember.     *)
ReadEmptyTape ==
    /\ pc = "reading" /\ OnTape = {}
    /\ fell' = fell \union (1..Len(trades))
    /\ pc' = "wait"
    /\ UNCHANGED <<now, trades, clock, last, counted, since, edges>>

(* Variant: the trades of a tick that could not read them are behind it.   *)
ReadFailsForgets ==
    /\ pc = "reading"
    /\ last' = IF last = None THEN None ELSE Max2(last, clock)
    /\ pc' = "wait"
    /\ UNCHANGED <<now, trades, clock, counted, since, edges, fell>>

(* The market or its tape cannot be read: the cell is an error.            *)
ReadFails ==
    /\ pc = "reading"
    /\ pc' = "wait"
    /\ UNCHANGED <<now, trades, clock, last, counted, since, edges, fell>>

Next == Advance \/ Trade \/ BeginTick \/ ReadTape \/ ReadEmptyTape \/ ReadFails

Spec == Init /\ [][Next]_vars

-----------------------------------------------------------------------------
(* Every variable has a value the code can give it.                        *)
TypeOK ==
    /\ now \in 0..MaxTime
    /\ trades \in Seq(0..MaxTime) /\ Len(trades) <= MaxTrades
    /\ pc \in {"wait", "reading"}
    /\ clock \in 0..MaxTime
    /\ last \in {None} \union (0..MaxTime)
    /\ counted \in [Ids -> Nat]
    /\ since \in {None} \union (0..MaxTime)
    /\ edges \subseteq 0..MaxTime /\ fell \subseteq Ids

(* A trade is judged on one tick at most: a whale trade is one breach, not *)
(* one on every tick it is still on the tape.                              *)
JudgedOnce == \A i \in Ids : counted[i] <= 1

(* And on one tick at least, when it came after the counting began and     *)
(* was on the tape at a reading: ticks that come late, or that could not   *)
(* read the tape, and trades during a request lose none.  (A trade of the  *)
(* very millisecond of the newest one a reading saw may have reached the   *)
(* tape after it, and is then lost: see the README.)                       *)
NoneMissed ==
    \A i \in 1..Len(trades) :
        /\ trades[i] > since /\ trades[i] < last
        /\ trades[i] \notin edges /\ i \notin fell
        => counted[i] = 1
=============================================================================
