---------------------------- MODULE MonitorProofs ----------------------------
(***************************************************************************)
(* Proofs about what a monitor shows: of a watchlist (WatchEvents, for any *)
(* rows, amounts and number of ticks) and of one token (LiveMonitor, for   *)
(* any range of intervals and any ages).                                   *)
(*                                                                         *)
(* Of a watchlist: what fails or warns has been announced, nothing is on   *)
(* the screen before it is in the CSV file, and no bell is lost.           *)
(* CsvBeforeScreen is not inductive: that the message of a tick is behind  *)
(* the file needs the file to have every tick of a run that goes on        *)
(* (Written).  The type invariant needs the queue to hold no more messages *)
(* than there were ticks (Bounded).                                        *)
(*                                                                         *)
(* Of a token: an error is shown as long as it is news, and no refresh     *)
(* begins before its time.  ErrorIsNews is about the time between two      *)
(* refreshes; ErrorSoFar says the same of the requests that have ended     *)
(* while one is under way.                                                 *)
(***************************************************************************)
EXTENDS WatchEvents, LiveMonitor, TLAPS

Messages == [run : 1..MaxTicks, started : SUBSET Cells, ended : SUBSET Cells]

(* No more messages wait than there were ticks, nor rows are written.      *)
Bounded == Len(queue) <= ticks /\ written <= ticks

(* While the run goes on, the file has the rows of every tick.             *)
Written == HasCsv /\ mode = "running" => written = ticks

EventsInv ==
    TypeOK /\ Bounded /\ Written /\ EveryStateAnnounced /\ CsvBeforeScreen /\ BellNotLost

-----------------------------------------------------------------------------
(* What a row reads is a status for every label, so a snapshot is a status *)
(* for every cell.                                                         *)
LEMMA ReadingsTyped == RowReadings \subseteq [Labels -> Statuses]
<1>1. Unread \in [Labels -> Statuses]
  BY DEF Unread, Statuses
<1>2. \A m \in Markets : ReadAs(m) \in [Labels -> Statuses]
  BY DEF ReadAs, Markets, Statuses
<1> QED
  BY <1>1, <1>2 DEF RowReadings

LEMMA SnapshotsTyped == Snapshots \subseteq [Cells -> Statuses]
<1> SUFFICES ASSUME NEW f \in [Rows -> RowReadings]
             PROVE  [c \in Cells |-> f[c[1]][c[2]]] \in [Cells -> Statuses]
  BY DEF Snapshots
<1> SUFFICES ASSUME NEW c \in Cells PROVE f[c[1]][c[2]] \in Statuses
  OBVIOUS
<1>1. c[1] \in Rows /\ c[2] \in Labels
  BY DEF Cells
<1> QED
  BY <1>1, ReadingsTyped

(* The first message of a queue, and what is left behind it.               *)
LEMMA HeadAndTail ==
    ASSUME TypeOK, queue # <<>>
    PROVE  /\ Head(queue) = queue[1] /\ Head(queue) \in Messages
           /\ 1 \in DOMAIN queue
           /\ Tail(queue) \in Seq(Messages) /\ Len(Tail(queue)) = Len(queue) - 1
           /\ \A i \in DOMAIN Tail(queue) :
                 i + 1 \in DOMAIN queue /\ Tail(queue)[i] = queue[i + 1]
           /\ \A i \in DOMAIN queue : i # 1 =>
                 i - 1 \in DOMAIN Tail(queue) /\ Tail(queue)[i - 1] = queue[i]
<1>1. queue \in Seq(Messages)
  BY DEF TypeOK, Messages
<1> HIDE DEF Messages
<1> QED
  BY <1>1

(* A message that is sent is the last of the queue.                        *)
LEMMA Sent ==
    ASSUME TypeOK, NEW m \in Messages
    PROVE  /\ Append(queue, m) \in Seq(Messages)
           /\ Len(Append(queue, m)) = Len(queue) + 1
           /\ Len(queue) + 1 \in DOMAIN Append(queue, m)
           /\ Append(queue, m)[Len(queue) + 1] = m
           /\ \A i \in DOMAIN queue :
                 i \in DOMAIN Append(queue, m) /\ Append(queue, m)[i] = queue[i]
           /\ \A i \in DOMAIN Append(queue, m) : i \in DOMAIN queue \/ i = Len(queue) + 1
<1>1. queue \in Seq(Messages)
  BY DEF TypeOK, Messages
<1> HIDE DEF Messages
<1> QED
  BY <1>1

-----------------------------------------------------------------------------
(* A tick is read, written and sent.                                       *)
LEMMA TickStep == ASSUME EventsInv, NEW cur \in Snapshots, Tick(cur) PROVE EventsInv'
<1> USE BoundsAssumption
<1> DEFINE m == [run |-> ticks + 1, started |-> BreachStarts(prev, cur),
                 ended |-> BreachClears(prev, cur)]
<1>1. cur \in [Cells -> Statuses]
  BY SnapshotsTyped
<1>2. /\ ticks \in 0..MaxTicks /\ ticks < MaxTicks /\ ticks' = ticks + 1
      /\ written \in 0..MaxTicks /\ written <= ticks
      /\ written' = IF HasCsv THEN written + 1 ELSE written
      /\ mode = "running" /\ mode' = mode
      /\ Len(queue) \in Nat /\ Len(queue) <= ticks
  BY DEF EventsInv, TypeOK, Bounded, Tick
<1>3. /\ BreachStarts(prev, cur) \subseteq Cells /\ BreachClears(prev, cur) \subseteq Cells
      /\ WarnStarts(prev, cur) \subseteq Cells
  BY DEF BreachStarts, BreachClears, WarnStarts
<1>4. m \in Messages
  BY <1>2, <1>3 DEF Messages
<1>5. queue' = Append(queue, m) /\ prev' = cur
  BY DEF Tick, Shown
<1>6. /\ told' = (told \union BreachStarts(prev, cur)) \ BreachClears(prev, cur)
      /\ warned' = (warned \union WarnStarts(prev, cur)) \ WarnClears(prev, cur)
      /\ due' = (due \/ BreachStarts(prev, cur) # {})
  BY DEF Tick, Shown
<1> HIDE DEF m
<1>7. /\ queue' \in Seq(Messages) /\ Len(queue') = Len(queue) + 1
      /\ Len(queue) + 1 \in DOMAIN queue' /\ queue'[Len(queue) + 1] = m
      /\ \A i \in DOMAIN queue : i \in DOMAIN queue' /\ queue'[i] = queue[i]
      /\ \A i \in DOMAIN queue' : i \in DOMAIN queue \/ i = Len(queue) + 1
  BY <1>4, <1>5, Sent DEF EventsInv
<1>8. TypeOK'
  <2>1. due' \in BOOLEAN
    BY <1>6 DEF EventsInv, TypeOK
  <2>2. told' \subseteq Cells /\ warned' \subseteq Cells
    BY <1>3, <1>6 DEF EventsInv, TypeOK
  <2> QED
    BY <1>1, <1>2, <1>5, <1>7, <2>1, <2>2 DEF EventsInv, TypeOK, Messages, Tick, grid
<1>9. Bounded' /\ Written'
  BY <1>2, <1>7 DEF EventsInv, Bounded, Written
<1>10. EveryStateAnnounced'
  <2> SUFFICES ASSUME NEW c \in Cells
               PROVE  /\ cur[c] = "fail" => c \in told'
                      /\ cur[c] = "warn" => c \in warned'
    BY <1>5 DEF EveryStateAnnounced
  <2>1. ASSUME cur[c] = "fail" PROVE c \in told'
    BY <1>6, <2>1 DEF EventsInv, EveryStateAnnounced, BreachStarts, BreachClears
  <2>2. ASSUME cur[c] = "warn" PROVE c \in warned'
    BY <1>6, <2>2 DEF EventsInv, EveryStateAnnounced, WarnStarts, WarnClears
  <2> QED
    BY <2>1, <2>2
<1>11. CsvBeforeScreen'
  <2> SUFFICES ASSUME HasCsv
               PROVE  run' <= written' /\ \A i \in DOMAIN queue' : queue'[i].run <= written'
    BY DEF CsvBeforeScreen
  <2>1. written = ticks /\ written' = ticks + 1
    BY <1>2 DEF EventsInv, Written
  <2>2. run' <= written'
    BY <2>1, <1>2 DEF EventsInv, CsvBeforeScreen, TypeOK, Tick, grid
  <2>3. ASSUME NEW i \in DOMAIN queue' PROVE queue'[i].run <= written'
    <3>1. CASE i = Len(queue) + 1
      BY <3>1, <1>7, <1>2, <2>1 DEF m
    <3>2. CASE i \in DOMAIN queue
      <4>1. queue[i].run <= written
        BY <3>2 DEF EventsInv, CsvBeforeScreen
      <4>2. queue'[i] = queue[i] /\ queue'[i] \in Messages
        BY <3>2, <1>7
      <4>3. queue'[i].run \in 1..MaxTicks
        BY <4>2 DEF Messages
      <4> QED
        BY <4>1, <4>2, <4>3, <1>2, <2>1
    <3> QED
      BY <3>1, <3>2, <1>7
  <2> QED
    BY <2>2, <2>3
<1>12. BellNotLost'
  <2> SUFFICES ASSUME due' PROVE bell \/ \E i \in DOMAIN queue' : queue'[i].started # {}
    BY DEF BellNotLost, Tick, grid
  <2>1. CASE BreachStarts(prev, cur) # {}
    BY <2>1, <1>7 DEF m
  <2>2. CASE due
    BY <2>2, <1>7 DEF EventsInv, BellNotLost
  <2> QED
    BY <2>1, <2>2, <1>6
<1> QED
  BY <1>8, <1>9, <1>10, <1>11, <1>12 DEF EventsInv

(* The grid takes a message.                                               *)
LEMMA ApplyStep == EventsInv /\ Apply => EventsInv'
<1> SUFFICES ASSUME EventsInv, Apply PROVE EventsInv'
  OBVIOUS
<1> USE BoundsAssumption
<1> DEFINE m == Head(queue)
<1>1. /\ m = queue[1] /\ m \in Messages /\ 1 \in DOMAIN queue
      /\ queue' \in Seq(Messages) /\ Len(queue') = Len(queue) - 1
      /\ \A i \in DOMAIN queue' : i + 1 \in DOMAIN queue /\ queue'[i] = queue[i + 1]
      /\ \A i \in DOMAIN queue : i # 1 => i - 1 \in DOMAIN queue' /\ queue'[i - 1] = queue[i]
  BY HeadAndTail DEF EventsInv, Apply
<1>2. /\ run' = m.run /\ bell' = (bell \/ m.started # {})
      /\ banner' \in IF m.started = {} THEN {banner} ELSE m.started
      /\ cleared' = {c[1] : c \in m.ended}
      /\ UNCHANGED <<prev, ticks, written, mode, told, warned, due>>
  BY DEF Apply
<1> HIDE DEF m
<1>3. TypeOK'
  <2>1. run' \in 0..MaxTicks /\ bell' \in BOOLEAN
    BY <1>1, <1>2 DEF EventsInv, TypeOK, Messages
  <2>2. banner' = "none" \/ banner' \in Cells
    BY <1>1, <1>2 DEF EventsInv, TypeOK, Messages
  <2>3. cleared' \subseteq Rows
    BY <1>1, <1>2 DEF Messages, Cells
  <2>4. Len(queue') <= MaxTicks
    BY <1>1 DEF EventsInv, TypeOK
  <2> QED
    BY <1>1, <1>2, <2>1, <2>2, <2>3, <2>4 DEF EventsInv, TypeOK, Messages
<1>4. Bounded' /\ Written' /\ EveryStateAnnounced'
  <2>1. Len(queue') <= ticks
    BY <1>1 DEF EventsInv, Bounded, TypeOK
  <2> QED
    BY <1>2, <2>1 DEF EventsInv, Bounded, Written, EveryStateAnnounced
<1>5. CsvBeforeScreen'
  BY <1>1, <1>2 DEF EventsInv, CsvBeforeScreen
<1>6. BellNotLost'
  <2> SUFFICES ASSUME due PROVE bell' \/ \E i \in DOMAIN queue' : queue'[i].started # {}
    BY <1>2 DEF BellNotLost
  <2>1. CASE bell
    BY <2>1, <1>2
  <2>2. CASE \E i \in DOMAIN queue : queue[i].started # {}
    <3>1. PICK i \in DOMAIN queue : queue[i].started # {}
      BY <2>2
    <3> QED
      BY <3>1, <1>1, <1>2
  <2> QED
    BY <2>1, <2>2 DEF EventsInv, BellNotLost
<1> QED
  BY <1>3, <1>4, <1>5, <1>6 DEF EventsInv

(* The other steps read nothing and send nothing.                          *)
LEMMA OtherSteps ==
    EventsInv /\ (CsvFails \/ Finish \/ Key \/ TakeBell \/ UNCHANGED vars) => EventsInv'
<1> SUFFICES ASSUME EventsInv, CsvFails \/ Finish \/ Key \/ TakeBell \/ UNCHANGED vars
             PROVE  EventsInv'
  OBVIOUS
<1> USE BoundsAssumption
<1>1. CASE CsvFails
  BY <1>1 DEF CsvFails, EventsInv, TypeOK, Bounded, Written, EveryStateAnnounced,
     CsvBeforeScreen, BellNotLost, grid
<1>2. CASE Finish
  BY <1>2 DEF Finish, EventsInv, TypeOK, Bounded, Written, EveryStateAnnounced,
     CsvBeforeScreen, BellNotLost, grid
<1>3. CASE Key
  BY <1>3 DEF Key, EventsInv, TypeOK, Bounded, Written, EveryStateAnnounced,
     CsvBeforeScreen, BellNotLost
<1>4. CASE TakeBell
  BY <1>4 DEF TakeBell, EventsInv, TypeOK, Bounded, Written, EveryStateAnnounced,
     CsvBeforeScreen, BellNotLost
<1>5. CASE UNCHANGED vars
  BY <1>5 DEF vars, EventsInv, TypeOK, Bounded, Written, EveryStateAnnounced,
     CsvBeforeScreen, BellNotLost, grid
<1> QED
  BY <1>1, <1>2, <1>3, <1>4, <1>5

(* Before the first tick there is nothing to announce.                     *)
LEMMA StartsQuiet == Init => EventsInv
<1> SUFFICES ASSUME Init PROVE EventsInv
  OBVIOUS
<1> USE BoundsAssumption
<1>1. prev \in [Cells -> Statuses] /\ \A c \in Cells : prev[c] = "absent"
  BY DEF Init, Nothing, Statuses
<1>2. queue = <<>> /\ Len(queue) = 0 /\ DOMAIN queue = {}
  BY DEF Init
<1>3. TypeOK
  <2>1. queue \in Seq(Messages) /\ Len(queue) <= MaxTicks
    BY <1>2
  <2>2. /\ ticks \in 0..MaxTicks /\ written \in 0..MaxTicks /\ run \in 0..MaxTicks
        /\ mode \in {"running", "done", "failed"}
        /\ banner = "none" /\ cleared \subseteq Rows
        /\ told \subseteq Cells /\ warned \subseteq Cells
    BY DEF Init
  <2>3. bell \in BOOLEAN /\ due \in BOOLEAN
    BY DEF Init
  <2> QED
    BY <1>1, <2>1, <2>2, <2>3 DEF TypeOK, Messages
<1>4. Bounded /\ Written /\ CsvBeforeScreen /\ BellNotLost
  BY <1>2 DEF Init, Bounded, Written, CsvBeforeScreen, BellNotLost
<1>5. EveryStateAnnounced
  BY <1>1 DEF EveryStateAnnounced
<1> QED
  BY <1>3, <1>4, <1>5 DEF EventsInv

(* The invariant of a run and its grid.                                    *)
THEOREM EventsSound == Spec => []EventsInv
<1>1. EventsInv /\ [Next]_vars => EventsInv'
  BY TickStep, ApplyStep, OtherSteps DEF Next
<1> QED
  BY <1>1, StartsQuiet, PTL DEF Spec

(* Every variable has a value the code can give it.                        *)
THEOREM TypeCorrect == Spec => []TypeOK
<1>1. EventsInv => TypeOK
  BY DEF EventsInv
<1> QED
  BY <1>1, EventsSound, PTL

(* Every cell that fails or warns was announced by the events `diff` gave, *)
(* whatever readings came before.                                          *)
THEOREM Announced == Spec => []EveryStateAnnounced
<1>1. EventsInv => EveryStateAnnounced
  BY DEF EventsInv
<1> QED
  BY <1>1, EventsSound, PTL

(* Nothing is on the grid, or on its way to it, that the CSV file lacks.   *)
THEOREM FileFirst == Spec => []CsvBeforeScreen
<1>1. EventsInv => CsvBeforeScreen
  BY DEF EventsInv
<1> QED
  BY <1>1, EventsSound, PTL

(* A breach that no bell has rung for is in the queue or has the bell set. *)
THEOREM NoBellLost == Spec => []BellNotLost
<1>1. EventsInv => BellNotLost
  BY DEF EventsInv
<1> QED
  BY <1>1, EventsSound, PTL

(* No error and no missing reading ends a breach.                          *)
THEOREM ErrorsKeepBreaches == Spec => ErrorClearsNothing
<1>1. [Next]_vars => [\A c \in told : prev'[c] \in {"error", "absent"} => c \in told']_vars
  <2> SUFFICES ASSUME Next, NEW c \in told, prev'[c] \in {"error", "absent"}
               PROVE  c \in told'
    OBVIOUS
  <2>1. CASE \E cur \in Snapshots : Tick(cur)
    BY <2>1 DEF Tick, Shown, BreachClears
  <2>2. CASE CsvFails \/ Finish \/ Apply \/ Key \/ TakeBell
    BY <2>2 DEF CsvFails, Finish, Apply, Key, TakeBell
  <2> QED
    BY <2>1, <2>2 DEF Next
<1> QED
  BY <1>1, PTL DEF Spec, ErrorClearsNothing

-----------------------------------------------------------------------------
(* While requests are under way, an error is shown exactly when one of     *)
(* those that have ended has failed.                                       *)
Reached ==
    CASE at = "book"   -> {"price"}
      [] at = "trades" -> {"price"} \union (wanted \cap {"book"})
      [] OTHER         -> {}

ErrorSoFar ==
    /\ at = "price" => fresh = {}
    /\ at \in {"book", "trades"} => fresh \subseteq Reached /\ (error <=> fresh # Reached)

(* The age of the price counts from the end of its last request, unless r  *)
(* was pressed since.                                                      *)
AgeIsRest == ~asked => priceAge = restAge

MonitorInv == LiveTypeOK /\ "price" \in wanted /\ ErrorIsNews /\ ErrorSoFar /\ AgeIsRest

(* Nothing has been asked for at the start.                                *)
LEMMA MonitorStarts == LiveInit => MonitorInv
<1> SUFFICES ASSUME LiveInit PROVE MonitorInv
  OBVIOUS
<1>1. PICK venue \in SUBSET {"book", "trades"} : wanted = {"price"} \union venue
  BY DEF LiveInit
<1>2. "price" \in wanted /\ wanted \subseteq {"price", "book", "trades"}
  BY <1>1
<1>3. LiveTypeOK
  <2>1. rate \in 0..MaxAge /\ 0 \in 0..MaxAge /\ 0 \in 0..MaxKeys
    BY RateAssumption DEF LiveInit
  <2> QED
    BY <1>2, <2>1, Zenon DEF LiveInit, LiveTypeOK
<1>4. ErrorIsNews /\ ErrorSoFar /\ AgeIsRest
  BY DEF LiveInit, ErrorIsNews, ErrorSoFar, AgeIsRest
<1> QED
  BY <1>2, <1>3, <1>4 DEF MonitorInv

(* What the ages and the interval are cut to is in their range.            *)
LEMMA Ages ==
    ASSUME NEW m \in 0..MaxAge, NEW n \in 0..MaxAge
    PROVE  /\ Least(m, n) \in 0..MaxAge /\ Least(m + 1, MaxAge) \in 0..MaxAge
           /\ Most(m, n) \in 0..MaxAge
  BY RateAssumption DEF Least, Most

(* Time only makes the ages grow, the same way.                            *)
LEMMA TimeStep == ASSUME MonitorInv, TimePasses PROVE MonitorInv'
<1>1. LiveTypeOK'
  BY Ages DEF MonitorInv, LiveTypeOK, TimePasses, settings
<1>2. AgeIsRest'
  BY DEF MonitorInv, AgeIsRest, TimePasses
<1>3. (ErrorIsNews /\ ErrorSoFar)'
  BY DEF MonitorInv, ErrorIsNews, ErrorSoFar, Reached, TimePasses
<1> QED
  BY <1>1, <1>2, <1>3 DEF MonitorInv, TimePasses

(* The loop goes on from its wait: what is on the screen stays, or a       *)
(* refresh begins and nothing of it has been shown.                        *)
LEMMA LoopStep ==
    ASSUME MonitorInv, at = "wait", UNCHANGED <<wanted, error, restAge>>, LoopOn,
           LiveTypeOK', AgeIsRest'
    PROVE  MonitorInv'
  BY DEF MonitorInv, LoopOn, ErrorIsNews, ErrorSoFar, Reached

(* Where it goes on from there is a place of the loop.                     *)
LEMMA LoopTyped ==
    ASSUME MonitorInv, LoopOn, wanted' = wanted
    PROVE  at' \in {"wait", "ended"} \union wanted' /\ fresh' \subseteq wanted'
  BY DEF MonitorInv, LiveTypeOK, LoopOn

(* The sleep ends, or an event comes that is no key.                       *)
LEMMA WakeStep == ASSUME MonitorInv, Wake PROVE MonitorInv'
<1>1. LiveTypeOK' /\ AgeIsRest'
  BY LoopTyped DEF Wake, MonitorInv, LiveTypeOK, AgeIsRest, settings
<1> QED
  BY <1>1, LoopStep DEF Wake

(* A key: the loop ends or goes on, with other settings.                   *)
LEMMA KeyStepKeeps == ASSUME MonitorInv, KeyStep PROVE MonitorInv'
<1>1. at = "wait" /\ UNCHANGED <<wanted, error, restAge>>
      /\ inputAge' \in 0..MaxAge /\ pressed' \in 0..MaxKeys
  BY RateAssumption
  DEF KeyStep, OverlayKey, Quit, ForceRefresh, ToggleAutoPause, TogglePause, ChangeRate, Acts,
     Pressed,
      MonitorInv, LiveTypeOK
<1>2. overlay' \subseteq {"keys", "widgets"}
  BY DEF KeyStep, OverlayKey, Quit, ForceRefresh, ToggleAutoPause, TogglePause, ChangeRate, Acts,
         MonitorInv, LiveTypeOK
<1>3. CASE Quit
  BY <1>1, <1>2, <1>3 DEF Quit, MonitorInv, LiveTypeOK, ErrorIsNews, ErrorSoFar, Reached, AgeIsRest
<1>4. CASE OverlayKey \/ ForceRefresh \/ ToggleAutoPause \/ TogglePause
  <2>1. LoopOn
    BY <1>4 DEF OverlayKey, ForceRefresh, ToggleAutoPause, TogglePause
  <2>2. /\ rate' \in 0..MaxAge /\ priceAge' \in 0..MaxAge /\ restAge' \in 0..MaxAge
        /\ paused' \in BOOLEAN /\ autoPause' \in BOOLEAN /\ asked' \in BOOLEAN /\ AgeIsRest'
    BY <1>1, <1>4 DEF OverlayKey, ForceRefresh, ToggleAutoPause, TogglePause, MonitorInv,
       LiveTypeOK, AgeIsRest
  <2>3. LiveTypeOK'
    BY <1>1, <1>2, <2>1, <2>2, LoopTyped DEF MonitorInv, LiveTypeOK
  <2> QED
    BY <1>1, <2>1, <2>2, <2>3, LoopStep
<1>5. CASE ChangeRate
  <2>1. rate' \in 0..MaxAge
    <3>1. rate \in 0..MaxAge /\ MinRate \in 0..MaxAge
      BY RateAssumption DEF MonitorInv, LiveTypeOK
    <3>2. Least(rate + RateStep, MaxRate) \in 0..MaxAge
      BY <3>1, RateAssumption DEF Least
    <3>3. Most(IF rate > RateStep THEN rate - RateStep ELSE 0, MinRate) \in 0..MaxAge
      BY <3>1, RateAssumption DEF Most
    <3> QED
      BY <1>5, <3>2, <3>3 DEF ChangeRate
  <2>2. AgeIsRest' /\ LiveTypeOK'
    BY <1>1, <1>2, <1>5, <2>1, LoopTyped DEF ChangeRate, MonitorInv, LiveTypeOK, AgeIsRest
  <2> QED
    BY <1>1, <1>5, <2>2, LoopStep DEF ChangeRate
<1> QED
  BY <1>3, <1>4, <1>5 DEF KeyStep

(* A request ends: the price resets both ages, and a failure is shown.     *)
LEMMA AnswerStep == ASSUME MonitorInv, Answered PROVE MonitorInv'
<1> USE DEF MonitorInv
<1>1. wanted' = wanted /\ settings' = settings /\ inputAge' = inputAge /\ pressed' = pressed
  BY DEF Answered, PriceGiven, PriceFails, VenueGiven, VenueFails
<1>2. LiveTypeOK'
  <2>1. fresh' \subseteq wanted' /\ error' \in BOOLEAN /\ asked' \in BOOLEAN
        /\ priceAge' \in 0..MaxAge /\ restAge' \in 0..MaxAge
    <3>1. 0 \in 0..MaxAge
      BY RateAssumption
    <3>2. CASE PriceGiven \/ PriceFails
      BY <1>1, <3>1, <3>2 DEF PriceGiven, PriceFails, LiveTypeOK
    <3>3. ASSUME NEW p, VenueGiven(p) \/ VenueFails(p), p \in wanted
          PROVE  fresh' \subseteq wanted /\ error' \in BOOLEAN
                 /\ UNCHANGED <<asked, priceAge, restAge>>
      BY <3>3 DEF VenueGiven, VenueFails, LiveTypeOK
    <3>4. at \in {"book", "trades"} => at \in wanted
      BY DEF LiveTypeOK
    <3>5. CASE \E p \in {"book", "trades"} : VenueGiven(p) \/ VenueFails(p)
      <4>1. PICK p \in {"book", "trades"} : VenueGiven(p) \/ VenueFails(p)
        BY <3>5
      <4>2. p \in wanted
        BY <3>4, <4>1 DEF VenueGiven, VenueFails
      <4> QED
        BY <1>1, <3>3, <4>1, <4>2 DEF LiveTypeOK
    <3> QED
      BY <3>2, <3>5 DEF Answered
  <2>2. at' \in {"wait"} \union wanted'
    BY <1>1 DEF Answered, PriceGiven, PriceFails, VenueGiven, VenueFails, Following
  <2> QED
    BY <1>1, <2>1, <2>2 DEF LiveTypeOK, settings
<1>3. AgeIsRest'
  BY DEF Answered, PriceGiven, PriceFails, VenueGiven, VenueFails, AgeIsRest
<1>4. (ErrorIsNews /\ ErrorSoFar)'
  <2>1. CASE PriceGiven \/ PriceFails
    BY <2>1 DEF PriceGiven, PriceFails, Following, ErrorIsNews, ErrorSoFar, Reached, LiveTypeOK
  <2>2. CASE \E p \in {"book", "trades"} : VenueGiven(p) \/ VenueFails(p)
    BY <2>2 DEF VenueGiven, VenueFails, Following, ErrorIsNews, ErrorSoFar, Reached, LiveTypeOK
  <2> QED
    BY <2>1, <2>2 DEF Answered
<1> QED
  BY <1>1, <1>2, <1>3, <1>4

LEMMA MonitorStep == MonitorInv /\ [LiveNext]_liveVars => MonitorInv'
<1>1. ASSUME MonitorInv, LiveNext PROVE MonitorInv'
  BY <1>1, TimeStep, WakeStep, KeyStepKeeps, AnswerStep DEF LiveNext
<1>2. ASSUME MonitorInv, UNCHANGED liveVars PROVE MonitorInv'
  BY <1>2 DEF MonitorInv, LiveTypeOK, ErrorIsNews, ErrorSoFar, Reached, AgeIsRest, liveVars,
     settings
<1> QED
  BY <1>1, <1>2

(* The invariant of the live monitor.                                      *)
THEOREM MonitorSound == LiveSpec => []MonitorInv
<1> QED
  BY MonitorStarts, MonitorStep, PTL DEF LiveSpec

(* Every variable of the live monitor has a value the code can give it.    *)
THEOREM LiveTypeCorrect == LiveSpec => []LiveTypeOK
<1>1. MonitorInv => LiveTypeOK
  BY DEF MonitorInv
<1> QED
  BY <1>1, MonitorSound, PTL

(* Between refreshes an error is shown exactly when something on screen is *)
(* older than the last refresh, however many of its requests failed.       *)
THEOREM ErrorsAreNews == LiveSpec => []ErrorIsNews
<1>1. MonitorInv => ErrorIsNews
  BY DEF MonitorInv
<1> QED
  BY <1>1, MonitorSound, PTL

(* Unless r was pressed, a refresh begins no sooner than the interval      *)
(* after the last price request ended, well or not.                        *)
THEOREM NeverRetriesRapidly == LiveSpec => NoRapidRetry
<1>1. MonitorInv /\ [LiveNext]_liveVars => [~TooSoon]_liveVars
  <2> SUFFICES ASSUME MonitorInv, LiveNext, at = "wait", at' = "price", ~asked'
               PROVE  ~(restAge < rate')
    BY DEF TooSoon
  <2>1. ShouldRefresh' \/ at' # "price"
    BY DEF LiveNext, TimePasses, Wake, KeyStep, OverlayKey, Quit, ForceRefresh, ToggleAutoPause,
         TogglePause,
       ChangeRate, Answered, PriceGiven, PriceFails, VenueGiven, VenueFails, LoopOn
  <2>2. priceAge' = priceAge /\ ~asked /\ rate' \in 0..MaxAge
    <3>1. MonitorInv'
      BY MonitorStep
    <3>2. priceAge' = priceAge /\ ~asked
      BY DEF LiveNext, TimePasses, Wake, KeyStep, OverlayKey, Quit, ForceRefresh, ToggleAutoPause,
         TogglePause,
         ChangeRate, Answered, PriceGiven, PriceFails, VenueGiven, VenueFails
    <3> QED
      BY <3>1, <3>2 DEF MonitorInv, LiveTypeOK
  <2>3. restAge = priceAge /\ priceAge \in 0..MaxAge
    BY <2>2 DEF MonitorInv, AgeIsRest, LiveTypeOK
  <2> QED
    BY <2>1, <2>2, <2>3 DEF ShouldRefresh
<1> QED
  BY <1>1, MonitorSound, PTL DEF LiveSpec, NoRapidRetry
=============================================================================
