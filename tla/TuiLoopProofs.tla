--------------------------- MODULE TuiLoopProofs ---------------------------
(***************************************************************************)
(* Proofs about TuiLoop, for any number of lines, runs, ticks and changes  *)
(* of the settings: where questions are, what the grid shows at the end of *)
(* its run, where the warnings go, and what the journal and the scrollback *)
(* have of the commands and runs that ended; and that the loop implements  *)
(* QuestionSlot.                                                           *)
(***************************************************************************)
EXTENDS TuiLoop, FiniteSetTheorems, TLAPS

-----------------------------------------------------------------------------
LEMMA QuestionShapes ==
    ASSUME cmd \in Command, watch \in Watch
    PROVE  NoQuestion \in Question /\ \A a \in Askers : QuestionOf(a) \in Question
  BY DEF Question, NoQuestion, QuestionOf, Command, Watch, Askers

LEMMA CommandShapes ==
    /\ NoCommand \in Command
    /\ \A n \in Nat, b \in BOOLEAN : [no |-> n, every |-> b, ran |-> FALSE] \in Command
    /\ \A c \in Command : [c EXCEPT !.ran = TRUE] \in Command
  BY DEF NoCommand, Command

LEMMA WatchShapes ==
    /\ \A w \in Watch : Polled(w) \in Watch /\ Stopped(w) \in Watch
    /\ \A w \in Watch : [w EXCEPT !.prepared = TRUE] \in Watch
    /\ \A w \in Watch : [w EXCEPT !.sent = @ + 1] \in Watch
    /\ \A w \in Watch, b \in BOOLEAN : [w EXCEPT !.stale = b] \in Watch
    /\ \A w \in Watch, n \in Nat : [w EXCEPT !.state = "done", !.report = n] \in Watch
    /\ \A w \in Watch : [w EXCEPT !.state = "failed"] \in Watch
    /\ \A n \in Nat : [NoWatch EXCEPT !.no = n] \in Watch
    /\ \A n, g \in Nat : [NoWatch EXCEPT !.no = n, !.state = "running", !.gen = g] \in Watch
<1>1. ASSUME NEW w \in Watch PROVE Polled(w) \in Watch
  BY DEF Polled, Watch
<1>2. ASSUME NEW w \in Watch PROVE Stopped(w) \in Watch
  BY <1>1 DEF Stopped, Watch
<1>3. ASSUME NEW w \in Watch, NEW b \in BOOLEAN
      PROVE  [w EXCEPT !.prepared = b] \in Watch /\ [w EXCEPT !.stale = b] \in Watch
  BY DEF Watch
<1>7. ASSUME NEW w \in Watch PROVE [w EXCEPT !.sent = @ + 1] \in Watch
  BY DEF Watch
<1>8. ASSUME NEW w \in Watch PROVE [w EXCEPT !.state = "failed"] \in Watch
  BY DEF Watch
<1>4. ASSUME NEW w \in Watch, NEW n \in Nat
      PROVE  [w EXCEPT !.state = "done", !.report = n] \in Watch
  BY DEF Watch
<1>5. NoWatch \in Watch
  BY DEF NoWatch, Watch
<1>6. ASSUME NEW n \in Nat, NEW g \in Nat
      PROVE  /\ [NoWatch EXCEPT !.no = n] \in Watch
             /\ [NoWatch EXCEPT !.no = n, !.state = "running", !.gen = g] \in Watch
  BY <1>5 DEF Watch
<1> QED
  BY <1>1, <1>2, <1>3, <1>4, <1>6, <1>7, <1>8

LEMMA UiShapes ==
    /\ \A u \in Ui, q \in Question : [u EXCEPT !.choice = q] \in Ui
    /\ \A u \in Ui, b \in BOOLEAN : [u EXCEPT !.list = b] \in Ui
    /\ \A u \in Ui, b \in BOOLEAN : [u EXCEPT !.wizard = b] \in Ui
    /\ \A u \in Ui, b \in BOOLEAN : [u EXCEPT !.shown = b] \in Ui
    /\ \A u \in Ui, n \in Nat : [u EXCEPT !.view = n] \in Ui
    /\ \A u \in Ui, q \in Question, b \in BOOLEAN : [u EXCEPT !.choice = q, !.list = b] \in Ui
    /\ \A u \in Ui, q \in Question, n \in Nat : [u EXCEPT !.choice = q, !.view = n] \in Ui
    /\ \A u \in Ui, b, c \in BOOLEAN : [u EXCEPT !.wizard = b, !.list = c] \in Ui
  BY DEF Ui

(* What the screen is after a key in the shell, and after a command ends.  *)
LEMMA ShellUiShape == ASSUME ui \in Ui PROVE ShellUi \in Ui
  BY UiShapes DEF ShellUi

LEMMA FinishShape ==
    ASSUME TypeOK, NEW u \in Ui, NEW outcome, NEW after, Finish(u, outcome, after)
    PROVE  cmd' \in Command /\ ui' \in Ui /\ ask' \in Asks /\ slot' \in Question
<1>1. cmd' \in Command
  BY CommandShapes DEF Finish, ClearCommand
<1>2. ui' \in Ui
  <2>1. NoQuestion \in Question /\ u.view \in Nat /\ cmd.no \in Nat
    BY QuestionShapes DEF TypeOK, Ui, Command
  <2>2. [u EXCEPT !.choice = NoQuestion, !.view = cmd.no] \in Ui
        /\ [u EXCEPT !.choice = NoQuestion, !.view = u.view] \in Ui
    BY <2>1, UiShapes
  <2> QED
    BY <2>2 DEF Finish, FinishUi
<1>3. ask' \in Asks
  BY DEF Finish, Asks, TypeOK
<1>4. slot' \in Question
  BY QuestionShapes DEF Finish, TypeOK
<1> QED
  BY <1>1, <1>2, <1>3, <1>4

LEMMA ShapeStep ==
    ASSUME TypeOK, Next
    PROVE  TypeOK'
<1> USE DEF TypeOK
<1>0. NoQuestion \in Question /\ (\A a \in Askers : QuestionOf(a) \in Question)
      /\ ShellUi \in Ui /\ Askers = {"pane", "watch"}
      /\ \A a \in Askers, s \in {"none", "open", "wait", "replied", "dropped"} :
            [ask EXCEPT ![a] = s] \in Asks
  BY QuestionShapes, ShellUiShape DEF Askers, Asks
<1>1. CASE Top
  BY <1>0, <1>1, UiShapes, WatchShapes DEF Top, PollAsk
<1>2. ASSUME NEW a \in Askers, Ask(a) \/ Retry(a) \/ TakeAnswer(a) PROVE TypeOK'
  BY <1>0, <1>2 DEF Ask, Retry, TakeAnswer, Inside
<1>3. CASE PaneRepeats \/ WatchPrepared \/ WatchTicks \/ LiveTick \/ InputEnds
  BY <1>3, CommandShapes, WatchShapes
  DEF PaneRepeats, WatchPrepared, WatchTicks, LiveTick, InputEnds, Inside, Leave
<1>4. CASE PaneEnds \/ SignalExit \/ CancelInList \/ CancelKey
  <2>1. [ui EXCEPT !.list = FALSE] \in Ui
    BY UiShapes, <1>0
  <2>2. \E u \in Ui : \E outcome, after : Finish(u, outcome, after)
    BY <1>4, <2>1 DEF PaneEnds, SignalExit, CancelInList, CancelKey, CancelCommand
  <2>3. cmd' \in Command /\ ui' \in Ui /\ ask' \in Asks /\ slot' \in Question
    BY <2>2, FinishShape
  <2> QED
    BY <1>4, <2>3 DEF PaneEnds, SignalExit, CancelInList, CancelKey, CancelCommand
<1>5. CASE WatchEnds \/ StopKey \/ SubmitWatchStop
  <2>1. watch' \in Watch
    <3>0. watch.sent \in Nat
      BY DEF Watch
    <3>1. Polled(watch) \in Watch /\ Stopped(watch) \in Watch
      BY WatchShapes
    <3>2. [Polled(watch) EXCEPT !.state = "done", !.report = watch.sent] \in Watch
          /\ [Polled(watch) EXCEPT !.state = "failed"] \in Watch
      BY <3>0, <3>1, WatchShapes
    <3> QED
      BY <1>5, <3>1, <3>2 DEF WatchEnds, StopKey, SubmitWatchStop
  <2>2. ask' \in Asks
    BY <1>0, <1>5 DEF WatchEnds, StopKey, SubmitWatchStop, DropWatchQuestion
  <2>3. slot' \in Question
    BY <1>0, <1>5 DEF WatchEnds, StopKey, SubmitWatchStop, DropWatchQuestion
  <2>4. [ui EXCEPT !.choice = NoQuestion] \in Ui
    BY <1>0, UiShapes
  <2>5. ui' \in Ui
    BY <1>0, <1>5, <2>4 DEF WatchEnds, StopKey, SubmitWatchStop, DropWatchQuestion
  <2>6. line' \in Nat /\ cmd' = cmd /\ gen' = gen
    BY <1>5 DEF WatchEnds, StopKey, SubmitWatchStop, Enter
  <2> QED
    BY <2>1, <2>2, <2>3, <2>5, <2>6
<1>6. CASE AnswerKey
  <2>1. ask' \in Asks
    BY <1>0, <1>6 DEF AnswerKey, Live, QuestionOf, NoQuestion, Asks
  <2> QED
    BY <1>0, <1>6, <2>1, UiShapes DEF AnswerKey
<1>7. CASE StartFromWizard \/ SubmitWatchOpen \/ SubmitMonitor
  <2>0. watch.no + 1 \in Nat
    BY DEF Watch
  <2>1. [ui EXCEPT !.wizard = FALSE] \in Ui
        /\ [ShellUi EXCEPT !.wizard = TRUE, !.list = FALSE] \in Ui
    BY <1>0, UiShapes
  <2>2. \/ \E u \in Ui : \E s : BeginWatch(u, s)
        \/ ui' \in Ui /\ UNCHANGED <<watch, ask>>
    BY <1>0, <1>7, <2>1 DEF StartFromWizard, SubmitWatchOpen, SubmitMonitor
  <2>3. [NoWatch EXCEPT !.no = watch.no + 1, !.state = "running", !.gen = gen] \in Watch
    BY <2>0, WatchShapes
  <2>4. \A u \in Ui : [u EXCEPT !.shown = TRUE] \in Ui
    BY UiShapes
  <2>5. watch' \in Watch /\ ask' \in Asks /\ ui' \in Ui
    BY <1>0, <2>2, <2>3, <2>4 DEF BeginWatch
  <2> QED
    BY <1>7, <2>5 DEF StartFromWizard, SubmitWatchOpen, SubmitMonitor, Enter
<1>8. CASE EvidenceKey \/ SubmitPane
  <2>1. line' \in Nat
    <3>1. line' = line + 1
      BY <1>8 DEF EvidenceKey, SubmitPane, Enter
    <3> QED
      BY <3>1
  <2>1a. \E every \in BOOLEAN : StartPane(every)
    BY <1>8 DEF EvidenceKey, SubmitPane
  <2>2. cmd' \in Command
    BY <2>1, <2>1a, CommandShapes DEF StartPane
  <2>3. ui' \in Ui
    BY <1>0, <1>8, UiShapes DEF EvidenceKey, SubmitPane
  <2> QED
    BY <2>1, <2>1a, <2>2, <2>3 DEF StartPane
<1>9. CASE ExitInWizard \/ LeaveWizard \/ ToggleGrid \/ ExitInGrid \/ CloseKey \/ EditKey \/ ExitKey
  <2>1. ui' \in Ui
    <3>1. (~ui.shown) \in BOOLEAN
      OBVIOUS
    <3> QED
      BY <1>0, <1>9, <3>1, UiShapes DEF ExitInWizard, LeaveWizard, ToggleGrid, ExitInGrid,
         CloseKey, EditKey, ExitKey
  <2>2. watch' \in Watch
    <3>1. [NoWatch EXCEPT !.no = watch.no] \in Watch
      <4>1. watch.no \in Nat
        BY DEF Watch
      <4> QED
        BY <4>1, WatchShapes
    <3> QED
      BY <1>9, <3>1 DEF ExitInWizard, LeaveWizard, ToggleGrid, ExitInGrid, CloseKey,
         EditKey, ExitKey, Leave
  <2> QED
    BY <1>9, <2>1, <2>2 DEF ExitInWizard, LeaveWizard, ToggleGrid, ExitInGrid, CloseKey, EditKey,
       ExitKey, Leave
<1>10. CASE SubmitSession \/ SubmitUnlogged \/ SubmitExit \/ SubmitSuspend \/ SubmitWatchShow
  <2>1. ui' \in Ui
    BY <1>0, <1>10, UiShapes DEF SubmitSession, SubmitUnlogged, SubmitExit, SubmitSuspend,
       SubmitWatchShow
  <2> QED
    BY <1>10, <2>1 DEF SubmitSession, SubmitUnlogged, SubmitExit, SubmitSuspend, SubmitWatchShow,
       Enter, Leave
<1>11. CASE OutsideEnds \/ OutsideSignal
  <2>1. watch' \in Watch /\ gen' \in Nat
    <3>1. (watch.stale \/ Watching) \in BOOLEAN
      BY DEF Watch, Watching
    <3>2. [watch EXCEPT !.stale = @ \/ Watching] \in Watch
      BY <3>1, WatchShapes
    <3> QED
      <4>1. CASE OutsideEnds
        <5>1. PICK outcome : Reload(outcome)
          BY <4>1 DEF OutsideEnds
        <5> QED
          BY <3>2, <5>1 DEF Reload
      <4>2. CASE OutsideSignal
        BY <4>2 DEF OutsideSignal
      <4> QED
        BY <1>11, <4>1, <4>2
  <2> QED
    BY <1>11, <2>1 DEF OutsideEnds, OutsideSignal
<1> QED
  BY <1>1, <1>2, <1>3, <1>4, <1>5, <1>6, <1>7, <1>8, <1>9, <1>10, <1>11
  DEF Next, Futures, Keys, Lines

-----------------------------------------------------------------------------
(* Where questions are: one of the pane is in one place only.              *)
QuestionInv ==
    /\ NoQuestionWhenIdle /\ PaneQuestionLive
    /\ ~(ui.choice.by = "pane" /\ slot.by = "pane")

(* A step that leaves the questions, their asker in the pane and, unless   *)
(* it starts one, the run.                                                 *)
QuietStep ==
    /\ ui'.choice = ui.choice /\ slot' = slot /\ cmd'.no = cmd.no
    /\ ask'["pane"] = ask["pane"] \/ ask["pane"] # "open"
    /\ Watching => watch'.state = "running"

LEMMA QuietKeeps ==
    ASSUME QuestionInv, QuietStep
    PROVE  QuestionInv'
  BY DEF QuestionInv, QuietStep, NoQuestionWhenIdle, PaneQuestionLive, Live, QuestionOf, Running,
     Watching, Asking

LEMMA ClearedKeeps ==
    ASSUME ui'.choice = NoQuestion, slot' = NoQuestion
    PROVE  QuestionInv'
  BY DEF QuestionInv, NoQuestionWhenIdle, PaneQuestionLive, NoQuestion, Asking

(* What the changes of the screen leave of it.                             *)
LEMMA SameChoice ==
    /\ \A u \in Ui, b \in BOOLEAN : [u EXCEPT !.list = b].choice = u.choice
    /\ \A u \in Ui, b \in BOOLEAN : [u EXCEPT !.wizard = b].choice = u.choice
    /\ \A u \in Ui, b \in BOOLEAN : [u EXCEPT !.shown = b].choice = u.choice
    /\ \A u \in Ui, n \in Nat : [u EXCEPT !.view = n].choice = u.choice
    /\ \A u \in Ui, b, c \in BOOLEAN : [u EXCEPT !.wizard = b, !.list = c].choice = u.choice
    /\ \A u \in Ui, q \in Question : [u EXCEPT !.choice = q].choice = q
    /\ \A u \in Ui, q \in Question, n \in Nat : [u EXCEPT !.choice = q, !.view = n].choice = q
    /\ \A u \in Ui, q \in Question, b \in BOOLEAN :
          [u EXCEPT !.choice = q, !.list = b].choice = q
  BY DEF Ui

LEMMA ShellChoice == ASSUME ui \in Ui PROVE ShellUi \in Ui /\ ShellUi.choice = ui.choice
  BY ShellUiShape, SameChoice DEF ShellUi

LEMMA FinishClears ==
    ASSUME TypeOK, NEW u \in Ui, NEW outcome, NEW after, Finish(u, outcome, after)
    PROVE  QuestionInv'
<1>1. ui'.choice = NoQuestion
  BY SameChoice DEF Finish, FinishUi
<1> QED
  BY <1>1, ClearedKeeps DEF Finish

LEMMA QuestionStep ==
    ASSUME TypeOK, QuestionInv, Next
    PROVE  QuestionInv'
<1>0. ui \in Ui /\ ask \in Asks /\ ShellUi \in Ui /\ ShellUi.choice = ui.choice
      /\ Askers = {"pane", "watch"}
      /\ \A s : [ask EXCEPT !["watch"] = s]["pane"] = ask["pane"]
      /\ NoQuestion \in Question /\ slot \in Question
  BY ShellChoice, QuestionShapes DEF TypeOK, Askers, Asks
<1>1. CASE Top
  <2>1. CASE ui' = ui /\ slot' = slot
    BY <1>1, <2>1, QuietKeeps DEF Top, QuietStep, Polled, Watching
  <2>2. CASE ui.choice = NoQuestion /\ ui' = [ui EXCEPT !.choice = slot, !.list = FALSE]
             /\ slot' = NoQuestion
    <3>1. ui'.choice = slot
      BY <1>0, <2>2, SameChoice
    <3>2. cmd' = cmd /\ ask' = ask /\ (Watching <=> Watching')
      <4>1. Watching <=> Polled(watch).state = "running"
        BY DEF Polled, Watching, TypeOK, Watch
      <4> QED
        BY <1>1, <4>1 DEF Top, Watching
    <3> QED
      BY <2>2, <3>1, <3>2 DEF QuestionInv, NoQuestionWhenIdle, PaneQuestionLive, Live,
         QuestionOf, Running, Watching, Asking, NoQuestion
  <2> QED
    BY <1>1, <2>1, <2>2 DEF Top, PollAsk
<1>2. ASSUME NEW a \in Askers, Ask(a) \/ Retry(a) \/ TakeAnswer(a) PROVE QuestionInv'
  <2>1. UNCHANGED <<ui, cmd, watch>>
    BY <1>2 DEF Ask, Retry, TakeAnswer, Inside
  <2>2. CASE a = "watch"
    <3>1. Watching /\ ask'["pane"] = ask["pane"]
      BY <1>0, <1>2, <2>2 DEF Ask, Retry, TakeAnswer, Alive
    <3>2. CASE slot' = slot
      BY <2>1, <3>1, <3>2, QuietKeeps DEF QuietStep, Watching
    <3>3. CASE slot' = QuestionOf("watch")
      <4>1. slot'.by = "watch"
        BY <3>3 DEF QuestionOf
      <4> QED
        BY <2>1, <3>1, <4>1 DEF QuestionInv, NoQuestionWhenIdle, PaneQuestionLive, Live,
           QuestionOf, Running, Watching, Asking
    <3> QED
      BY <1>2, <2>2, <3>2, <3>3 DEF Ask, Retry, TakeAnswer
  <2>3. CASE a = "pane"
    <3>1. ask["pane"] # "open" /\ Running
      BY <1>2, <2>3 DEF Ask, Retry, TakeAnswer, Alive
    <3>2. ui.choice.by # "pane" /\ slot.by # "pane"
      BY <3>1 DEF QuestionInv, PaneQuestionLive, Live
    <3>3. CASE slot' = slot
      BY <2>1, <3>1, <3>3, QuietKeeps DEF QuietStep, Watching
    <3>4. CASE slot' = QuestionOf("pane") /\ ask' = [ask EXCEPT !["pane"] = "open"]
      <4>1. ask'["pane"] = "open" /\ QuestionOf("pane") # NoQuestion
        BY <1>0, <3>4 DEF Asks, QuestionOf, NoQuestion
      <4> QED
        BY <2>1, <3>1, <3>2, <3>4, <4>1 DEF QuestionInv, NoQuestionWhenIdle, PaneQuestionLive,
           Live, QuestionOf, Running
    <3> QED
      BY <1>2, <2>3, <3>3, <3>4 DEF Ask, Retry, TakeAnswer
  <2> QED
    BY <1>0, <2>2, <2>3
<1>3. CASE PaneRepeats \/ WatchPrepared \/ WatchTicks \/ LiveTick \/ InputEnds
  <2>1. QuietStep
    BY <1>3 DEF QuietStep, PaneRepeats, WatchPrepared, WatchTicks, LiveTick, InputEnds, Inside,
       Leave, Watching, TypeOK, Command, Watch
  <2> QED
    BY <2>1, QuietKeeps
<1>4. CASE PaneEnds \/ SignalExit \/ CancelInList \/ CancelKey
  <2>1. [ui EXCEPT !.list = FALSE] \in Ui
    BY <1>0, UiShapes
  <2>2. \E u \in Ui : \E outcome, after : Finish(u, outcome, after)
    BY <1>0, <1>4, <2>1 DEF PaneEnds, SignalExit, CancelInList, CancelKey, CancelCommand
  <2> QED
    BY <2>2, FinishClears
<1>5. CASE WatchEnds \/ StopKey \/ SubmitWatchStop
  <2>1. CASE Running
    <3>1. UNCHANGED <<cmd, ui, slot>> /\ ask'["pane"] = ask["pane"]
      BY <1>0, <1>5, <2>1 DEF WatchEnds, StopKey, SubmitWatchStop, DropWatchQuestion, Enter
    <3> QED
      BY <2>1, <3>1 DEF QuestionInv, NoQuestionWhenIdle, PaneQuestionLive, Live, QuestionOf,
         Running
  <2>2. CASE ~Running /\ (WatchEnds \/ StopKey)
    <3>1. ui'.choice = NoQuestion /\ slot' = NoQuestion
      BY <1>0, <2>2 DEF Ui, WatchEnds, StopKey, DropWatchQuestion
    <3> QED
      BY <3>1, ClearedKeeps
  <2>3. CASE SubmitWatchStop
    <3>1. ui'.choice = NoQuestion /\ slot' = NoQuestion
      BY <1>0, <2>3 DEF SubmitWatchStop, Enter, InShell, Asking
    <3> QED
      BY <3>1, ClearedKeeps
  <2> QED
    BY <1>5, <2>1, <2>2, <2>3
<1>6. CASE AnswerKey
  <2>1. ui'.choice = NoQuestion /\ UNCHANGED <<cmd, watch, slot>>
    BY <1>0, <1>6, SameChoice DEF AnswerKey
  <2>2. slot.by = "pane" => ask'["pane"] = ask["pane"]
    BY <1>0, <1>6 DEF AnswerKey, QuestionInv, Live, QuestionOf, Asks
  <2> QED
    BY <2>1, <2>2 DEF QuestionInv, NoQuestionWhenIdle, PaneQuestionLive, Live, QuestionOf,
       Running, Watching, Asking, NoQuestion
<1>7. CASE StartFromWizard \/ SubmitWatchOpen \/ SubmitMonitor
  <2>1. [ui EXCEPT !.wizard = FALSE] \in Ui /\ [ui EXCEPT !.wizard = FALSE].choice = ui.choice
        /\ [ShellUi EXCEPT !.wizard = TRUE, !.list = FALSE].choice = ui.choice
    BY <1>0, UiShapes, SameChoice
  <2>2. \/ \E u \in Ui : \E s : u.choice = ui.choice /\ BeginWatch(u, s)
        \/ ui'.choice = ui.choice /\ UNCHANGED <<watch, ask>>
    BY <1>0, <1>7, <2>1 DEF StartFromWizard, SubmitWatchOpen, SubmitMonitor
  <2>3. ui'.choice = ui.choice /\ ask'["pane"] = ask["pane"]
        /\ (Watching => watch'.state = "running")
    <3>1. ASSUME NEW u \in Ui, NEW s, u.choice = ui.choice, BeginWatch(u, s)
          PROVE  ui'.choice = ui.choice /\ ask'["pane"] = ask["pane"]
                 /\ (Watching => watch' = watch)
      <4>1. CASE Watching
        BY <3>1, <4>1 DEF BeginWatch
      <4>2. CASE ~Watching
        BY <1>0, <3>1, <4>2 DEF Ui, Asks, Askers, BeginWatch
      <4> QED
        BY <4>1, <4>2
    <3> QED
      BY <2>2, <3>1 DEF Watching
  <2> QED
    BY <1>7, <2>3, QuietKeeps DEF QuietStep, StartFromWizard, SubmitWatchOpen, SubmitMonitor
<1>8. CASE EvidenceKey \/ SubmitPane
  <2>1. ~Running /\ line' = line + 1
    BY <1>8 DEF EvidenceKey, SubmitPane, Enter
  <2>2. cmd'.no # 0 /\ UNCHANGED <<watch, ask, slot>>
    <3>1. cmd'.no = line' /\ UNCHANGED <<watch, ask, slot>>
      BY <1>8 DEF EvidenceKey, SubmitPane, StartPane
    <3> QED
      BY <2>1, <3>1 DEF TypeOK
  <2>3. ui'.choice = ui.choice
    BY <1>0, <1>8 DEF Ui, EvidenceKey, SubmitPane
  <2> QED
    BY <2>1, <2>2, <2>3 DEF QuestionInv, NoQuestionWhenIdle, PaneQuestionLive, Live, Running
<1>9. CASE ExitInWizard \/ LeaveWizard \/ ToggleGrid \/ ExitInGrid \/ CloseKey \/ EditKey \/ ExitKey
  <2>1. ui'.choice = ui.choice
    BY <1>0, <1>9 DEF Ui, ExitInWizard, LeaveWizard, ToggleGrid, ExitInGrid, CloseKey,
       EditKey, ExitKey
  <2> QED
    BY <1>9, <2>1, QuietKeeps DEF QuietStep, ExitInWizard, LeaveWizard, ToggleGrid, ExitInGrid,
       CloseKey, EditKey, ExitKey, Leave, Watching
<1>10. CASE SubmitSession \/ SubmitUnlogged \/ SubmitExit \/ SubmitSuspend \/ SubmitWatchShow
  <2>1. ui'.choice = ui.choice
    BY <1>0, <1>10 DEF Ui, SubmitSession, SubmitUnlogged, SubmitExit, SubmitSuspend,
       SubmitWatchShow
  <2> QED
    BY <1>10, <2>1, QuietKeeps DEF QuietStep, SubmitSession, SubmitUnlogged, SubmitExit,
       SubmitSuspend, SubmitWatchShow, Leave, Watching
<1>11. CASE OutsideEnds \/ OutsideSignal
  <2>1. watch'.state = watch.state
    BY <1>11 DEF OutsideEnds, OutsideSignal, Reload, TypeOK, Watch
  <2> QED
    BY <1>11, <2>1, QuietKeeps DEF QuietStep, OutsideEnds, OutsideSignal, Watching
<1> QED
  BY <1>1, <1>2, <1>3, <1>4, <1>5, <1>6, <1>7, <1>8, <1>9, <1>10, <1>11
  DEF Next, Futures, Keys, Lines

-----------------------------------------------------------------------------
(* What the grid shows: everything at the end of its run, and the age of   *)
(* the settings while the run goes on.                                     *)
GridInv ==
    /\ GridComplete /\ StaleHonest
    /\ Watching => watch.report = 0 /\ watch.gen <= gen

LEMMA GridStep ==
    ASSUME TypeOK, GridInv, Next
    PROVE  GridInv'
<1> USE DEF GridInv, GridComplete, StaleHonest, Watching
<1>0. watch \in Watch /\ gen \in Nat
  BY DEF TypeOK
<1>1. CASE UNCHANGED <<watch, gen>>
  BY <1>1
<1>2. CASE Top \/ WatchPrepared \/ WatchTicks
  BY <1>0, <1>2 DEF Top, WatchPrepared, WatchTicks, Inside, Polled, Watch
<1>3. CASE WatchEnds \/ StopKey \/ SubmitWatchStop
  <2>1. watch.state = "running" /\ gen' = gen
    BY <1>3 DEF WatchEnds, StopKey, SubmitWatchStop
  <2>2. Polled(watch) = [watch EXCEPT !.applied = watch.sent]
    BY <2>1 DEF Polled
  <2>3. watch' \in {[Polled(watch) EXCEPT !.state = "done", !.report = watch.sent],
                    [Polled(watch) EXCEPT !.state = "failed"], Stopped(watch)}
    BY <1>3 DEF WatchEnds, StopKey, SubmitWatchStop
  <2>p. LET p == Polled(watch) IN p \in Watch /\ p.applied = watch.sent /\ p.sent = watch.sent
    BY <1>0, <2>2 DEF Watch
  <2>4. watch'.applied = watch.sent /\ watch'.sent = watch.sent /\ watch'.state # "running"
    BY <2>3, <2>p DEF Stopped, Watch
  <2>5. watch'.report = IF watch'.state = "failed" THEN 0 ELSE watch.sent
    BY <1>0, <2>1, <2>2, <2>3 DEF Stopped, Watch
  <2> QED
    BY <2>4, <2>5
<1>4. CASE StartFromWizard \/ SubmitWatchOpen \/ SubmitMonitor
  <2>0. gen' = gen
    BY <1>4 DEF StartFromWizard, SubmitWatchOpen, SubmitMonitor
  <2>1. \/ watch' = watch
        \/ watch' = [NoWatch EXCEPT !.no = watch.no + 1, !.state = "running", !.gen = gen]
    BY <1>4 DEF StartFromWizard, SubmitWatchOpen, SubmitMonitor, BeginWatch
  <2>2. CASE watch' = [NoWatch EXCEPT !.no = watch.no + 1, !.state = "running", !.gen = gen]
    <3>1. watch'.state = "running" /\ watch'.gen = gen /\ watch'.report = 0 /\ watch'.stale = FALSE
      BY <2>2 DEF NoWatch
    <3>2. watch'.gen = gen' /\ watch'.gen <= gen'
      BY <1>0, <2>0, <3>1
    <3> QED
      BY <3>1, <3>2
  <2> QED
    BY <1>1, <2>0, <2>1, <2>2
<1>5. CASE CloseKey
  BY <1>5 DEF CloseKey, NoWatch
<1>6. CASE OutsideEnds
  <2>1. PICK outcome : Reload(outcome)
    BY <1>6 DEF OutsideEnds
  <2>2. CASE gen' = gen + 1 /\ watch' = [watch EXCEPT !.stale = @ \/ Watching]
    <3>1. watch'.state = watch.state /\ watch'.gen = watch.gen /\ watch'.report = watch.report
          /\ watch'.applied = watch.applied /\ watch'.sent = watch.sent
      BY <1>0, <2>2 DEF Watch
    <3>2. watch'.stale = (watch.stale \/ Watching)
      BY <1>0, <2>2 DEF Watch
    <3>3. Watching => watch.gen # gen'
      BY <1>0, <2>2 DEF Watch
    <3>4. StaleHonest'
      BY <3>1, <3>2, <3>3
    <3>5. Watching => watch.gen <= gen'
      BY <1>0, <2>2 DEF Watch
    <3> QED
      BY <3>1, <3>4, <3>5
  <2> QED
    BY <1>1, <2>1, <2>2 DEF Reload
<1>7. CASE (\E a \in Askers : Ask(a) \/ Retry(a) \/ TakeAnswer(a))
           \/ PaneRepeats \/ PaneEnds \/ LiveTick \/ SignalExit \/ InputEnds \/ OutsideSignal
  BY <1>1, <1>7 DEF Ask, Retry, TakeAnswer, PaneRepeats, PaneEnds, LiveTick, SignalExit, InputEnds,
     OutsideSignal, Inside, Leave
<1>8. CASE AnswerKey \/ CancelInList \/ ExitInWizard \/ LeaveWizard \/ ToggleGrid
           \/ ExitInGrid \/ EvidenceKey \/ EditKey \/ CancelKey \/ ExitKey
  BY <1>1, <1>8 DEF AnswerKey, CancelInList, ExitInWizard, LeaveWizard, ToggleGrid, ExitInGrid,
     EvidenceKey, EditKey, CancelKey, ExitKey, CancelCommand, StartPane, Leave
<1>9. CASE SubmitSession \/ SubmitUnlogged \/ SubmitExit \/ SubmitPane \/ SubmitSuspend
           \/ SubmitWatchShow
  BY <1>1, <1>9 DEF SubmitSession, SubmitUnlogged, SubmitExit, SubmitPane, SubmitSuspend,
     SubmitWatchShow, StartPane, Leave
<1> QED
  BY <1>2, <1>3, <1>4, <1>5, <1>6, <1>7, <1>8, <1>9 DEF Next, Futures, Keys, Lines

-----------------------------------------------------------------------------
(* Where the warnings go, and that the TUI steps aside with an idle pane.  *)
SinkInv == SinkRight /\ (Outside => ~Running)

LEMMA SinkStep ==
    ASSUME TypeOK, SinkInv, Next
    PROVE  SinkInv'
<1> USE DEF SinkInv, SinkRight, Up, Outside, Select, Running
<1>0. NoCommand.no = 0 /\ cmd \in Command /\ line \in Nat
  BY DEF NoCommand, TypeOK
<1>1. CASE Top \/ LiveTick \/ WatchPrepared \/ WatchTicks \/ PaneRepeats \/ WatchEnds
           \/ \E a \in Askers : Ask(a) \/ Retry(a) \/ TakeAnswer(a)
  <2>1. cmd'.no = cmd.no /\ sink' = sink /\ Up /\ Up'
    BY <1>0, <1>1 DEF Top, LiveTick, WatchPrepared, WatchTicks, PaneRepeats, WatchEnds, Ask, Retry,
       TakeAnswer, Inside, Command
  <2> QED
    BY <2>1
<1>2. CASE PaneEnds \/ CancelInList \/ CancelKey
  BY <1>0, <1>2 DEF PaneEnds, CancelInList, CancelKey, CancelCommand, Finish, ClearCommand
<1>3. CASE pc' = "left"
  BY <1>3
<1>4. CASE AnswerKey \/ LeaveWizard \/ StartFromWizard \/ ToggleGrid \/ StopKey \/ CloseKey
           \/ EditKey \/ SubmitSession \/ SubmitUnlogged \/ SubmitMonitor \/ SubmitWatchOpen
           \/ SubmitWatchStop \/ SubmitWatchShow
  <2>1. cmd' = cmd /\ sink' = sink /\ Up /\ Up'
    BY <1>4 DEF AnswerKey, LeaveWizard, StartFromWizard, ToggleGrid, StopKey, CloseKey, EditKey,
       SubmitSession, SubmitUnlogged, SubmitMonitor, SubmitWatchOpen, SubmitWatchStop,
       SubmitWatchShow, InWizard, InGrid, ShellKey, InShell, Enter
  <2> QED
    BY <2>1
<1>5. CASE EvidenceKey \/ SubmitPane
  <2>1. line' = line + 1 /\ \E every \in BOOLEAN : StartPane(every)
    BY <1>5 DEF EvidenceKey, SubmitPane, Enter
  <2>2. cmd'.no = line' /\ sink' = "pane" /\ pc' = "top"
    BY <2>1 DEF StartPane
  <2> QED
    BY <1>0, <2>1, <2>2
<1>6. CASE SubmitSuspend
  BY <1>6 DEF SubmitSuspend, Enter
<1>7. CASE OutsideEnds
  BY <1>7 DEF OutsideEnds, Resumed
<1>8. CASE SignalExit \/ InputEnds \/ ExitInWizard \/ ExitInGrid \/ ExitKey \/ SubmitExit
           \/ OutsideSignal
  BY <1>3, <1>8 DEF SignalExit, InputEnds, ExitInWizard, ExitInGrid, ExitKey, SubmitExit,
     OutsideSignal, Leave
<1> QED
  BY <1>1, <1>2, <1>4, <1>5, <1>6, <1>7, <1>8 DEF Next, Futures, Keys, Lines

-----------------------------------------------------------------------------
(* The focus of an open question.                                          *)
FocusStep ==
    Asking => /\ line' = line /\ watch'.no = watch.no
              /\ ui'.shown = ui.shown /\ ui'.wizard = ui.wizard
              /\ exit' \notin {"key", "exit"}

LEMMA FocusKept ==
    ASSUME TypeOK, pc # "left" => exit = "none", Next
    PROVE  FocusStep
<1> SUFFICES ASSUME Asking PROVE FocusStep
  BY DEF FocusStep
<1> USE DEF FocusStep
<1>0. ui \in Ui /\ watch \in Watch
  BY DEF TypeOK
<1>1. ~InWizard /\ ~InGrid /\ ~InShell
  BY DEF InWizard, InGrid, InShell
<1>2. ~Lines
  BY <1>1 DEF Lines, SubmitSession, SubmitUnlogged, SubmitExit, SubmitPane, SubmitSuspend,
     SubmitMonitor, SubmitWatchOpen, SubmitWatchStop, SubmitWatchShow, Enter
<1>3. Keys => AnswerKey \/ CancelInList
  BY <1>1 DEF Keys, ExitInWizard, LeaveWizard, StartFromWizard, ToggleGrid, ExitInGrid, StopKey,
     CloseKey, EvidenceKey, EditKey, CancelKey, ExitKey, ShellKey
<1>4. CASE AnswerKey \/ CancelInList \/ PaneEnds \/ SignalExit
  <2>1. \/ ui' = [ui EXCEPT !.choice = NoQuestion]
        \/ ui' = FinishUi(ui) \/ ui' = FinishUi([ui EXCEPT !.list = FALSE])
    BY <1>4 DEF AnswerKey, CancelInList, PaneEnds, SignalExit, CancelCommand, Finish
  <2>2. ui'.shown = ui.shown /\ ui'.wizard = ui.wizard
    BY <1>0, <2>1 DEF FinishUi, Ui
  <2>3. line' = line /\ watch' = watch
    BY <1>4 DEF AnswerKey, CancelInList, PaneEnds, SignalExit, CancelCommand
  <2>4. exit' \notin {"key", "exit"}
    BY <1>4 DEF AnswerKey, CancelInList, PaneEnds, SignalExit, CancelCommand, Select
  <2> QED
    BY <2>2, <2>3, <2>4
<1>5. CASE Top \/ WatchEnds
  <2>1. line' = line /\ exit' = exit /\ pc # "left"
    BY <1>5 DEF Top, WatchEnds, Select
  <2>2. watch'.no = watch.no
    BY <1>0, <1>5 DEF Top, WatchEnds, Polled, Watch
  <2>3. ui'.shown = ui.shown /\ ui'.wizard = ui.wizard
    BY <1>0, <1>5 DEF Top, PollAsk, WatchEnds, DropWatchQuestion, Ui
  <2> QED
    BY <2>1, <2>2, <2>3
<1>6. CASE (\E a \in Askers : Ask(a) \/ Retry(a) \/ TakeAnswer(a))
           \/ PaneRepeats \/ WatchPrepared \/ WatchTicks \/ LiveTick
  <2>1. line' = line /\ exit' = exit /\ pc # "left" /\ ui' = ui
    BY <1>6 DEF Ask, Retry, TakeAnswer, PaneRepeats, WatchPrepared, WatchTicks, LiveTick, Inside,
       Select
  <2>2. watch'.no = watch.no
    BY <1>0, <1>6 DEF Ask, Retry, TakeAnswer, PaneRepeats, WatchPrepared, WatchTicks, LiveTick,
       Inside, Watch
  <2> QED
    BY <2>1, <2>2
<1>7. CASE InputEnds \/ OutsideEnds \/ OutsideSignal
  <2>1. line' = line /\ ui' = ui /\ exit' \notin {"key", "exit"}
    BY <1>7 DEF InputEnds, Leave, OutsideEnds, OutsideSignal, Outside
  <2>2. watch'.no = watch.no
    <3>1. CASE UNCHANGED watch
      BY <3>1
    <3>2. ASSUME NEW outcome, Reload(outcome) PROVE watch'.no = watch.no
      BY <1>0, <3>2 DEF Reload, Watch
    <3> QED
      BY <1>7, <3>1, <3>2 DEF InputEnds, Leave, OutsideEnds, OutsideSignal
  <2> QED
    BY <2>1, <2>2
<1> QED
  BY <1>2, <1>3, <1>4, <1>5, <1>6, <1>7 DEF Next, Futures

-----------------------------------------------------------------------------
(* The records: what the journal and the scrollback have of the commands   *)
(* and runs that started.                                                  *)
Outcomes == {"ok", "error", "cancelled", "signal", "session"}
Entries  == [line : Nat, outcome : Outcomes]
Showings == [what : {"command", "run"}, no : Nat]

(* The command that has started and not ended, here or outside.            *)
Open == (IF Running THEN {cmd.no} ELSE {}) \union (IF Outside THEN {line} ELSE {})

Ended == Started \ Open

(* Commands start one by one, with the number of their line, and those     *)
(* that ended are in the journal in that order.                            *)
Journal ==
    /\ ran \in Seq(Nat) /\ log \in Seq(Entries)
    /\ Started \subseteq 1..line /\ Open \subseteq Started
    /\ \A o \in Open : \A n \in Started : n <= o
    /\ Recorded = Ended
    /\ \A i, j \in Records : i < j => log[i].line < log[j].line

JournalInv == pc # "left" => Journal

(* Only a repeating command that runs, or has ended, has a view.           *)
ViewInv ==
    pc # "left" =>
        /\ ~Running => cmd = NoCommand
        /\ cmd.ran => cmd.every
        /\ cmd.every => ui.view = 0
        /\ ui.view # 0 => ui.view \in Ended

(* The scrollback s shows these commands and runs, once, and no others.    *)
Shows(s, y) == Cardinality({i \in DOMAIN s : s[i] = y})

ShowsOnce(s, commands, runs) ==
    /\ s \in Seq(Showings)
    /\ \A no \in Nat : Shows(s, Shown("command", no)) = IF no \in commands THEN 1 ELSE 0
    /\ \A no \in Nat : Shows(s, Shown("run", no)) = IF no \in runs THEN 1 ELSE 0

LeftCommands == Ended \ {ui.view}
LeftRuns == {n \in 1 .. watch.no : n = watch.no => ~HasGrid}

ScrollInv ==
    pc # "left" =>
        /\ HasGrid => watch.no > 0
        /\ ShowsOnce(scroll, LeftCommands, LeftRuns)

RecordInv == JournalInv /\ ViewInv /\ ScrollInv

-----------------------------------------------------------------------------
(* One more element at the end of the journal, the scrollback or the       *)
(* commands.                                                               *)
LEMMA LogGrows ==
    ASSUME log \in Seq(Entries), NEW e \in Entries, log' = Append(log, e),
           \A i, j \in Records : i < j => log[i].line < log[j].line,
           e.outcome # "session" => \A l \in Recorded : l < e.line
    PROVE  /\ log' \in Seq(Entries)
           /\ Recorded' = IF e.outcome = "session" THEN Recorded ELSE Recorded \union {e.line}
           /\ \A i, j \in Records' : i < j => log'[i].line < log'[j].line
<1>1. /\ log' \in Seq(Entries) /\ Len(log') = Len(log) + 1 /\ Len(log) \in Nat
      /\ DOMAIN log = 1..Len(log) /\ DOMAIN log' = 1..(Len(log) + 1)
      /\ \A i \in 1..Len(log) : log'[i] = log[i]
      /\ log'[Len(log) + 1] = e
  OBVIOUS
<1>2. Records' = IF e.outcome = "session" THEN Records ELSE Records \union {Len(log) + 1}
  BY <1>1 DEF Records
<1>3. \A i \in Records : i \in 1..Len(log) /\ log'[i] = log[i]
  BY <1>1 DEF Records
<1>4. Recorded' = IF e.outcome = "session" THEN Recorded ELSE Recorded \union {e.line}
  BY <1>1, <1>2, <1>3 DEF Recorded
<1>5. ASSUME NEW i \in Records', NEW j \in Records', i < j PROVE log'[i].line < log'[j].line
  <2>1. CASE i \in Records /\ j \in Records
    BY <1>3, <1>5, <2>1
  <2>2. CASE e.outcome # "session" /\ i \in Records /\ j = Len(log) + 1
    <3>1. log[i].line \in Recorded
      BY <2>2 DEF Recorded
    <3> QED
      BY <1>1, <1>3, <2>2, <3>1
  <2> QED
    BY <1>1, <1>2, <1>3, <1>5, <2>1, <2>2
<1> QED
  BY <1>1, <1>4, <1>5

LEMMA RanGrows ==
    ASSUME ran \in Seq(Nat), NEW n \in Nat, ran' = Append(ran, n)
    PROVE  ran' \in Seq(Nat) /\ Started' = Started \union {n}
<1>1. /\ ran' \in Seq(Nat) /\ DOMAIN ran = 1..Len(ran) /\ DOMAIN ran' = 1..(Len(ran) + 1)
      /\ Len(ran) \in Nat
      /\ \A i \in 1..Len(ran) : ran'[i] = ran[i]
      /\ ran'[Len(ran) + 1] = n
  OBVIOUS
<1> QED
  BY <1>1 DEF Started

LEMMA ScrollGrows ==
    ASSUME NEW s \in Seq(Showings), NEW x \in Showings, NEW y
    PROVE  /\ Append(s, x) \in Seq(Showings)
           /\ Shows(s, y) \in Nat
           /\ Shows(Append(s, x), y) = Shows(s, y) + IF x = y THEN 1 ELSE 0
<1> DEFINE t == Append(s, x)
           S == {i \in DOMAIN s : s[i] = y}
           T == {i \in DOMAIN t : t[i] = y}
<1>1. /\ t \in Seq(Showings) /\ DOMAIN s = 1..Len(s) /\ DOMAIN t = 1..(Len(s) + 1)
      /\ Len(s) \in Nat
      /\ \A i \in 1..Len(s) : t[i] = s[i]
      /\ t[Len(s) + 1] = x
  OBVIOUS
<1>2. IsFiniteSet(S) /\ Cardinality(S) \in Nat
  <2>1. IsFiniteSet(1..Len(s))
    BY <1>1, FS_Interval
  <2>2. S \in SUBSET (1..Len(s))
    BY <1>1
  <2>3. IsFiniteSet(S)
    BY <2>1, <2>2, FS_Subset
  <2> QED
    BY <2>3, FS_CardinalityType
<1>3. T = IF x = y THEN S \union {Len(s) + 1} ELSE S
  BY <1>1
<1>4. Len(s) + 1 \notin S
  BY <1>1
<1>5. Cardinality(S \union {Len(s) + 1}) = Cardinality(S) + 1
  BY <1>2, <1>4, FS_AddElement
<1>6. Cardinality(T) = Cardinality(S) + IF x = y THEN 1 ELSE 0
  <2> HIDE DEF S, T, t
  <2> QED
    BY <1>2, <1>3, <1>5
<1> QED
  BY <1>1, <1>2, <1>6, Zenon DEF Shows

LEMMA CommandShown ==
    ASSUME NEW s, NEW commands, NEW runs, ShowsOnce(s, commands, runs),
           NEW no \in Nat, no \notin commands
    PROVE  ShowsOnce(Append(s, Shown("command", no)), commands \union {no}, runs)
<1>1. Shown("command", no) \in Showings
  BY DEF Shown, Showings
<1>2. ASSUME NEW n \in Nat, NEW what \in {"command", "run"}
      PROVE  Shows(Append(s, Shown("command", no)), Shown(what, n)) =
                Shows(s, Shown(what, n)) + IF what = "command" /\ n = no THEN 1 ELSE 0
  <2>1. Shown("command", no) = Shown(what, n) <=> what = "command" /\ n = no
    BY DEF Shown
  <2> QED
    BY <1>1, <2>1, ScrollGrows DEF ShowsOnce
<1>3. Append(s, Shown("command", no)) \in Seq(Showings)
  BY <1>1, ScrollGrows DEF ShowsOnce
<1>4. ASSUME NEW n \in Nat
      PROVE  Shows(Append(s, Shown("command", no)), Shown("command", n)) =
                IF n \in commands \union {no} THEN 1 ELSE 0
  BY <1>2, <1>4 DEF ShowsOnce
<1>5. ASSUME NEW n \in Nat
      PROVE  Shows(Append(s, Shown("command", no)), Shown("run", n)) =
                IF n \in runs THEN 1 ELSE 0
  BY <1>2, <1>5 DEF ShowsOnce
<1> QED
  BY <1>3, <1>4, <1>5 DEF ShowsOnce

LEMMA RunShown ==
    ASSUME NEW s, NEW commands, NEW runs, ShowsOnce(s, commands, runs),
           NEW no \in Nat, no \notin runs
    PROVE  ShowsOnce(Append(s, Shown("run", no)), commands, runs \union {no})
<1>1. Shown("run", no) \in Showings
  BY DEF Shown, Showings
<1>2. ASSUME NEW n \in Nat, NEW what \in {"command", "run"}
      PROVE  Shows(Append(s, Shown("run", no)), Shown(what, n)) =
                Shows(s, Shown(what, n)) + IF what = "run" /\ n = no THEN 1 ELSE 0
  <2>1. Shown("run", no) = Shown(what, n) <=> what = "run" /\ n = no
    BY DEF Shown
  <2> QED
    BY <1>1, <2>1, ScrollGrows DEF ShowsOnce
<1>3. Append(s, Shown("run", no)) \in Seq(Showings)
  BY <1>1, ScrollGrows DEF ShowsOnce
<1>4. ASSUME NEW n \in Nat
      PROVE  Shows(Append(s, Shown("run", no)), Shown("command", n)) =
                IF n \in commands THEN 1 ELSE 0
  BY <1>2, <1>4 DEF ShowsOnce
<1>5. ASSUME NEW n \in Nat
      PROVE  Shows(Append(s, Shown("run", no)), Shown("run", n)) =
                IF n \in runs \union {no} THEN 1 ELSE 0
  BY <1>2, <1>5 DEF ShowsOnce
<1> QED
  BY <1>3, <1>4, <1>5 DEF ShowsOnce

-----------------------------------------------------------------------------
(* The journal, step by step.                                              *)
JournalQuiet ==
    /\ ran' = ran /\ log' = log /\ line' \in {line, line + 1}
    /\ Up /\ Up' /\ cmd'.no = cmd.no

LEMMA JournalKept ==
    ASSUME Journal, JournalQuiet, line \in Nat
    PROVE  Journal' /\ Ended' = Ended
<1>1. Started' = Started /\ Records' = Records /\ Recorded' = Recorded
  BY DEF JournalQuiet, Started, Records, Recorded
<1>2. Open' = Open
  BY DEF JournalQuiet, Open, Outside, Up, Running
<1>3. 1..line \subseteq 1..line'
  BY DEF JournalQuiet
<1> QED
  BY <1>1, <1>2, <1>3 DEF Journal, Ended, JournalQuiet

(* A line that starts no command.                                          *)
LEMMA JournalLogged ==
    ASSUME Journal, TypeOK, Enter, Up, Up', Logged, UNCHANGED <<ran, cmd>>
    PROVE  Journal' /\ Ended' = Ended
<1>1. Entry(line', "session") \in Entries /\ line' = line + 1
  BY DEF Entry, Entries, Outcomes, Enter, TypeOK
<1>2. log' \in Seq(Entries) /\ Recorded' = Recorded
      /\ \A i, j \in Records' : i < j => log'[i].line < log'[j].line
  <2>1. Entry(line', "session").outcome = "session"
    BY DEF Entry
  <2> QED
    BY <1>1, <2>1, LogGrows DEF Journal, Ended, Logged
<1>3. Started' = Started /\ Open' = Open
  BY DEF Started, Open, Outside, Up, Running
<1>4. 1..line \subseteq 1..line'
  BY <1>1 DEF TypeOK
<1> QED
  BY <1>2, <1>3, <1>4 DEF Journal, Ended

(* The end of the pane command, if there is one.                           *)
LEMMA JournalFinish ==
    ASSUME Journal, TypeOK, Up, Up', UNCHANGED <<ran, line>>,
           NEW u, NEW outcome \in {"ok", "error", "cancelled"}, Finish(u, outcome, <<>>)
    PROVE  Journal' /\ Ended' = Started
<1>1. log' = FinishLog(outcome) /\ cmd' = NoCommand
  BY DEF Finish, ClearCommand, FinishLog, Journal, TypeOK, Entries, Entry, Outcomes, Command
<1>2. Started' = Started /\ Open' = {}
  BY <1>1 DEF Started, Open, Outside, Up, Running, NoCommand
<1>3. CASE Running
  <2>1. Open = {cmd.no} /\ cmd.no \in Nat
    BY <1>3 DEF Open, Outside, Up, TypeOK, Command
  <2>2. Entry(cmd.no, outcome) \in Entries /\ Entry(cmd.no, outcome).outcome # "session"
        /\ Entry(cmd.no, outcome).line = cmd.no
    BY <2>1 DEF Entry, Entries, Outcomes
  <2>3. \A l \in Recorded : l < cmd.no
    <3> SUFFICES ASSUME NEW l \in Recorded PROVE l < cmd.no
      OBVIOUS
    <3>1. l \in 1..line
      BY DEF Journal, Ended
    <3>2. l # cmd.no /\ l <= cmd.no
      BY <2>1 DEF Journal, Ended
    <3>3. line \in Nat /\ l \in Nat
      BY <3>1 DEF TypeOK
    <3> QED
      BY <2>1, <3>2, <3>3
  <2>4. log' \in Seq(Entries) /\ Recorded' = Recorded \union {cmd.no}
        /\ \A i, j \in Records' : i < j => log'[i].line < log'[j].line
    BY <1>1, <1>3, <2>2, <2>3, LogGrows DEF Journal, Ended, FinishLog
  <2> QED
    BY <1>2, <2>1, <2>4 DEF Journal, Ended
<1>4. CASE ~Running
  <2>1. log' = log /\ Open = {}
    BY <1>1, <1>4 DEF FinishLog, Open, Outside, Up
  <2> QED
    BY <1>2, <2>1 DEF Journal, Ended, Recorded, Records
<1> QED
  BY <1>3, <1>4

(* A line that starts a command, in the pane or outside.                   *)
LEMMA JournalStart ==
    ASSUME Journal, TypeOK, Up, ~Running, line' = line + 1, ran' = Append(ran, line'), log' = log,
           Open' = {line'}
    PROVE  Journal' /\ Ended' = Ended
<1>1. Open = {} /\ line \in Nat
  BY DEF Open, Outside, Up, TypeOK
<1>2. ran' \in Seq(Nat) /\ Started' = Started \union {line'}
  BY <1>1, RanGrows DEF Journal, Ended
<1>3. Records' = Records /\ Recorded' = Recorded
  BY DEF Records, Recorded
<1>4. Started \subseteq 1..line /\ Recorded = Started
  BY <1>1 DEF Journal, Ended
<1>5. line' \notin Started /\ Started' \subseteq 1..line' /\ \A n \in Started' : n <= line'
  BY <1>1, <1>2, <1>4
<1>6. log' \in Seq(Entries) /\ \A i, j \in Records' : i < j => log'[i].line < log'[j].line
  BY <1>3 DEF Journal, Ended
<1>7. Open' \subseteq Started' /\ Recorded' = Started' \ Open'
  BY <1>2, <1>3, <1>4, <1>5
<1>8. \A o \in Open' : \A n \in Started' : n <= o
  BY <1>5
<1>9. Ended' = Started /\ Ended = Started
  BY <1>1, <1>2, <1>5 DEF Ended
<1> QED
  BY <1>1, <1>2, <1>4, <1>5, <1>6, <1>7, <1>8, <1>9 DEF Journal

(* The command outside ends.                                               *)
LEMMA JournalOutside ==
    ASSUME Journal, TypeOK, Outside, ~Running, UNCHANGED <<ran, line, cmd>>, Up',
           NEW outcome \in {"ok", "error", "cancelled"}, log' = Append(log, Entry(line, outcome))
    PROVE  Journal' /\ Ended' = Ended \union {line} /\ line \notin Ended /\ line \in Started
<1>1. Open = {line} /\ Open' = {} /\ line \in Nat
  BY DEF Open, Outside, Up, Running, TypeOK
<1>2. Entry(line, outcome) \in Entries /\ Entry(line, outcome).outcome # "session"
      /\ Entry(line, outcome).line = line
  BY <1>1 DEF Entry, Entries, Outcomes
<1>3. \A l \in Recorded : l < line
  <2> SUFFICES ASSUME NEW l \in Recorded PROVE l < line
    OBVIOUS
  <2>1. l \in 1..line /\ l # line
    BY <1>1 DEF Journal, Ended
  <2> QED
    BY <1>1, <2>1
<1>4. log' \in Seq(Entries) /\ Recorded' = Recorded \union {line}
      /\ \A i, j \in Records' : i < j => log'[i].line < log'[j].line
  BY <1>2, <1>3, LogGrows DEF Journal, Ended
<1>5. Started' = Started
  BY DEF Started
<1> QED
  BY <1>1, <1>4, <1>5 DEF Journal, Ended
-----------------------------------------------------------------------------
(* The scrollback, step by step.                                           *)
LEMMA ShellShown ==
    ASSUME Journal, TypeOK, ViewInv, pc # "left",
           NEW runs, ShowsOnce(scroll, LeftCommands, runs),
           Ended' = Ended, ui'.view = ShellUi.view
    PROVE  ShowsOnce(ShellScroll, LeftCommands', runs)
<1>1. 0 \notin Ended /\ ui \in Ui /\ ui.view \in Nat
  BY DEF Journal, Ended, TypeOK, Ui
<1>2. CASE LeavesView
  <2>1. ui'.view = 0 /\ ui.view \in Ended
    BY <1>1, <1>2 DEF ShellUi, Ui, ViewInv, LeavesView
  <2>2. LeftCommands' = LeftCommands \union {ui.view} /\ ui.view \notin LeftCommands
    BY <1>1, <2>1 DEF LeftCommands
  <2> QED
    BY <1>1, <1>2, <2>2, CommandShown DEF ShellScroll
<1>3. CASE ~LeavesView
  <2>1. LeftCommands' = LeftCommands
    BY <1>3 DEF LeftCommands, ShellUi
  <2> QED
    BY <1>3, <2>1 DEF ShellScroll
<1> QED
  BY <1>2, <1>3

LEMMA GridShown ==
    ASSUME watch \in Watch, HasGrid => watch.no > 0,
           NEW s, NEW commands, ShowsOnce(s, commands, LeftRuns)
    PROVE  ShowsOnce(WithGrid(s), commands, 1 .. watch.no)
<1>1. watch.no \in Nat
  BY DEF Watch
<1>2. CASE HasGrid
  <2>1. LeftRuns \union {watch.no} = 1 .. watch.no /\ watch.no \notin LeftRuns
    BY <1>1, <1>2 DEF LeftRuns
  <2> QED
    BY <1>1, <1>2, <2>1, RunShown DEF WithGrid
<1>3. CASE ~HasGrid
  <2>1. LeftRuns = 1 .. watch.no
    BY <1>3 DEF LeftRuns
  <2> QED
    BY <1>3, <2>1 DEF WithGrid
<1> QED
  BY <1>2, <1>3

(* The run and its grid stay.                                              *)
SameGrid == watch'.no = watch.no /\ (HasGrid' <=> HasGrid)

LEMMA RunsKept == ASSUME SameGrid PROVE LeftRuns' = LeftRuns
  BY DEF SameGrid, LeftRuns

LEMMA BeginShown ==
    ASSUME watch \in Watch, HasGrid => watch.no > 0,
           NEW u, NEW s, BeginWatch(u, s), NEW commands, ShowsOnce(s, commands, LeftRuns)
    PROVE  ShowsOnce(scroll', commands, LeftRuns') /\ (HasGrid => watch.no > 0)'
<1>1. CASE Watching
  <2>1. SameGrid /\ scroll' = s
    BY <1>1 DEF BeginWatch, SameGrid, HasGrid
  <2> QED
    BY <2>1, RunsKept DEF SameGrid
<1>2. CASE ~Watching
  <2>1. watch' = [NoWatch EXCEPT !.no = watch.no + 1, !.state = "running", !.gen = gen]
        /\ scroll' = WithGrid(s)
    BY <1>2 DEF BeginWatch
  <2>2. watch'.no = watch.no + 1 /\ HasGrid' /\ watch.no \in Nat
    BY <2>1 DEF NoWatch, HasGrid, Watch
  <2>3. LeftRuns' = 1 .. watch.no
    BY <2>2 DEF LeftRuns
  <2> QED
    BY <2>1, <2>2, <2>3, GridShown
<1> QED
  BY <1>1, <1>2

(* A finished repeating view waits to be left, or was.                     *)
LEMMA ViewKept ==
    ASSUME TypeOK, ViewInv, pc # "left", Ended \subseteq Ended',
           ui'.view \in {ui.view, ShellUi.view},
           cmd' = cmd \/ (cmd.every /\ cmd' = [cmd EXCEPT !.ran = TRUE])
    PROVE  ViewInv'
<1>1. ui'.view \in {ui.view, 0}
  BY DEF ShellUi, TypeOK, Ui
<1>2. cmd'.no = cmd.no /\ cmd'.every = cmd.every /\ (cmd'.ran => cmd'.every)
      /\ (~Running => cmd' = cmd)
  BY DEF TypeOK, Command, ViewInv, Running, NoCommand
<1> QED
  BY <1>1, <1>2 DEF ViewInv, Running
-----------------------------------------------------------------------------
(* The records, for the steps that keep the commands: they show and log    *)
(* what the shell leaves, if anything.                                     *)
LEMMA RecordQuiet ==
    ASSUME TypeOK, RecordInv, JournalQuiet,
           cmd' = cmd \/ (cmd.every /\ cmd' = [cmd EXCEPT !.ran = TRUE]),
           \/ ui'.view = ui.view /\ scroll' = scroll
           \/ ui'.view = ShellUi.view /\ scroll' = ShellScroll,
           SameGrid
    PROVE  RecordInv'
<1>0. Journal /\ ViewInv /\ ScrollInv /\ pc # "left" /\ pc' # "left" /\ line \in Nat
  BY DEF RecordInv, JournalInv, JournalQuiet, Up, TypeOK
<1>1. Journal' /\ Ended' = Ended
  BY <1>0, JournalKept
<1>2. ViewInv'
  BY <1>0, <1>1, ViewKept
<1>3. ShowsOnce(scroll', LeftCommands', LeftRuns)
  <2>1. CASE ui'.view = ui.view /\ scroll' = scroll
    BY <1>0, <1>1, <2>1 DEF ScrollInv, LeftCommands
  <2>2. CASE ui'.view = ShellUi.view /\ scroll' = ShellScroll
    BY <1>0, <1>1, <2>2, ShellShown DEF ScrollInv
  <2> QED
    BY <2>1, <2>2
<1>4. ScrollInv'
  BY <1>0, <1>3, RunsKept DEF ScrollInv, SameGrid
<1> QED
  BY <1>1, <1>2, <1>4 DEF RecordInv, JournalInv

(* For a line the shell answers itself.                                    *)
LEMMA RecordLogged ==
    ASSUME TypeOK, RecordInv, Enter, Logged, Up', UNCHANGED <<ran, cmd>>,
           ui'.view = ShellUi.view,
           \/ scroll' = ShellScroll /\ SameGrid
           \/ \E u : BeginWatch(u, ShellScroll)
    PROVE  RecordInv'
<1>0. Journal /\ ViewInv /\ ScrollInv /\ Up /\ pc # "left" /\ watch \in Watch
  BY DEF RecordInv, JournalInv, Enter, InShell, Select, Up, TypeOK
<1>1. Journal' /\ Ended' = Ended
  BY <1>0, JournalLogged
<1>2. ViewInv'
  BY <1>0, <1>1, ViewKept
<1>3. ShowsOnce(ShellScroll, LeftCommands', LeftRuns)
  BY <1>0, <1>1, ShellShown DEF ScrollInv
<1>4. ShowsOnce(scroll', LeftCommands', LeftRuns') /\ (HasGrid => watch.no > 0)'
  <2>1. CASE scroll' = ShellScroll /\ SameGrid
    BY <1>0, <1>3, <2>1, RunsKept DEF ScrollInv, SameGrid
  <2>2. CASE \E u : BeginWatch(u, ShellScroll)
    BY <1>0, <1>3, <2>2, BeginShown DEF ScrollInv
  <2> QED
    BY <2>1, <2>2
<1> QED
  BY <1>1, <1>2, <1>4 DEF RecordInv, JournalInv, ScrollInv

(* For a step that starts or closes a run, and logs nothing.               *)
LEMMA RecordBegun ==
    ASSUME TypeOK, RecordInv, JournalQuiet, cmd' = cmd, NEW u, NEW s, BeginWatch(u, s),
           \/ ui'.view = ui.view /\ s = scroll
           \/ ui'.view = ShellUi.view /\ s = ShellScroll
    PROVE  RecordInv'
<1>0. Journal /\ ViewInv /\ ScrollInv /\ pc # "left" /\ line \in Nat /\ watch \in Watch
  BY DEF RecordInv, JournalInv, JournalQuiet, Up, TypeOK
<1>1. Journal' /\ Ended' = Ended
  BY <1>0, JournalKept
<1>2. ViewInv'
  BY <1>0, <1>1, ViewKept
<1>3. ShowsOnce(s, LeftCommands', LeftRuns)
  <2>1. CASE ui'.view = ui.view /\ s = scroll
    BY <1>0, <1>1, <2>1 DEF ScrollInv, LeftCommands
  <2>2. CASE ui'.view = ShellUi.view /\ s = ShellScroll
    BY <1>0, <1>1, <2>2, ShellShown DEF ScrollInv
  <2> QED
    BY <2>1, <2>2
<1>4. ShowsOnce(scroll', LeftCommands', LeftRuns') /\ (HasGrid => watch.no > 0)'
  BY <1>0, <1>3, BeginShown DEF ScrollInv
<1> QED
  BY <1>1, <1>2, <1>4 DEF RecordInv, JournalInv, ScrollInv

LEMMA RecordClosed == ASSUME TypeOK, RecordInv, CloseKey PROVE RecordInv'
<1>0. Journal /\ ViewInv /\ ScrollInv /\ pc # "left" /\ pc' = "top" /\ line \in Nat
      /\ watch \in Watch
  BY DEF RecordInv, JournalInv, CloseKey, InGrid, Select, TypeOK
<1>1. Journal' /\ Ended' = Ended
  BY <1>0, JournalKept DEF CloseKey, JournalQuiet, InGrid, Select, Up
<1>2. ui'.view = ui.view
  BY DEF CloseKey, TypeOK, Ui
<1>3. ViewInv'
  BY <1>0, <1>1, <1>2, ViewKept DEF CloseKey
<1>4. watch'.no = watch.no /\ ~HasGrid'
  BY DEF CloseKey, NoWatch, HasGrid
<1>5. LeftRuns' = 1 .. watch.no
  BY <1>4 DEF LeftRuns
<1>6. ShowsOnce(scroll', LeftCommands', LeftRuns')
  BY <1>0, <1>1, <1>2, <1>5, GridShown DEF ScrollInv, LeftCommands, CloseKey
<1> QED
  BY <1>1, <1>3, <1>4, <1>6 DEF RecordInv, JournalInv, ScrollInv

(* For the end of the pane command, if there is one.                       *)
LEMMA RecordFinish ==
    ASSUME TypeOK, RecordInv, Up, Up', UNCHANGED <<ran, line, watch>>,
           NEW u \in {ui, [ui EXCEPT !.list = FALSE]},
           NEW outcome \in {"ok", "error", "cancelled"}, Finish(u, outcome, <<>>)
    PROVE  RecordInv'
<1>0. Journal /\ ViewInv /\ ScrollInv /\ pc # "left" /\ pc' # "left" /\ cmd \in Command
  BY DEF RecordInv, JournalInv, Up, TypeOK
<1>1. Journal' /\ Ended' = Started
  BY <1>0, JournalFinish
<1>2. ui'.view = IF cmd.ran THEN cmd.no ELSE ui.view
  BY DEF Finish, FinishUi, TypeOK, Ui
<1>3. cmd' = NoCommand
  BY DEF Finish, ClearCommand
<1>4. Ended \subseteq Started /\ 0 \notin Started
  BY <1>0 DEF Ended, Journal
<1>5. cmd.ran => cmd.no \in Started /\ cmd.no \notin Ended
  BY <1>0 DEF Journal, Ended, Open, ViewInv, NoCommand
<1>6. ViewInv'
  BY <1>0, <1>1, <1>2, <1>3, <1>4, <1>5 DEF ViewInv, NoCommand, Running
<1>7. ShowsOnce(scroll', LeftCommands', LeftRuns)
  <2>1. CASE ~Running
    <3>1. scroll' = scroll /\ ui'.view = ui.view /\ Open = {}
      BY <1>0, <1>2, <2>1 DEF Finish, ViewInv, NoCommand, Open, Outside, Up
    <3>2. LeftCommands' = LeftCommands
      BY <1>1, <3>1 DEF LeftCommands, Ended
    <3> QED
      BY <1>0, <3>1, <3>2 DEF ScrollInv
  <2>2. CASE Running
    <3>1. Open = {cmd.no} /\ cmd.no \in Started /\ cmd.no \notin Ended /\ cmd.no \in Nat
      BY <1>0, <2>2 DEF Open, Outside, Up, Journal, Ended, Command
    <3>2. Started = Ended \union {cmd.no}
      BY <3>1 DEF Ended
    <3>3. CASE cmd.ran
      <4>1. scroll' = scroll /\ ui.view = 0 /\ ui'.view = cmd.no
        BY <1>0, <1>2, <3>3 DEF Finish, ViewInv
      <4>2. LeftCommands' = LeftCommands
        BY <1>1, <1>4, <3>1, <3>2, <4>1 DEF LeftCommands
      <4> QED
        BY <1>0, <4>1, <4>2 DEF ScrollInv
    <3>4. CASE ~cmd.ran
      <4>1. scroll' = Append(scroll, Shown("command", cmd.no)) /\ ui'.view = ui.view
        BY <1>2, <2>2, <3>4 DEF Finish
      <4>2. ui.view # cmd.no
        BY <1>0, <2>2, <3>1 DEF ViewInv, Running
      <4>3. LeftCommands' = LeftCommands \union {cmd.no} /\ cmd.no \notin LeftCommands
        BY <1>1, <3>1, <3>2, <4>1, <4>2 DEF LeftCommands
      <4> QED
        BY <1>0, <3>1, <4>1, <4>3, CommandShown DEF ScrollInv
    <3> QED
      BY <3>3, <3>4
  <2> QED
    BY <2>1, <2>2
<1>8. ScrollInv'
  BY <1>0, <1>7, RunsKept DEF ScrollInv, SameGrid, HasGrid
<1> QED
  BY <1>1, <1>6, <1>8 DEF RecordInv, JournalInv

(* For a line that starts a command, in the pane or outside.               *)
LEMMA RecordStart ==
    ASSUME TypeOK, RecordInv, EvidenceKey \/ SubmitPane \/ SubmitSuspend
    PROVE  RecordInv'
<1>0. Journal /\ ViewInv /\ ScrollInv /\ Up /\ pc # "left" /\ ~Running /\ pc' # "left"
      /\ line' = line + 1 /\ ran' = Append(ran, line') /\ log' = log /\ watch' = watch
      /\ line \in Nat /\ ui \in Ui
  BY DEF RecordInv, JournalInv, EvidenceKey, SubmitPane, SubmitSuspend, StartPane, Enter, InShell,
     InGrid, Select, Up, TypeOK
<1>1. Open' = {line'}
  <2>1. CASE EvidenceKey \/ SubmitPane
    <3>1. \E every \in BOOLEAN : StartPane(every)
      BY <2>1 DEF EvidenceKey, SubmitPane
    <3>2. cmd'.no = line' /\ pc' = "top"
      BY <3>1 DEF StartPane
    <3> QED
      BY <1>0, <3>2 DEF Open, Running, Outside
  <2>2. CASE SubmitSuspend
    BY <1>0, <2>2 DEF SubmitSuspend, Open, Running, Outside
  <2> QED
    BY <2>1, <2>2
<1>2. Journal' /\ Ended' = Ended
  BY <1>0, <1>1, JournalStart
<1>3. \/ ui'.view = ui.view /\ scroll' = scroll /\ EvidenceKey
      \/ ui'.view = ShellUi.view /\ scroll' = ShellScroll
  BY <1>0 DEF EvidenceKey, SubmitPane, SubmitSuspend, Ui
<1>4. ViewInv'
  <2>1. CASE SubmitSuspend
    BY <1>0, <1>2, <1>3, <2>1, ViewKept DEF SubmitSuspend
  <2>2. CASE EvidenceKey
    <3>1. cmd' = [no |-> line', every |-> FALSE, ran |-> FALSE] /\ ui'.view = ui.view
      BY <1>0, <2>2 DEF EvidenceKey, StartPane, Ui
    <3> QED
      BY <1>0, <1>2, <3>1 DEF ViewInv, Running
  <2>3. CASE SubmitPane
    <3>1. PICK every \in BOOLEAN : cmd' = [no |-> line', every |-> every, ran |-> FALSE]
      BY <2>3 DEF SubmitPane, StartPane
    <3>2. ui'.view = 0
      BY <1>0, <2>3 DEF SubmitPane, ShellUi, LeavesView, Ui
    <3> QED
      BY <1>0, <1>2, <3>1, <3>2 DEF ViewInv, Running
  <2> QED
    BY <2>1, <2>2, <2>3
<1>5. ShowsOnce(scroll', LeftCommands', LeftRuns)
  <2>1. CASE ui'.view = ui.view /\ scroll' = scroll
    BY <1>0, <1>2, <2>1 DEF ScrollInv, LeftCommands
  <2>2. CASE ui'.view = ShellUi.view /\ scroll' = ShellScroll
    BY <1>0, <1>2, <2>2, ShellShown DEF ScrollInv
  <2> QED
    BY <1>3, <2>1, <2>2
<1>6. ScrollInv'
  BY <1>0, <1>5, RunsKept DEF ScrollInv, SameGrid, HasGrid
<1> QED
  BY <1>2, <1>4, <1>6 DEF RecordInv, JournalInv

(* For the end of a command outside.                                       *)
LEMMA RecordOutside ==
    ASSUME TypeOK, RecordInv, ~Running, OutsideEnds, pc' # "left"
    PROVE  RecordInv'
<1>0. Journal /\ ViewInv /\ ScrollInv /\ Outside /\ pc # "left" /\ Up' /\ cmd' = cmd
      /\ ui' = ui /\ line' = line /\ line \in Nat /\ ran' = ran
  BY DEF RecordInv, JournalInv, OutsideEnds, Outside, Resumed, Up, TypeOK
<1>1. PICK outcome \in {"ok", "error", "cancelled"} :
         log' = Append(log, Entry(line, outcome)) /\ Reload(outcome)
  BY DEF OutsideEnds
<1>2. Journal' /\ Ended' = Ended \union {line} /\ line \notin Ended /\ line \in Started
  BY <1>0, <1>1, JournalOutside
<1>3. ViewInv'
  BY <1>0, <1>2, ViewKept
<1>4. line # ui.view
  BY <1>0, <1>2 DEF ViewInv, Journal
<1>5. LeftCommands' = LeftCommands \union {line} /\ line \notin LeftCommands
  BY <1>0, <1>2, <1>4 DEF LeftCommands
<1>6. ShowsOnce(scroll', LeftCommands', LeftRuns)
  BY <1>0, <1>5, CommandShown DEF ScrollInv, OutsideEnds
<1>7. SameGrid
  BY <1>1 DEF Reload, SameGrid, HasGrid, TypeOK, Watch
<1>8. ScrollInv'
  BY <1>0, <1>6, <1>7, RunsKept DEF ScrollInv, SameGrid
<1> QED
  BY <1>2, <1>3, <1>8 DEF RecordInv, JournalInv

LEMMA RecordStep ==
    ASSUME TypeOK, SinkInv, RecordInv, Next
    PROVE  RecordInv'
<1>0. ui \in Ui /\ watch \in Watch /\ cmd \in Command /\ line \in Nat /\ ShellUi \in Ui
  BY ShellUiShape DEF TypeOK
<1>1. CASE pc' = "left"
  BY <1>1 DEF RecordInv, JournalInv, ViewInv, ScrollInv
<1>2. CASE Top \/ WatchPrepared \/ WatchTicks \/ LiveTick \/ AnswerKey \/ LeaveWizard \/ ToggleGrid
           \/ PaneRepeats \/ \E a \in Askers : Ask(a) \/ Retry(a) \/ TakeAnswer(a)
  <2>1. JournalQuiet /\ scroll' = scroll
    BY <1>0, <1>2 DEF JournalQuiet, Up, Top, WatchPrepared, WatchTicks, LiveTick, AnswerKey,
       LeaveWizard, ToggleGrid, PaneRepeats, Ask, Retry, TakeAnswer, Inside, Select, InWizard,
       InGrid, InShell, Command
  <2>2. cmd' = cmd \/ (cmd.every /\ cmd' = [cmd EXCEPT !.ran = TRUE])
    BY <1>2 DEF Top, WatchPrepared, WatchTicks, LiveTick, AnswerKey, LeaveWizard, ToggleGrid,
       PaneRepeats, Ask, Retry, TakeAnswer
  <2>3. SameGrid
    BY <1>0, <1>2 DEF SameGrid, HasGrid, Polled, Watch, Top, WatchPrepared, WatchTicks, LiveTick,
       AnswerKey, LeaveWizard, ToggleGrid, PaneRepeats, Ask, Retry, TakeAnswer
  <2>4. ui'.view = ui.view
    BY <1>0, <1>2 DEF Ui, Top, PollAsk, WatchPrepared, WatchTicks, LiveTick, AnswerKey, LeaveWizard,
       ToggleGrid, PaneRepeats, Ask, Retry, TakeAnswer
  <2> QED
    BY <2>1, <2>2, <2>3, <2>4, RecordQuiet
<1>3. CASE WatchEnds \/ StopKey
  <2>1. JournalQuiet /\ scroll' = scroll /\ cmd' = cmd
    BY <1>3 DEF JournalQuiet, Up, WatchEnds, StopKey, Select, InGrid
  <2>2. SameGrid
    BY <1>0, <1>3 DEF SameGrid, HasGrid, Polled, Stopped, Watching, Watch, WatchEnds, StopKey
  <2>3. ui'.view = ui.view
    BY <1>0, <1>3 DEF Ui, DropWatchQuestion, WatchEnds, StopKey
  <2> QED
    BY <2>1, <2>2, <2>3, RecordQuiet
<1>4. CASE EditKey \/ SubmitUnlogged
           \/ (SubmitMonitor /\ ui' = [ShellUi EXCEPT !.wizard = TRUE, !.list = FALSE]
                             /\ scroll' = ShellScroll /\ UNCHANGED watch)
  <2>1. JournalQuiet /\ scroll' = ShellScroll /\ cmd' = cmd /\ watch' = watch
    BY <1>4 DEF JournalQuiet, Up, EditKey, SubmitUnlogged, SubmitMonitor, ShellKey, Enter, InShell,
       Select
  <2>2. ui'.view = ShellUi.view
    BY <1>0, <1>4 DEF Ui, EditKey, SubmitUnlogged
  <2> QED
    BY <2>1, <2>2, RecordQuiet DEF SameGrid, HasGrid
<1>5. CASE SubmitSession \/ SubmitWatchStop \/ SubmitWatchShow
  <2>1. Enter /\ Logged /\ Up' /\ UNCHANGED <<ran, cmd>> /\ scroll' = ShellScroll
    BY <1>5 DEF SubmitSession, SubmitWatchStop, SubmitWatchShow, Up
  <2>2. ui'.view = ShellUi.view
    BY <1>0, <1>5 DEF Ui, SubmitSession, SubmitWatchStop, SubmitWatchShow
  <2>3. SameGrid
    BY <1>0, <1>5 DEF SameGrid, HasGrid, Stopped, Polled, Watching, Watch, SubmitSession,
       SubmitWatchStop, SubmitWatchShow
  <2> QED
    BY <2>1, <2>2, <2>3, RecordLogged
<1>6. CASE SubmitWatchOpen
  <2>1. ui'.view = ShellUi.view
    BY <1>0, <1>6 DEF Ui, SubmitWatchOpen, BeginWatch
  <2> QED
    BY <1>6, <2>1, RecordLogged DEF SubmitWatchOpen, Up
<1>7. CASE SubmitMonitor /\ BeginWatch(ShellUi, ShellScroll)
  <2>1. ui'.view = ShellUi.view
    BY <1>0, <1>7 DEF Ui, BeginWatch
  <2>2. JournalQuiet /\ cmd' = cmd
    BY <1>7 DEF JournalQuiet, Up, SubmitMonitor, Enter, InShell, Select
  <2> QED
    BY <1>7, <2>1, <2>2, RecordBegun
<1>8. CASE StartFromWizard
  <2>1. ui'.view = ui.view
    BY <1>0, <1>8 DEF Ui, StartFromWizard, BeginWatch
  <2>2. JournalQuiet /\ cmd' = cmd
    BY <1>8 DEF JournalQuiet, Up, StartFromWizard, InWizard, Select
  <2> QED
    BY <1>8, <2>1, <2>2, RecordBegun DEF StartFromWizard
<1>9. CASE PaneEnds \/ CancelInList \/ CancelKey
  <2>1. Up /\ Up' /\ UNCHANGED <<ran, line, watch>>
    BY <1>9 DEF Up, PaneEnds, CancelInList, CancelKey, CancelCommand, InShell, Select
  <2>2. \E u \in {ui, [ui EXCEPT !.list = FALSE]}, outcome \in {"ok", "error", "cancelled"} :
           Finish(u, outcome, <<>>)
    BY <1>9 DEF PaneEnds, CancelInList, CancelKey, CancelCommand
  <2> QED
    BY <2>1, <2>2, RecordFinish
<1>10. CASE OutsideEnds /\ pc' # "left"
  BY <1>10, RecordOutside DEF SinkInv, OutsideEnds
<1>11. CASE SignalExit \/ InputEnds \/ ExitInWizard \/ ExitInGrid \/ ExitKey \/ SubmitExit
            \/ OutsideSignal
  BY <1>1, <1>11 DEF SignalExit, InputEnds, ExitInWizard, ExitInGrid, ExitKey, SubmitExit,
     OutsideSignal, Leave
<1>12. SubmitMonitor => \/ BeginWatch(ShellUi, ShellScroll)
                        \/ ui' = [ShellUi EXCEPT !.wizard = TRUE, !.list = FALSE]
                           /\ scroll' = ShellScroll /\ UNCHANGED watch
  BY DEF SubmitMonitor
<1> QED
  BY <1>1, <1>2, <1>3, <1>4, <1>5, <1>6, <1>7, <1>8, <1>9, <1>10, <1>11, <1>12, RecordStart,
     RecordClosed DEF Next, Futures, Keys, Lines
LEMMA RecordInit == ASSUME Init, TypeOK PROVE RecordInv
<1>1. /\ Started = {} /\ Records = {} /\ Recorded = {} /\ Open = {} /\ Ended = {}
      /\ pc = "top" /\ cmd = NoCommand /\ scroll = <<>> /\ ran = <<>> /\ log = <<>>
      /\ ui.view = 0
  BY DEF Init, Started, Records, Recorded, Open, Ended, Running, NoCommand, Outside
<1>2. watch.no = (IF HasGrid THEN 1 ELSE 0)
  BY DEF Init, NoWatch, HasGrid
<1>3. LeftCommands = {} /\ LeftRuns = {}
  BY <1>1, <1>2 DEF LeftCommands, LeftRuns
<1>4. \A y : Shows(<<>>, y) = 0
  <2>1. ASSUME NEW y PROVE {i \in DOMAIN <<>> : <<>>[i] = y} = {}
    OBVIOUS
  <2> QED
    BY <2>1, FS_EmptySet DEF Shows
<1>5. ShowsOnce(scroll, {}, {})
  BY <1>1, <1>4 DEF ShowsOnce
<1>6. Journal
  BY <1>1 DEF Journal
<1>7. ScrollInv
  BY <1>2, <1>3, <1>5 DEF ScrollInv
<1> QED
  BY <1>1, <1>6, <1>7 DEF RecordInv, JournalInv, ViewInv, NoCommand

(* What the journal and the scrollback have, between two steps of the      *)
(* loop.                                                                   *)
LEMMA JournalRead == ASSUME RecordInv PROVE JournalComplete
  BY DEF RecordInv, JournalInv, Journal, JournalComplete, Ended, Open, Outside, Up

LEMMA ScrollRead == ASSUME TypeOK, RecordInv PROVE OutputOnce
<1> SUFFICES ASSUME Up PROVE OutputOnce
  BY DEF OutputOnce
<1>1. Journal /\ ViewInv /\ ScrollInv /\ pc # "left" /\ Open = IF Running THEN {cmd.no} ELSE {}
  BY DEF RecordInv, JournalInv, Up, Open, Outside
<1>2. Started \subseteq Nat /\ 0 \notin Started
  BY <1>1 DEF Journal, TypeOK
<1>3. \A what, no : Times(what, no) = Shows(scroll, Shown(what, no))
  BY DEF Times, Shows
<1>4. ASSUME NEW no \in Started
      PROVE  Times("command", no) = IF no \in {cmd.no, ui.view} THEN 0 ELSE 1
  <2>1. no \in LeftCommands <=> no \notin {cmd.no, ui.view}
    BY <1>1, <1>2 DEF LeftCommands, Ended, Running
  <2> QED
    BY <1>1, <1>2, <1>3, <2>1 DEF ScrollInv, ShowsOnce
<1>5. ASSUME NEW n \in 1 .. watch.no
      PROVE  Times("run", n) = IF n = watch.no /\ HasGrid THEN 0 ELSE 1
  <2>1. n \in Nat /\ (n \in LeftRuns <=> ~(n = watch.no /\ HasGrid))
    BY DEF LeftRuns, TypeOK, Watch
  <2> QED
    BY <1>1, <1>3, <2>1 DEF ScrollInv, ShowsOnce
<1> QED
  BY <1>4, <1>5 DEF OutputOnce

LEMMA RecordStutter == ASSUME RecordInv, UNCHANGED vars PROVE RecordInv'
<1>1. Journal => Journal'
  <2>1. UNCHANGED <<Started, Records, Open>>
    BY DEF vars, Started, Records, Open, Running, Outside
  <2>2. UNCHANGED <<Ended, Recorded>>
    BY <2>1 DEF vars, Ended, Recorded
  <2> QED
    BY <2>1, <2>2 DEF vars, Journal
<1>2. UNCHANGED <<Ended, HasGrid, LeftRuns, LeftCommands>>
  BY DEF vars, Started, Open, Ended, Running, Outside, HasGrid, LeftRuns, LeftCommands
<1> QED
  BY <1>1, <1>2 DEF vars, RecordInv, JournalInv, ViewInv, ScrollInv, Running

-----------------------------------------------------------------------------
(* A TUI that is still there has no way it ended.                          *)
Here == pc # "left" => exit = "none"

LEMMA HereStep == ASSUME Here, Next PROVE Here'
<1> USE DEF Here, Select
<1>1. CASE pc' = "left"
  BY <1>1
<1>2. CASE exit' = exit /\ pc # "left"
  BY <1>2
<1>3. CASE Top \/ LiveTick \/ SignalExit \/ InputEnds \/ OutsideEnds \/ OutsideSignal
  BY <1>3 DEF Top, LiveTick, SignalExit, InputEnds, Leave, OutsideEnds, OutsideSignal, Outside,
     Resumed
<1>4. CASE Futures
  BY <1>4 DEF Futures, Ask, Retry, TakeAnswer, PaneRepeats, WatchPrepared, WatchTicks, Inside,
     PaneEnds, WatchEnds
<1>5. CASE Keys
  BY <1>5 DEF Keys, AnswerKey, CancelInList, CancelCommand, ExitInWizard, LeaveWizard,
     StartFromWizard, ToggleGrid, ExitInGrid, StopKey, CloseKey, EvidenceKey, EditKey, CancelKey,
     ExitKey, ShellKey, InWizard, InGrid, InShell, StartPane, Leave
<1>6. CASE Lines
  BY <1>6 DEF Lines, SubmitSession, SubmitUnlogged, SubmitExit, SubmitPane, SubmitSuspend,
     SubmitMonitor, SubmitWatchOpen, SubmitWatchStop, SubmitWatchShow, Enter, InShell, StartPane,
     Leave
<1> QED
  BY <1>3, <1>4, <1>5, <1>6 DEF Next

LoopInv == TypeOK /\ QuestionInv /\ GridInv /\ SinkInv /\ RecordInv /\ Here

LEMMA LoopInvInit == Init => LoopInv
<1> SUFFICES ASSUME Init PROVE LoopInv
  OBVIOUS
<1>1. NoWatch \in Watch /\ [NoWatch EXCEPT !.no = 1, !.state = "running"] \in Watch
  BY DEF NoWatch, Watch
<1>2. watch \in Watch /\ watch \in {NoWatch, [NoWatch EXCEPT !.no = 1, !.state = "running"]}
  BY <1>1 DEF Init
<1>3. cmd = NoCommand /\ slot = NoQuestion /\ ui.choice = NoQuestion
  BY DEF Init
<1>4. TypeOK
  BY <1>2, QuestionShapes, CommandShapes DEF Init, TypeOK, Asks, Ui, NoQuestion, Question, Askers
<1>5. QuestionInv
  BY <1>3 DEF QuestionInv, NoQuestionWhenIdle, PaneQuestionLive, NoQuestion, Asking
<1>6. GridInv
  BY <1>2 DEF Init, GridInv, GridComplete, StaleHonest, Watching, NoWatch
<1>7. SinkInv /\ Here
  BY <1>3 DEF Init, SinkInv, SinkRight, Up, Outside, Running, NoCommand, Here
<1>8. RecordInv
  BY <1>4, RecordInit
<1> QED
  BY <1>4, <1>5, <1>6, <1>7, <1>8 DEF LoopInv

LEMMA LoopInvStep == LoopInv /\ [Next]_vars => LoopInv'
<1>1. ASSUME LoopInv, Next PROVE LoopInv'
  BY <1>1, ShapeStep, QuestionStep, GridStep, SinkStep, RecordStep, HereStep DEF LoopInv
<1>2. ASSUME LoopInv, UNCHANGED vars PROVE LoopInv'
  BY <1>2, RecordStutter DEF LoopInv, vars, TypeOK, QuestionInv, NoQuestionWhenIdle,
     PaneQuestionLive, Live, QuestionOf, Asking, GridInv, GridComplete, StaleHonest, SinkInv, SinkRight, Up, Outside,
     Running, Watching, Here
<1> QED
  BY <1>1, <1>2

THEOREM LoopInvariant == Spec => []LoopInv
<1> QED
  BY LoopInvInit, LoopInvStep, PTL DEF Spec

(* Type correctness of the loop's state.                                   *)
THEOREM TypeCorrect == Spec => []TypeOK
<1>1. LoopInv => TypeOK
  BY DEF LoopInv
<1> QED
  BY <1>1, LoopInvariant, PTL

(* With no pane command and no run, nothing is asked.                      *)
THEOREM IdleAsksNothing == Spec => []NoQuestionWhenIdle
<1>1. LoopInv => NoQuestionWhenIdle
  BY DEF LoopInv, QuestionInv
<1> QED
  BY <1>1, LoopInvariant, PTL

(* What the list or the slot holds for the pane, its command awaits.       *)
THEOREM PaneQuestionIsLive == Spec => []PaneQuestionLive
<1>1. LoopInv => PaneQuestionLive
  BY DEF LoopInv, QuestionInv
<1> QED
  BY <1>1, LoopInvariant, PTL

(* The grid of an ended run misses no message, and its report is from its  *)
(* last tick.                                                              *)
THEOREM EndedGridIsComplete == Spec => []GridComplete
<1>1. LoopInv => GridComplete
  BY DEF LoopInv, GridInv
<1> QED
  BY <1>1, LoopInvariant, PTL

(* The grid says "old settings" exactly when its run has settings that     *)
(* `setup` replaced since.                                                 *)
THEOREM StaleIsHonest == Spec => []StaleHonest
<1>1. LoopInv => StaleHonest
  BY DEF LoopInv, GridInv
<1> QED
  BY <1>1, LoopInvariant, PTL

(* A library warning goes where the user looks.                            *)
THEOREM WarningsAreSeen == Spec => []SinkRight
<1>1. LoopInv => SinkRight
  BY DEF LoopInv, SinkInv
<1> QED
  BY <1>1, LoopInvariant, PTL

(* The journal has one record for every command that ended, in the order   *)
(* the commands started, and none for the one that runs.                   *)
THEOREM JournalIsComplete == Spec => []JournalComplete
<1>1. LoopInv => JournalComplete
  BY JournalRead DEF LoopInv
<1> QED
  BY <1>1, LoopInvariant, PTL

(* What an ended command or run wrote is shown once, in the scrollback or  *)
(* in the view that still waits to be left.                                *)
THEOREM OutputIsShownOnce == Spec => []OutputOnce
<1>1. LoopInv => OutputOnce
  BY ScrollRead DEF LoopInv
<1> QED
  BY <1>1, LoopInvariant, PTL

(* While a question is open, no key reaches what is under it.              *)
THEOREM OpenQuestionHasFocus == Spec => QuestionHasFocus
<1>1. LoopInv /\ [Next]_vars => [FocusStep]_vars
  <2>1. ASSUME LoopInv, Next PROVE FocusStep
    BY <2>1, FocusKept DEF LoopInv, Here
  <2> QED
    BY <2>1
<1>2. QuestionHasFocus <=> [][FocusStep]_vars
  BY DEF QuestionHasFocus, FocusStep
<1> QED
  BY <1>1, <1>2, LoopInvariant, PTL DEF Spec

-----------------------------------------------------------------------------
(* The ask slot: an asker whose question is not settled goes on, its open  *)
(* question is in the slot or on the screen and not in both, and what is   *)
(* there for the run is of an earlier run or awaited.                      *)
SlotInv ==
    /\ \A a \in Askers : /\ ask[a] # "none" => Alive(a)
                         /\ ask[a] = "open" => Pending(QuestionOf(a))
    /\ \A q \in {ui.choice, slot} :
          /\ q = NoQuestion \/ q.by \in Askers
          /\ q.by = "watch" => /\ q.no <= watch.no
                               /\ q.no = watch.no /\ Watching => ask["watch"] = "open"
    /\ ui.choice = slot => slot = NoQuestion

(* A step that neither asks nor settles anything.                          *)
SameSlot ==
    /\ ui'.choice = ui.choice /\ slot' = slot /\ ask' = ask
    /\ cmd'.no = cmd.no /\ watch'.no = watch.no /\ (Watching <=> Watching')

LEMMA SlotKept == ASSUME SlotInv, SameSlot PROVE SlotInv'
  BY DEF SlotInv, SameSlot, Alive, Pending, QuestionOf, Running, Watching

LEMMA QuestionFields ==
    /\ QuestionOf("pane") = [by |-> "pane", no |-> cmd.no]
    /\ QuestionOf("watch") = [by |-> "watch", no |-> watch.no]
    /\ \A a \in Askers : QuestionOf(a) # NoQuestion /\ QuestionOf(a).by = a
    /\ NoQuestion.by \notin Askers
  BY DEF QuestionOf, NoQuestion, Askers

LEMMA EqualQuestions ==
    ASSUME NEW q \in Question, NEW r \in Question, q.by = r.by, q.no = r.no
    PROVE  q = r
  BY DEF Question

(* Steps whose slot and screen are those of before.                        *)
LEMMA QuietSteps ==
    ASSUME TypeOK, Next,
           \/ PaneRepeats \/ WatchPrepared \/ WatchTicks \/ LiveTick \/ InputEnds
           \/ ExitInWizard \/ LeaveWizard \/ ToggleGrid \/ ExitInGrid \/ CloseKey \/ EditKey
           \/ ExitKey
           \/ SubmitSession \/ SubmitUnlogged \/ SubmitExit \/ SubmitSuspend \/ SubmitWatchShow
           \/ OutsideEnds \/ OutsideSignal
    PROVE  SameSlot
<1>0. /\ ui \in Ui /\ ShellUi \in Ui /\ ShellUi.choice = ui.choice
      /\ watch \in Watch /\ cmd \in Command
  BY ShellChoice DEF TypeOK
<1>1. CASE PaneRepeats \/ WatchPrepared \/ WatchTicks \/ LiveTick \/ InputEnds
  BY <1>0, <1>1 DEF SameSlot, PaneRepeats, WatchPrepared, WatchTicks, LiveTick, InputEnds, Inside,
     Leave, Watching, Command, Watch
<1>2. CASE ExitInWizard \/ LeaveWizard \/ ToggleGrid \/ ExitInGrid \/ CloseKey \/ EditKey \/ ExitKey
  <2>1. ui'.choice = ui.choice
    BY <1>0, <1>2 DEF Ui, ExitInWizard, LeaveWizard, ToggleGrid, ExitInGrid, CloseKey,
       EditKey, ExitKey
  <2>2. watch'.no = watch.no /\ (Watching <=> Watching')
    BY <1>0, <1>2 DEF Watch, NoWatch, Watching, ExitInWizard, LeaveWizard, ToggleGrid, ExitInGrid,
       CloseKey, EditKey, ExitKey, Leave
  <2> QED
    BY <1>2, <2>1, <2>2 DEF SameSlot, ExitInWizard, LeaveWizard, ToggleGrid, ExitInGrid,
       CloseKey, EditKey, ExitKey, Leave
<1>3. CASE SubmitSession \/ SubmitUnlogged \/ SubmitExit \/ SubmitSuspend \/ SubmitWatchShow
  <2>1. ui'.choice = ui.choice
    BY <1>0, <1>3 DEF Ui, SubmitSession, SubmitUnlogged, SubmitExit, SubmitSuspend,
       SubmitWatchShow
  <2> QED
    BY <1>3, <2>1 DEF SameSlot, SubmitSession, SubmitUnlogged, SubmitExit,
       SubmitSuspend, SubmitWatchShow, Leave, Watching
<1>4. CASE OutsideEnds \/ OutsideSignal
  <2>1. watch'.state = watch.state /\ watch'.no = watch.no
    BY <1>0, <1>4 DEF OutsideEnds, OutsideSignal, Reload, Watch
  <2> QED
    BY <1>4, <2>1 DEF SameSlot, OutsideEnds, OutsideSignal, Watching
<1> QED
  BY <1>1, <1>2, <1>3, <1>4

(* What the steps on questions do.                                         *)
LEMMA AskEffect ==
    ASSUME TypeOK, NEW a \in Askers, Ask(a) \/ Retry(a)
    PROVE  /\ UNCHANGED <<cmd, watch, ui>> /\ Alive(a) /\ ask[a] \in {"none", "wait"}
           /\ \A b \in Askers : b # a => ask'[b] = ask[b]
           /\ \/ slot = NoQuestion /\ slot' = QuestionOf(a) /\ ask'[a] = "open"
              \/ ask[a] = "none" /\ slot' = slot /\ ask'[a] = "wait"
  BY DEF Ask, Retry, Inside, TypeOK, Asks

LEMMA TakeEffect ==
    ASSUME TypeOK, NEW a \in Askers, TakeAnswer(a)
    PROVE  /\ UNCHANGED <<cmd, watch, ui, slot>> /\ Alive(a) /\ ask[a] \in {"replied", "dropped"}
           /\ \A b \in Askers : b # a => ask'[b] = ask[b]
           /\ ask'[a] = "none"
  BY DEF TakeAnswer, Inside, TypeOK, Asks

LEMMA FinishEffect ==
    ASSUME TypeOK, SlotInv, PaneEnds \/ SignalExit \/ CancelInList \/ CancelKey
    PROVE  /\ ui'.choice = NoQuestion /\ slot' = NoQuestion /\ watch' = watch /\ ~Running'
           /\ ask'["pane"] = "none"
           /\ ask'["watch"] = IF ask["watch"] = "open" THEN "dropped" ELSE ask["watch"]
<1>1. [ui EXCEPT !.list = FALSE] \in Ui /\ ui \in Ui
  BY UiShapes DEF TypeOK
<1>2. PICK u \in Ui : \E outcome, after : Finish(u, outcome, after)
  BY <1>1 DEF PaneEnds, SignalExit, CancelInList, CancelKey, CancelCommand
<1>3. ui'.choice = NoQuestion /\ slot' = NoQuestion /\ ~Running'
  BY <1>2, SameChoice DEF Finish, FinishUi, ClearCommand, NoCommand, Running
<1>4. watch' = watch
  BY DEF PaneEnds, SignalExit, CancelInList, CancelKey, CancelCommand
<1>5. ask'["pane"] = "none"
  <2>1. ~Running => ask["pane"] = "none" /\ ~Live(QuestionOf("pane"))
    BY QuestionFields DEF SlotInv, Alive, Live, Askers
  <2> QED
    BY <1>2, <2>1 DEF Finish, Askers
<1>6. Live(QuestionOf("watch")) /\ Pending(QuestionOf("watch")) <=> ask["watch"] = "open"
  BY QuestionFields DEF SlotInv, Alive, Live, Askers
<1>7. ask'["watch"] = IF ask["watch"] = "open" THEN "dropped" ELSE ask["watch"]
  BY <1>2, <1>6 DEF Finish, Askers
<1> QED
  BY <1>3, <1>4, <1>5, <1>7

LEMMA EndEffect ==
    ASSUME TypeOK, SlotInv, WatchEnds \/ StopKey \/ SubmitWatchStop
    PROVE  /\ cmd' = cmd /\ Watching /\ ~Watching' /\ watch'.no = watch.no
           /\ ask'["pane"] = ask["pane"] /\ ask'["watch"] = "none"
           /\ \/ ~Running /\ ui'.choice = NoQuestion /\ slot' = NoQuestion
              \/ ui' = ui /\ slot' = slot
<1>0. ui \in Ui /\ ask \in Asks /\ watch \in Watch /\ ShellUi.choice = ui.choice
  BY ShellChoice DEF TypeOK
<1>1. Polled(watch) \in Watch /\ Polled(watch).no = watch.no
  <2>1. Polled(watch) \in Watch
    BY <1>0, WatchShapes
  <2>2. Polled(watch).no = watch.no
    BY <1>0 DEF Polled, Watch
  <2> QED
    BY <2>1, <2>2
<1>2. Watching /\ ~Watching' /\ watch'.no = watch.no
  <2>1. Watching
    BY DEF WatchEnds, StopKey, SubmitWatchStop
  <2>2. watch' \in {[Polled(watch) EXCEPT !.state = "done", !.report = watch.sent],
                    [Polled(watch) EXCEPT !.state = "failed"], Stopped(watch)}
    BY DEF WatchEnds, StopKey, SubmitWatchStop
  <2>3. watch'.state # "running" /\ watch'.no = watch.no
    BY <1>1, <2>2 DEF Stopped, Watch
  <2> QED
    BY <2>1, <2>3 DEF Watching
<1>3. ask' = [ask EXCEPT !["watch"] = "none"] /\ cmd' = cmd
  BY DEF WatchEnds, StopKey, SubmitWatchStop, DropWatchQuestion
<1>4. \/ ~Running /\ ui'.choice = NoQuestion /\ slot' = NoQuestion
      \/ ui' = ui /\ slot' = slot
  <2>1. CASE WatchEnds \/ StopKey
    <3>1. [ui EXCEPT !.choice = NoQuestion].choice = NoQuestion
      BY <1>0, SameChoice, QuestionShapes DEF TypeOK
    <3> QED
      BY <2>1, <3>1 DEF WatchEnds, StopKey, DropWatchQuestion
  <2>2. CASE SubmitWatchStop
    BY <1>0, <2>2 DEF SubmitWatchStop, Enter, InShell, Asking
  <2> QED
    BY <2>1, <2>2
<1> QED
  BY <1>0, <1>2, <1>3, <1>4 DEF Asks, Askers

LEMMA BeginEffect ==
    ASSUME TypeOK, SlotInv, StartFromWizard \/ SubmitWatchOpen \/ SubmitMonitor
    PROVE  \/ SameSlot
           \/ /\ ui'.choice = ui.choice /\ slot' = slot /\ cmd' = cmd /\ ask' = ask
              /\ ~Watching /\ Watching' /\ watch'.no = watch.no + 1
<1>0. ui \in Ui /\ ShellUi \in Ui /\ ShellUi.choice = ui.choice
  BY ShellChoice DEF TypeOK
<1>1. [ui EXCEPT !.wizard = FALSE] \in Ui /\ [ui EXCEPT !.wizard = FALSE].choice = ui.choice
      /\ [ShellUi EXCEPT !.wizard = TRUE, !.list = FALSE].choice = ui.choice
  BY <1>0, UiShapes, SameChoice
<1>2. \/ \E u \in Ui : \E s : u.choice = ui.choice /\ BeginWatch(u, s)
      \/ ui'.choice = ui.choice /\ UNCHANGED <<watch, ask>>
  BY <1>0, <1>1 DEF StartFromWizard, SubmitWatchOpen, SubmitMonitor
<1>3. slot' = slot /\ cmd' = cmd
  BY DEF StartFromWizard, SubmitWatchOpen, SubmitMonitor
<1>4. CASE ui'.choice = ui.choice /\ UNCHANGED <<watch, ask>>
  BY <1>3, <1>4 DEF SameSlot, Watching
<1>5. ASSUME NEW u \in Ui, NEW s, u.choice = ui.choice, BeginWatch(u, s)
      PROVE  \/ SameSlot
             \/ /\ ui'.choice = ui.choice /\ ask' = ask
                /\ ~Watching /\ Watching' /\ watch'.no = watch.no + 1
  <2>1. CASE Watching
    BY <1>3, <1>5, <2>1 DEF BeginWatch, SameSlot, Watching
  <2>2. CASE ~Watching
    <3>1. ask["watch"] = "none"
      BY <2>2 DEF SlotInv, Alive, Askers
    <3>2. ask' = ask
      BY <1>5, <2>2, <3>1 DEF BeginWatch, TypeOK, Asks
    <3>3. ui'.choice = ui.choice
      <4>1. [u EXCEPT !.shown = TRUE].choice = u.choice
        BY SameChoice
      <4> QED
        BY <1>5, <2>2, <4>1 DEF BeginWatch
    <3>4. watch' = [NoWatch EXCEPT !.no = watch.no + 1, !.state = "running", !.gen = gen]
      BY <1>5, <2>2 DEF BeginWatch
    <3>5. Watching' /\ watch'.no = watch.no + 1
      BY <3>4 DEF NoWatch, Watching
    <3> QED
      BY <2>2, <3>2, <3>3, <3>5
  <2> QED
    BY <2>1, <2>2
<1> QED
  BY <1>2, <1>3, <1>4, <1>5

LEMMA StartEffect ==
    ASSUME TypeOK, EvidenceKey \/ SubmitPane
    PROVE  /\ ~Running /\ Running' /\ UNCHANGED <<watch, ask, slot>> /\ ui'.choice = ui.choice
<1>0. ui \in Ui /\ ShellUi.choice = ui.choice /\ line \in Nat
  BY ShellChoice DEF TypeOK
<1>1. ~Running /\ line' = line + 1
  BY DEF EvidenceKey, SubmitPane, Enter
<1>2. cmd'.no = line' /\ UNCHANGED <<watch, ask, slot>>
  BY DEF EvidenceKey, SubmitPane, StartPane
<1>3. ui'.choice = ui.choice
  BY <1>0 DEF Ui, EvidenceKey, SubmitPane
<1> QED
  BY <1>0, <1>1, <1>2, <1>3 DEF Running

LEMMA TopEffect ==
    ASSUME TypeOK, Top
    PROVE  /\ UNCHANGED <<cmd, ask>> /\ (Watching <=> Watching') /\ watch'.no = watch.no
           /\ \/ ui.choice = NoQuestion /\ slot # NoQuestion
                 /\ ui'.choice = slot /\ slot' = NoQuestion
              \/ ui'.choice = ui.choice /\ slot' = slot
<1>1. (Watching <=> Polled(watch).state = "running") /\ Polled(watch).no = watch.no
  BY DEF Polled, Watching, TypeOK, Watch
<1>2. UNCHANGED <<cmd, ask>> /\ (Watching <=> Watching') /\ watch'.no = watch.no
  BY <1>1 DEF Top, Watching
<1>3. \/ ui.choice = NoQuestion /\ slot # NoQuestion /\ ui'.choice = slot /\ slot' = NoQuestion
      \/ ui'.choice = ui.choice /\ slot' = slot
  <2>1. [ui EXCEPT !.choice = slot, !.list = FALSE].choice = slot
    BY SameChoice DEF TypeOK
  <2> QED
    BY <2>1 DEF Top, PollAsk
<1> QED
  BY <1>2, <1>3

LEMMA AnswerEffect ==
    ASSUME TypeOK, SlotInv, AnswerKey
    PROVE  /\ UNCHANGED <<cmd, watch, slot>> /\ ui.choice # NoQuestion /\ ui'.choice = NoQuestion
           /\ \/ Live(ui.choice) /\ ui.choice.by \in Askers
                 /\ ask' = [ask EXCEPT ![ui.choice.by] = "replied"]
              \/ ~Live(ui.choice) /\ ask' = ask
<1>1. ui'.choice = NoQuestion
  BY SameChoice, QuestionShapes DEF TypeOK, AnswerKey
<1>2. ui.choice # NoQuestion => ui.choice.by \in Askers
  BY DEF SlotInv
<1> QED
  BY <1>1, <1>2 DEF AnswerKey, Asking

LEMMA SlotStep ==
    ASSUME TypeOK, QuestionInv, SlotInv, Next
    PROVE  SlotInv'
<1>0. /\ Askers = {"pane", "watch"} /\ NoQuestion \in Question
      /\ watch.no \in Nat /\ ask \in Asks /\ slot \in Question /\ ui.choice \in Question
  BY QuestionShapes DEF TypeOK, Askers, Watch, Ui
<1>1. ASSUME SameSlot PROVE SlotInv'
  BY <1>1, SlotKept
<1>2. ASSUME NEW a \in Askers, Ask(a) \/ Retry(a) \/ TakeAnswer(a) PROVE SlotInv'
  <2>1. CASE TakeAnswer(a)
    BY <1>0, <2>1, TakeEffect DEF SlotInv, Alive, Pending, QuestionOf, Running, Watching
  <2>2. CASE Ask(a) \/ Retry(a)
    <3>1. ui.choice # QuestionOf(a)
      BY <1>0, <2>2, AskEffect, QuestionFields
      DEF QuestionInv, PaneQuestionLive, Live, SlotInv, Alive
    <3>2. CASE slot' = slot /\ ask[a] = "none" /\ ask'[a] = "wait"
      BY <1>0, <2>2, <3>2, AskEffect DEF SlotInv, Alive, Pending, QuestionOf, Running, Watching
    <3>3. CASE slot = NoQuestion /\ slot' = QuestionOf(a) /\ ask'[a] = "open"
      BY <1>0, <2>2, <3>1, <3>3, AskEffect, QuestionFields
      DEF SlotInv, Alive, Pending, QuestionOf, Running, Watching
    <3> QED
      BY <2>2, <3>2, <3>3, AskEffect
  <2> QED
    BY <1>2, <2>1, <2>2
<1>3. CASE PaneEnds \/ SignalExit \/ CancelInList \/ CancelKey
  BY <1>0, <1>3, FinishEffect DEF SlotInv, Alive, Pending, QuestionOf, NoQuestion, Running, Watching
<1>4. CASE WatchEnds \/ StopKey \/ SubmitWatchStop
  BY <1>0, <1>4, EndEffect DEF SlotInv, Alive, Pending, QuestionOf, NoQuestion, Running, Watching
<1>5. CASE StartFromWizard \/ SubmitWatchOpen \/ SubmitMonitor
  <2>1. CASE /\ ui'.choice = ui.choice /\ slot' = slot /\ cmd' = cmd /\ ask' = ask
             /\ ~Watching /\ Watching' /\ watch'.no = watch.no + 1
    <3>1. \A q \in {ui.choice, slot} : q.by = "watch" => q.no < watch'.no
      BY <1>0, <2>1 DEF SlotInv, Question
    <3>2. ask["watch"] = "none" /\ (ask["pane"] # "none" => Running)
      BY <1>0, <2>1 DEF SlotInv, Alive
    <3>3. ask["pane"] = "open" => Pending(QuestionOf("pane"))'
      BY <1>0, <2>1 DEF SlotInv, Pending, QuestionOf
    <3>4. \A a \in Askers : /\ ask'[a] # "none" => Alive(a)'
                            /\ ask'[a] = "open" => Pending(QuestionOf(a))'
      BY <1>0, <2>1, <3>2, <3>3 DEF Alive, Running
    <3>5. \A q \in {ui.choice, slot} : q.by = "watch" => q.no <= watch'.no /\ q.no # watch'.no
      BY <1>0, <2>1, <3>1 DEF Question
    <3> QED
      BY <2>1, <3>4, <3>5 DEF SlotInv
  <2> QED
    BY <1>1, <1>5, <2>1, BeginEffect
<1>6. CASE EvidenceKey \/ SubmitPane
  BY <1>0, <1>6, StartEffect DEF SlotInv, Alive, Pending, QuestionOf, Running, Watching
<1>7. CASE Top
  BY <1>0, <1>7, TopEffect DEF SlotInv, Alive, Pending, QuestionOf, Running, Watching
<1>8. CASE AnswerKey
  <2>1. CASE ~Live(ui.choice) /\ ask' = ask
    <3>1. \A a \in Askers : ask[a] = "open" => ui.choice # QuestionOf(a)
      BY <1>0, <2>1, <1>8, AnswerEffect, QuestionFields DEF SlotInv, Live, Alive
    <3> QED
      BY <1>0, <1>8, <2>1, <3>1, AnswerEffect
      DEF SlotInv, Alive, Pending, QuestionOf, NoQuestion, Running, Watching
  <2>2. CASE /\ Live(ui.choice) /\ ui.choice.by \in Askers
             /\ ask' = [ask EXCEPT ![ui.choice.by] = "replied"]
    <3>1. slot # QuestionOf(ui.choice.by) /\ Alive(ui.choice.by)
      BY <2>2, QuestionFields DEF Live, SlotInv, Alive
    <3>2. /\ UNCHANGED <<cmd, watch, slot>> /\ ui.choice # NoQuestion
          /\ ui'.choice = NoQuestion
      BY <1>8, AnswerEffect
    <3>3. \A a \in Askers : IF a = ui.choice.by THEN ask'[a] = "replied" ELSE ask'[a] = ask[a]
      BY <1>0, <2>2 DEF Asks
    <3>4. \A a \in Askers : /\ Alive(a)' <=> Alive(a)
                            /\ QuestionOf(a)' = QuestionOf(a)
      BY <3>2 DEF Alive, QuestionOf, Running, Watching
    <3>5. ASSUME NEW a \in Askers
          PROVE  /\ ask'[a] # "none" => Alive(a)'
                 /\ ask'[a] = "open" => Pending(QuestionOf(a))'
      <4>1. CASE a = ui.choice.by
        BY <3>1, <3>3, <3>4, <4>1
      <4>2. CASE a # ui.choice.by
        <5>1. ui.choice # QuestionOf(a)
          BY <4>2, QuestionFields
        <5> QED
          BY <3>2, <3>3, <3>4, <4>2, <5>1, QuestionFields DEF SlotInv, Pending
      <4> QED
        BY <4>1, <4>2
    <3>6. slot.by = "watch" /\ slot.no = watch.no /\ Watching =>
             ask'["watch"] = "open"
      <4>1. slot.by = "watch" /\ slot.no = watch.no => slot = QuestionOf("watch")
        BY <1>0, QuestionFields, EqualQuestions, QuestionShapes DEF TypeOK
      <4> QED
        BY <1>0, <3>1, <3>3, <4>1 DEF SlotInv
    <3> QED
      BY <1>0, <3>2, <3>5, <3>6 DEF SlotInv, NoQuestion, Watching
  <2> QED
    BY <1>8, <2>1, <2>2, AnswerEffect
<1> QED
  BY <1>1, <1>2, <1>3, <1>4, <1>5, <1>6, <1>7, <1>8, QuietSteps DEF Next, Futures, Keys, Lines

-----------------------------------------------------------------------------
(* The steps of the slot, from what happens to each asker and its          *)
(* question.                                                               *)
LEMMA SlotMove ==
    ASSUME NEW a \in Askers, NEW from, NEW to, Alive(a), StageOf(a) \in from, StageOf(a)' = to,
           \A b \in Askers : /\ Alive(b)' <=> Alive(b)
                             /\ b # a => StageOf(b)' = StageOf(b)
    PROVE  Slot!Move(a, from, to)
<1>1. [b \in Askers |-> Alive(b)]' = [b \in Askers |-> Alive(b)]
  BY DEF Alive, Running, Watching
<1>2. [b \in Askers |-> StageOf(b)]' = [[b \in Askers |-> StageOf(b)] EXCEPT ![a] = to]
  OBVIOUS
<1> QED
  BY <1>1, <1>2 DEF Slot!Move

LEMMA SlotStay ==
    ASSUME \A b \in Askers : (Alive(b)' <=> Alive(b)) /\ StageOf(b)' = StageOf(b)
    PROVE  UNCHANGED Slot!slotVars
<1>1. [b \in Askers |-> Alive(b)]' = [b \in Askers |-> Alive(b)]
  BY DEF Alive, Running, Watching
<1>2. [b \in Askers |-> StageOf(b)]' = [b \in Askers |-> StageOf(b)]
  OBVIOUS
<1> QED
  BY <1>1, <1>2 DEF Slot!slotVars

LEMMA SlotStart ==
    ASSUME NEW a \in Askers, ~Alive(a), Alive(a)', StageOf(a) = "none",
           \A b \in Askers : /\ b # a => (Alive(b)' <=> Alive(b))
                             /\ StageOf(b)' = StageOf(b)
    PROVE  Slot!Start(a)
<1>1. [b \in Askers |-> Alive(b)]' = [[b \in Askers |-> Alive(b)] EXCEPT ![a] = TRUE]
  BY DEF Alive, Running, Watching
<1>2. [b \in Askers |-> StageOf(b)]' = [b \in Askers |-> StageOf(b)]
  OBVIOUS
<1> QED
  BY <1>1, <1>2 DEF Slot!Start

LEMMA SlotEnd ==
    ASSUME NEW a \in Askers, Alive(a), ~Alive(a)', StageOf(a)' = "none",
           \A b \in Askers \ {a} : (Alive(b)' <=> Alive(b)) /\ StageOf(b)' = StageOf(b)
    PROVE  Slot!End(a)
<1>1. [b \in Askers |-> Alive(b)]' = [[b \in Askers |-> Alive(b)] EXCEPT ![a] = FALSE]
  BY DEF Alive, Running, Watching
<1>2. [b \in Askers |-> StageOf(b)]' = [[b \in Askers |-> StageOf(b)] EXCEPT ![a] = "none"]
  OBVIOUS
<1> QED
  BY <1>1, <1>2 DEF Slot!End

LEMMA SlotDropAll ==
    ASSUME ~Alive("pane")', Alive("watch")' <=> Alive("watch"), StageOf("pane")' = "none",
           StageOf("watch")' = IF StageOf("watch") \in {"slot", "shown"} THEN "dropped"
                               ELSE StageOf("watch")
    PROVE  Slot!DropAll
<1>1. [b \in Askers |-> Alive(b)]' = [[b \in Askers |-> Alive(b)] EXCEPT !["pane"] = FALSE]
  BY DEF Askers, Alive, Running, Watching
<1>2. [b \in Askers |-> StageOf(b)]' =
         [b \in Askers |->
             IF b = "pane" THEN "none"
             ELSE IF [c \in Askers |-> StageOf(c)][b] \in {"slot", "shown"} THEN "dropped"
             ELSE [c \in Askers |-> StageOf(c)][b]]
  BY DEF Askers
<1> QED
  BY <1>1, <1>2 DEF Slot!DropAll

(* Where a question is, read off the state.                                *)
LEMMA StageFacts ==
    ASSUME SlotInv, NEW a \in Askers
    PROVE  /\ ask[a] # "open" => StageOf(a) = ask[a]
           /\ ask[a] = "open" /\ ui.choice = QuestionOf(a) => StageOf(a) = "shown"
           /\ ask[a] = "open" /\ ui.choice # QuestionOf(a) =>
                 StageOf(a) = "slot" /\ slot = QuestionOf(a)
  BY DEF StageOf, SlotInv, Pending

LEMMA SlotRefined ==
    ASSUME TypeOK, QuestionInv, SlotInv, Next
    PROVE  Slot!SlotNext \/ UNCHANGED Slot!slotVars
<1>0. /\ Askers = {"pane", "watch"} /\ ask \in Asks
      /\ \A a \in Askers : Alive(a) <=> IF a = "pane" THEN Running ELSE Watching
      /\ \A a \in Askers : Alive(a)' <=> IF a = "pane" THEN Running' ELSE Watching'
  BY DEF TypeOK, Askers, Alive
<1>s. SlotInv'
  BY SlotStep
<1>f. \A a \in Askers :
         /\ ask[a] # "open" => StageOf(a) = ask[a]
         /\ ask[a] = "open" /\ ui.choice = QuestionOf(a) => StageOf(a) = "shown"
         /\ ask[a] = "open" /\ ui.choice # QuestionOf(a) =>
               StageOf(a) = "slot" /\ slot = QuestionOf(a)
  BY StageFacts
<1>g. \A a \in Askers :
         /\ ask'[a] # "open" => StageOf(a)' = ask'[a]
         /\ ask'[a] = "open" /\ ui'.choice = QuestionOf(a)' => StageOf(a)' = "shown"
         /\ ask'[a] = "open" /\ ui'.choice # QuestionOf(a)' => StageOf(a)' = "slot"
  BY <1>s DEF SlotInv, Pending, StageOf
<1>1. CASE SameSlot
  BY <1>0, <1>1, SlotStay DEF SameSlot, StageOf, QuestionOf, Alive, Running, Watching
<1>2. ASSUME NEW a \in Askers, Ask(a) \/ Retry(a)
      PROVE  Slot!Put(a) \/ Slot!Queue(a)
  <2>1. UNCHANGED <<cmd, watch, ui>> /\ Alive(a) /\ ask[a] \in {"none", "wait"}
        /\ \A b \in Askers : b # a => ask'[b] = ask[b]
    BY <1>2, AskEffect
  <2>2. \A b \in Askers : (Alive(b)' <=> Alive(b)) /\ QuestionOf(b)' = QuestionOf(b)
    BY <2>1 DEF Alive, QuestionOf, Running, Watching
  <2>3. CASE ask[a] = "none" /\ slot' = slot /\ ask'[a] = "wait"
    <3>1. StageOf(a) = "none" /\ StageOf(a)' = "wait"
      BY <2>3, <1>f, <1>g
    <3>2. \A b \in Askers : b # a => StageOf(b)' = StageOf(b)
      BY <2>1, <2>2, <2>3 DEF StageOf
    <3> QED
      BY <2>1, <2>2, <3>1, <3>2, SlotMove DEF Slot!Queue
  <2>4. CASE slot = NoQuestion /\ slot' = QuestionOf(a) /\ ask'[a] = "open"
    <3>1. \A b \in Askers : StageOf(b) # "slot"
      BY <1>0, <1>f, <2>4, QuestionFields DEF Asks
    <3>2. ui.choice # QuestionOf(a)
      BY <1>0, <2>1, QuestionFields DEF QuestionInv, PaneQuestionLive, Live, SlotInv, Alive
    <3>3. StageOf(a) \in {"none", "wait"} /\ StageOf(a)' = "slot"
      BY <1>f, <1>g, <2>1, <2>2, <2>4, <3>2
    <3>4. \A b \in Askers : b # a => StageOf(b)' = StageOf(b)
      BY <1>f, <1>g, <2>1, <2>2, <3>1 DEF StageOf
    <3>5. Slot!Move(a, {"none", "wait"}, "slot")
      BY <2>1, <2>2, <3>3, <3>4, SlotMove
    <3> QED
      BY <3>1, <3>5 DEF Slot!Put
  <2> QED
    BY <1>2, <2>3, <2>4, AskEffect
<1>3. ASSUME NEW a \in Askers, TakeAnswer(a)
      PROVE  Slot!Learn(a)
  <2>1. UNCHANGED <<cmd, watch, ui, slot>> /\ Alive(a) /\ ask[a] \in {"replied", "dropped"}
        /\ (\A b \in Askers : b # a => ask'[b] = ask[b]) /\ ask'[a] = "none"
    BY <1>3, TakeEffect
  <2>2. \A b \in Askers : (Alive(b)' <=> Alive(b)) /\ (b # a => StageOf(b)' = StageOf(b))
    BY <2>1 DEF Alive, QuestionOf, Running, Watching, StageOf
  <2>3. StageOf(a) \in {"replied", "dropped"} /\ StageOf(a)' = "none"
    BY <1>f, <1>g, <2>1
  <2> QED
    BY <2>1, <2>2, <2>3, SlotMove DEF Slot!Learn
<1>4. CASE PaneEnds \/ SignalExit \/ CancelInList \/ CancelKey
  <2>1. /\ ui'.choice = NoQuestion /\ slot' = NoQuestion /\ watch' = watch /\ ~Running'
        /\ ask'["pane"] = "none"
        /\ ask'["watch"] = IF ask["watch"] = "open" THEN "dropped" ELSE ask["watch"]
    BY <1>4, FinishEffect
  <2>2. ~Alive("pane")' /\ (Alive("watch")' <=> Alive("watch"))
    BY <1>0, <2>1 DEF Watching
  <2>3. StageOf("pane")' = "none"
    BY <1>0, <1>g, <2>1
  <2>4. StageOf("watch")' = IF StageOf("watch") \in {"slot", "shown"} THEN "dropped"
                            ELSE StageOf("watch")
    BY <1>0, <1>f, <1>g, <2>1 DEF Asks
  <2> QED
    BY <2>2, <2>3, <2>4, SlotDropAll DEF Slot!SlotNext
<1>5. CASE WatchEnds \/ StopKey \/ SubmitWatchStop
  <2>1. /\ cmd' = cmd /\ Watching /\ ~Watching'
        /\ ask'["pane"] = ask["pane"] /\ ask'["watch"] = "none"
        /\ \/ ~Running /\ ui'.choice = NoQuestion /\ slot' = NoQuestion
           \/ ui' = ui /\ slot' = slot
    BY <1>5, EndEffect
  <2>2. StageOf("pane")' = StageOf("pane")
    <3>1. CASE ~Running
      BY <1>0, <1>f, <1>g, <2>1, <3>1 DEF SlotInv
    <3>2. CASE ui' = ui /\ slot' = slot
      BY <2>1, <3>2 DEF StageOf, QuestionOf
    <3> QED
      BY <2>1, <3>1, <3>2
  <2>3. StageOf("watch")' = "none" /\ Alive("watch") /\ ~Alive("watch")'
        /\ (Alive("pane")' <=> Alive("pane"))
    BY <1>0, <1>g, <2>1 DEF Running
  <2>4. Slot!End("watch")
    BY <1>0, <2>2, <2>3, SlotEnd
  <2> QED
    BY <1>0, <2>4 DEF Slot!SlotNext
<1>6. CASE StartFromWizard \/ SubmitWatchOpen \/ SubmitMonitor
  <2>1. CASE /\ ui'.choice = ui.choice /\ slot' = slot /\ cmd' = cmd /\ ask' = ask
             /\ ~Watching /\ Watching' /\ watch'.no = watch.no + 1
    <3>1. ask["watch"] = "none"
      BY <1>0, <2>1 DEF SlotInv
    <3>2. StageOf("watch") = "none" /\ StageOf("watch")' = "none"
      BY <1>0, <1>f, <1>g, <2>1, <3>1
    <3>3. StageOf("pane")' = StageOf("pane")
      BY <2>1 DEF StageOf, QuestionOf
    <3>4. ~Alive("watch") /\ Alive("watch")' /\ (Alive("pane")' <=> Alive("pane"))
      BY <1>0, <2>1 DEF Running
    <3>5. Slot!Start("watch")
      BY <1>0, <3>2, <3>3, <3>4, SlotStart
    <3> QED
      BY <1>0, <3>5 DEF Slot!SlotNext
  <2> QED
    BY <1>1, <1>6, <2>1, BeginEffect
<1>7. CASE EvidenceKey \/ SubmitPane
  <2>1. ~Running /\ Running' /\ UNCHANGED <<watch, ask, slot>> /\ ui'.choice = ui.choice
    BY <1>7, StartEffect
  <2>2. StageOf("pane") = "none" /\ StageOf("pane")' = "none"
    BY <1>0, <1>f, <1>g, <2>1 DEF SlotInv
  <2>3. StageOf("watch")' = StageOf("watch")
    BY <2>1 DEF StageOf, QuestionOf
  <2>4. ~Alive("pane") /\ Alive("pane")' /\ (Alive("watch")' <=> Alive("watch"))
    BY <1>0, <2>1 DEF Watching
  <2>5. Slot!Start("pane")
    BY <1>0, <2>2, <2>3, <2>4, SlotStart
  <2> QED
    BY <1>0, <2>5 DEF Slot!SlotNext
<1>8. CASE Top
  <2>1. UNCHANGED <<cmd, ask>> /\ (Watching <=> Watching') /\ watch'.no = watch.no
    BY <1>8, TopEffect
  <2>2. \A b \in Askers : (Alive(b)' <=> Alive(b)) /\ QuestionOf(b)' = QuestionOf(b)
    BY <2>1 DEF Alive, QuestionOf, Running
  <2>3. CASE ui'.choice = ui.choice /\ slot' = slot
    BY <2>1, <2>2, <2>3, SlotStay DEF StageOf
  <2>4. CASE ui.choice = NoQuestion /\ ui'.choice = slot /\ slot' = NoQuestion
    <3>1. \A b \in Askers : StageOf(b) # "shown"
      BY <1>0, <1>f, <2>4, QuestionFields DEF Asks
    <3>2. \A b \in Askers : ask[b] = "open" =>
             StageOf(b) = "slot" /\ StageOf(b)' = "shown" /\ slot = QuestionOf(b)
      BY <1>f, <1>g, <2>1, <2>2, <2>4, QuestionFields
    <3>3. \A b \in Askers : ask[b] # "open" => StageOf(b)' = StageOf(b)
      BY <1>f, <1>g, <2>1
    <3>4. CASE \E a \in Askers : ask[a] = "open"
      <4>1. PICK a \in Askers : ask[a] = "open"
        BY <3>4
      <4>2. \A b \in Askers : b # a => ask[b] # "open"
        BY <3>2, <4>1, QuestionFields
      <4>3. Alive(a)
        BY <4>1 DEF SlotInv
      <4>4. Slot!Move(a, {"slot"}, "shown")
        BY <2>2, <3>2, <3>3, <4>1, <4>2, <4>3, SlotMove
      <4> QED
        BY <3>1, <4>4 DEF Slot!Show, Slot!SlotNext
    <3>5. CASE \A a \in Askers : ask[a] # "open"
      BY <2>2, <3>3, <3>5, SlotStay
    <3> QED
      BY <3>4, <3>5
  <2> QED
    BY <1>8, <2>3, <2>4, TopEffect
<1>9. CASE AnswerKey
  <2>1. UNCHANGED <<cmd, watch, slot>> /\ ui.choice # NoQuestion /\ ui'.choice = NoQuestion
    BY <1>9, AnswerEffect
  <2>2. \A b \in Askers : (Alive(b)' <=> Alive(b)) /\ QuestionOf(b)' = QuestionOf(b)
    BY <2>1 DEF Alive, QuestionOf, Running, Watching
  <2>3. CASE ~Live(ui.choice) /\ ask' = ask
    <3>1. \A a \in Askers : ask[a] = "open" => ui.choice # QuestionOf(a)
      BY <1>0, <2>3, <2>1, QuestionFields DEF SlotInv, Live
    <3>2. \A a \in Askers : StageOf(a)' = StageOf(a)
      BY <1>f, <1>g, <2>1, <2>2, <2>3, <3>1, QuestionFields
    <3> QED
      BY <2>2, <3>2, SlotStay
  <2>4. CASE /\ Live(ui.choice) /\ ui.choice.by \in Askers
             /\ ask' = [ask EXCEPT ![ui.choice.by] = "replied"]
    <3>0. PICK a \in Askers : a = ui.choice.by
      BY <2>4
    <3>1. ask[a] = "open" /\ ui.choice = QuestionOf(a) /\ Alive(a)
      BY <1>0, <2>4, <3>0 DEF Live, SlotInv
    <3>2. ask'[a] = "replied" /\ \A b \in Askers : b # a => ask'[b] = ask[b]
      BY <1>0, <2>4, <3>0 DEF Asks
    <3>3. StageOf(a) = "shown" /\ StageOf(a)' = "replied"
      BY <1>f, <1>g, <3>1, <3>2
    <3>4. \A b \in Askers : b # a => StageOf(b)' = StageOf(b)
      BY <1>f, <1>g, <2>1, <2>2, <3>1, <3>2, QuestionFields
    <3>5. Slot!Reply(a)
      BY <2>2, <3>1, <3>3, <3>4, SlotMove DEF Slot!Reply
    <3> QED
      BY <3>5 DEF Slot!SlotNext
  <2> QED
    BY <1>9, <2>3, <2>4, AnswerEffect
<1>10. ASSUME NEW a \in Askers, Ask(a) \/ Retry(a) \/ TakeAnswer(a)
       PROVE  Slot!SlotNext
  BY <1>2, <1>3, <1>10 DEF Slot!SlotNext
<1> QED
  BY <1>1, <1>10, <1>4, <1>5, <1>6, <1>7, <1>8, <1>9, QuietSteps DEF Next, Futures, Keys, Lines

LEMMA SlotInvInit == Init => SlotInv
  BY DEF Init, SlotInv, NoQuestion

LEMMA SlotInvariant == Spec => []SlotInv
<1>1. LoopInv /\ SlotInv /\ [Next]_vars => SlotInv'
  <2>1. ASSUME SlotInv, UNCHANGED vars PROVE SlotInv'
    BY <2>1 DEF vars, SlotInv, Alive, Pending, QuestionOf, Running, Watching
  <2> QED
    BY <2>1, SlotStep DEF LoopInv
<1> QED
  BY <1>1, SlotInvInit, LoopInvariant, PTL DEF Spec

(* The loop implements QuestionSlot: a question that the pane command or   *)
(* the run asks reaches the screen, one at a time, and its asker gets the  *)
(* answer to it, or learns that it was dropped, or is gone.                *)
THEOREM LoopImplementsSlot == Spec => ImplementsSlot
<1>1. Init => Slot!SlotInit
  BY DEF Init, Slot!SlotInit, StageOf, Alive, Running, Watching, Askers
<1>2. LoopInv /\ SlotInv /\ [Next]_vars => [Slot!SlotNext]_(Slot!slotVars)
  <2>1. ASSUME UNCHANGED vars PROVE UNCHANGED Slot!slotVars
    BY <2>1, SlotStay DEF vars, StageOf, QuestionOf, Alive, Running, Watching
  <2> QED
    BY <2>1, SlotRefined DEF LoopInv, QuestionInv
<1> QED
  BY <1>1, <1>2, LoopInvariant, SlotInvariant, PTL DEF Spec, ImplementsSlot, Slot!SlotSpec
=============================================================================
