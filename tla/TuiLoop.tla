------------------------------- MODULE TuiLoop ------------------------------
(***************************************************************************)
(* The event loop of `scope tui` (crates/scope-cli/src/cli/tui/mod.rs) and *)
(* the state it drives (tui/app.rs).                                       *)
(*                                                                         *)
(* One task polls everything: one pane command, one watchlist run beside   *)
(* it, the 100 ms live tick, the signals and the keys.  `pc` is where that *)
(* task is: at the top of a pass (it applies the run's messages and opens  *)
(* the question in the ask slot), in the select, outside the TUI with a    *)
(* suspend-mode command, or gone.  While it is in the select the two       *)
(* futures make progress of their own: they ask, they record runs, they    *)
(* send ticks.                                                             *)
(*                                                                         *)
(* Abstracted: what a line or a command says (a submitted line is the      *)
(* number of the line; a blank one does nothing), the text of the screen,  *)
(* editing keys, a terminal too small to draw on, Ctrl-Z and the signals   *)
(* of job control.  A run is taken to have a report path.                  *)
(***************************************************************************)
EXTENDS Naturals, Sequences, FiniteSets

CONSTANTS
    MaxLines,       \* bound of the model: lines the user submits
    MaxWatches,     \* bound: watchlist runs the user starts
    MaxTicks,       \* bound: ticks of one watchlist run
    MaxGen          \* bound: times `setup` saves new settings

ASSUME BoundsAssumption ==
    MaxLines \in Nat /\ MaxWatches \in Nat /\ MaxTicks \in Nat /\ MaxGen \in Nat

VARIABLES
    pc,         \* where the task of the loop is
    cmd,        \* the pane command (`pending`, TuiState::running)
    watch,      \* the watchlist run and its grid (`watch_pending`, GridState)
    ui,         \* what floats over the shell, and which screen takes the keys
    ask,        \* for each asker, how far its question is (TuiPicker::ask)
    slot,       \* the question in the ask slot (TuiState::asker)
    line,       \* history: the number of lines submitted
    ran,        \* history: the lines that started a command
    log,        \* the journal, tui-events.jsonl
    scroll,     \* history: the commands and runs whose output the
                \* scrollback got
    gen,        \* the generation of the settings the loop holds
    sink,       \* where library warnings go (diag::SINK)
    exit        \* how the TUI ended

vars == <<pc, cmd, watch, ui, ask, slot, line, ran, log, scroll, gen, sink, exit>>

Askers == {"pane", "watch"}

(* A question: who asked it, as the number of its command or of its run.   *)
NoQuestion == [by |-> "nobody", no |-> 0]

NoCommand == [no |-> 0, every |-> FALSE, ran |-> FALSE]

NoWatch == [no |-> 0, state |-> "none", prepared |-> FALSE, sent |-> 0,
            applied |-> 0, report |-> 0, gen |-> 0, stale |-> FALSE]

Running  == cmd.no # 0
Watching == watch.state = "running"

QuestionOf(a) == [by |-> a, no |-> IF a = "pane" THEN cmd.no ELSE watch.no]

(* Somebody awaits the answer to q: its command or run goes on, and this   *)
(* is the question it asked last.                                          *)
Live(q) ==
    /\ q # NoQuestion
    /\ q = QuestionOf(q.by) /\ ask[q.by] = "open"
    /\ IF q.by = "pane" THEN Running ELSE Watching

Pending(q) == q # NoQuestion /\ (ui.choice = q \/ slot = q)

Entry(l, outcome) == [line |-> l, outcome |-> outcome]
Shown(what, no) == [what |-> what, no |-> no]

-----------------------------------------------------------------------------
(* TuiState::finish.  The pane command is gone; the open question and the  *)
(* one in the slot go with it, whoever asked them.  A dropped question     *)
(* reaches its asker as a closed channel.  The journal gets the command's  *)
(* record, then `after`.                                                   *)
FinishUiKeepsChoice(u) == [u EXCEPT !.view = IF cmd.ran THEN cmd.no ELSE @]
FinishLogSkipsCancel(outcome) ==
    IF Running /\ outcome # "cancelled" THEN Append(log, Entry(cmd.no, outcome)) ELSE log

FinishUi(u) == [u EXCEPT !.choice = NoQuestion,
                         !.view = IF cmd.ran THEN cmd.no ELSE @]

FinishLog(outcome) == IF Running THEN Append(log, Entry(cmd.no, outcome)) ELSE log

ClearCommand == cmd' = NoCommand

Finish(u, outcome, after) ==
    /\ slot' = NoQuestion
    /\ ask' = [a \in Askers |->
                  IF a = "pane" /\ Running THEN "none"
                  ELSE IF Live(QuestionOf(a)) /\ Pending(QuestionOf(a)) THEN "dropped"
                  ELSE ask[a]]
    /\ ui' = FinishUi(u)
    /\ log' = FinishLog(outcome) \o after
    /\ scroll' = IF Running /\ ~cmd.ran
                 THEN Append(scroll, Shown("command", cmd.no)) ELSE scroll
    /\ ClearCommand

(* TuiState::poll_watch: the grid takes every message the run sent.        *)
Polled(w) == IF w.state = "running" THEN [w EXCEPT !.applied = w.sent] ELSE w

(* Variant: the end of a run leaves its question.                          *)
KeepWatchQuestion == ask' = [ask EXCEPT !["watch"] = "none"] /\ UNCHANGED <<slot, ui>>

(* TuiState::drop_watch_question, when the run is over: the question goes  *)
(* only while no pane command runs, for it may be that command's.          *)
DropWatchQuestion ==
    /\ ask' = [ask EXCEPT !["watch"] = "none"]
    /\ IF Running
       THEN UNCHANGED <<slot, ui>>
       ELSE slot' = NoQuestion /\ ui' = [ui EXCEPT !.choice = NoQuestion]

(* TuiState::stop_watch: the last messages, the report from the last tick  *)
(* the grid has, and the end.                                              *)
StoppedUnpolled(w) == [w EXCEPT !.state = "stopped", !.report = w.applied]
Stopped(w) == LET p == Polled(w) IN [p EXCEPT !.state = "stopped", !.report = p.applied]

(* TuiState::close_grid: the scrollback gets the last snapshot of an ended *)
(* run, once.                                                              *)
HasGrid == watch.state # "none"
WithGrid(s) == IF HasGrid THEN Append(s, Shown("run", watch.no)) ELSE s

(* begin_watch and TuiState::start_watch, with the screen u and the        *)
(* scrollback s: refused while a run goes on; an ended grid makes room.    *)
BeginWatch(u, s) ==
    IF Watching
    THEN ui' = u /\ scroll' = s /\ UNCHANGED <<watch, ask>>
    ELSE /\ watch.no < MaxWatches
         /\ watch' = [NoWatch EXCEPT !.no = watch.no + 1, !.state = "running", !.gen = gen]
         /\ ask' = [ask EXCEPT !["watch"] = "none"]
         /\ ui' = [u EXCEPT !.shown = TRUE]
         /\ scroll' = WithGrid(s)

(* The loop returns: its guard of the idle redirect is dropped first, the  *)
(* guard of a command that still runs after it, and each puts back the     *)
(* sink it found.                                                          *)
Leave(how) ==
    /\ pc' = "left" /\ exit' = how
    /\ sink' = IF Running THEN "idle" ELSE "stderr"
    /\ UNCHANGED <<cmd, watch, ask, slot, ran, gen>>

-----------------------------------------------------------------------------
(* The loop and its two futures.                                           *)

(* session and the start of event_loop.  `scope monitor` starts the TUI    *)
(* with the wizard open or, with --yes, with a run.                        *)
Init ==
    /\ pc = "top" /\ cmd = NoCommand
    /\ \E start \in {"shell", "wizard", "run"} :
          /\ start = "run" => MaxWatches > 0
          /\ watch = IF start = "run"
                     THEN [NoWatch EXCEPT !.no = 1, !.state = "running"] ELSE NoWatch
          /\ ui = [choice |-> NoQuestion, list |-> FALSE, wizard |-> start = "wizard",
                   shown |-> start = "run", view |-> 0]
    /\ ask = [a \in Askers |-> "none"] /\ slot = NoQuestion
    /\ line = 0 /\ ran = <<>> /\ log = <<>> /\ scroll = <<>>
    /\ gen = 0 /\ sink = "idle" /\ exit = "none"

(* TuiState::poll_ask: a question opens when none is open; the list it     *)
(* covers goes.                                                            *)
PollAsk ==
    IF ui.choice = NoQuestion /\ slot # NoQuestion
    THEN ui' = [ui EXCEPT !.choice = slot, !.list = FALSE] /\ slot' = NoQuestion
    ELSE UNCHANGED <<ui, slot>>

Top ==
    /\ pc = "top" /\ pc' = "select"
    /\ watch' = Polled(watch)
    /\ PollAsk
    /\ UNCHANGED <<cmd, ask, line, ran, log, scroll, gen, sink, exit>>

Select == pc = "select"

(* What goes on inside a poll of the select leaves the loop there.         *)
Inside == pc' = pc /\ UNCHANGED <<line, ran, log, scroll, gen, sink, exit>>

Alive(a) == IF a = "pane" THEN Running ELSE Watching

(* TuiPicker::ask, as far as its first look at the slot.                   *)
Ask(a) ==
    /\ Select /\ Alive(a) /\ ask[a] = "none"
    /\ IF slot = NoQuestion
       THEN slot' = QuestionOf(a) /\ ask' = [ask EXCEPT ![a] = "open"]
       ELSE slot' = slot /\ ask' = [ask EXCEPT ![a] = "wait"]
    /\ Inside /\ UNCHANGED <<cmd, watch, ui>>

(* Variant: it does not look whether the slot is free.                     *)
RetryAnyway(a) ==
    /\ Select /\ Alive(a) /\ ask[a] = "wait"
    /\ slot' = QuestionOf(a) /\ ask' = [ask EXCEPT ![a] = "open"]
    /\ Inside /\ UNCHANGED <<cmd, watch, ui>>

(* TuiPicker::ask, woken from its pause with the slot free.                *)
Retry(a) ==
    /\ Select /\ Alive(a) /\ ask[a] = "wait" /\ slot = NoQuestion
    /\ slot' = QuestionOf(a) /\ ask' = [ask EXCEPT ![a] = "open"]
    /\ Inside /\ UNCHANGED <<cmd, watch, ui>>

(* The asker gets its answer, or learns that its question is gone.         *)
TakeAnswer(a) ==
    /\ Select /\ Alive(a) /\ ask[a] \in {"replied", "dropped"}
    /\ ask' = [ask EXCEPT ![a] = "none"]
    /\ Inside /\ UNCHANGED <<cmd, watch, ui, slot>>

(* A command with --every records a run.                                   *)
PaneRepeats ==
    /\ Select /\ cmd.every /\ ~cmd.ran /\ ask["pane"] = "none"
    /\ cmd' = [cmd EXCEPT !.ran = TRUE]
    /\ Inside /\ UNCHANGED <<watch, ui, ask, slot>>

(* run_watch: prepare returns, which sends Ready.                          *)
WatchPrepared ==
    /\ Select /\ Watching /\ ~watch.prepared /\ ask["watch"] = "none"
    /\ watch' = [watch EXCEPT !.prepared = TRUE]
    /\ Inside /\ UNCHANGED <<cmd, ui, ask, slot>>

(* run_watch: a tick of watch::run.                                        *)
WatchTicks ==
    /\ Select /\ Watching /\ watch.prepared /\ ask["watch"] = "none"
    /\ watch.sent < MaxTicks
    /\ watch' = [watch EXCEPT !.sent = @ + 1]
    /\ Inside /\ UNCHANGED <<cmd, ui, ask, slot>>

(* The arms of the select that end a future.                               *)
PaneEnds ==
    /\ Select /\ Running /\ ask["pane"] = "none" /\ pc' = "top"
    /\ \E outcome \in {"ok", "error"} : Finish(ui, outcome, <<>>)
    /\ sink' = "idle"
    /\ UNCHANGED <<watch, line, ran, gen, exit>>

(* TuiState::watch_finished, for a run that reached its end (it wrote its  *)
(* report) and for one that failed, while it resolved targets or wrote.    *)
WatchEnds ==
    /\ Select /\ Watching /\ ask["watch"] = "none" /\ pc' = "top"
    /\ \/ /\ watch.prepared /\ watch.sent > 0
          /\ watch' = [Polled(watch) EXCEPT !.state = "done", !.report = watch.sent]
       \/ watch' = [Polled(watch) EXCEPT !.state = "failed"]
    /\ DropWatchQuestion
    /\ UNCHANGED <<cmd, line, ran, log, scroll, gen, sink, exit>>

(* The 100 ms tick, while something runs.                                  *)
TickingPane == Running
Ticking == Running \/ Watching

LiveTick ==
    /\ Select /\ Ticking /\ pc' = "top"
    /\ UNCHANGED <<cmd, watch, ui, ask, slot, line, ran, log, scroll, gen, sink, exit>>

(* INT, TERM, HUP or QUIT ends the session: the command is cancelled and   *)
(* the signal recorded; a run that goes on is only dropped.                *)
SignalExit ==
    /\ Select /\ Finish(ui, "cancelled", <<Entry(0, "signal")>>)
    /\ pc' = "left" /\ exit' = "signal" /\ sink' = "stderr"
    /\ UNCHANGED <<watch, line, ran, gen>>

(* The key stream ends or fails.                                           *)
InputEnds ==
    /\ Select /\ Leave("input")
    /\ UNCHANGED <<ui, line, log, scroll>>

-----------------------------------------------------------------------------
(* The keys: an open question takes them all, then the wizard, then        *)
(* Ctrl-G, then the grid, then the shell (TuiState::handle_key).           *)
Asking    == ui.choice # NoQuestion
InWizard  == Select /\ ~Asking /\ ui.wizard
InGrid    == Select /\ ~Asking /\ ~ui.wizard /\ ui.shown
InShellAnyway == Select /\ ~ui.wizard /\ ~ui.shown
InShell   == Select /\ ~Asking /\ ~ui.wizard /\ ~ui.shown

CancelCommand ==
    /\ pc' = "top" /\ Finish([ui EXCEPT !.list = FALSE], "cancelled", <<>>)
    /\ sink' = "idle"
    /\ UNCHANGED <<watch, line, ran, gen, exit>>

(* Enter or Esc in the list.  The asker may be gone: then nobody waits.    *)
AnswerKey ==
    /\ Select /\ Asking /\ pc' = "top"
    /\ ask' = IF Live(ui.choice) THEN [ask EXCEPT ![ui.choice.by] = "replied"] ELSE ask
    /\ ui' = [ui EXCEPT !.choice = NoQuestion]
    /\ UNCHANGED <<cmd, watch, slot, line, ran, log, scroll, gen, sink, exit>>

(* Ctrl-C in the list: it also drops the question of a run.                *)
CancelInList == Select /\ Asking /\ CancelCommand

ExitInWizard == InWizard /\ Leave("key") /\ UNCHANGED <<ui, line, log, scroll>>

LeaveWizard ==
    /\ InWizard /\ pc' = "top" /\ ui' = [ui EXCEPT !.wizard = FALSE]
    /\ UNCHANGED <<cmd, watch, ask, slot, line, ran, log, scroll, gen, sink, exit>>

StartFromWizard ==
    /\ InWizard /\ pc' = "top" /\ BeginWatch([ui EXCEPT !.wizard = FALSE], scroll)
    /\ UNCHANGED <<cmd, slot, line, ran, log, gen, sink, exit>>

ToggleGrid ==
    /\ InGrid \/ InShell
    /\ HasGrid /\ pc' = "top" /\ ui' = [ui EXCEPT !.shown = ~@]
    /\ UNCHANGED <<cmd, watch, ask, slot, line, ran, log, scroll, gen, sink, exit>>

ExitInGrid == InGrid /\ Leave("key") /\ UNCHANGED <<ui, line, log, scroll>>

StopKey ==
    /\ InGrid /\ Watching /\ pc' = "top"
    /\ watch' = Stopped(watch) /\ DropWatchQuestion
    /\ UNCHANGED <<cmd, line, ran, log, scroll, gen, sink, exit>>

CloseKey ==
    /\ InGrid /\ ~Watching /\ pc' = "top"
    /\ watch' = [NoWatch EXCEPT !.no = watch.no]
    /\ scroll' = WithGrid(scroll) /\ ui' = [ui EXCEPT !.shown = FALSE]
    /\ UNCHANGED <<cmd, ask, slot, line, ran, log, gen, sink, exit>>

(* A submitted line that starts a pane command: TuiState::start.           *)
StartPane(every) ==
    /\ cmd' = [no |-> line', every |-> every, ran |-> FALSE]
    /\ ran' = Append(ran, line') /\ sink' = "pane" /\ pc' = "top"
    /\ UNCHANGED <<watch, ask, slot, log, gen, exit>>

(* An evidence key runs its command in the shell.                          *)
EvidenceKey ==
    /\ InGrid /\ ~Running /\ watch.applied > 0
    /\ line < MaxLines /\ line' = line + 1
    /\ StartPane(FALSE)
    /\ ui' = [ui EXCEPT !.shown = FALSE] /\ UNCHANGED scroll

(* Any key in the shell first leaves a finished repeating view: the        *)
(* scrollback gets its last snapshot (leave_repeat_view).                  *)
LeavesView == ~Running /\ ui.view # 0
ShellUiKeepsView == ui
ShellUi == IF LeavesView THEN [ui EXCEPT !.view = 0] ELSE ui
ShellScroll == IF LeavesView THEN Append(scroll, Shown("command", ui.view)) ELSE scroll
ShellKey == InShell /\ scroll' = ShellScroll

(* A key that edits, scrolls, or opens or closes a list.                   *)
EditKey ==
    /\ ShellKey /\ pc' = "top"
    /\ \E list \in BOOLEAN : ui' = [ShellUi EXCEPT !.list = list]
    /\ UNCHANGED <<cmd, watch, ask, slot, line, ran, log, gen, sink, exit>>

CancelKey == InShell /\ Running /\ CancelCommand

ExitKey ==
    /\ ShellKey /\ ~Running /\ ~ui.list /\ Leave("key")
    /\ ui' = ShellUi /\ UNCHANGED <<line, log>>

(* Enter on a line: one command at a time.                                 *)
Enter ==
    /\ InShell /\ ~Running /\ ~ui.list
    /\ line < MaxLines /\ line' = line + 1

Logged == log' = Append(log, Entry(line', "session"))

(* A session command, a help text, or an error in the line.                *)
SubmitSession ==
    /\ Enter /\ pc' = "top" /\ Logged
    /\ ui' = ShellUi /\ scroll' = ShellScroll
    /\ UNCHANGED <<cmd, watch, ask, slot, ran, gen, sink, exit>>

(* `clear`, and a `monitor` line with arguments that are not valid.        *)
SubmitUnlogged ==
    /\ Enter /\ pc' = "top"
    /\ ui' = ShellUi /\ scroll' = ShellScroll
    /\ UNCHANGED <<cmd, watch, ask, slot, ran, log, gen, sink, exit>>

SubmitExit ==
    /\ Enter /\ Logged /\ Leave("exit")
    /\ ui' = ShellUi /\ scroll' = ShellScroll

SubmitPane ==
    /\ Enter /\ \E every \in BOOLEAN : StartPane(every)
    /\ ui' = ShellUi /\ scroll' = ShellScroll

(* The TUI steps aside: no redirect while the command has the terminal.    *)
SubmitSuspend ==
    /\ Enter /\ pc' \in {"outside", "setup"} /\ sink' = "stderr"
    /\ ran' = Append(ran, line')
    /\ ui' = ShellUi /\ scroll' = ShellScroll
    /\ UNCHANGED <<cmd, watch, ask, slot, log, gen, exit>>

(* open_monitor: the wizard or, with --yes, a run.                         *)
SubmitMonitor ==
    /\ Enter /\ pc' = "top"
    /\ \/ /\ ui' = [ShellUi EXCEPT !.wizard = TRUE, !.list = FALSE]
          /\ scroll' = ShellScroll /\ UNCHANGED <<watch, ask>>
       \/ BeginWatch(ShellUi, ShellScroll)
    /\ UNCHANGED <<cmd, slot, ran, log, gen, sink, exit>>

SubmitWatchOpen ==
    /\ Enter /\ pc' = "top" /\ Logged
    /\ BeginWatch(ShellUi, ShellScroll)
    /\ UNCHANGED <<cmd, slot, ran, gen, sink, exit>>

SubmitWatchStop ==
    /\ Enter /\ Watching /\ pc' = "top" /\ Logged /\ scroll' = ShellScroll
    /\ watch' = Stopped(watch) /\ ask' = [ask EXCEPT !["watch"] = "none"]
    /\ slot' = NoQuestion /\ ui' = ShellUi
    /\ UNCHANGED <<cmd, ran, gen, sink, exit>>

SubmitWatchShow ==
    /\ Enter /\ HasGrid /\ pc' = "top" /\ Logged /\ scroll' = ShellScroll
    /\ ui' = [ShellUi EXCEPT !.shown = TRUE]
    /\ UNCHANGED <<cmd, watch, ask, slot, ran, gen, sink, exit>>

-----------------------------------------------------------------------------
(* Outside the TUI (run_suspended): no future is polled.                   *)
Outside == pc \in {"outside", "setup"}

(* After `setup`, whatever its outcome, the loop reads the settings again; *)
(* a run keeps the ones it started with (TuiState::settings_reloaded).     *)
Reload(outcome) ==
    \/ /\ pc = "setup" /\ gen < MaxGen /\ gen' = gen + 1
       /\ watch' = [watch EXCEPT !.stale = @ \/ Watching]
    \/ UNCHANGED <<gen, watch>>    \* another command, or the read fails

(* The screen comes back, and with it the redirect of the warnings.        *)
Resumed == pc' = "top" /\ sink' = "idle"

(* The command ends or Ctrl-C cancels it; then the screen comes back, or   *)
(* it cannot and the TUI ends.                                             *)
OutsideEnds ==
    /\ Outside
    /\ \E outcome \in {"ok", "error", "cancelled"} :
          log' = Append(log, Entry(line, outcome)) /\ Reload(outcome)
    /\ scroll' = Append(scroll, Shown("command", line))
    /\ \/ Resumed /\ UNCHANGED exit
       \/ pc' = "left" /\ exit' = "error" /\ UNCHANGED sink
    /\ UNCHANGED <<cmd, ui, ask, slot, line, ran>>

(* TERM, HUP or QUIT: in place of the command's end, or queued behind the  *)
(* Ctrl-C that cancelled it.                                               *)
OutsideSignal ==
    /\ Outside /\ pc' = "left" /\ exit' = "signal"
    /\ \/ log' = Append(log, Entry(line, "signal")) /\ UNCHANGED scroll
       \/ /\ log' = log \o <<Entry(line, "cancelled"), Entry(line, "signal")>>
          /\ scroll' = Append(scroll, Shown("command", line))
    /\ UNCHANGED <<cmd, watch, ui, ask, slot, line, ran, gen, sink>>

-----------------------------------------------------------------------------
Futures == \/ \E a \in Askers : Ask(a) \/ Retry(a) \/ TakeAnswer(a)
           \/ PaneRepeats \/ WatchPrepared \/ WatchTicks
           \/ PaneEnds \/ WatchEnds

Keys == \/ AnswerKey \/ CancelInList
        \/ ExitInWizard \/ LeaveWizard \/ StartFromWizard
        \/ ToggleGrid \/ ExitInGrid \/ StopKey \/ CloseKey \/ EvidenceKey
        \/ EditKey \/ CancelKey \/ ExitKey

Lines == \/ SubmitSession \/ SubmitUnlogged \/ SubmitExit \/ SubmitPane
         \/ SubmitSuspend \/ SubmitMonitor
         \/ SubmitWatchOpen \/ SubmitWatchStop \/ SubmitWatchShow

Next == \/ Top \/ LiveTick \/ SignalExit \/ InputEnds
        \/ Futures \/ Keys \/ Lines \/ OutsideEnds \/ OutsideSignal

(* The loop goes on, its timers fire, a command outside the TUI ends or is *)
(* cancelled, and the user answers an open question.  No command, run or   *)
(* other key has to happen.                                                *)
Fairness ==
    /\ WF_vars(Top) /\ WF_vars(LiveTick) /\ WF_vars(OutsideEnds)
    /\ SF_vars(AnswerKey)
    /\ \A a \in Askers : SF_vars(Retry(a)) /\ SF_vars(TakeAnswer(a))

Spec == Init /\ [][Next]_vars
FairSpec == Spec /\ Fairness

-----------------------------------------------------------------------------
Up == pc \in {"top", "select"}

(* Every variable the steps read has a value the code can give it.         *)
Question == [by : Askers \union {"nobody"}, no : Nat]
Command  == [no : Nat, every : BOOLEAN, ran : BOOLEAN]
Watch    == [no : Nat, state : {"none", "running", "done", "failed", "stopped"},
             prepared : BOOLEAN, sent : Nat, applied : Nat, report : Nat,
             gen : Nat, stale : BOOLEAN]
Ui       == [choice : Question, list : BOOLEAN, wizard : BOOLEAN, shown : BOOLEAN, view : Nat]
Asks     == [Askers -> {"none", "wait", "open", "replied", "dropped"}]

TypeOK ==
    /\ cmd \in Command /\ watch \in Watch /\ ui \in Ui /\ ask \in Asks /\ slot \in Question
    /\ line \in Nat /\ gen \in Nat

(* With no pane command and no run, nothing is asked: no list is open over *)
(* the shell and no question waits in the slot for the next command.       *)
NoQuestionWhenIdle == ~Running /\ ~Watching => ~Asking /\ slot = NoQuestion

(* A pane command's question never outlives its wait: what the list or the *)
(* slot holds for the pane, the running command awaits.                    *)
PaneQuestionLive == \A q \in {ui.choice, slot} : q.by = "pane" => Live(q)

(* The journal has, for every command that ended, in the pane or outside,  *)
(* one record, in the order the commands started; the command that runs    *)
(* has none yet.  (A command is known by the number of its line.)          *)
Started == {ran[i] : i \in DOMAIN ran}
Records == {i \in DOMAIN log : log[i].outcome # "session"}
Recorded == {log[i].line : i \in Records}

JournalComplete ==
    Up => /\ Recorded = Started \ (IF Running THEN {cmd.no} ELSE {})
          /\ \A i, j \in Records : i < j => log[i].line < log[j].line

(* What an ended command or run wrote is shown once: in the scrollback, or *)
(* in the repeating view or the grid that still waits to be left.          *)
Times(what, no) == Cardinality({i \in DOMAIN scroll : scroll[i] = Shown(what, no)})
OutputOnce ==
    Up => /\ \A no \in Started :
                 Times("command", no) = IF no \in {cmd.no, ui.view} THEN 0 ELSE 1
          /\ \A n \in 1 .. watch.no :
                 Times("run", n) = IF n = watch.no /\ HasGrid THEN 0 ELSE 1

(* An ended grid misses no message, and the report of a run that was done  *)
(* or stopped is from its last tick.                                       *)
GridComplete ==
    watch.state \in {"done", "failed", "stopped"} =>
        /\ watch.applied = watch.sent
        /\ watch.report = IF watch.state = "failed" THEN 0 ELSE watch.sent

(* The grid says "old settings" exactly when its run has settings that     *)
(* `setup` replaced since.                                                 *)
StaleHonest == Watching => (watch.stale <=> watch.gen # gen)

(* A library warning goes where the user looks: the pane command's output, *)
(* the scrollback between commands, the terminal outside the TUI.          *)
SinkRight == /\ Up => sink = IF Running THEN "pane" ELSE "idle"
             /\ Outside => sink = "stderr"

(* While a question is open, no key reaches what is under it: no line is   *)
(* submitted, no run started or closed, no screen changed, nothing left.   *)
QuestionHasFocus ==
    [][Asking => /\ line' = line /\ watch'.no = watch.no
                 /\ ui'.shown = ui.shown /\ ui'.wizard = ui.wizard
                 /\ exit' \notin {"key", "exit"}]_vars

(* A question that was asked is settled: answered, dropped, or its asker   *)
(* is gone.                                                                *)
QuestionSettled ==
    \A a \in Askers : ask[a] \in {"wait", "open"} ~> (ask[a] \notin {"wait", "open"} \/ pc = "left")

(* What a run sends reaches its grid, with no key and while no command     *)
(* runs.                                                                   *)
MessagesApplied == (watch.sent > watch.applied) ~> (watch.applied = watch.sent \/ pc = "left")

-----------------------------------------------------------------------------
(* Where an asker's question is.                                           *)
StageOf(a) ==
    IF ask[a] # "open" THEN ask[a]
    ELSE IF ui.choice = QuestionOf(a) THEN "shown"
    ELSE IF slot = QuestionOf(a) THEN "slot" ELSE "lost"

Slot == INSTANCE QuestionSlot WITH
    Pane <- "pane", alive <- [a \in Askers |-> Alive(a)], stage <- [a \in Askers |-> StageOf(a)]

(* The pane, the run and the keys, in any order, implement a slot that     *)
(* loses no question: each one asked reaches the screen, one at a time,    *)
(* and its own asker gets the answer, or learns that it was dropped, or is *)
(* gone.                                                                   *)
ImplementsSlot == Slot!SlotSpec

-----------------------------------------------------------------------------
(* What a comment says, and the code does not do.                           *)

(* finish, "The command is gone: so is the question it asked": the end of  *)
(* a command leaves the question of a run that goes on.                    *)
FinishKeepsOthersQuestion ==
    [][PaneEnds /\ Live(QuestionOf("watch")) => Live(QuestionOf("watch"))']_vars
=============================================================================
