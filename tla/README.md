# Specifications of Scope

TLA+ models of `scope`, the blockchain analysis CLI of this repository, with TLC
configurations that check them on small instances and TLAPS proofs of what holds for
every instance. Paths below are relative to the repository; `core` is
`crates/scope-core/src`, `cli` is `crates/scope-cli/src`.

1. [The system](#the-system)
2. [The modules](#the-modules)
3. [What each run checks](#what-each-run-checks)
4. [Where the code and its words disagree](#where-the-code-and-its-words-disagree)
5. [What is proved](#what-is-proved)
6. [What is not modelled](#what-is-not-modelled)
7. [Plan](#plan)
8. [Running it](#running-it)

## The system

Most of the program fetches data, computes and prints: chain clients, venue clients,
analytics, contract patterns, risk scores, themes. That part is sequential and keeps no
state. The parts that keep state over time, share it, or survive a crash are these.

| Component | State | Operations | What is hard | What makes it correct |
|---|---|---|---|---|
| Repeat runner, `cli/cli/repeat.rs` | run number, slot, CSV file, series on the screen | `run`: one step after another until the end | runs that overrun, late timers, an end between two slots | no burst, no early run, as many runs as announced, it ends |
| TUI loop and state, `cli/cli/tui/mod.rs`, `app.rs` | the pane command, the watchlist run, overlay, wizard, grid, scrollback, journal, exit | keys, submitted lines, ends of futures, ticks, signals, suspend mode | one task polls two futures, the keys and the signals in any order | a question is settled and never outlives its command; each command is journaled once and shown once |
| Question slot (`TuiPicker`), `cli/cli/resolve.rs` | one slot, one overlay | `ask`, `poll_ask`, answer, closed channel | two askers share one slot; one polls it on a timer | a question reaches the user, its answer the asker |
| Library warnings, `core/diag.rs` | where warnings go | `redirect`, guards that restore | guards dropped out of order | a warning goes where the user looks |
| Migration, `core/paths/migration.rs` | old files, new files, `migration.jsonl` | one copy pass per start | a start that dies or fails between any two writes | no torn, overwritten or repeated copy; `complete` is final |
| Catalog sync, `core/market/catalog.rs` | folders `catalog`, `catalog.new`, `catalog.old` | `sync` | a crash between two renames, a write or a removal that stops partway, two processes | what is installed is a whole version or what was there; left-overs do no harm |
| Watch events, `core/watch/diff.rs`, `preset.rs`, `rule.rs`, `cli/cli/watch/run.rs`, `cli/cli/tui/grid.rs` | last snapshot, CSV file, messages, banner, bell | tick, `apply`, bell | cells that go through any sequence of statuses, ticks that pile up | every breach is announced and rings; an error ends none |
| Watch memory, `core/watch/history.rs` | newest trade seen | `largest_trade` | late ticks, failed reads, a bounded tape | a trade is judged once |
| Token list, `core/tokens.rs`, `cli/cli/resolve.rs` | aliases and recent tokens, in `tokens.yaml` | add, remove, resolve a symbol and save the choice | whole-file saves with no lock, cut short or one over another, a venue and a user awaited between load and save | nothing is chosen silently; a save changes its own entries; the two parts of the list agree |
| Address book, `core/domain/address_book.rs`, `cli/cli/address_book.rs`, `crates/scope-web/src/api/address_book.rs` | entries, in `address_book.yaml` | add, remove, by commands and web handlers | as above; a torn save | no address twice; a broken book is not saved over |
| Journal and history files, `cli/cli/tui/journal.rs` | line files | append, save whole | two sessions | |
| Web daemon, `crates/scope-web/src/lib.rs`, `main.rs` | PID file, process | start, stop | a stale PID, two starts, a crash between two steps | stop ends the daemon that was started |
| Ghola sidecar, `core/http/ghola.rs`, `shared.rs`, `cli/cli/ghola_offer.rs`, `dispatch.rs` | one proxy process that all runs share | connect or start, poll, record, keep or stop | another run's sidecar answers first; time-outs; signals | who started it ends it, and nobody else |
| Live token monitor, `cli/cli/monitor/` | data shown, error, interval, pauses | refresh, keys | several requests per refresh, each of which may fail; keys at any time | error and data agree; no rapid retry; refreshes go on |
| Web monitor socket, `crates/scope-web/src/monitor.rs` | subscriptions of a socket | subscribe, refresh, ping | a refresh in flight when the client changes its mind | what is sent is what is subscribed |

How they interact. The CLI starts with the migration. A command that needs venues may
run the catalog sync first. `scope tui` holds at most one pane command and one watchlist
run. Both are futures polled by the select of the event loop. They talk to the
TUI's state through a mutex (the ask slot, the output pane) and, for the run, through a
channel of ticks. A pane command with `--every` is a repeat runner, and so is each
watchlist run: `watch::run` uses the same schedule, diffs each tick against the last,
appends to the CSV file and sends the tick to the grid. Library code deep in any
of these writes warnings to the sink `diag` points at, and asks by the picker. Panes, runs and other
processes load and save the same two lists of the scope
home. Every run, the web server among them, builds its transport first, which may
start the sidecar that all runs use; `--stop` signals a process by an ID in a file, and what
that process had yet to do, the stop of its sidecar among it, is not done.

Left aside, with a row each in `PROJECT.json`: the chain and venue clients, numeric
analytics, contract analysis, compliance, display, configuration, one-shot commands, the
test harness, and the separate `my-smart-wallets-app`.

`PROJECT.json` lists the hazards this code is exposed to, each at its line, with the
properties that would catch it. Some that are as real are not in that list, and no
module covers them yet:

- `cli/cli/tui/journal.rs:91`: each session saves the whole history, so of two
  sessions the last to save wins.
- `crates/scope-web/src/lib.rs:267`: a crash between the spawn of the daemon and the
  write of its PID file leaves a daemon `stop` does not know.
- `crates/scope-web/src/monitor.rs:194`: a ping cuts the wait for the next refresh short.
- `cli/cli/tui/mod.rs:546`: a second CONT that comes before the loop handled the first
  merges with it and is taken for the TUI's own (the comment there says why that is safe).
- `core/paths/migration.rs:239`: two first starts at the same time share one `.migrating`
  file. The migration model runs one start at a time.
- `cli/cli/monitor/state.rs:496`: two monitors of one token write one cache file in the
  temporary directory.
- `cli/cli/tui/mod.rs:661` and `app.rs:1433`: the chain of guards that redirects warnings, and
  settings saved under a run that goes on. `TuiLoopProofs` proves `SinkRight` and `StaleHonest`.
- `cli/cli/watch/run.rs:157` and `core/paths/migration.rs:186`: a CSV row that cannot be
  written, and a start that has nothing to write. `CsvBeforeScreen` and
  `NothingToCopyWritesNothing` are proved.
- `core/watch/history.rs:92`: trades of one millisecond of which a reading saw some; see
  `NoneMissed` below.
- `cli/cli/watch/fetch.rs:190`: more trades in an interval than the tape holds. The
  model has this case, and `NoneMissed` excepts those trades: nobody can see them.

## The modules

| Module | Models | Checked by | Proved in |
|---|---|---|---|
| `Repeat` | `cli/cli/repeat.rs`, `run` | `MCRepeat` | `RepeatProofs` |
| `TuiLoop` | `cli/cli/tui/mod.rs`, `app.rs`, `cli/cli/resolve.rs` (`TuiPicker`), `core/diag.rs` | `MCTuiLoop` | `TuiLoopProofs` |
| `QuestionSlot` | what the ask slot promises: the abstract specification of the questions of `TuiLoop` | `MCTuiLoop` | `TuiLoopProofs` |
| `Migration` | `core/paths/migration.rs` | `MCMigration` | `MigrationProofs` |
| `CatalogSync` | `core/market/catalog.rs`, `sync` | `MCCatalogSync` | `CatalogSyncProofs` |
| `CatalogSwap` | what `sync` promises: the abstract specification of `CatalogSync` | `MCCatalogSync` | `CatalogSyncProofs` |
| `WatchEvents` | `core/watch/diff.rs`, `preset.rs`, `rule.rs`, `core/market/health.rs`, `cli/cli/watch/run.rs`, `cli/cli/tui/grid.rs` | `MCWatchEvents` | `MonitorProofs` |
| `WatchTape` | `core/watch/history.rs`, `largest_trade` | `MCWatchTape` | `WatchTapeProofs` |
| `Retain` | `Vec::retain`, as `remove` of both lists and `add_binding` use it | `MCHomeLists` | `HomeListsProofs` |
| `WholeFile` | `std::fs::write` by several processes, as `save` of both lists uses it | `MCHomeLists` | `HomeListsProofs` |
| `TokenList` | `core/tokens.rs`, `cli/cli/resolve.rs`, `tokens` of `cli/cli/tui/exec.rs` | `MCHomeLists` | `HomeListsProofs` |
| `AddressBook` | `core/domain/address_book.rs`, `cli/cli/address_book.rs`, `crates/scope-web/src/api/address_book.rs` | `MCHomeLists` | `HomeListsProofs` |
| `HomeLists` | the two lists of one scope home, composed | `MCHomeLists` | `HomeListsProofs` |
| `Sidecar` | `core/http/ghola.rs`, `shared.rs`, `cli/cli/ghola_offer.rs`, `dispatch.rs` | `MCWebDaemon` | `WebDaemonProofs` |
| `WebDaemon` | `crates/scope-web/src/lib.rs`, over the processes of `Sidecar` | `MCWebDaemon` | `WebDaemonProofs` |
| `LiveMonitor` | `cli/cli/monitor/input.rs`, `state.rs` | `MCLiveMonitor` | `MonitorProofs` |

An operator whose comment begins with "Variant" (or the one above it does) is the code
with one plausible slip. The specification does not use it. Each property is known to
fail when the definition it varies is replaced by it, which shows that the property
depends on that code.

**Repeat.** A behaviour is one call of `run`. `now` is tokio's clock, in ticks. The
awaits of the task are the step and the sleep; everything from the end of a step to the
next await is one action (`Continue`: the row, the record, the next slot, the time on
the screen). `Tick` moves the clock while the task waits, so a step takes any time and a
timer may be late. A step, the CSV header, a row or a print can fail, and the command can
be cancelled at either await. `IsLast`, `NextSlot` and `Total` are the conditions and
arithmetic of the source. `before` and `overran` are history. A CSV file is taken to be
given; without one its calls are skipped.

**TuiLoop.** `pc` is where the loop's task is: at the top of a pass (where it polls
the run's messages and the ask slot), in the select, outside the TUI with a command that
needs the terminal, or gone. `cmd` is the pane command, `watch` the run and its grid,
`ui` what floats over the shell, `ask` how far each asker's question is, and `slot` the
shared ask slot. There is an action per arm of the select, per key with an effect of its
own, per kind of submitted line, and per exit. `Finish` is `TuiState::finish` with all it
does: it drops the questions, holds the repeat view, writes the journal, moves the
output to the scrollback. A line is its number; what it says, the drawing, the
editing and job control are left out. A run is taken to have a report path. The routing
of keys (`Asking`, `InWizard`, `InGrid`, `InShell`) follows the order of `handle_key`.

**Migration.** A behaviour is a sequence of starts with the user's edits in between. An
old file is its path, a copy is the path it came from, and the log is the set of its
lines that parse plus a last line without its newline (`tail`), since an append that
stops partway leaves one and the next append runs into it. Each system call that
changes the home is an action; each can fail, and the process can die between any two
or partway through an append. `Listed` picks an item's source as the code does: the first
of its candidates that is there.

**CatalogSync.** A folder is the version in its index and the file of each venue. Fetch
and check are one action, for they touch nothing of the three folders. After it each file
system call is an action of its own, which can fail (`DiskFails`) or be the last of a
process that dies. A write that stops partway leaves nothing or a torn file. A removal
(`Removed`) may leave any part of what was there, and the sync goes on over it, since the
code discards the result of all three (`catalog.rs:187`, `:199`, `:212`); that of the
put-back is discarded too (`PutBack`). `Procs` is the set of processes that share the home. A
catalog's venue files are whole or torn; their checksums stand for their content. A folder is
`Complete` when every file its index lists is there and right, and `Whole` when nothing else is in
it: the difference matters, for the registry loads every YAML file of the folder
(`core/market/registry.rs:58`). `swept` is history: the removals of the sync at hand have worked.

**WatchEvents.** Every row watches one market with the market health preset and one rule.
`RowReadings` is what a tick can read: the market cannot be read, or each check and the
rule have a status the code can give them. A cell is known by its row and its label, and
the label of a preset cell is the name in its message; the failing peg check's name
holds an amount, which is why it is in the model. `diff` is four operators, one per
event. A tick is one action from the comparison to the send; the grid takes messages
later, one by one, and the bell rings once the queue is empty, as `poll_watch` and the
loop do. `told`, `warned` and `due` are history: what a reader of the events believes.

**WatchTape.** A tick takes its clock, then reads the tape, or fails to. Trades and time
go on meanwhile. The tape holds the newest `Limit` trades. `largest_trade` judges the
trades after the newest it knows, or after one interval before its clock. The tape is
taken to be in time order.

**CatalogSwap.** A catalog that is replaced in one step by the version fetched, or left as it
was; only a sync that dies, or that cannot put the old one back either (`Lose`), can lose it,
and one that fails where there was none may bring back an older one. `CatalogSync` says under which
reading of its files
(`InstalledVersion`, `PhaseOf`) it implements that, with one process. Between the two renames
the old catalog counts as installed, since the put-back restores it.

**WholeFile, Retain, TokenList, AddressBook, HomeLists.** A file saved by `std::fs::write` is opened
(and empty), then written: two actions. `texts` are the contents written since the file was last
emptied, while another process has it open: the second of two writes lands on the text of the
first, and what is left of a longer one follows it. WholeFile leaves it to each list what a text
parses to. Cut short (`Parts`), a token list ends in any place: in the last entry the chain, the
time and the venue come last, so that it can still parse with a shortened name (`Cut`) or without
its venue (`Ends`). The last entry of a book ends in a time that it must have (`BookParts`). With
the rest of another text after it (`Overrun`, `BookOverrun`, and `Patched`, `BookPatched` when it was
cut short too) a text can go on as further entries, or one entry begin in one text and end
in the other (`Halves`); what else it gives does not parse (`Broken`). `mixed` is history: such a
text has been in the file. No shortened name of a chain is the name of another, which holds of
the names this program uses; symbols that are made where two texts meet in one are left out.
TokenList has one action per stretch of code between two awaits or file system
calls: a command loads the list (`Edit`, `Resolve`), may wait for the user's choice among
bindings, for the venue's coin list (`CheckBinding`, `Search`), for a pick and the save
question, and saves its own copy whole. What the lookups find is chosen freely. An entry of the
address book is its address; `Fold` is `to_lowercase`. The two lists read a file that does not
parse differently: the token list takes it for empty (`Loaded`), the book for an error
(`LoadFails`). `Retained` gives `Vec::retain` by the rank of each place that stays, with no
recursion, so that it can be reasoned about. HomeLists lets each task run a command on either, one at a time.

**Sidecar, WebDaemon.** A run is a scope process: a command, a TUI or a web server. `child` is
each `ghola --serve` process; it binds the one address, or exits if it finds it taken. A run
connects to what answers, or spawns a child and polls (`ProbeAnswered`, `ReapExited`,
`TimeOut`: the three exits of the loop in `start_sidecar`, a step of the machine between each).
`SPAWNED` is `spawned`; what the end of a run does with it is `FinishWithNone`, `AskToStop`,
`Keep`, `StopSpawned`. A signal (`Signalled`) ends a run where it is. WebDaemon adds the commands
`--daemon` and `--stop`, one action per system call, and the PID files, the present and an
older version's. Process IDs are used again. The content of a PID file that two starts write
at once can be any ID.

**LiveMonitor.** The loop of `MonitorApp::run`: it sleeps until the next refresh or a key;
after either it refreshes if one is due, price first, then the venue's book and trades, one
request after the other, with no key read meanwhile. Each request ends well or not. Ages are
counted in ticks up to `MaxAge`. An action stands for every key that has an effect on a refresh; a
key that only changes the drawing acts as an overlay key that closes nothing.

## What each run checks

All runs but `repeat_with_end` turn the deadlock check off: their bounds (lines,
starts, syncs, ticks) and their ends stop a behaviour where the program would wait for
its user. In `Repeat` the end is an action (`Returned`), so a deadlock there would be a
call that neither returns nor waits.

| Run | Bounds | Distinct states | Shows |
|---|---|---|---|
| `repeat_with_end` | interval 2, duration 9, clock to 13 | 19,723 | the schedule is kept, an overrun makes no burst, the repeat returns |
| `tui_loop` | 2 lines, 2 runs, 1 tick a run, 1 new setting | 127,066 | questions, journal, scrollback and grid are right in every interleaving; it implements `QuestionSlot`; questions are settled and messages applied |
| `migration` | a config with two old places and a token list, 4 starts, 2 edits | 266,002 | no torn, overwritten or repeated copy; `complete` is final; a good end means nothing was left behind |
| `catalog_sync` | 1 process, 3 versions of 3 venues, 3 syncs, failing disk | 350,376 | the catalog folder becomes a whole version or what it was; what an earlier sync left blocks the next only where that cannot remove it either; it implements `CatalogSwap` |
| `watch_events` | 1 row, 2 amounts, 3 ticks, a CSV file | 148,705 | every failure and warning is announced; no error ends a breach; every breach rings |
| `watch_tape` | window 2, tape of 3, 4 trades, clock to 5 | 37,894 | a trade is judged on one tick at most, and on one at least |
| `home_lists` | 2 tasks, 3 commands, 1 symbol on 2 chains and a network of one, 2 contracts, 2 recent tokens kept, 4 addresses of which 2 differ in case, a book of 2 to begin with | 2,099,959 | nothing is chosen silently; a save that none overlaps changes its own entries only; a broken book stays; until two texts are read as one, recent tokens are the saved ones, a venue does not refuse what was chosen from it, and no address is there twice |
| `web_daemon` | 2 runs, 2 sidecars, 2 commands, 2 polls, 2 builds a run, 3 processes begun | 939,795 | a run ends its own sidecar and no other; a stop ends the last daemon |
| `live_monitor` | intervals of 0, 2 or 4 ticks, `+`/`-` within 1 to 3, 5 keys | 287,784 | error and data on the screen agree; no rapid retry; refreshes go on |
| `tui_finish_drops` | 2 lines, 1 run | violation | see below |
| `catalog_two_syncs` | 2 processes, 2 syncs, disk never fails | violation | see below |
| `sidecar_left` | as `web_daemon` | violation | see below |

Why the bounds are enough. *Repeat*: the duration is not a whole number of intervals, so
the last sleep is cut; the clock runs two intervals past the end, so that a run can cross
the end and overruns can follow one another. *TuiLoop*: two lines let one command follow another
over a held view or question; two runs let one follow another over an ended grid; one
tick can be in the channel when a run stops. *Migration*: four starts are one that fails
or dies, one that goes on, one after an edit, and one more; two edits can delete a copy
and bring an old file back; one item with two places and one with one place is what the
choice of sources can tell apart. *CatalogSync*: from version 1 to 2 a venue is added,
one updated and one removed, and version 3 also removes one, so that left-overs of one
version can show in another; three syncs are one that dies or fails, one that meets its left-overs
(and may not be able to remove them) and one after that. *WatchEvents*: events are pairwise, so
three ticks hold every path of
two steps, and up to three messages wait in the queue. *WatchTape*: a tape shorter than
the trades, an interval longer than the clock at the first tick, several trades in one instant.
*HomeLists*: two tasks overlap a load, an await and a save in every order, and the third command
meets what the two left; a symbol on two chains is the choice among bindings, a network whose
name is not its chain's tells the names under which a choice is saved apart. A save of one entry
that lands on one of three, and one cut short over another, are within three commands on a book
of two and on a list of two recent tokens. One symbol is enough for the entries a command must
leave alone, which are those of the other chain. The two lists
share no state but their tasks, so `MCBound` keeps them apart but for one command: where the book
is used the venue lists no contracts and one command is on the tokens, elsewhere all three are.
*WebDaemon*: two runs are enough for one to
answer the other's probe or to get the other's ID; two builds for a TUI that
starts a second sidecar; three processes begun are a server, a stop, and one that uses the
server's ID again. Both are checked up to renaming of tasks, processes and commands
(`SYMMETRY`), which is sound for the safety properties they have; the token and book constants
are not symmetric and stay apart. *LiveMonitor*: the ages go up to the longest interval, and no
further, for the loop asks only whether an interval has passed; the settings' interval may lie
outside the range of the keys, which are those of one
overlay opened and closed, a pause and its end, and one more.

Fairness. *Repeat* (`FairSpec`): a step ends, since its requests have time limits; the
timer fires; the clock moves. Nothing is fair that fails or cancels. *TuiLoop*: the loop
goes on (`Top`), its live tick fires while something runs, a command outside the TUI ends
or is cancelled; the user answers an open question, and an asker that finds the slot
taken gets it in the end. The last two are strong fairness: a key can come between any
two passes, so the slot is free again and again but not for ever. `TuiPicker::ask`
looks again every 20 ms (`resolve.rs:313`), which justifies it for two askers of
which the other waits for the user meanwhile. No command, run or other key has to happen.
*WatchEvents*: the loop takes messages and rings, on its own clock; its exit is not part of
that module. *LiveMonitor*: the clock goes on, the loop wakes when a refresh is due, and a
request ends, well or not, since the HTTP client gives it 30 s. No key has to come, and none
has to succeed. The other modules have safety properties only.

What the properties say is in the comment above each. Those that took the most thought:

- `JournalComplete`, `OutputOnce` (TuiLoop) compare the journal and the scrollback with
  the whole sequence of commands ever started: four ways to end, two places to run.
- `QuestionSettled` is false without the live tick of a watchlist run with no
  pane command; `PaneQuestionLive` is false of a `finish` that leaves the list open.
- `NeverCopiedTwice` (Migration) holds of lines that parse only, which is why `Readable`
  counts a last line without its newline.
- `InstalledWhole` (CatalogSync) says where the content of the folder comes from at each change:
  all of the version fetched, or what the sync found. That no other file is with it, and that
  a put-back restores nothing older, needs the removals of that very sync (`swept`): of an earlier
  one, any may have failed or stopped partway.
- `NeverBlocked` (CatalogSync) says that what any failure or crash leaves never meets a rename
  that needs it gone, unless the sync at hand could not remove it either; and that what is moved in
  is complete, come what may.
- `ImplementsSlot` (TuiLoop): the slot and the list hold questions, `ask` says what each asker
  awaits. `StageOf` reads one from the other; a question that is awaited and in neither place
  is "lost", a stage that no step of `QuestionSlot` reaches.
- `ImplementsSwap` (CatalogSync) needs the reading that between the renames the old catalog is
  installed, and that what an earlier sync left behind changes neither outcome.
- `NeverSilent`, `SavedPassesCheck` (TokenList): what a symbol could mean is gathered by four
  sources; a binding saved from a venue's list must pass the check of that list later, though
  it is saved under the chain's name and not the network's.
- `SerialSaveIsAtomic` (TokenList) is as much as holds with no lock: only a save that overlaps
  can lose another's entry, whatever a question takes to be answered. `RecentAreSaved` holds of
  a list cut short only because the aliases come first in the text, and not of an entry cut in
  its chain. `SavedPassesCheck` holds of one because a cut can take a venue off a binding but not
  put one on.
- `RecentAreSaved`, `SavedPassesCheck` and `OneEntryPerAddress` are said of a file in which no text has
  been read with the rest of another (`mixed`): they are false after that, and the models have the
  steps that show it. `NeverSilent` and `BrokenBookKept` hold then too.
- `StopsOnlyItsOwn`, `EndedLeavesNoSidecar` (WebDaemon): any answer on the address ends
  the probe, so what is recorded must be the child, not what answers; the exception of a
  TUI that started two is in the statement.
- `StopEndsLastDaemon` is said of commands that do not overlap, over whatever earlier ones left. It
  says nothing of two that do, nor of the process that a stale ID may name by now: no
  property covers those two, and the notes below say what the code does.
- `ErrorIsNews` (LiveMonitor) relates one message to three requests, for the price, the book and
  the trades: it is set exactly when one of the three is older than the last refresh.
- `EveryStateAnnounced` (WatchEvents) adds up pairwise events over any path of statuses.
- `NoneMissed` (WatchTape) excepts a trade that shares its millisecond with the newest one
  of a reading. It may have reached the tape after that reading, and
  `timestamp_ms > after` then skips it. The code cannot tell it from one that it saw; the
  choice is to miss such a trade and never to judge one twice.

## Where the code and its words disagree

Each of these has a run whose one property is what a comment or the README says, and
whose counterexample is what the code does.

1. `FinishKeepsOthersQuestion`. `TuiState::finish` (`cli/cli/tui/app.rs:1735`) drops the
   open question and the waiting one, whoever asked. Its comment: "The command is gone:
   so is the question it asked." If the question is the watchlist run's, the run sees a
   closed channel and fails to resolve its target. This one looks like a defect.
2. `ErrorLosesNothing`. Two syncs share `catalog.new` and `catalog.old`
   (`core/market/catalog.rs:206`): one can take away the folder the other is about to move
   in, and the only copy of the old catalog. The put-back then finds nothing, and the sync
   ends in an error with no catalog, although "On any error the old catalog stays as it was."
   With one process `ImplementsSwap` holds.
3. `SidecarStopsWithServer`. "The web server never asks: a sidecar it started stops with it"
   (`crates/scope-web/src/main.rs:203`). `scope web --stop` sends SIGTERM (`lib.rs:201`), the
   server has no handler for it, and `finish_sidecar`, the line after the server's end, is
   not reached. The sidecar runs on.

Seen while modelling, with no run of their own.

Of the token list and the address book:

- Overlapping saves lose each other's entries, in one process (a pane and a run) and between
  two; nothing in the repository says they do not. When the second text is the shorter one, the
  rest of the first can parse after it: the book then lists an address twice, or the list has a
  recent token that was removed (`tokens.rs:119`, `address_book.rs:134`).
- A save of the token list that stops inside its last entry can leave a token on a chain whose
  name is cut, or a binding without the venue it was checked against, and no error.
- A token list that does not parse, such as one cut short, counts as empty, and the next save
  erases it. The address book in the same state is an error (`BrokenBookKept`).
- The lookup at a CEX venue ignores `--chain`: it offers candidates of every network
  (`resolve.rs:209`), where the DEX search keeps to the chain.
- The offer to install ghola takes an install that failed for a no and does not ask again
  (`ghola_offer.rs:250`).

Of the catalog sync with one process:

- A venue file in `catalog.new` that a sync cannot remove is installed with the new catalog, whose
  index does not list it, and the registry loads it (`catalog.rs:187`, `registry.rs:58`).
- A `catalog.old` that cannot be removed stops every sync at the rename (`catalog.rs:199`), and one
  that was removed in part can be put back where no catalog was installed (`:206`).

Of the daemon and the sidecar:

- Two `--daemon` starts overwrite the PID file; the first server can no longer be stopped.
- A PID file whose process has died can name another process by now, which `--stop` then ends.
- A stop that overlaps a start can remove the start's file, or leave it with a torn ID.
- The run that started the sidecar stops it at its end, though others use it by then; their
  client does not fall back.
- A TUI whose sidecar runs but no longer answers, and which builds its transport again after
  `setup`, starts a second one and forgets the first (`SPAWNED` is assigned over, `ghola.rs:182`).

Of the live monitor:

- A failed order book marks a fresh price as "(stale)" (`widgets.rs:415`).
- "Slower" lowers an interval that the settings put above 60 s, and the settings may say 0.
- The trade that a rise of the price makes up is always a sell: it is compared with a price set
  just before (`state.rs:702`).
- With auto-pause on and a refresh due, the loop spins until the pause ends.

Of the watch and the migration:

- The failing peg check's name begins with the number of sells (`core/market/health.rs:482`),
  and the name is the cell's label. A breach that goes on with another number is a new
  cell and rings again; README.md:859 says "once".
- A cell that goes from Fail to Warn never gets `BreachCleared` (`core/watch/diff.rs:67`),
  though the event's comment says "(or is no longer a failure)".
- A copy is renamed into place, then logged (`core/paths/migration.rs:155`). A start that dies
  between the two leaves a copy no line names. If the user deletes it after a later start that
  ended well, it is copied again; the module says "a copy the user deleted stays deleted".

Of the TUI and the repeat runner:

- Ctrl-D in the grid and in the wizard leaves the TUI while a pane command runs
  (`app.rs:1315`); in the shell it is refused with `BUSY_NOTE` (`app.rs:56`). The command is
  dropped without a record. TuiLoop has `ExitInGrid` and `ExitInWizard`; the properties of
  the journal are stated of a TUI that is up.
- A run that stops while a pane command runs leaves the open list alone
  (`drop_watch_question`), even when the list is the run's own. Nobody awaits it, and it
  takes the keys until it is answered. `NoQuestionWhenIdle` and `PaneQuestionLive` say what
  does hold.
- A run that goes on when the TUI exits is dropped, and its report is not written;
  README.md:857 says it is "written when the run ends or you stop it".
- `clear` and a `monitor` line with arguments that are not valid leave no journal line;
  README.md:838 says "a log of every submitted line".
- After the loop returns with a command still running, the guards of the two redirects are
  dropped in the order that leaves the idle sink set (`core/diag.rs:50`). `Leave` models it.
- A repeat whose runs overrun makes fewer runs than `total()`, although the comment at
  `repeat.rs:146` says that the count meets it. `RunsWithinTotal` is the half that holds.

## What is proved

The proofs assume the constants' `ASSUME`s and nothing else: they hold for every
interval, list of items, number of rows, tape or bound. A module's proofs are in
`<Module>Proofs`, those of WatchEvents and LiveMonitor together in `MonitorProofs`. Each is an
inductive invariant with the three steps `Init => Inv`,
`Inv /\ [Next]_vars => Inv'` and `Inv => Property`; an action property uses the invariant
in the state before the step.

**RepeatProofs**: `TypeOK`, `RunsWithinTotal`, `NeverEarly`, `NoBurst`, `OnTheGrid`. None of the
last four is inductive. `GridInv` relates the run's number to its slot: a slot that the end did not
cut is `(run - 1) * Every` or later, and a second or later run follows one that was due
before the end. `SpacingInv` relates the slot to when the last two runs began, `LaidAtStart`
the slot to the grid. Lemma `NextSlotBounds` gives the first two for the next slot; lemma
`TotalBound` is the division in `Total`.

**TuiLoopProofs**: `TypeOK`, `NoQuestionWhenIdle`, `PaneQuestionLive`, `GridComplete`,
`StaleHonest`, `SinkRight`, `QuestionHasFocus`, `JournalComplete`, `OutputOnce` and the
refinement `ImplementsSlot`, for any number of lines, runs, ticks and settings. `LoopInv` is the
type with one part per concern:
`QuestionInv` says whose question is where by what each asker is doing, `GridInv` what an ended
grid has taken in, `SinkInv` which guards are held, `RecordInv` what is written of commands and
runs. The last has three parts: the journal is ordered by line and complete up to the command
that runs (`Journal`), a view that is held is that of a command that ended (`ViewInv`),
and the scrollback has each other one exactly once (`ScrollInv`). Each action is a lemma of its
own or one of a group that leaves the part alone. The refinement needs `SlotInv` as well: an
open question is in the slot or on the screen and not in both, and what is there for the
watchlist run is of an earlier run or awaited. Without the last, a run that asks could find
the answer to an old question given to its new one. Each action is then a step of
`QuestionSlot` (lemmas `SlotMove`, `SlotStart`, `SlotEnd`, `SlotDropAll`) or changes nothing
there (`SlotStay`).

**CatalogSyncProofs**: `TypeOK`; and for one process `InstalledWhole`, `NeverBlocked`,
`OldKeptUntilNewWhole`, `ReportTrue` and the refinement `ImplementsSwap`. The invariant says what
each of the three folders can hold at each step of a sync, after any earlier sync that
failed or died, and what more is known when the removals so far have worked. That `catalog.new` is
complete from the index on holds without them: each listed file is written anew, and the rest is
not listed. That there is one process is the assumption `Procs = {p}` of each theorem; with two the
invariant is false, and so is what it is for.

**HomeListsProofs**: the types of both lists, `NeverSilent`, `SavedPassesCheck`,
`RecentAreSaved`, `OneEntryPerAddress`, `SerialSaveIsAtomic` and `BrokenBookKept`, for any number
of tasks, symbols, chains, coin lists and commands. `SilentInv` says what a command waits with:
of several meanings, none has been used. A property of a file is not inductive by itself, since
the next save writes a copy: `ListInv` and `BookInv` say it of every copy too, and of every part
of one that a torn write can leave (`PartsKeep`, `PartUnique`), until a text made of two has been
read (`Sound`); of such a text the proofs use only that it is a list (`BlendsAreLists`,
`BookBlends`). For `SavedPassesCheck` a copy's bindings to the venue are all
on the venue's list (`FromVenue`), which needs that what a task holds came from its copy or its
lookup (`Holds`); a contradiction then names a second contract. `CopyInv` is the reason for
`SerialSaveIsAtomic`: until another save, a copy differs from the saved list in the entries of its
command only. Lemma `RetainedPlaces` says what `Vec::retain` keeps, each place at most once;
`LeastElement` takes the venue's first network from the order of the natural numbers. Assumed of
the constants: the jobs are those of `AllJobs`, the coin lists are sequences of candidates, no
network is named `Cut`, and a
book there is at first lists no address twice.

**WebDaemonProofs**: `EndedLeavesNoSidecar`, `StopsOnlyItsOwn`, `StopEndsLastDaemon`, for any
number of processes. `DaemonInv` says that what a run waits for, or holds in `SPAWNED`, it
started (or has died and belongs to nobody), that an ID in a waiting command is the one it spawned
or read, and that the file names the last server while commands ran one by one.

**MigrationProofs**: `TypeOK`, `NeverTorn`, `NeverWrittenOver`, `NeverCopiedTwice`,
`CompleteIsFinal`, `OkMeansAll`, `NothingToCopyWritesNothing`. What a start knows of the
log it read when it began, and the log changes under it by its own lines. `RunInv` says
which: the items ahead have the lines `done` has, the items passed have a file or a line,
the item at hand has its file unwritten until the rename, and a start that found nothing to do
has done nothing. That two items never share a source is an assumption on `Items`.

**MonitorProofs**. Of WatchEvents: `TypeOK`, `EveryStateAnnounced`, `CsvBeforeScreen`,
`BellNotLost`, `ErrorClearsNothing`. The invariant is the conjunction of the three safety
properties with the type, a bound on the queue and how many ticks it can hold, and that every tick
read by a run that goes on is written. Of LiveMonitor: `LiveTypeOK`, `ErrorIsNews`,
`NoRapidRetry`. `ErrorIsNews` speaks of the time between two refreshes; `ErrorSoFar` says during
one that there is an error exactly if one of the requests so far has failed. `AgeIsRest` ties the
age that `should_refresh` reads to the time since the last price request ended.

**WatchTapeProofs**: `TypeOK`, `JudgedOnce`, `NoneMissed`. The invariant relates the order
of the trades, the newest instant known, and how often each trade counted: none after it,
at most once before it, exactly once between the first tick's edge and it unless an edge
falls on it or the tape lost it.

Only model-checked, and why:

- liveness (`EndedRepeatReturns`, `QuestionSettled`, `MessagesApplied`, `BellRings`,
  `RefreshesAgain`): proofs under fairness need ENABLED, which the prover does not support.

Every safety property of a passing run is proved. The type invariants are proved rather than run:
that of WebDaemon is a part of `DaemonInv`.

Properties that are proved and in no run (`NeverEarly`, `StaleHonest`, `SinkRight`,
`CsvBeforeScreen`, `BellNotLost`, `NothingToCopyWritesNothing`) say less than those that a run
checks: a lost bell, for one, would never ring, which is what `BellRings` is about.

## What is not modelled

- Data: prices, order books, balances, bytecode, text, colours, layout. The health checks
  appear as the statuses they can have.
- Requests and retries of the HTTP clients: sequential I/O against services outside the
  repository. A request is an await that ends or fails.
- TUI: drawing, editing keys, completion, paging, job control, the race of signals with a
  command that has the terminal (only its outcomes are in TuiLoop), the wizard's forms.
- `volume_change` and targets listed twice in the watch memory; sparklines and panels of
  the grid.
- Files of watchlists, journal and history: saves by one sequential command each.
- The web monitor's socket: a loop with one client, much like LiveMonitor's.
- The race of `run_suspended` and job control: the order of POSIX signals and of reads of a
  terminal, which no code here fixes.
- The download of ghola and its checks; the addresses and ports of the web server.
- Alerts, CSV export, candles, holders and the cache of the live monitor.
- Two starts that migrate at the same time.

Nine tenths of the code are clients of chains and venues, analytics, pattern tables, reports and
drawing (`configurable_client.rs`, `ethereum.rs`, `tron.rs`, `report.rs`, `insights.rs`, the
widgets of the monitor and of the TUI), and the tests beside them. They hold no state between
two calls and run no two at once on what they hold: what is right about them is a matter of
floats, texts and the formats of third parties, which the unit tests and recorded responses
next to them compare value by value. A model would write them again and say nothing of order,
failure or sharing. The share of the source that these modules map is small for that reason.

## Plan

Done, in this order: Repeat, TuiLoop, Migration, CatalogSync, WatchEvents, WatchTape, then
HomeLists (WholeFile, TokenList, AddressBook), WebDaemon over Sidecar, LiveMonitor, the abstract
CatalogSwap and its refinement, each with its run, the proofs of all of them, and QuestionSlot,
which TuiLoop implements. What is left is `WebMonitor`: subscriptions, refresh and pings of one
socket.

## Running it

In this folder, with `tla2tools` and the community modules on the path:

    tlc -workers 2 -config MCMigration.cfg MCMigration
    tlapm MigrationProofs.tla

`home_lists`, `web_daemon` and `tui_loop` take one to three minutes each on two cores, the other
runs under a minute; the proofs take some minutes together.
