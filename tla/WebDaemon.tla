----------------------------- MODULE WebDaemon -----------------------------
(***************************************************************************)
(* `scope web --daemon` and `scope web --stop`                             *)
(* (crates/scope-web/src/lib.rs, `start_daemon` and `stop_daemon`;         *)
(* crates/scope-web/src/main.rs), over the processes of Sidecar: the web   *)
(* server is one of them.                                                  *)
(*                                                                         *)
(* A start spawns the server and writes its process ID into a file; a stop *)
(* reads the file, signals the process it names, whatever that is by now,  *)
(* and removes the file.  There is no lock, and a start does not look at   *)
(* the file.  Addresses are left out: a bind may find one taken or not.    *)
(***************************************************************************)
EXTENDS Sidecar

CONSTANTS
    Cmds,       \* `scope web --daemon` and `--stop` processes
    Absent,     \* no file
    Broken,     \* a file that holds no process ID: it is empty, or cut short
    MaxBegun    \* bound of the model: processes begun

ASSUME PidAssumption ==
    Runs \cap {Absent, Broken} = {} /\ Absent # Broken /\ MaxBegun \in Nat

Paths == {"current", "legacy"}      \* pid_file_path, legacy_pid_file_path

VARIABLES
    pidFile,    \* what the file at each path holds: Absent, Broken, or a process ID
    cmdAt,      \* what each command does next
    path,       \* stop: the file it found
    pid,        \* stop: the ID it read; start: the server it spawned
    pen,        \* start: "up"; "down" once it opened the file; then "crossed" when
                \* another wrote to it, "lost" when it was removed
    begun,      \* processes begun, of both kinds
    alone,      \* history: no other command ran while it did
    last        \* history: the server of the last start that ended well, while it runs and
                \* unless two commands ran at the same time since; or Nobody

daemonVars == <<pidFile, cmdAt, path, pid, pen, begun, alone, last>>

vars == <<processVars, daemonVars>>

CmdGoto(q, where) == cmdAt' = [cmdAt EXCEPT ![q] = where]

CmdEnds(q) ==
    /\ cmdAt' = [cmdAt EXCEPT ![q] = "idle"]
    /\ path' = [path EXCEPT ![q] = "current"]
    /\ pid' = [pid EXCEPT ![q] = Nobody]
    /\ alone' = [alone EXCEPT ![q] = FALSE]

(* `last` while process r may end.                                         *)
Forget(r) == last' = IF last = r THEN Nobody ELSE last

OneMore == begun < MaxBegun /\ begun' = begun + 1

(* A command begins; if another runs, nothing is said of either.           *)
CmdBegins(q) ==
    /\ cmdAt[q] = "idle"
    /\ OneMore
    /\ IF \A p \in Cmds : cmdAt[p] = "idle"
       THEN alone' = [alone EXCEPT ![q] = TRUE] /\ UNCHANGED last
       ELSE alone' = [p \in Cmds |-> FALSE] /\ last' = Nobody

-----------------------------------------------------------------------------
Init ==
    /\ SidecarInit
    /\ pidFile \in [Paths -> {Absent} \union Runs] /\ pidFile["current"] = Absent
    /\ cmdAt = [q \in Cmds |-> "idle"]
    /\ path = [q \in Cmds |-> "current"]
    /\ pid = [q \in Cmds |-> Nobody]
    /\ pen = [q \in Cmds |-> "up"]
    /\ begun = 0
    /\ alone = [q \in Cmds |-> FALSE]
    /\ last = Nobody

(* Variant: an older version's file goes first.                            *)
LegacyFirst ==
    IF pidFile["legacy"] # Absent THEN {"legacy"}
    ELSE IF pidFile["current"] # Absent THEN {"current"} ELSE {}

(* `pid_file_to_stop`: the current file, else an older version's.          *)
PidFileToStop ==
    IF pidFile["current"] # Absent THEN {"current"}
    ELSE IF pidFile["legacy"] # Absent THEN {"legacy"} ELSE {}

(* `stop_daemon` with no file to stop changes nothing.                     *)
Stop(q) ==
    /\ CmdBegins(q)
    /\ \E f \in PidFileToStop : path' = [path EXCEPT ![q] = f]
    /\ CmdGoto(q, "read")
    /\ UNCHANGED <<processVars, pidFile, pid, pen>>

(* The file is gone, or holds no process ID: an error, and it stays.       *)
ReadPid(q) ==
    /\ cmdAt[q] = "read"
    /\ IF pidFile[path[q]] \in {Absent, Broken}
       THEN CmdEnds(q)
       ELSE /\ CmdGoto(q, "signal")
            /\ pid' = [pid EXCEPT ![q] = pidFile[path[q]]]
            /\ UNCHANGED <<path, alone>>
    /\ UNCHANGED <<processVars, pidFile, pen, begun, last>>

(* SIGTERM to whatever runs under that ID.                                 *)
SignalPid(q) ==
    /\ cmdAt[q] = "signal"
    /\ IF IsRunning(pid[q])
       THEN Signalled(pid[q]) /\ Forget(pid[q])
       ELSE UNCHANGED <<processVars, last>>
    /\ CmdGoto(q, "unlink")
    /\ UNCHANGED <<pidFile, path, pid, pen, alone, begun>>

(* The file at the path is removed, by whomever it was written.            *)
UnlinkPid(q) ==
    /\ cmdAt[q] = "unlink"
    /\ pidFile' = [pidFile EXCEPT ![path[q]] = Absent]
    /\ pen' = IF path[q] = "current"
              THEN [p \in Cmds |-> IF pen[p] = "up" THEN "up" ELSE "lost"] ELSE pen
    /\ CmdEnds(q)
    /\ UNCHANGED <<processVars, begun, last>>

-----------------------------------------------------------------------------
(* `start_daemon` spawns the server.                                       *)
Start(q, r) ==
    /\ CmdBegins(q)
    /\ Begin(r, "server")
    /\ pid' = [pid EXCEPT ![q] = r]
    /\ CmdGoto(q, "create")
    /\ UNCHANGED <<pidFile, path, pen>>

(* `File::create` empties it, or fails; the server it spawned runs on.     *)
CreatePidFile(q) ==
    /\ cmdAt[q] = "create"
    /\ \/ /\ pidFile' = [pidFile EXCEPT !["current"] = Broken]
          /\ pen' = [pen EXCEPT ![q] = "down"]
          /\ CmdGoto(q, "write") /\ UNCHANGED <<path, pid, alone>>
       \/ CmdEnds(q) /\ UNCHANGED <<pidFile, pen>>
    /\ UNCHANGED <<processVars, begun, last>>

(* The ID is written.  Digits of two IDs that fall on each other can be    *)
(* any ID; to a file that was removed it goes nowhere.                     *)
WritePid(q) ==
    /\ cmdAt[q] = "write"
    /\ pidFile' \in {[pidFile EXCEPT !["current"] = written] :
            written \in CASE pen[q] = "down" -> {pid[q]}
                          [] pen[q] = "crossed" -> Runs
                          [] pen[q] = "lost" -> {pidFile["current"]}}
    /\ pen' = [p \in Cmds |-> IF p = q THEN "up"
                              ELSE IF pen[p] = "down" /\ pen[q] # "lost" THEN "crossed"
                              ELSE pen[p]]
    /\ last' = IF alone[q] THEN (IF IsRunning(pid[q]) THEN pid[q] ELSE Nobody) ELSE last
    /\ CmdEnds(q)
    /\ UNCHANGED <<processVars, begun>>

(* The write fails: the file is left empty.                                *)
WriteFails(q) ==
    /\ cmdAt[q] = "write"
    /\ pen' = [pen EXCEPT ![q] = "up"]
    /\ CmdEnds(q)
    /\ UNCHANGED <<processVars, pidFile, begun, last>>

-----------------------------------------------------------------------------
CmdStep(q) ==
    \/ Stop(q) \/ ReadPid(q) \/ SignalPid(q) \/ UnlinkPid(q)
    \/ \E r \in Runs : Start(q, r)
    \/ CreatePidFile(q) \/ WritePid(q) \/ WriteFails(q)

(* A process ends, and its ID is free again.                               *)
RunEnds(r) == EndsByItself(r) \/ Signalled(r)

BeginRun(r) == OneMore /\ \E as \in {"command", "tui", "server"} : Begin(r, as)

Next ==
    \/ \E q \in Cmds : CmdStep(q)
    \/ \E r \in Runs : RunEnds(r) /\ Forget(r)
                       /\ UNCHANGED <<pidFile, cmdAt, path, pid, pen, alone, begun>>
    \/ \E r \in Runs : BeginRun(r) /\ UNCHANGED <<pidFile, cmdAt, path, pid, pen, alone, last>>
    \/ \E r \in Runs : RunStep(r) /\ UNCHANGED daemonVars
    \/ SidecarStep /\ UNCHANGED daemonVars

Spec == Init /\ [][Next]_vars

-----------------------------------------------------------------------------
(* Every variable has a value the code can give it.                        *)
TypeOK ==
    /\ SidecarTypeOK
    /\ pidFile \in [Paths -> Runs \union {Absent, Broken}]
    /\ cmdAt \in [Cmds -> {"idle", "read", "signal", "unlink", "create", "write"}]
    /\ path \in [Cmds -> Paths]
    /\ pid \in [Cmds -> Runs \union {Nobody}]
    /\ pen \in [Cmds -> {"up", "down", "crossed", "lost"}]
    /\ begun \in 0..MaxBegun
    /\ alone \in [Cmds -> BOOLEAN]
    /\ last \in Runs \union {Nobody}

(* What the three properties below say of a step.                          *)
EndsClean ==
    \A r \in Runs : EndsByItself(r) /\ (\A c, d \in Started(r) : c = d) =>
        \A c \in Started(r) : Alive(c)' => c \in kept'

StopsOwn ==
    \A r \in Runs : IsRunning(r) /\ at'[r] # at[r] =>
        \A c \in Children : Alive(c) /\ ~Alive(c)' => owner[c] = r

StopsLast ==
    \A q \in Cmds : cmdAt[q] = "unlink" /\ cmdAt'[q] = "idle" /\ alone[q] => last' = Nobody

(* A run that ends by itself leaves no sidecar of its own behind, unless   *)
(* its user kept it: whoever won the address, and however the start went.  *)
(* A TUI that started two, as it can after `setup`, holds the second only. *)
EndedLeavesNoSidecar == [][EndsClean]_vars

(* No run stops a sidecar that another run started, though that one may be *)
(* what answered it.                                                       *)
StopsOnlyItsOwn == [][StopsOwn]_vars

(* A stop that runs by itself ends the server of the last start that ran   *)
(* by itself, unless it says that the file is no good.                     *)
StopEndsLastDaemon == [][StopsLast]_vars

(* What main.rs says of the web server, "a sidecar it started stops with   *)
(* it": no sidecar that a server started runs on when it has ended.        *)
SidecarStopsWithServer ==
    [][\A r \in Runs : at[r] = "serve" /\ ~IsRunning(r)' =>
         \A c \in Started(r) : ~Alive(c)']_vars
=============================================================================
