-------------------------- MODULE WebDaemonProofs --------------------------
(***************************************************************************)
(* Proofs about WebDaemon, for any number of processes, polls and builds:  *)
(* a run stops only its own sidecars and, ending by itself, leaves none;   *)
(* a stop of the daemon ends the last one started.                         *)
(*                                                                         *)
(* The invariant ties what a run holds to what it started (Holds), every   *)
(* sidecar of a run that lives to what the run holds (Known), and the last *)
(* server started to the PID file and to the stop that is under way        *)
(* (Named).                                                                *)
(***************************************************************************)
EXTENDS WebDaemon, TLAPS

(* What a run holds is a sidecar that it started.                          *)
Holds ==
    \A r \in Runs :
        /\ waiting[r] # NoChild => waiting[r] \in Children /\ owner[waiting[r]] = r
        /\ spawned[r] # NoChild => spawned[r] \in Children /\ owner[spawned[r]] = r
        /\ at[r] \in {"probe", "reap"} <=> waiting[r] # NoChild
        /\ at[r] = "ask" => spawned[r] # NoChild

(* A sidecar that lives is waited for, or its run holds this one or a      *)
(* later one.                                                              *)
Known ==
    \A r \in Runs, c \in Children :
        owner[c] = r /\ Alive(c) => c = waiting[r] \/ spawned[r] # NoChild

SidecarInv == SidecarTypeOK /\ Holds /\ Known

(* A command that began alone is alone, and the last server started is the *)
(* one that the PID file and a stop under way name.                        *)
Named ==
    /\ \A q \in Cmds : cmdAt[q] = "signal" => pid[q] \in Runs
    /\ \A q \in Cmds : cmdAt[q] \in {"create", "write"} => pid[q] \in Runs
    /\ \A q \in Cmds : alone[q] => cmdAt[q] # "idle" /\ \A p \in Cmds \ {q} : cmdAt[p] = "idle"
    /\ last # Nobody =>
          /\ IsRunning(last) /\ pidFile["current"] \in {last, Broken}
          /\ \A q \in Cmds : cmdAt[q] # "idle" => alone[q]
          /\ \A q \in Cmds :
                /\ cmdAt[q] # "unlink"
                /\ cmdAt[q] = "read" => path[q] = "current"
                /\ cmdAt[q] = "signal" => pid[q] = last
    /\ \A q \in Cmds : cmdAt[q] = "write" => pen[q] # "up" /\ (alone[q] => pen[q] = "down")

DaemonInv == TypeOK /\ Holds /\ Known /\ Named

-----------------------------------------------------------------------------
(* A step of run r that is none of the others', on sidecars and runs.      *)
ProcessStep ==
    \/ \E r \in Runs : \/ \E k \in {"command", "tui", "server"} : Begin(r, k)
                       \/ RunStep(r) \/ EndsByItself(r) \/ Signalled(r)
    \/ SidecarStep

(* Every step of the daemon's commands is such a step, or leaves the       *)
(* processes alone.                                                        *)
LEMMA NextIsProcessStep ==
    ASSUME Named, Next
    PROVE  ProcessStep \/ UNCHANGED processVars
<1> USE DEF ProcessStep
<1>1. ASSUME NEW q \in Cmds, CmdStep(q) PROVE ProcessStep \/ UNCHANGED processVars
  <2>1. CASE SignalPid(q)
    BY <2>1 DEF SignalPid, Named
  <2>2. CASE \E r \in Runs : Start(q, r)
    BY <2>2 DEF Start
  <2> QED
    BY <1>1, <2>1, <2>2 DEF CmdStep, Stop, ReadPid, UnlinkPid, CreatePidFile, WritePid, WriteFails
<1> QED
  BY <1>1 DEF Next, RunEnds, BeginRun

-----------------------------------------------------------------------------
(* The invariant of the processes, step by step.                           *)
LEMMA SidecarInvInit == SidecarInit => SidecarInv
  BY PollsAssumption, NamesAssumption
  DEF SidecarInit, SidecarInv, SidecarTypeOK, Holds, Known, Alive

LEMMA SidecarInvStep ==
    ASSUME SidecarInv, ProcessStep
    PROVE  SidecarInv'
<1> USE PollsAssumption, NamesAssumption
    DEF SidecarInv, SidecarTypeOK, Holds, Known, Alive, Goto, sidecarVars, runVars
<1>1. ASSUME NEW r \in Runs, NEW k \in {"command", "tui", "server"}, Begin(r, k)
      PROVE  SidecarInv'
  <2>1. SidecarTypeOK'
    BY <1>1 DEF Begin, IsRunning
  <2>2. Holds'
    BY <1>1 DEF Begin, IsRunning
  <2>3. Known'
    BY <1>1 DEF Begin, IsRunning
  <2> QED
    BY <2>1, <2>2, <2>3
<1>2. ASSUME NEW r \in Runs, ConnectAtOnce(r) PROVE SidecarInv'
  BY <1>2 DEF ConnectAtOnce, AfterBuild
<1>3. ASSUME NEW r \in Runs, Offer(r) PROVE SidecarInv'
  BY <1>3 DEF Offer
<1>4. ASSUME NEW r \in Runs, AnswerOffer(r) PROVE SidecarInv'
  BY <1>4 DEF AnswerOffer
<1>5. ASSUME NEW r \in Runs, NEW c \in Children, StartSidecar(r, c) PROVE SidecarInv'
  BY <1>5 DEF StartSidecar
<1>6. ASSUME NEW r \in Runs, ProbeAnswered(r) PROVE SidecarInv'
  BY <1>6 DEF ProbeAnswered, Recorded, PollsEnd, AfterBuild
<1>7. ASSUME NEW r \in Runs, ProbeUnanswered(r) PROVE SidecarInv'
  BY <1>7 DEF ProbeUnanswered
<1>8. ASSUME NEW r \in Runs, ReapExited(r) PROVE SidecarInv'
  BY <1>8 DEF ReapExited, PollsEnd, AfterBuild
<1>9. ASSUME NEW r \in Runs, PollAgain(r) PROVE SidecarInv'
  BY <1>9 DEF PollAgain
<1>10. ASSUME NEW r \in Runs, TimeOut(r) PROVE SidecarInv'
  BY <1>10 DEF TimeOut, Kill, PollsEnd, AfterBuild
<1>11. ASSUME NEW r \in Runs, Reload(r) \/ Serve(r) PROVE SidecarInv'
  BY <1>11 DEF Reload, Serve
<1>12. ASSUME NEW r \in Runs, AskToStop(r) PROVE SidecarInv'
  BY <1>12 DEF AskToStop, Over, HoldsOne
<1>13. ASSUME NEW r \in Runs, FinishWithNone(r) PROVE SidecarInv'
  BY <1>13 DEF FinishWithNone, Gone
<1>14. ASSUME NEW r \in Runs, Keep(r) PROVE SidecarInv'
  BY <1>14 DEF Keep, Gone, HoldsOne
<1>15. ASSUME NEW r \in Runs, StopSpawned(r) PROVE SidecarInv'
  BY <1>15 DEF StopSpawned, Kill, Gone, HoldsOne
<1>16. ASSUME NEW r \in Runs, Signalled(r) PROVE SidecarInv'
  BY <1>16 DEF Signalled, Gone
<1>17. ASSUME NEW c \in Children, Bind(c) PROVE SidecarInv'
  BY <1>17 DEF Bind
<1>18. ASSUME NEW c \in Children, Crash(c) PROVE SidecarInv'
  BY <1>18 DEF Crash, Kill
<1> QED
  BY <1>1, <1>2, <1>3, <1>4, <1>5, <1>6, <1>7, <1>8, <1>9, <1>10, <1>11, <1>12, <1>13, <1>14,
     <1>15, <1>16, <1>17, <1>18 DEF ProcessStep, RunStep, EndsByItself, SidecarStep

-----------------------------------------------------------------------------
(* A command that begins: whether it is alone, and which server was last.  *)
LEMMA BeginsTyped ==
    ASSUME TypeOK, NEW q \in Cmds, CmdBegins(q)
    PROVE  /\ begun' \in 0..MaxBegun
           /\ alone' \in [Cmds -> BOOLEAN]
           /\ last' \in Runs \union {Nobody}
<1>1. begun' \in 0..MaxBegun
  BY PidAssumption DEF TypeOK, CmdBegins, OneMore
<1>2. CASE \A p \in Cmds : cmdAt[p] = "idle"
  BY <1>1, <1>2 DEF TypeOK, CmdBegins
<1>3. CASE ~\A p \in Cmds : cmdAt[p] = "idle"
  BY <1>1, <1>3 DEF TypeOK, CmdBegins
<1> QED
  BY <1>2, <1>3

(* The type invariant, for the steps of the daemon's commands.             *)
LEMMA TypeStep ==
    ASSUME DaemonInv, SidecarInv', Next
    PROVE  TypeOK'
<1> USE PidAssumption DEF TypeOK, DaemonInv, SidecarInv, daemonVars, CmdGoto, CmdEnds, Forget,
        CmdBegins, OneMore, Paths
<1>1. ASSUME NEW q \in Cmds, Stop(q) PROVE TypeOK'
  <2>1. path' \in [Cmds -> Paths] /\ cmdAt' = [cmdAt EXCEPT ![q] = "read"]
        /\ CmdBegins(q) /\ UNCHANGED <<processVars, pidFile, pid, pen>>
    BY <1>1 DEF Stop, PidFileToStop
  <2> HIDE DEF CmdBegins
  <2> QED
    BY <2>1, BeginsTyped
<1>2. ASSUME NEW q \in Cmds, ReadPid(q) PROVE TypeOK'
  <2>1. TypeOK /\ UNCHANGED <<processVars, pidFile, pen, begun, last>> /\ SidecarTypeOK'
    BY <1>2 DEF ReadPid
  <2>2. path[q] \in Paths
    BY <2>1
  <2>3. CASE pidFile[path[q]] \in {Absent, Broken}
    <3>1. CmdEnds(q)
      BY <1>2, <2>3 DEF ReadPid
    <3> QED
      BY <2>1, <3>1
  <2>4. CASE pidFile[path[q]] \notin {Absent, Broken}
    <3>1. /\ cmdAt' = [cmdAt EXCEPT ![q] = "signal"]
          /\ pid' = [pid EXCEPT ![q] = pidFile[path[q]]] /\ UNCHANGED <<path, alone>>
      BY <1>2, <2>4 DEF ReadPid
    <3>2. pid' \in [Cmds -> Runs \union {Nobody}]
      BY <2>1, <2>2, <2>4, <3>1
    <3> QED
      BY <2>1, <3>1, <3>2
  <2> QED
    BY <2>3, <2>4
<1>3. ASSUME NEW q \in Cmds, SignalPid(q) PROVE TypeOK'
  BY <1>3 DEF SignalPid
<1>4. ASSUME NEW q \in Cmds, UnlinkPid(q) PROVE TypeOK'
  BY <1>4 DEF UnlinkPid
<1>5. ASSUME NEW q \in Cmds, NEW r \in Runs, Start(q, r) PROVE TypeOK'
  <2> HIDE DEF CmdBegins
  <2> QED
    BY <1>5, BeginsTyped DEF Start
<1>6. ASSUME NEW q \in Cmds, CreatePidFile(q) PROVE TypeOK'
  BY <1>6 DEF CreatePidFile
<1>7. ASSUME NEW q \in Cmds, WritePid(q) PROVE TypeOK'
  <2>1. PICK written \in Runs \union {Absent, Broken} :
            pidFile' = [pidFile EXCEPT !["current"] = written]
    <3>1. CASE pen[q] = "down"
      BY <1>7, <3>1 DEF WritePid, Named
    <3>2. CASE pen[q] = "crossed"
      BY <1>7, <3>2 DEF WritePid
    <3>3. CASE pen[q] = "lost"
      BY <1>7, <3>3 DEF WritePid
    <3>4. pen[q] \in {"up", "down", "crossed", "lost"} /\ pen[q] # "up"
      BY <1>7 DEF WritePid, Named
    <3> QED
      BY <3>1, <3>2, <3>3, <3>4
  <2> QED
    BY <1>7, <2>1 DEF WritePid
<1>8. ASSUME NEW q \in Cmds, WriteFails(q) PROVE TypeOK'
  BY <1>8 DEF WriteFails
<1> QED
  BY <1>1, <1>2, <1>3, <1>4, <1>5, <1>6, <1>7, <1>8 DEF Next, CmdStep, BeginRun

LEMMA NamedStep ==
    ASSUME DaemonInv, Next
    PROVE  Named'
<1> USE PidAssumption, NamesAssumption
    DEF TypeOK, SidecarTypeOK, DaemonInv, Named, daemonVars, processVars, sidecarVars, runVars,
        CmdGoto, CmdEnds, Forget, CmdBegins, OneMore, Paths, IsRunning
<1>1. ASSUME NEW q \in Cmds, Stop(q) PROVE Named'
  <2>1. CASE \A p \in Cmds : cmdAt[p] = "idle"
    <3>1. last # Nobody => path'[q] = "current"
      BY <1>1 DEF Stop, PidFileToStop
    <3>2. /\ cmdAt' = [cmdAt EXCEPT ![q] = "read"] /\ alone' = [alone EXCEPT ![q] = TRUE]
          /\ UNCHANGED <<last, pidFile, pid, pen, at>>
      BY <1>1, <2>1 DEF Stop
    <3> QED
      BY <2>1, <3>1, <3>2
  <2>2. CASE ~\A p \in Cmds : cmdAt[p] = "idle"
    BY <1>1, <2>2 DEF Stop, PidFileToStop
  <2> QED
    BY <2>1, <2>2
<1>2. ASSUME NEW q \in Cmds, ReadPid(q) PROVE Named'
  BY <1>2 DEF ReadPid
<1>3. ASSUME NEW q \in Cmds, SignalPid(q) PROVE Named'
  BY <1>3 DEF SignalPid, Signalled, Gone, Goto
<1>4. ASSUME NEW q \in Cmds, UnlinkPid(q) PROVE Named'
  BY <1>4 DEF UnlinkPid
<1>5. ASSUME NEW q \in Cmds, NEW r \in Runs, Start(q, r) PROVE Named'
  BY <1>5 DEF Start, Begin, Goto
<1>6. ASSUME NEW q \in Cmds, CreatePidFile(q) PROVE Named'
  BY <1>6 DEF CreatePidFile
<1>7. ASSUME NEW q \in Cmds, WritePid(q) PROVE Named'
  BY <1>7 DEF WritePid
<1>8. ASSUME NEW q \in Cmds, WriteFails(q) PROVE Named'
  BY <1>8 DEF WriteFails
<1>9. ASSUME NEW r \in Runs, RunEnds(r), Forget(r),
             UNCHANGED <<pidFile, cmdAt, path, pid, pen, alone, begun>>
      PROVE  Named'
  BY <1>9 DEF RunEnds, EndsByItself, FinishWithNone, Keep, StopSpawned, Signalled, Gone, Goto
<1>10. ASSUME NEW r \in Runs, BeginRun(r),
              UNCHANGED <<pidFile, cmdAt, path, pid, pen, alone, last>>
       PROVE  Named'
  BY <1>10 DEF BeginRun, Begin, Goto
<1>11. ASSUME NEW r \in Runs, RunStep(r), UNCHANGED daemonVars PROVE Named'
  <2>1. \A p \in Runs : IsRunning(p) => IsRunning(p)'
    BY <1>11 DEF RunStep, ConnectAtOnce, Offer, AnswerOffer, StartSidecar, ProbeAnswered,
       ProbeUnanswered, ReapExited, PollAgain, TimeOut, Reload, Serve, AskToStop, PollsEnd,
       AfterBuild, Goto
  <2> QED
    BY <1>11, <2>1
<1>12. ASSUME SidecarStep, UNCHANGED daemonVars PROVE Named'
  BY <1>12 DEF SidecarStep, Bind, Crash
<1> QED
  BY <1>1, <1>2, <1>3, <1>4, <1>5, <1>6, <1>7, <1>8, <1>9, <1>10, <1>11, <1>12 DEF Next, CmdStep

LEMMA DaemonInvariant == Spec => []DaemonInv
<1>1. Init => DaemonInv
  BY SidecarInvInit, PidAssumption, NamesAssumption
  DEF Init, DaemonInv, TypeOK, Named, SidecarInv, Paths
<1>2. DaemonInv /\ [Next]_vars => DaemonInv'
  <2> SUFFICES ASSUME DaemonInv, [Next]_vars PROVE DaemonInv'
    OBVIOUS
  <2>1. CASE UNCHANGED vars
    BY <2>1 DEF vars, processVars, sidecarVars, runVars, daemonVars, DaemonInv, TypeOK,
       SidecarTypeOK, Holds, Known, Named, Alive, IsRunning
  <2>2. CASE Next
    <3>1. SidecarInv
      BY DEF DaemonInv, SidecarInv, TypeOK
    <3>2. SidecarInv'
      <4>1. CASE ProcessStep
        BY <3>1, <4>1, SidecarInvStep
      <4>2. CASE UNCHANGED processVars
        BY <3>1, <4>2 DEF processVars, sidecarVars, runVars, SidecarInv, SidecarTypeOK, Holds,
           Known, Alive
      <4> QED
        BY <2>2, <4>1, <4>2, NextIsProcessStep DEF DaemonInv
    <3> QED
      BY <2>2, <3>2, TypeStep, NamedStep DEF DaemonInv, SidecarInv
  <2> QED
    BY <2>1, <2>2
<1> QED
  BY <1>1, <1>2, PTL DEF Spec

-----------------------------------------------------------------------------
(* A run that ends by itself leaves no sidecar of its own, unless it was   *)
(* kept: what lives and is not waited for is the one the run holds.        *)
THEOREM EndsLeaveNone == Spec => EndedLeavesNoSidecar
<1>1. DaemonInv /\ [Next]_vars => [EndsClean]_vars
  <2> SUFFICES ASSUME DaemonInv, NEW r \in Runs, EndsByItself(r),
                      \A c, d \in Started(r) : c = d,
                      NEW c \in Started(r), Alive(c)'
               PROVE  c \in kept'
    BY DEF EndsClean
  <2> USE DEF DaemonInv, TypeOK, SidecarTypeOK, Holds, Known, Started, Alive
  <2>1. waiting[r] = NoChild
    BY DEF EndsByItself, FinishWithNone, Keep, StopSpawned, Over
  <2>2. Alive(c) => spawned[r] = c
    BY <2>1, NamesAssumption
  <2>3. Alive(c)
    BY DEF EndsByItself, FinishWithNone, Keep, StopSpawned, Kill
  <2>4. HoldsOne(r)
    BY <2>2, <2>3 DEF HoldsOne
  <2>5. Keep(r)
    BY <2>2, <2>3, <2>4 DEF EndsByItself, FinishWithNone, StopSpawned, Kill
  <2> QED
    BY <2>2, <2>3, <2>4, <2>5 DEF Keep
<1> QED
  BY <1>1, DaemonInvariant, PTL DEF Spec, EndedLeavesNoSidecar

(* No run stops a sidecar that it did not start.                           *)
THEOREM OwnIsStopped == Spec => StopsOnlyItsOwn
<1>1. DaemonInv /\ [Next]_vars => [StopsOwn]_vars
  <2> SUFFICES ASSUME DaemonInv, Next, NEW r \in Runs, at'[r] # at[r],
                      NEW c \in Children, Alive(c), ~Alive(c)', IsRunning(r)
               PROVE  owner[c] = r
    BY DEF StopsOwn
  <2> USE DEF DaemonInv, TypeOK, SidecarTypeOK, Alive
  <2>1. ProcessStep
    BY NextIsProcessStep DEF processVars, runVars
  <2>2. \E p \in Runs : TimeOut(p) \/ StopSpawned(p)
    BY <2>1 DEF ProcessStep, Begin, RunStep, ConnectAtOnce, Offer, AnswerOffer, StartSidecar,
       ProbeAnswered, ProbeUnanswered, ReapExited, PollAgain, Reload, Serve, AskToStop,
       EndsByItself, FinishWithNone, Keep, Signalled, SidecarStep, Bind, Crash, sidecarVars,
       runVars
  <2>3. PICK p \in Runs : TimeOut(p) \/ StopSpawned(p)
    BY <2>2
  <2>4. p = r
    BY <2>3 DEF TimeOut, StopSpawned, PollsEnd, AfterBuild, Gone, Goto
  <2>5. c \in {waiting[p], spawned[p]} /\ c # NoChild
    BY <2>3, NamesAssumption DEF TimeOut, StopSpawned, Kill
  <2> QED
    BY <2>4, <2>5 DEF Holds
<1> QED
  BY <1>1, DaemonInvariant, PTL DEF Spec, StopsOnlyItsOwn

(* A stop that runs alone has ended the last server when it is over.       *)
THEOREM StopEndsIt == Spec => StopEndsLastDaemon
<1>1. DaemonInv /\ [Next]_vars => [StopsLast]_vars
  <2> SUFFICES ASSUME DaemonInv, Next, NEW q \in Cmds,
                      cmdAt[q] = "unlink", cmdAt'[q] = "idle", alone[q]
               PROVE  last' = Nobody
    BY DEF StopsLast
  <2>1. last = Nobody
    BY DEF DaemonInv, Named
  <2>2. CASE UnlinkPid(q)
    BY <2>1, <2>2 DEF UnlinkPid
  <2>3. CASE last' = last
    BY <2>1, <2>3
  <2>4. ASSUME NEW r \in Runs, Forget(r) PROVE last' = Nobody
    BY <2>1, <2>4 DEF Forget
  <2>5. ASSUME NEW p \in Cmds, WritePid(p) PROVE last' = Nobody
    <3>1. p # q /\ UNCHANGED last
      BY <2>5 DEF WritePid, DaemonInv, TypeOK, Named
    <3> QED
      BY <2>1, <3>1
  <2>6. ASSUME NEW p \in Cmds, CmdBegins(p) PROVE last' = Nobody
    BY <2>1, <2>6 DEF CmdBegins
  <2>7. ASSUME NEW p \in Cmds, SignalPid(p) PROVE last' = Nobody
    BY <2>1, <2>7 DEF SignalPid, Forget
  <2> QED
    BY <2>3, <2>4, <2>5, <2>6, <2>7 DEF Next, CmdStep, Stop, ReadPid, UnlinkPid, Start,
       CreatePidFile, WriteFails, daemonVars
<1> QED
  BY <1>1, DaemonInvariant, PTL DEF Spec, StopEndsLastDaemon
=============================================================================
