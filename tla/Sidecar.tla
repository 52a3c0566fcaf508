------------------------------ MODULE Sidecar ------------------------------
(***************************************************************************)
(* The ghola sidecar, one HTTP proxy process that all scope processes of a *)
(* machine share: who starts it, who stops it, and when                    *)
(* (crates/scope-core/src/http/ghola.rs and shared.rs,                     *)
(* crates/scope-cli/src/cli/ghola_offer.rs and dispatch.rs,                *)
(* crates/scope-web/src/main.rs).                                          *)
(*                                                                         *)
(* A run connects to the sidecar that answers on the fixed address, or     *)
(* starts one and polls the address.  Any answer counts, also that of a    *)
(* sidecar which another run started meanwhile.  At its end a run stops    *)
(* the one it holds in SPAWNED, or keeps it when its user says so.  Which  *)
(* transport a build ends with is left out: nothing here depends on it.    *)
(***************************************************************************)
EXTENDS Naturals

CONSTANTS
    Runs,       \* process IDs of scope processes; one that is free is used again
    Children,   \* process IDs of sidecars, likewise
    NoChild, Nobody,
    MaxPolls,   \* polls of the address before SPAWN_TIMEOUT
    MaxBuilds   \* bound of the model: transports one run builds

ASSUME PollsAssumption == MaxPolls \in Nat /\ MaxBuilds \in Nat
ASSUME NamesAssumption == NoChild \notin Children /\ Nobody \notin Runs

VARIABLES
    child,      \* each sidecar: "none", "starting", or "serving" on the address
    owner,      \* the run that started it, while that run lives
    kept,       \* history: sidecars whose run ended with the answer "no, do not stop it"
    ghola,      \* the binary: "installed", "missing", or "declined": missing, and the
                \* offer to install it was answered with no (ghola-declined is there)
    at,         \* what each run does next; "none": it does not run
    kind,       \* "command", "tui" or "server": the web server
    waiting,    \* `child` of start_sidecar
    polls,      \* polls it has made
    spawned,    \* SPAWNED
    builds      \* transports it has begun to build

sidecarVars == <<child, owner, kept, ghola>>
runVars     == <<at, kind, waiting, polls, spawned, builds>>
processVars == <<sidecarVars, runVars>>

IsRunning(r) == at[r] # "none"
Alive(c)     == child[c] \in {"starting", "serving"}
Answers      == \E c \in Children : child[c] = "serving"        \* is_bridge_running
Started(r)   == {c \in Children : owner[c] = r}

Goto(r, where) == at' = [at EXCEPT ![r] = where]

(* The transport is built: a command runs, the web server binds.           *)
AfterBuild(r) == Goto(r, IF kind[r] = "server" THEN "bind" ELSE "work")

PollsEnd(r) ==
    /\ waiting' = [waiting EXCEPT ![r] = NoChild]
    /\ polls' = [polls EXCEPT ![r] = 0]
    /\ AfterBuild(r)

Kill(c) == /\ child' = [child EXCEPT ![c] = "none"]
           /\ kept' = kept \ {c}

(* The process ends; its sidecars are nobody's.                            *)
Gone(r) ==
    /\ Goto(r, "none")
    /\ owner' = [c \in Children |-> IF owner[c] = r THEN Nobody ELSE owner[c]]
    /\ waiting' = [waiting EXCEPT ![r] = NoChild]
    /\ spawned' = [spawned EXCEPT ![r] = NoChild]
    /\ polls' = [polls EXCEPT ![r] = 0]
    /\ builds' = [builds EXCEPT ![r] = 0]
    /\ kind' = [kind EXCEPT ![r] = "none"]

-----------------------------------------------------------------------------
SidecarInit ==
    /\ child = [c \in Children |-> "none"]
    /\ owner = [c \in Children |-> Nobody]
    /\ kept = {}
    /\ ghola \in {"installed", "missing", "declined"}
    /\ at = [r \in Runs |-> "none"]
    /\ kind = [r \in Runs |-> "none"]
    /\ waiting = [r \in Runs |-> NoChild]
    /\ polls = [r \in Runs |-> 0]
    /\ spawned = [r \in Runs |-> NoChild]
    /\ builds = [r \in Runs |-> 0]

(* A process starts, and builds its transport first.                       *)
Begin(r, as) ==
    /\ ~IsRunning(r)
    /\ Goto(r, "build")
    /\ kind' = [kind EXCEPT ![r] = as]
    /\ UNCHANGED <<sidecarVars, waiting, polls, spawned, builds>>

(* The sidecar binds the address, or finds it taken and exits.             *)
Bind(c) ==
    /\ child[c] = "starting"
    /\ child' = [child EXCEPT ![c] = IF Answers THEN "none" ELSE "serving"]
    /\ kept' = IF Answers THEN kept \ {c} ELSE kept
    /\ UNCHANGED <<owner, ghola, runVars>>

Crash(c) ==
    /\ Alive(c) /\ Kill(c)
    /\ UNCHANGED <<owner, ghola, runVars>>

-----------------------------------------------------------------------------
(* `connect_sidecar` without a start: the settings do not ask for ghola, a *)
(* sidecar answers, or the binary does not run.                            *)
ConnectAtOnce(r) ==
    /\ at[r] = "build" /\ builds[r] < MaxBuilds
    /\ AfterBuild(r)
    /\ builds' = [builds EXCEPT ![r] = @ + 1]
    /\ UNCHANGED <<sidecarVars, kind, waiting, polls, spawned>>

(* No sidecar answers and ghola is not installed: a command that may ask   *)
(* offers to install it, unless it was declined before.                    *)
Offer(r) ==
    /\ at[r] = "build" /\ builds[r] + 1 < MaxBuilds
    /\ kind[r] = "command" /\ ~Answers /\ ghola = "missing"
    /\ Goto(r, "offer")
    /\ builds' = [builds EXCEPT ![r] = @ + 1]
    /\ UNCHANGED <<sidecarVars, kind, waiting, polls, spawned>>

(* `offer_once`: a no is remembered, where it can be written, and so is an *)
(* install that fails, but no question that could not be asked; after an   *)
(* install the transport is built again.                                   *)
AnswerOffer(r) ==
    /\ at[r] = "offer"
    /\ \/ Goto(r, "build") /\ ghola' = "installed"
       \/ Goto(r, "work") /\ ghola' \in {"declined", ghola}
    /\ UNCHANGED <<child, owner, kept, kind, waiting, polls, spawned, builds>>

(* `start_sidecar` spawns `ghola --serve`.                                 *)
StartSidecar(r, c) ==
    /\ at[r] = "build" /\ builds[r] < MaxBuilds
    /\ ~Answers /\ ghola = "installed"
    /\ ~Alive(c) /\ \A q \in Runs : c \notin {waiting[q], spawned[q]}
    /\ child' = [child EXCEPT ![c] = "starting"]
    /\ owner' = [owner EXCEPT ![c] = r]
    /\ waiting' = [waiting EXCEPT ![r] = c]
    /\ builds' = [builds EXCEPT ![r] = @ + 1]
    /\ Goto(r, "probe")
    /\ UNCHANGED <<kept, ghola, kind, polls, spawned>>

(* Variant: the sidecar that answers is taken for the one it started.      *)
WhichAnswers(r) == {c \in Children : child[c] = "serving"}

Recorded(r) == {waiting[r]}

(* Something answers: the child is recorded, over one recorded before.     *)
ProbeAnswered(r) ==
    /\ at[r] = "probe" /\ Answers
    /\ \E c \in Recorded(r) : spawned' = [spawned EXCEPT ![r] = c]
    /\ PollsEnd(r)
    /\ UNCHANGED <<sidecarVars, kind, builds>>

ProbeUnanswered(r) ==
    /\ at[r] = "probe" /\ ~Answers
    /\ Goto(r, "reap")
    /\ UNCHANGED <<sidecarVars, kind, waiting, polls, spawned, builds>>

(* `try_wait`: the child has exited, and the start fails.                  *)
ReapExited(r) ==
    /\ at[r] = "reap" /\ ~Alive(waiting[r])
    /\ PollsEnd(r)
    /\ UNCHANGED <<sidecarVars, kind, spawned, builds>>

(* It has not exited, and there is time left.                              *)
PollAgain(r) ==
    /\ at[r] = "reap" /\ Alive(waiting[r]) /\ polls[r] < MaxPolls
    /\ polls' = [polls EXCEPT ![r] = @ + 1]
    /\ Goto(r, "probe")
    /\ UNCHANGED <<sidecarVars, kind, waiting, spawned, builds>>

(* Variant: the child that timed out is left alone.                        *)
TimeOutOnly(r) ==
    /\ at[r] = "reap" /\ Alive(waiting[r]) /\ polls[r] >= MaxPolls
    /\ PollsEnd(r)
    /\ UNCHANGED <<sidecarVars, kind, spawned, builds>>

(* The time is up: the child is killed and waited for.                     *)
TimeOut(r) ==
    /\ at[r] = "reap" /\ Alive(waiting[r]) /\ polls[r] >= MaxPolls
    /\ Kill(waiting[r])
    /\ PollsEnd(r)
    /\ UNCHANGED <<owner, ghola, kind, spawned, builds>>

-----------------------------------------------------------------------------
(* The TUI builds its transport again after `setup`.                       *)
Reload(r) ==
    /\ at[r] = "work" /\ kind[r] = "tui" /\ builds[r] < MaxBuilds
    /\ Goto(r, "build")
    /\ UNCHANGED <<sidecarVars, kind, waiting, polls, spawned, builds>>

Serve(r) ==
    /\ at[r] = "bind"
    /\ Goto(r, "serve")
    /\ UNCHANGED <<sidecarVars, kind, waiting, polls, spawned, builds>>

(* The command has ended, well or not, or the server could not bind.       *)
Over(r) == at[r] \in {"work", "bind"}

(* `spawned_sidecar`: this run started one, and it has not exited.         *)
HoldsOne(r) == spawned[r] \in {c \in Children : Alive(c)}

FinishWithNone(r) ==
    /\ Over(r) /\ ~HoldsOne(r)
    /\ Gone(r)
    /\ UNCHANGED <<child, kept, ghola>>

(* A command that may ask has a question, for 15 seconds.                  *)
AskToStop(r) ==
    /\ Over(r) /\ HoldsOne(r) /\ kind[r] # "server"
    /\ Goto(r, "ask")
    /\ UNCHANGED <<sidecarVars, kind, waiting, polls, spawned, builds>>

Keep(r) ==
    /\ at[r] = "ask"
    /\ Gone(r)
    /\ kept' = IF HoldsOne(r) THEN kept \union {spawned[r]} ELSE kept
    /\ UNCHANGED <<child, ghola>>

(* `stop_spawned_sidecar`: no question, no answer in time, or not a "no".  *)
StopSpawned(r) ==
    /\ \/ Over(r) /\ HoldsOne(r)
       \/ at[r] = "ask"
    /\ Kill(spawned[r])
    /\ Gone(r)
    /\ UNCHANGED ghola

(* A signal ends the process where it is; nothing after that runs.         *)
Signalled(r) ==
    /\ IsRunning(r)
    /\ Gone(r)
    /\ UNCHANGED <<child, kept, ghola>>

-----------------------------------------------------------------------------
(* A run ends, not by a signal.                                            *)
EndsByItself(r) == FinishWithNone(r) \/ Keep(r) \/ StopSpawned(r)

(* What else it does.                                                      *)
RunStep(r) ==
    \/ ConnectAtOnce(r) \/ Offer(r) \/ AnswerOffer(r)
    \/ \E c \in Children : StartSidecar(r, c)
    \/ ProbeAnswered(r) \/ ProbeUnanswered(r)
    \/ ReapExited(r) \/ PollAgain(r) \/ TimeOut(r)
    \/ Reload(r) \/ Serve(r) \/ AskToStop(r)

SidecarStep == \E c \in Children : Bind(c) \/ Crash(c)

-----------------------------------------------------------------------------
SidecarTypeOK ==
    /\ child \in [Children -> {"none", "starting", "serving"}]
    /\ owner \in [Children -> Runs \union {Nobody}]
    /\ kept \subseteq Children
    /\ ghola \in {"installed", "missing", "declined"}
    /\ at \in [Runs -> {"none", "build", "offer", "probe", "reap", "work", "bind", "serve", "ask"}]
    /\ kind \in [Runs -> {"none", "command", "tui", "server"}]
    /\ waiting \in [Runs -> Children \union {NoChild}]
    /\ spawned \in [Runs -> Children \union {NoChild}]
    /\ polls \in [Runs -> 0..MaxPolls]
    /\ builds \in [Runs -> 0..MaxBuilds]
=============================================================================
