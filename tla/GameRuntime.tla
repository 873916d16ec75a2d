----------------------------- MODULE GameRuntime -----------------------------
(***************************************************************************)
(* The game-runtime container: the restart policy docker applies to it,    *)
(* the entrypoint that validates the configuration, the control agent that *)
(* is its main process, the agent's HTTP handler threads and the one game  *)
(* process it supervises.  The dashboard appears as the Callers that talk  *)
(* to docker and to the agent, and as the writer of the override file and  *)
(* of the software in game/ (module GamePanel binds them to real requests).*)
(***************************************************************************)
EXTENDS Naturals

CONSTANTS
  Callers,   \* dashboard threads, each with at most one HTTP call in flight
  Software,  \* adapters the override file can name
  Invalid,   \* an override that config validation refuses
  None,
  Main,      \* the agent's main thread, beside its handler threads
  MaxKills   \* bound on external kills of the container (OOM, host restart)

ASSUME CallersAssumption  == Main \notin Callers
ASSUME SoftwareAssumption == Invalid \notin Software /\ None \notin Software
ASSUME KillsAssumption    == MaxKills \in Nat

VARIABLES
  override,    \* what instance_override.json resolves to
  launchable,  \* adapters whose launch_command() finds its files in game/
  docker,      \* is the container running?
  manual,      \* last stopped through the API: restart policy does not apply
  stopping,    \* docker stop / restart in progress
  agent,       \* where the entrypoint and the agent's main thread are
  term,        \* stop_event of main(), set by the SIGTERM handler
  software,    \* Supervisor.config: the adapter resolved when the agent began
  game,        \* Supervisor.process
  unreadable,  \* game/ holds saves the gamedata group cannot read
  stopper,     \* where each thread is inside graceful_stop()
  call,        \* each caller's HTTP call
  kills

vars == <<override, launchable, docker, manual, stopping, agent, term, software,
          game, unreadable, stopper, call, kills>>

files  == <<override, launchable>>
daemon == <<docker, manual, stopping, kills>>

AgentThreads == Callers \cup {Main}
Ops     == {"health", "command", "stop", "install", "fix_permissions"}
NoCall  == [op |-> "none", at |-> "idle"]
Calls   == [op : Ops \cup {"none"},
            at : {"idle", "sent", "serving", "orphan", "ok", "running", "error"}]

Stages ==
  {"off", "validate", "resolve", "fix", "launch", "bind", "hook", "loop", "drain", "close"}

TypeOK ==
  /\ override \in Software \cup {Invalid}
  /\ launchable \in SUBSET Software
  /\ docker \in {"exited", "running"}
  /\ manual \in BOOLEAN
  /\ stopping \in {"none", "stop", "restart"}
  /\ agent \in Stages
  /\ term \in BOOLEAN
  /\ software \in Software \cup {None}
  /\ game \in {"none", "up", "saving", "gone"}
  /\ unreadable \in BOOLEAN
  /\ stopper \in [AgentThreads -> {"out", "wait", "term", "fix", "done"}]
  /\ call \in [Callers -> Calls]
  /\ kills \in 0 .. MaxKills

\* Supervisor.is_running(): a child exists and poll() is None.
Running == game \in {"up", "saving"}

\* The HTTP server exists from its construction in main() until shutdown().
Listening == agent \in {"hook", "loop", "drain"}

Init ==
  /\ override \in Software \cup {Invalid}
  /\ launchable \in SUBSET Software
  /\ docker = "exited" /\ manual \in BOOLEAN /\ stopping = "none" /\ kills = 0
  /\ agent = "off" /\ term = FALSE /\ software = None /\ game = "none"
  /\ unreadable \in BOOLEAN
  /\ stopper = [p \in AgentThreads |-> "out"]
  /\ call = [c \in Callers |-> NoCall]

-----------------------------------------------------------------------------
(* The docker daemon. *)

\* A new container life: tini runs entrypoint.sh.
Boot ==
  /\ docker = "exited"
  /\ docker' = "running" /\ manual' = FALSE /\ stopping' = "none"
  /\ agent' = "validate"
  /\ UNCHANGED <<files, kills, term, software, game, unreadable, stopper, call>>

\* A connection that breaks: an error for a caller that still waits.
Broken(k) ==
  IF k.at \in {"sent", "serving"} THEN [k EXCEPT !.at = "error"]
  ELSE IF k.at = "orphan" THEN NoCall ELSE k

\* The main process is gone: every other process of the container is killed
\* with it, open connections break, and the API call that asked for it goes on
\* (restart) or returns (stop).
ContainerExits(request) ==
  /\ docker' = "exited"
  /\ stopping' = IF request = "restart" THEN "restart" ELSE "none"
  /\ agent' = "off" /\ term' = FALSE /\ software' = None /\ game' = "none"
  /\ stopper' = [p \in AgentThreads |-> "out"]
  /\ call' = [c \in Callers |-> Broken(call[c])]
  /\ UNCHANGED <<files, unreadable>>

\* What the docker API reports as State.Running: a container that waits for its
\* restart policy counts as running.
StatusRunning == docker = "running" \/ (~manual /\ stopping = "none")

DockerStart == stopping = "none" /\ Boot

\* docker stop, and the first half of docker restart: mark the container as
\* stopped by hand and signal its main process.  Until main() has installed its
\* handlers SIGTERM has its default effect and ends the process at once.
DockerStop(request) ==
  /\ stopping = "none"
  /\ manual' = TRUE
  /\ \/ /\ docker = "exited"
        /\ stopping' = IF request = "restart" THEN "restart" ELSE "none"
        /\ UNCHANGED <<files, docker, kills, agent, term, software, game,
                       unreadable, stopper, call>>
     \/ /\ docker = "running" /\ agent \in {"loop", "drain", "close"}
        /\ term' = TRUE /\ stopping' = request
        /\ UNCHANGED <<files, docker, kills, agent, software, game,
                       unreadable, stopper, call>>
     \/ /\ docker = "running" /\ agent \notin {"loop", "drain", "close"}
        /\ ContainerExits(request) /\ UNCHANGED kills

\* The stop timeout ran out: SIGKILL.
DockerKill ==
  /\ docker = "running" /\ stopping # "none"
  /\ ContainerExits(stopping) /\ UNCHANGED <<manual, kills>>

\* Out of memory, or the host went down.
ExternalKill ==
  /\ docker = "running" /\ kills < MaxKills
  /\ kills' = kills + 1
  /\ ContainerExits(stopping) /\ UNCHANGED manual

\* compose.yml: restart: unless-stopped.
RestartPolicy == ~manual /\ stopping = "none" /\ Boot

DockerRestartCompletes == stopping = "restart" /\ Boot

-----------------------------------------------------------------------------
(* graceful_stop(), run by a handler thread or by the main thread. *)

\* Not running: return at once ("done" is kept for a stop that did its work).
\* Otherwise send the adapter's stop command, which the game may not get.
BeginStop(p) ==
  IF Running
  THEN /\ stopper' = [stopper EXCEPT ![p] = "wait"]
       /\ game' \in {game, "saving"}
  ELSE UNCHANGED <<stopper, game>>

\* The polling loop sees the child gone, within the grace period or after it.
StopSeesExit(p) ==
  /\ stopper[p] \in {"wait", "term"} /\ ~Running
  /\ stopper' = [stopper EXCEPT ![p] = "fix"]
  /\ UNCHANGED <<files, daemon, agent, term, software, game, unreadable, call>>

\* Mutant of StopTerminates: no SIGKILL after the SIGTERM.
StopOnlyTerminates(p) ==
  /\ stopper[p] = "wait" /\ Running
  /\ stopper' = [stopper EXCEPT ![p] = "fix"]
  /\ game' = "saving"
  /\ UNCHANGED <<files, daemon, agent, term, software, unreadable, call>>

\* 50 seconds have passed: SIGTERM to the child.
StopTerminates(p) ==
  /\ stopper[p] = "wait" /\ Running
  /\ stopper' = [stopper EXCEPT ![p] = "term"]
  /\ game' = "saving"
  /\ UNCHANGED <<files, daemon, agent, term, software, unreadable, call>>

\* Mutant of StopKills: the killed game's saves are left as they are.
StopKillsAndLeaves(p) ==
  /\ stopper[p] = "term" /\ Running
  /\ stopper' = [stopper EXCEPT ![p] = "done"]
  /\ game' = "gone"
  /\ UNCHANGED <<files, daemon, agent, term, software, unreadable, call>>

\* Ten more seconds: SIGKILL to the child.
StopKills(p) ==
  /\ stopper[p] = "term" /\ Running
  /\ stopper' = [stopper EXCEPT ![p] = "fix"]
  /\ game' = "gone"
  /\ UNCHANGED <<files, daemon, agent, term, software, unreadable, call>>

StopFixesPermissions(p) ==
  /\ stopper[p] = "fix"
  /\ stopper' = [stopper EXCEPT ![p] = "done"]
  /\ unreadable' = FALSE
  /\ UNCHANGED <<files, daemon, agent, term, software, game, call>>

GracefulStop(p) ==
  StopSeesExit(p) \/ StopTerminates(p) \/ StopKills(p) \/ StopFixesPermissions(p)

-----------------------------------------------------------------------------
(* The main process: entrypoint.sh, then game_control_agent.main(). *)

\* validate_cli, then the entrypoint's own recursive chmod (best effort).
Validate ==
  /\ agent = "validate"
  /\ IF override = Invalid
     THEN ContainerExits(stopping) /\ UNCHANGED <<manual, kills>>
     ELSE /\ agent' = "resolve"
          /\ unreadable' \in {unreadable, FALSE}
          /\ UNCHANGED <<files, daemon, term, software, game, stopper, call>>

\* Mutant of Resolve: the second reading is not checked.
ResolveUnchecked ==
  /\ agent = "resolve"
  /\ agent' = "fix" /\ software' = override
  /\ UNCHANGED <<files, daemon, term, game, unreadable, stopper, call>>

\* Supervisor(): the override is read a second time.
Resolve ==
  /\ agent = "resolve"
  /\ IF override = Invalid
     THEN ContainerExits(stopping) /\ UNCHANGED <<manual, kills>>
     ELSE /\ agent' = "fix" /\ software' = override
          /\ UNCHANGED <<files, daemon, term, game, unreadable, stopper, call>>

\* Mutant of FixAtStart: no fix_permissions().
StartWithoutFix ==
  /\ agent = "fix" /\ agent' = "launch"
  /\ UNCHANGED <<files, daemon, term, software, game, unreadable, stopper, call>>

\* start(), first half: permissions and adapter.prepare().
FixAtStart ==
  /\ agent = "fix"
  /\ agent' = "launch" /\ unreadable' = FALSE
  /\ UNCHANGED <<files, daemon, term, software, game, stopper, call>>

\* start(), second half: without the adapter's files the agent stays up alone.
Launch ==
  /\ agent = "launch"
  /\ agent' = "bind"
  /\ game' = IF software \in launchable THEN "up" ELSE "none"
  /\ UNCHANGED <<files, daemon, term, software, unreadable, stopper, call>>

\* main(): first the HTTP server, then the signal handlers.
Bind ==
  /\ agent = "bind" /\ agent' = "hook"
  /\ UNCHANGED <<files, daemon, term, software, game, unreadable, stopper, call>>

InstallSignalHandlers ==
  /\ agent = "hook" /\ agent' = "loop"
  /\ UNCHANGED <<files, daemon, term, software, game, unreadable, stopper, call>>

\* Mutants of LeaveLoop: only one of the two ends the loop.
LeaveLoopOnExit ==
  /\ agent = "loop" /\ game = "gone"
  /\ agent' = "drain"
  /\ BeginStop(Main)
  /\ UNCHANGED <<files, daemon, term, software, unreadable, call>>

LeaveLoopOnTerm ==
  /\ agent = "loop" /\ term
  /\ agent' = "drain"
  /\ BeginStop(Main)
  /\ UNCHANGED <<files, daemon, term, software, unreadable, call>>

\* The loop ends on stop_event or because the child has exited, whoever made
\* it exit; graceful_stop() comes next.
LeaveLoop ==
  /\ agent = "loop" /\ (term \/ game = "gone")
  /\ agent' = "drain"
  /\ BeginStop(Main)
  /\ UNCHANGED <<files, daemon, term, software, unreadable, call>>

Shutdown ==
  /\ agent = "drain" /\ stopper[Main] \in {"out", "done"}
  /\ agent' = "close"
  /\ UNCHANGED <<files, daemon, term, software, game, unreadable, stopper, call>>

ReturnFromMain ==
  /\ agent = "close"
  /\ ContainerExits(stopping) /\ UNCHANGED <<manual, kills>>

MainThread ==
  \/ Validate \/ Resolve \/ FixAtStart \/ Launch \/ Bind \/ InstallSignalHandlers
  \/ LeaveLoop \/ GracefulStop(Main) \/ Shutdown \/ ReturnFromMain

-----------------------------------------------------------------------------
(* The game process. *)

\* Some games create their saves 0600, whatever the umask.
GameSaves ==
  /\ Running /\ unreadable' = TRUE
  /\ UNCHANGED <<files, daemon, agent, term, software, game, stopper, call>>

\* The shutdown save, then exit.
GameFinishes ==
  /\ game = "saving" /\ game' = "gone"
  /\ unreadable' \in {unreadable, TRUE}
  /\ UNCHANGED <<files, daemon, agent, term, software, stopper, call>>

GameCrashes ==
  /\ game = "up" /\ game' = "gone"
  /\ UNCHANGED <<files, daemon, agent, term, software, unreadable, stopper, call>>

-----------------------------------------------------------------------------
(* The agent's HTTP API. *)

Answer(c, status) == call' = [call EXCEPT ![c].at = status]

Serve(c, op) == call[c] = [op |-> op, at |-> "sent"] /\ Listening

Post(c, op) ==
  /\ call[c] = NoCall
  /\ call' = [call EXCEPT ![c] = [op |-> op, at |-> "sent"]]
  /\ UNCHANGED <<files, daemon, agent, term, software, game, unreadable, stopper>>

ConnectionRefused(c) ==
  /\ call[c].at = "sent" /\ ~Listening
  /\ Answer(c, "error")
  /\ UNCHANGED <<files, daemon, agent, term, software, game, unreadable, stopper>>

\* The caller's timeout: the handler, if there is one, goes on without it.
CallerGivesUp(c) ==
  /\ call[c].at \in {"sent", "serving"}
  /\ call' = [call EXCEPT ![c].at = IF @ = "serving" THEN "orphan" ELSE "error"]
  /\ UNCHANGED <<files, daemon, agent, term, software, game, unreadable, stopper>>

CallerReads(c) ==
  /\ call[c].at \in {"ok", "running", "error"}
  /\ call' = [call EXCEPT ![c] = NoCall]
  /\ stopper' = [stopper EXCEPT ![c] = "out"]
  /\ UNCHANGED <<files, daemon, agent, term, software, game, unreadable>>

Health(c) ==
  /\ Serve(c, "health")
  /\ Answer(c, IF Running THEN "running" ELSE "ok")
  /\ UNCHANGED <<files, daemon, agent, term, software, game, unreadable, stopper>>

\* A console command; one of them is the game's own stop command.
Command(c) ==
  /\ Serve(c, "command")
  /\ IF Running
     THEN \/ game' \in {game, "saving"} /\ Answer(c, "ok")
          \/ UNCHANGED game /\ Answer(c, "error")
     ELSE UNCHANGED game /\ Answer(c, "error")
  /\ UNCHANGED <<files, daemon, agent, term, software, unreadable, stopper>>

FixPermissions(c) ==
  /\ Serve(c, "fix_permissions")
  /\ unreadable' = FALSE /\ Answer(c, "ok")
  /\ UNCHANGED <<files, daemon, agent, term, software, game, stopper>>

LifecycleStop(c) ==
  /\ Serve(c, "stop")
  /\ BeginStop(c)
  /\ Answer(c, "serving")
  /\ UNCHANGED <<files, daemon, agent, term, software, unreadable>>

LifecycleStopAnswers(c) ==
  /\ call[c].op = "stop" /\ stopper[c] \in {"out", "done"}
  /\ \/ call[c].at = "serving" /\ Answer(c, IF Running THEN "running" ELSE "ok") /\ UNCHANGED stopper
     \/ /\ call[c].at = "orphan"
        /\ call' = [call EXCEPT ![c] = NoCall] /\ stopper' = [stopper EXCEPT ![c] = "out"]
  /\ UNCHANGED <<files, daemon, agent, term, software, game, unreadable>>

\* run_installer_jar(): refused without the jar; otherwise java runs in game/.
LifecycleInstall(c) ==
  /\ Serve(c, "install")
  /\ Answer(c, "serving") \/ Answer(c, "error")
  /\ UNCHANGED <<files, daemon, agent, term, software, game, unreadable, stopper>>

\* It ends, fails or reaches its 900 s timeout; s may be launchable now.
InstallerEnds(c) ==
  /\ call[c].op = "install" /\ call[c].at \in {"serving", "orphan"}
  /\ \/ launchable' = launchable
     \/ \E s \in Software : launchable' = launchable \cup {s}
  /\ \/ call[c].at = "serving" /\ \E status \in {"ok", "error"} : Answer(c, status)
     \/ call[c].at = "orphan" /\ call' = [call EXCEPT ![c] = NoCall]
  /\ UNCHANGED <<override, daemon, agent, term, software, game, unreadable, stopper>>

Handler(c) ==
  \/ Health(c) \/ Command(c) \/ FixPermissions(c)
  \/ LifecycleStop(c) \/ GracefulStop(c) \/ LifecycleStopAnswers(c)
  \/ LifecycleInstall(c) \/ InstallerEnds(c)

\* The dashboard writes the override file, and installs or wipes game/.
DashboardWrites ==
  /\ override' \in Software \cup {Invalid}
  /\ launchable' \in SUBSET Software
  /\ UNCHANGED <<daemon, agent, term, software, game, unreadable, stopper, call>>

-----------------------------------------------------------------------------
Caller(c) ==
  \/ \E op \in Ops : Post(c, op)
  \/ ConnectionRefused(c) \/ CallerGivesUp(c) \/ CallerReads(c)

Daemon ==
  \/ DockerStart \/ \E request \in {"stop", "restart"} : DockerStop(request)
  \/ DockerKill \/ ExternalKill \/ RestartPolicy \/ DockerRestartCompletes

Next ==
  \/ Daemon \/ MainThread
  \/ GameSaves \/ GameFinishes \/ GameCrashes
  \/ \E c \in Callers : Handler(c) \/ Caller(c)
  \/ DashboardWrites

Spec == Init /\ [][Next]_vars

\* The processes of the container run, and docker keeps its promises; nothing
\* makes callers call, games end by themselves or SIGKILL come.
Fairness ==
  /\ WF_vars(MainThread)
  /\ \A c \in Callers : WF_vars(Handler(c))
  /\ WF_vars(RestartPolicy) /\ WF_vars(DockerRestartCompletes)

FairSpec == Spec /\ Fairness

-----------------------------------------------------------------------------
(* Safety. *)

\* Whoever stopped the game through graceful_stop() - the main thread, or one
\* of several handlers racing with it - leaves it dead and its shutdown save
\* readable by the dashboard, for the rest of this container life.
StoppedMeansReadable ==
  \A p \in AgentThreads : stopper[p] = "done" => ~Running /\ ~unreadable

\* A save that a SIGKILL or an OOM kill left unreadable never survives the
\* next start(): past it, unreadable files come from the game of this life.
UnreadableIsFromThisLife ==
  unreadable /\ agent \in {"launch", "bind", "hook", "loop", "drain", "close"} =>
    game # "none"

\* When main() returns, the teardown of the container has no live game to
\* kill, however slow the game was to save and whoever else was stopping it.
OrderlyExitLeavesNoGame == agent = "close" => ~Running

(* Liveness. *)

\* SIGTERM ends the agent even if the game ignores its stop command.
TermEndsAgent == term ~> agent = "off"

\* Saves left unreadable when the game dies, for whatever reason, are repaired
\* unless an administrator stops the container or its configuration is refused.
UnreadableIsRepaired ==
  unreadable /\ ~Running ~>
    \/ ~unreadable \/ Running
    \/ docker = "exited" /\ manual
    \/ override = Invalid
=============================================================================
