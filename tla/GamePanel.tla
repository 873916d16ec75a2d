------------------------------ MODULE GamePanel ------------------------------
(***************************************************************************)
(* The dashboard's installs (Installer) and the container they are for     *)
(* (GameRuntime), joined: docker stop, start and restart of the catalog's  *)
(* handler act on the container, the calls of a managed install travel to  *)
(* the agent's handlers, and what the agent finds when it starts is what   *)
(* the installs left in game/, the manifest and the override file.         *)
(***************************************************************************)
EXTENDS Naturals, Sequences

CONSTANTS
  Threads, Software, Kind, Initial, None, Invalid, Main,
  MaxInstalls,
  MaxEvents,  \* bound on kills of the container, clicks on its buttons and timeouts of
              \* the calls to the agent, together
  Rollbacks   \* do administrators revert installs in this instance?

VARIABLES
  \* Installer
  content, mods, snapshots, manifest, override, lock, pc, request, progress,
  strays, mixed, outcome, held, owes, misnamed, begun, faults,
  \* GameRuntime
  docker, manual, stopping, agent, term, software, game, unreadable, stopper,
  call, kills,
  \* has the thread made the docker call of the step it is at?
  asked,
  \* history: clicks and timeouts so far; the threads since whose stop a call has booted
  \* the container
  events, overruled

requestVars == <<content, mods, snapshots, manifest, override, lock, pc, request, progress,
                 mixed, outcome, held, owes, misnamed, begun, faults>>
panelVars == <<requestVars, strays>>
containerVars == <<docker, manual, stopping, agent, term, software, game, unreadable,
                   stopper, call, kills>>
vars == <<panelVars, containerVars, asked, events, overruled>>

Panel == INSTANCE Installer
  WITH game <- content, Data <- {}, Stuck <- {}, Mods <- {}, MaxFaults <- 0

Container == INSTANCE GameRuntime
  WITH Callers <- Threads, MaxKills <- MaxEvents,
       launchable <- {s \in Software : Panel!LaunchTarget(s) # None}

ASSUME PanelAssumption ==
  /\ Kind \in [Software -> Panel!Kinds] /\ Initial \in Software
  /\ None \notin Threads \cup Software /\ Invalid \notin Software /\ Main \notin Threads
  /\ MaxInstalls \in Nat /\ MaxEvents \in Nat

TypeOK ==
  /\ Panel!TypeOK /\ Container!TypeOK /\ asked \in [Threads -> BOOLEAN]
  /\ events \in 0..MaxEvents /\ overruled \in SUBSET Threads

\* compose up has created the container and docker is about to boot it.
Init ==
  /\ Panel!Init
  /\ docker = "exited" /\ manual = FALSE /\ stopping = "none" /\ kills = 0
  /\ agent = "off" /\ term = FALSE /\ software = None /\ game = "none"
  /\ unreadable = FALSE
  /\ stopper = [p \in Threads \cup {Main} |-> "out"]
  /\ call = [t \in Threads |-> Container!NoCall]
  /\ asked = [t \in Threads |-> FALSE]
  /\ events = 0 /\ overruled = {}

-----------------------------------------------------------------------------
(* The docker calls of the catalog's handler and of the installer. *)

\* The agent's java, whose request has given up on it.
Orphaned(t) == call[t] = [op |-> "install", at |-> "orphan"]

\* A step of the container alone, which may end or kill the java.
Outside(step) ==
  /\ UNCHANGED requestVars /\ step
  /\ strays' = IF \E t \in Threads : Orphaned(t)' THEN strays ELSE {}

Ask(t, step) == ~asked[t] /\ asked' = [asked EXCEPT ![t] = TRUE] /\ Outside(step)
Done(t) == asked[t] /\ asked' = [asked EXCEPT ![t] = FALSE] /\ UNCHANGED containerVars

\* DockerControlError, before or after the daemon has got the call; what it has
\* begun goes on.
DockerFails(t) == Done(t) \/ (~asked[t] /\ UNCHANGED <<asked, containerVars>>)

\* docker stop waits for a stop that is under way; start leaves a container that
\* is up as it is.
RequestStop(kind) ==
  IF stopping = "none" THEN Container!DockerStop(kind) ELSE UNCHANGED containerVars
RequestStart ==
  IF docker = "exited" /\ stopping = "none" THEN Container!DockerStart
  ELSE UNCHANGED containerVars

\* Mutant of AskStop: a container that waits for its restart policy counts as
\* stopped.
AskStopIfUp(t) ==
  /\ pc[t] = "stop" /\ Container!StatusRunning
  /\ Ask(t, IF docker = "running" THEN RequestStop("stop") ELSE UNCHANGED containerVars)

AskStop(t) == pc[t] = "stop" /\ Container!StatusRunning /\ Ask(t, RequestStop("stop"))

StopReturns(t) == stopping = "none" /\ Done(t) /\ Panel!StopInstance(t)

StopFails(t) == DockerFails(t) /\ Panel!StopInstanceFails(t)

\* The status says it is off already, though a restart may be under way.
SkipStop(t) ==
  /\ ~asked[t] /\ ~Container!StatusRunning /\ Panel!StopInstance(t)
  /\ UNCHANGED <<containerVars, asked>>

AskStart(t) == pc[t] = "rt_start" /\ Ask(t, RequestStart)

\* _wait_for_agent_health()
AgentAnswers(t) == Container!Listening /\ Done(t) /\ Panel!RuntimeStarted(t)
\* Mutant of RuntimeUnreachable: the install goes on without the agent.
SilenceIsIdle(t) ==
  /\ pc[t] = "rt_start" /\ ~Container!Listening
  /\ Done(t) /\ Panel!Advance(t, "rt_start", "snapshot")

\* Docker fails, or the agent has not answered within its 45 s.
RuntimeUnreachable(t) ==
  pc[t] \in {"rt_status", "rt_start"} /\ DockerFails(t) /\ Panel!RuntimeFails(t)

\* If a restart was asked for, or the game or its edition has changed: restart a
\* managed install, start any other.  Else a managed install is stopped only now.
AskRestart(t) ==
  /\ pc[t] = "restart"
  /\ \E restart \in BOOLEAN :
       Ask(t, IF Panel!Managed(request[t].sw)
              THEN RequestStop(IF restart THEN "restart" ELSE "stop")
              ELSE IF restart THEN RequestStart
              ELSE UNCHANGED containerVars)

\* The call has returned; or it failed, which the answer to the administrator reports.
RestartEnds(t) == DockerFails(t) /\ Panel!FinishInstall(t)

DockerCalls(t) ==
  \/ AskStop(t) \/ StopReturns(t) \/ StopFails(t) \/ SkipStop(t)
  \/ AskStart(t) \/ AgentAnswers(t) \/ RuntimeUnreachable(t) \/ AskRestart(t) \/ RestartEnds(t)

-----------------------------------------------------------------------------
(* The calls of a managed install to the control agent. *)

\* Mutant of CallOf: a call the agent does not know.
CallOfUnknown == [rt_health |-> "health", rt_stop |-> "quit", run_installer |-> "install"]

CallOf == [rt_health |-> "health", rt_stop |-> "stop", run_installer |-> "install"]

\* Mutant of Send: it does not wait for the call it has made.
SendAgain(t) ==
  /\ pc[t] \in DOMAIN CallOf
  /\ call' = [call EXCEPT ![t] = [op |-> CallOf[pc[t]], at |-> "sent"]]
  /\ UNCHANGED <<panelVars, asked, docker, manual, stopping, agent, term, software, game,
                 unreadable, stopper, kills>>

Send(t) ==
  /\ pc[t] \in DOMAIN CallOf
  /\ UNCHANGED <<panelVars, asked>>
  /\ Container!Post(t, CallOf[pc[t]])

\* The calls have come back: the installer goes on, or raises InstallError.
ReceiveHealth(t) ==
  /\ pc[t] = "rt_health" /\ UNCHANGED asked
  /\ IF call[t].at = "error" THEN Panel!RuntimeFails(t)
     ELSE Panel!RuntimeHealth(t, call[t].at = "running")
  /\ Container!CallerReads(t)

ReceiveStop(t) ==
  /\ pc[t] = "rt_stop" /\ UNCHANGED asked
  /\ IF call[t].at = "error" THEN Panel!RuntimeFails(t) ELSE Panel!RuntimeStopped(t)
  /\ Container!CallerReads(t)

\* Mutant of ReceiveInstall: a transport that fails is waited for.
ReceiveInstallAnswer(t) ==
  /\ pc[t] = "run_installer" /\ UNCHANGED asked
  /\ call[t].at # "error"
  /\ Panel!InstallerRan(t) \/ (UNCHANGED strays /\ Panel!InstallerFails(t))
  /\ Container!CallerReads(t)

\* An answer without run.sh in game/, or with an exit code, is a failure too.
ReceiveInstall(t) ==
  /\ pc[t] = "run_installer" /\ UNCHANGED asked
  /\ \/ call[t].at # "error" /\ Panel!InstallerRan(t)
     \/ UNCHANGED strays /\ Panel!InstallerFails(t)
  /\ Container!CallerReads(t)

\* The timeouts of game_control.py.  What the agent is at goes on without the
\* request: the graceful stop, or the installer's java.
GivesUp(t) ==
  /\ pc[t] \in DOMAIN CallOf /\ UNCHANGED asked
  /\ events + kills < MaxEvents /\ events' = events + 1
  /\ \/ call[t].at = "sent" /\ UNCHANGED panelVars
     \/ call[t].at = "serving" /\ Panel!RuntimeFails(t)
     \/ /\ call[t].at = "serving"
        /\ strays' = strays \cup {request[t].sw} /\ Panel!InstallerFails(t)
  /\ Container!CallerGivesUp(t)

\* While the installer's java process lives, run.sh appears in game/.
InstallerWrites(t) ==
  /\ call[t] = [op |-> "install", at |-> "serving"]
  /\ Panel!InstallerWrites(t)
  /\ UNCHANGED <<containerVars, asked>>

\* It writes as long as the agent has it.
StrayWrites ==
  /\ \E t \in Threads : Orphaned(t)
  /\ Panel!StrayWrites
  /\ UNCHANGED <<containerVars, asked>>

AgentCalls(t) ==
  \/ Send(t) \/ ReceiveHealth(t) \/ ReceiveStop(t) \/ ReceiveInstall(t) \/ InstallerWrites(t)

\* An administrator asks for an install or for a rollback.
Begin(t) ==
  /\ Panel!BeginInstall(t) \/ (Rollbacks /\ Panel!BeginRollback(t))
  /\ UNCHANGED <<containerVars, asked>>

\* The steps of an install or a rollback that stay inside the dashboard.
Local(t) ==
  /\ \/ Panel!ClearCategories(t) \/ Panel!Acquire(t) \/ Panel!Busy(t)
     \/ Panel!Resolve(t) \/ Panel!ResolveFails(t)
     \/ Panel!RuntimeStatus(t, Container!StatusRunning)
     \/ Panel!NothingToClean(t) \/ Panel!SkipSnapshot(t)
     \/ Panel!BeginSnapshot(t) \/ Panel!SnapshotFails(t)
     \/ Panel!EndSnapshot(t) \/ Panel!Wipe(t)
     \/ Panel!PlaceJar(t) \/ Panel!PlaceZip(t) \/ Panel!DownloadInstaller(t) \/ Panel!PlaceFails(t)
     \/ Panel!WriteManifest(t) \/ Panel!WriteOverride(t)
     \/ Panel!Rollback(t)
  /\ UNCHANGED <<containerVars, asked>>

-----------------------------------------------------------------------------
\* What the container does by itself.
Own(step) == Outside(step) /\ UNCHANGED <<asked, events, overruled>>

\* The second half of a docker restart somebody asked for.
RestartCompletes ==
  /\ Outside(Container!DockerRestartCompletes)
  /\ overruled' = Threads /\ UNCHANGED <<asked, events>>

ContainerStep ==
  \/ Own(Container!MainThread)
  \/ Own(Container!DockerKill)
  \/ events + kills < MaxEvents /\ Own(Container!ExternalKill)
  \/ Own(Container!RestartPolicy) \/ RestartCompletes
  \/ Own(Container!GameFinishes) \/ Own(Container!GameCrashes)
  \/ \E t \in Threads : Own(Container!Handler(t) \/ Container!ConnectionRefused(t))

\* A call has booted the container, whatever other threads took it for.
BootedByCall == docker = "exited" /\ docker' = "running"

\* POST /api/container, from any administrator.
OtherClick ==
  /\ events + kills < MaxEvents /\ events' = events + 1
  /\ Outside(RequestStart \/ RequestStop("stop") \/ RequestStop("restart"))
  /\ UNCHANGED asked
  /\ overruled' = IF BootedByCall THEN Threads ELSE overruled

\* A begun request goes on; its stop takes back what was booted before.
Proceed(t) ==
  /\ pc[t] # "idle" /\ UNCHANGED events
  /\ DockerCalls(t) \/ AgentCalls(t) \/ Local(t)
  /\ overruled' = IF BootedByCall THEN Threads
                  ELSE IF pc[t] = "stop" /\ ~asked[t] THEN overruled \ {t}
                  ELSE overruled

Next ==
  \/ \E t \in Threads :
       \/ Proceed(t)
       \/ Begin(t) /\ UNCHANGED <<events, overruled>>
       \/ GivesUp(t) /\ UNCHANGED overruled
  \/ StrayWrites /\ UNCHANGED <<events, overruled>>
  \/ ContainerStep \/ OtherClick

Spec == Init /\ [][Next]_vars

\* Begun requests go on, because every docker call returns or fails by its timeout,
\* and handler threads run; a call to the agent need not time out, docker need not
\* end a stop, the agent's boot and its main thread need not go on, games need not
\* end, nobody need click.
FairSpec ==
  /\ Spec
  /\ \A t \in Threads : WF_vars(Proceed(t))
  /\ \A t \in Threads : WF_vars(Own(Container!Handler(t) \/ Container!ConnectionRefused(t)))

-----------------------------------------------------------------------------
(* Safety. *)

\* An install that stops the container first has it off, whatever the restart policy,
\* kills, stops under way and the installs before it make of it, from the first
\* deletion in game/ to the end, unless another request's or administrator's start
\* or restart boots it after that stop.
StoppedForInstall ==
  Container!Running =>
    \A t \in Threads \ overruled :
      pc[t] \in {"wipe", "place", "manifest"} => Panel!Managed(request[t].sw)

\* "A live process of the OLD game/software must never keep running against
\* files an install is about to replace": no game is alive from the first
\* deletion in game/ to the end of the install or of the rollback.
NoGameWhileReplacing ==
  Container!Running =>
    \A t \in Threads : pc[t] \notin {"wipe", "place", "run_installer", "manifest",
                                      "rb_clear", "rb_move", "rb_manifest"}

\* Whatever the container does meanwhile - stops, restarts, an agent that dies
\* during a call - every install and rollback comes to its end.
EveryRequestEnds == \A t \in Threads : pc[t] # "idle" ~> pc[t] = "idle"

\* The joined system is a container, and an installer, as their modules say.
ContainerSpec == Container!Spec
PanelSpec == Panel!Spec
=============================================================================
