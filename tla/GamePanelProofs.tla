--------------------------- MODULE GamePanelProofs ---------------------------
(***************************************************************************)
(* The joined system implements its two components, so that what is proved *)
(* of them holds of it; and the container is off while an install that     *)
(* stops it works on game/.                                                *)
(***************************************************************************)
EXTENDS GamePanel, TLAPS

PanelTheorems == INSTANCE InstallerProofs
  WITH game <- content, Data <- {}, Stuck <- {}, Mods <- {}, MaxFaults <- 0

ContainerTheorems == INSTANCE GameRuntimeProofs
  WITH Callers <- Threads, MaxKills <- MaxEvents,
       launchable <- {s \in Software : Panel!LaunchTarget(s) # None}

\* The assumptions of the components hold of the constants they are given here.
LEMMA ComponentAssumptions ==
  /\ PanelTheorems!ConstantsAssumption
  /\ ContainerTheorems!CallersAssumption /\ ContainerTheorems!SoftwareAssumption
  /\ ContainerTheorems!KillsAssumption
BY PanelAssumption DEF PanelTheorems!ConstantsAssumption, PanelTheorems!Kinds, Panel!Kinds,
   ContainerTheorems!CallersAssumption, ContainerTheorems!SoftwareAssumption,
   ContainerTheorems!KillsAssumption

\* The theorems' installer is the one this module is made of.
LEMMA SamePanel ==
  /\ PanelTheorems!Init <=> Panel!Init
  /\ PanelTheorems!Next <=> Panel!Next
  /\ UNCHANGED PanelTheorems!vars <=> UNCHANGED Panel!vars
  /\ PanelTheorems!TypeOK <=> Panel!TypeOK
<1>1. PanelTheorems!Init <=> Panel!Init
  BY DEF PanelTheorems!Init, Panel!Init, PanelTheorems!LaunchMode, Panel!LaunchMode
<1>2. PanelTheorems!Next <=> Panel!Next
  BY DEF PanelTheorems!Kinds, Panel!Kinds, PanelTheorems!Entries, Panel!Entries,
       PanelTheorems!JarSoftware, Panel!JarSoftware, PanelTheorems!Managed, Panel!Managed,
       PanelTheorems!Requests, Panel!Requests, PanelTheorems!Snapshots, Panel!Snapshots,
       PanelTheorems!Manifests, Panel!Manifests, PanelTheorems!LaunchMode, Panel!LaunchMode,
       PanelTheorems!LaunchTarget, Panel!LaunchTarget, PanelTheorems!disk, Panel!disk,
       PanelTheorems!history, Panel!history, PanelTheorems!Goto, Panel!Goto,
       PanelTheorems!Advance, Panel!Advance, PanelTheorems!Refuse, Panel!Refuse,
       PanelTheorems!Abort, Panel!Abort, PanelTheorems!Fail, Panel!Fail,
       PanelTheorems!Fault, Panel!Fault, PanelTheorems!late, Panel!late,
       PanelTheorems!ManagedSoftware, Panel!ManagedSoftware,
       PanelTheorems!Unparsable, Panel!Unparsable, PanelTheorems!Renewed, Panel!Renewed,
       PanelTheorems!With, Panel!With, PanelTheorems!WriteManifestFails,
       Panel!WriteManifestFails, PanelTheorems!LeaveSnapshot, Panel!LeaveSnapshot,
       PanelTheorems!FinishRollbackFails, Panel!FinishRollbackFails,
       PanelTheorems!StrayWrites, Panel!StrayWrites, PanelTheorems!StraysEnd,
       Panel!StraysEnd,
       PanelTheorems!BeginInstall, Panel!BeginInstall, PanelTheorems!StopInstance,
       Panel!StopInstance, PanelTheorems!StopInstanceFails, Panel!StopInstanceFails,
       PanelTheorems!ClearCategories, Panel!ClearCategories, PanelTheorems!Acquire,
       Panel!Acquire, PanelTheorems!Busy, Panel!Busy, PanelTheorems!Resolve, Panel!Resolve,
       PanelTheorems!ResolveFails, Panel!ResolveFails, PanelTheorems!RuntimeStatus,
       Panel!RuntimeStatus, PanelTheorems!RuntimeStarted, Panel!RuntimeStarted,
       PanelTheorems!RuntimeHealth, Panel!RuntimeHealth, PanelTheorems!RuntimeStopped,
       Panel!RuntimeStopped, PanelTheorems!RuntimeFails, Panel!RuntimeFails,
       PanelTheorems!NothingToClean, Panel!NothingToClean, PanelTheorems!SkipSnapshot,
       Panel!SkipSnapshot, PanelTheorems!BeginSnapshot, Panel!BeginSnapshot,
       PanelTheorems!SnapshotFails, Panel!SnapshotFails, PanelTheorems!EndSnapshot,
       Panel!EndSnapshot, PanelTheorems!Wipe, Panel!Wipe, PanelTheorems!PlaceJar,
       Panel!PlaceJar, PanelTheorems!PlaceZip, Panel!PlaceZip,
       PanelTheorems!DownloadInstaller, Panel!DownloadInstaller, PanelTheorems!PlaceFails,
       Panel!PlaceFails, PanelTheorems!InstallerWrites, Panel!InstallerWrites,
       PanelTheorems!InstallerRan, Panel!InstallerRan, PanelTheorems!InstallerFails,
       Panel!InstallerFails, PanelTheorems!WriteManifest, Panel!WriteManifest,
       PanelTheorems!Named, Panel!Named, PanelTheorems!CutShort, Panel!CutShort,
       PanelTheorems!WriteOverride, Panel!WriteOverride, PanelTheorems!WriteOverrideFails,
       Panel!WriteOverrideFails, PanelTheorems!FinishInstall, Panel!FinishInstall,
       PanelTheorems!BeginRollback, Panel!BeginRollback, PanelTheorems!NoSnapshot,
       Panel!NoSnapshot, PanelTheorems!PickSnapshot, Panel!PickSnapshot,
       PanelTheorems!ClearBeforeRollback, Panel!ClearBeforeRollback,
       PanelTheorems!MoveEntry, Panel!MoveEntry, PanelTheorems!MoveFails, Panel!MoveFails,
       PanelTheorems!RemoveSnapshot, Panel!RemoveSnapshot, PanelTheorems!FinishRollback,
       Panel!FinishRollback, PanelTheorems!GameWrites, Panel!GameWrites,
       PanelTheorems!UploadMod, Panel!UploadMod, PanelTheorems!DashboardRestarts,
       Panel!DashboardRestarts, PanelTheorems!Install, Panel!Install,
       PanelTheorems!Rollback, Panel!Rollback, PanelTheorems!Next, Panel!Next,
       PanelTheorems!Last, Panel!Last, PanelTheorems!Front, Panel!Front
<1>3. UNCHANGED PanelTheorems!vars <=> UNCHANGED Panel!vars
  BY DEF PanelTheorems!vars, Panel!vars, PanelTheorems!disk, Panel!disk,
       PanelTheorems!late, Panel!late, PanelTheorems!history, Panel!history
<1>4. PanelTheorems!TypeOK <=> Panel!TypeOK
  BY DEF PanelTheorems!TypeOK, Panel!TypeOK, PanelTheorems!Entries, Panel!Entries,
       PanelTheorems!Snapshots, Panel!Snapshots, PanelTheorems!Manifests, Panel!Manifests,
       PanelTheorems!Requests, Panel!Requests, PanelTheorems!BeforeLock, Panel!BeforeLock,
       PanelTheorems!UnderLock, Panel!UnderLock, PanelTheorems!AfterLock, Panel!AfterLock
<1>. QED  BY <1>1, <1>2, <1>3, <1>4

\* The theorems' container is the one this module is made of.
LEMMA SameContainer ==
  /\ ContainerTheorems!Init <=> Container!Init
  /\ ContainerTheorems!Next <=> Container!Next
  /\ UNCHANGED ContainerTheorems!vars <=> UNCHANGED Container!vars
  /\ ContainerTheorems!TypeOK <=> Container!TypeOK
<1>1. ContainerTheorems!Init <=> Container!Init
  BY DEF ContainerTheorems!Init, Container!Init, ContainerTheorems!NoCall, Container!NoCall,
       ContainerTheorems!AgentThreads, Container!AgentThreads
<1>2. ContainerTheorems!Next <=> Container!Next
  BY DEF ContainerTheorems!files, Container!files, ContainerTheorems!daemon, Container!daemon,
       ContainerTheorems!AgentThreads, Container!AgentThreads, ContainerTheorems!Ops,
       Container!Ops, ContainerTheorems!NoCall, Container!NoCall, ContainerTheorems!Running,
       Container!Running, ContainerTheorems!Listening, Container!Listening,
       ContainerTheorems!Boot, Container!Boot, ContainerTheorems!Broken, Container!Broken,
       ContainerTheorems!ContainerExits, Container!ContainerExits,
       ContainerTheorems!StatusRunning, Container!StatusRunning,
       ContainerTheorems!DockerStart, Container!DockerStart, ContainerTheorems!DockerStop,
       Container!DockerStop, ContainerTheorems!DockerKill, Container!DockerKill,
       ContainerTheorems!ExternalKill, Container!ExternalKill,
       ContainerTheorems!RestartPolicy, Container!RestartPolicy,
       ContainerTheorems!DockerRestartCompletes, Container!DockerRestartCompletes,
       ContainerTheorems!BeginStop, Container!BeginStop, ContainerTheorems!StopSeesExit,
       Container!StopSeesExit, ContainerTheorems!StopTerminates, Container!StopTerminates,
       ContainerTheorems!StopKills, Container!StopKills,
       ContainerTheorems!StopFixesPermissions, Container!StopFixesPermissions,
       ContainerTheorems!GracefulStop, Container!GracefulStop, ContainerTheorems!Validate,
       Container!Validate, ContainerTheorems!Resolve, Container!Resolve,
       ContainerTheorems!FixAtStart, Container!FixAtStart, ContainerTheorems!Launch,
       Container!Launch, ContainerTheorems!Bind, Container!Bind,
       ContainerTheorems!InstallSignalHandlers, Container!InstallSignalHandlers,
       ContainerTheorems!LeaveLoop, Container!LeaveLoop, ContainerTheorems!Shutdown,
       Container!Shutdown, ContainerTheorems!ReturnFromMain, Container!ReturnFromMain,
       ContainerTheorems!MainThread, Container!MainThread, ContainerTheorems!GameSaves,
       Container!GameSaves, ContainerTheorems!GameFinishes, Container!GameFinishes,
       ContainerTheorems!GameCrashes, Container!GameCrashes, ContainerTheorems!Answer,
       Container!Answer, ContainerTheorems!Serve, Container!Serve, ContainerTheorems!Post,
       Container!Post, ContainerTheorems!ConnectionRefused, Container!ConnectionRefused,
       ContainerTheorems!CallerGivesUp, Container!CallerGivesUp,
       ContainerTheorems!CallerReads, Container!CallerReads, ContainerTheorems!Health,
       Container!Health, ContainerTheorems!Command, Container!Command,
       ContainerTheorems!FixPermissions, Container!FixPermissions,
       ContainerTheorems!LifecycleStop, Container!LifecycleStop,
       ContainerTheorems!LifecycleStopAnswers, Container!LifecycleStopAnswers,
       ContainerTheorems!LifecycleInstall, Container!LifecycleInstall,
       ContainerTheorems!InstallerEnds, Container!InstallerEnds, ContainerTheorems!Handler,
       Container!Handler, ContainerTheorems!DashboardWrites, Container!DashboardWrites,
       ContainerTheorems!Caller, Container!Caller, ContainerTheorems!Daemon,
       Container!Daemon, ContainerTheorems!Next, Container!Next
<1>3. UNCHANGED ContainerTheorems!vars <=> UNCHANGED Container!vars
  BY DEF ContainerTheorems!vars, Container!vars
<1>4. ContainerTheorems!TypeOK <=> Container!TypeOK
  BY DEF ContainerTheorems!TypeOK, Container!TypeOK, ContainerTheorems!Stages,
       Container!Stages, ContainerTheorems!AgentThreads, Container!AgentThreads,
       ContainerTheorems!Calls, Container!Calls, ContainerTheorems!Ops, Container!Ops
<1>. QED  BY <1>1, <1>2, <1>3, <1>4

-----------------------------------------------------------------------------
(* The joined system implements the installer.                             *)

\* A step that leaves the dashboard alone.
LEMMA PanelStutters == ASSUME UNCHANGED panelVars PROVE UNCHANGED Panel!vars
BY DEF panelVars, requestVars, Panel!vars, Panel!disk, Panel!late, Panel!history

\* A step of the container ends the stray installers, or leaves the dashboard alone.
LEMMA OutsideIsPanel ==
  ASSUME NEW step, Outside(step)
  PROVE  Panel!StraysEnd \/ UNCHANGED panelVars
<1>1. UNCHANGED requestVars /\ strays' \in {strays, {}}
  BY DEF Outside
<1>. QED  BY <1>1 DEF panelVars, requestVars, Panel!StraysEnd, Panel!disk, Panel!history

\* What a begun request does is a step of its install or rollback, or a call.
LEMMA ProceedIsInstall ==
  ASSUME NEW t \in Threads, Proceed(t)
  PROVE  \/ Panel!Install(t) \/ Panel!Rollback(t)
         \/ Panel!StraysEnd \/ UNCHANGED panelVars
<1>1. CASE DockerCalls(t)
  <2>1. CASE AskStop(t) \/ AskStart(t) \/ AskRestart(t)
    BY <2>1, OutsideIsPanel DEF AskStop, AskStart, AskRestart, Ask
  <2>2. CASE ~(AskStop(t) \/ AskStart(t) \/ AskRestart(t))
    BY <1>1, <2>2 DEF DockerCalls, StopReturns, StopFails, SkipStop, AgentAnswers,
         RuntimeUnreachable, RestartEnds, Panel!Install
  <2>. QED  BY <2>1, <2>2
<1>2. CASE AgentCalls(t)
  <2>1. CASE ReceiveHealth(t)
    <3>1. (call[t].at = "running") \in BOOLEAN
      OBVIOUS
    <3>. QED  BY <2>1, <3>1 DEF ReceiveHealth, Panel!Install
  <2>2. CASE Send(t) \/ ReceiveStop(t) \/ ReceiveInstall(t) \/ InstallerWrites(t)
    BY <2>2 DEF Send, ReceiveStop, ReceiveInstall, InstallerWrites, Panel!Install
  <2>. QED  BY <1>2, <2>1, <2>2 DEF AgentCalls
<1>3. CASE Local(t)
  <2>1. CASE Panel!RuntimeStatus(t, Container!StatusRunning)
    <3>1. Container!StatusRunning \in BOOLEAN
      BY DEF Container!StatusRunning
    <3>. QED  BY <2>1, <3>1 DEF Panel!Install
  <2>2. CASE ~Panel!RuntimeStatus(t, Container!StatusRunning)
    BY <1>3, <2>2 DEF Local, Panel!Install
  <2>. QED  BY <2>1, <2>2
<1>. QED  BY <1>1, <1>2, <1>3 DEF Proceed

\* Every step is one of the installer, or leaves it alone.
LEMMA PanelStep == ASSUME [Next]_vars PROVE [Panel!Next]_(Panel!vars)
<1>1. ASSUME NEW t \in Threads, Begin(t) PROVE Panel!Next
  BY <1>1 DEF Begin, Panel!Next
<1>2. ASSUME NEW t \in Threads, Proceed(t) PROVE Panel!Next \/ UNCHANGED panelVars
  BY <1>2, ProceedIsInstall DEF Panel!Next
<1>3. ASSUME NEW t \in Threads, GivesUp(t) PROVE Panel!Next \/ UNCHANGED panelVars
  BY <1>3 DEF GivesUp, Panel!Install, Panel!Next
<1>4. ASSUME StrayWrites PROVE Panel!Next
  BY <1>4 DEF StrayWrites, Panel!Next
<1>5. ASSUME ContainerStep \/ OtherClick PROVE Panel!Next \/ UNCHANGED panelVars
  BY <1>5, OutsideIsPanel DEF ContainerStep, Own, RestartCompletes, OtherClick, Panel!Next
<1>6. ASSUME UNCHANGED vars PROVE UNCHANGED panelVars
  BY <1>6 DEF vars
<1>7. Panel!Next \/ UNCHANGED panelVars
  BY <1>1, <1>2, <1>3, <1>4, <1>5, <1>6 DEF Next
<1>. QED  BY <1>7, PanelStutters

\* What the dashboard does in the joined system, module Installer allows: its properties
\* hold whatever the container answers and whenever it dies.
THEOREM ImplementsPanel == Spec => PanelSpec
<1>1. Init => Panel!Init
  BY DEF Init
<1>2. [Next]_vars => [Panel!Next]_(Panel!vars)
  BY PanelStep
<1>. QED  BY <1>1, <1>2, PTL DEF Spec, PanelSpec, Panel!Spec

\* So the installer's variables keep their types.
LEMMA PanelTypes == Spec => []Panel!TypeOK
<1>1. Panel!Spec => PanelTheorems!Spec
  <2>1. Panel!Init => PanelTheorems!Init
    BY SamePanel
  <2>2. [Panel!Next]_(Panel!vars) => [PanelTheorems!Next]_(PanelTheorems!vars)
    BY SamePanel
  <2>. QED  BY <2>1, <2>2, PTL DEF Panel!Spec, PanelTheorems!Spec
<1>2. PanelTheorems!Spec => []PanelTheorems!TypeOK
  BY ComponentAssumptions, PanelTheorems!TypeCorrect
<1>. QED  BY <1>1, <1>2, ImplementsPanel, SamePanel, PTL DEF PanelSpec

-----------------------------------------------------------------------------
(* The joined system implements the container.                             *)

\* A step that leaves the container alone may write the files it reads.
LEMMA ContainerAlone ==
  ASSUME Panel!TypeOK', UNCHANGED containerVars
  PROVE  Container!DashboardWrites
BY DEF containerVars, Container!DashboardWrites, Container!daemon, Panel!TypeOK

\* The docker calls of requests and clicks.
LEMMA StopIsDaemon ==
  ASSUME NEW kind \in {"stop", "restart"}, RequestStop(kind)
  PROVE  Container!Daemon \/ UNCHANGED containerVars
BY DEF RequestStop, Container!Daemon
LEMMA StartIsDaemon ==
  ASSUME RequestStart
  PROVE  Container!Daemon \/ UNCHANGED containerVars
BY DEF RequestStart, Container!Daemon

\* What a begun request does is a call to docker or to the agent, or leaves both alone.
LEMMA ProceedIsCall ==
  ASSUME NEW t \in Threads, Proceed(t)
  PROVE  Container!Daemon \/ Container!Caller(t) \/ UNCHANGED containerVars
<1>1. CASE DockerCalls(t)
  BY <1>1, StopIsDaemon, StartIsDaemon
     DEF DockerCalls, AskStop, StopReturns, StopFails, SkipStop, AskStart, AgentAnswers,
         RuntimeUnreachable, AskRestart, RestartEnds, DockerFails, Done, Ask, Outside
<1>2. CASE Send(t)
  <2>1. CallOf[pc[t]] \in Container!Ops
    BY <1>2 DEF Send, CallOf, Container!Ops
  <2>. QED  BY <1>2, <2>1 DEF Send, Container!Caller
<1>3. CASE ReceiveHealth(t) \/ ReceiveStop(t) \/ ReceiveInstall(t)
  BY <1>3 DEF ReceiveHealth, ReceiveStop, ReceiveInstall, Container!Caller
<1>4. CASE InstallerWrites(t) \/ Local(t)
  BY <1>4 DEF InstallerWrites, Local
<1>. QED  BY <1>1, <1>2, <1>3, <1>4 DEF Proceed, AgentCalls

\* Every step is one of the container, or leaves it alone.
LEMMA ContainerSteps ==
  ASSUME Panel!TypeOK', [Next]_vars
  PROVE  [Container!Next]_(Container!vars)
<1>1. ASSUME UNCHANGED containerVars PROVE Container!Next
  BY <1>1, ContainerAlone DEF Container!Next
<1>2. ASSUME NEW t \in Threads, Begin(t) PROVE Container!Next
  BY <1>1, <1>2 DEF Begin
<1>3. ASSUME NEW t \in Threads, Proceed(t) PROVE Container!Next
  BY <1>1, <1>3, ProceedIsCall DEF Container!Next
<1>4. CASE ContainerStep
  <2>1. ASSUME NEW t \in Threads, Container!Handler(t) \/ Container!ConnectionRefused(t)
        PROVE  Container!Next
    BY <2>1 DEF Container!Next, Container!Caller
  <2>. QED  BY <1>4, <2>1 DEF ContainerStep, Own, Outside, RestartCompletes, Container!Next,
                              Container!Daemon
<1>5. CASE OtherClick
  BY <1>1, <1>5, StopIsDaemon, StartIsDaemon DEF OtherClick, Outside, Container!Next
<1>6. CASE UNCHANGED vars
  BY <1>1, <1>6 DEF vars
<1>7. ASSUME NEW t \in Threads, GivesUp(t) PROVE Container!Next
  BY <1>7 DEF GivesUp, Container!Next, Container!Caller
<1>8. CASE StrayWrites
  BY <1>1, <1>8 DEF StrayWrites
<1>. QED  BY <1>2, <1>3, <1>4, <1>5, <1>6, <1>7, <1>8 DEF Next

\* What happens to the container in the joined system, module GameRuntime allows: its
\* properties hold for the callers and the installs of this dashboard.
THEOREM ImplementsContainer == Spec => ContainerSpec
<1>1. Init => Container!Init
  <2>1. Init => override \in Software
    BY PanelAssumption DEF Init, Panel!Init
  <2>. QED  BY <2>1 DEF Init, Container!Init, Container!AgentThreads
<1>2. Panel!TypeOK' /\ [Next]_vars => [Container!Next]_(Container!vars)
  BY ContainerSteps
<1>. QED  BY <1>1, <1>2, PanelTypes, PTL DEF Spec, ContainerSpec, Container!Spec

\* So its invariant holds, and its variables keep their types.
LEMMA ContainerInvariant == Spec => [](Container!TypeOK /\ ContainerTheorems!IInv)
<1>1. Container!Spec => ContainerTheorems!Spec
  <2>1. Container!Init => ContainerTheorems!Init
    BY SameContainer
  <2>2. [Container!Next]_(Container!vars) => [ContainerTheorems!Next]_(ContainerTheorems!vars)
    BY SameContainer
  <2>. QED  BY <2>1, <2>2, PTL DEF Container!Spec, ContainerTheorems!Spec
<1>2. ContainerTheorems!Spec => []ContainerTheorems!IInv
  BY ComponentAssumptions, ContainerTheorems!Invariance
<1>3. ContainerTheorems!IInv => Container!TypeOK
  BY SameContainer DEF ContainerTheorems!IInv
<1>. QED  BY <1>1, <1>2, <1>3, ImplementsContainer, PTL DEF ContainerSpec

-----------------------------------------------------------------------------
(* Types.                                                                  *)

OwnTypes == asked \in [Threads -> BOOLEAN] /\ events \in 0..MaxEvents /\ overruled \in SUBSET Threads

\* What the joined system adds to its components keeps its types.
LEMMA OwnTypesStep == ASSUME Container!TypeOK, OwnTypes, [Next]_vars PROVE OwnTypes'
<1>1. ASSUME NEW t \in Threads, Proceed(t) PROVE OwnTypes'
  <2>1. asked' = asked \/ \E b \in BOOLEAN : asked' = [asked EXCEPT ![t] = b]
    <3>1. CASE DockerCalls(t)
      BY <3>1 DEF DockerCalls, AskStop, StopReturns, StopFails, SkipStop, AskStart,
           AgentAnswers, RuntimeUnreachable, AskRestart, RestartEnds, Ask, DockerFails, Done
    <3>2. CASE AgentCalls(t) \/ Local(t)
      BY <3>2 DEF AgentCalls, Send, ReceiveHealth, ReceiveStop, ReceiveInstall,
           InstallerWrites, Local
    <3>. QED  BY <1>1, <3>1, <3>2 DEF Proceed
  <2>2. asked' \in [Threads -> BOOLEAN]
    BY <2>1 DEF OwnTypes
  <2>3. overruled' \in SUBSET Threads /\ events' = events
    BY <1>1 DEF Proceed, OwnTypes
  <2>. QED  BY <2>2, <2>3 DEF OwnTypes
<1>2. ASSUME NEW t \in Threads, Begin(t), UNCHANGED <<events, overruled>> PROVE OwnTypes'
  BY <1>2 DEF Begin, OwnTypes
<1>3. CASE ContainerStep
  BY <1>3 DEF ContainerStep, Own, RestartCompletes, OwnTypes
<1>4. CASE OtherClick
  <2>1. asked' = asked /\ overruled' \in SUBSET Threads
    BY <1>4 DEF OtherClick, OwnTypes
  <2>2. events' \in 0..MaxEvents
    BY <1>4, PanelAssumption DEF OtherClick, OwnTypes, TypeOK, Container!TypeOK
  <2>. QED  BY <2>1, <2>2 DEF OwnTypes
<1>5. CASE UNCHANGED vars
  BY <1>5 DEF vars, OwnTypes
<1>6. ASSUME NEW t \in Threads, GivesUp(t), UNCHANGED overruled PROVE OwnTypes'
  <2>1. asked' = asked
    BY <1>6 DEF GivesUp
  <2>2. events' \in 0..MaxEvents
    BY <1>6, PanelAssumption DEF GivesUp, OwnTypes, TypeOK, Container!TypeOK
  <2>. QED  BY <1>6, <2>1, <2>2 DEF OwnTypes
<1>7. ASSUME StrayWrites, UNCHANGED <<events, overruled>> PROVE OwnTypes'
  BY <1>7 DEF StrayWrites, OwnTypes
<1>. QED  BY <1>1, <1>2, <1>3, <1>4, <1>5, <1>6, <1>7 DEF Next

\* Every variable of the joined system keeps its type.
THEOREM TypeCorrect == Spec => []TypeOK
<1>1. Init => OwnTypes
  <2>1. 0 \in 0..MaxEvents
    BY PanelAssumption
  <2>2. Init => asked = [t \in Threads |-> FALSE] /\ events = 0 /\ overruled = {}
    BY DEF Init
  <2>. QED  BY <2>1, <2>2 DEF OwnTypes
<1>2. Container!TypeOK /\ OwnTypes /\ [Next]_vars => OwnTypes'
  BY OwnTypesStep
<1>3. Panel!TypeOK /\ Container!TypeOK /\ OwnTypes => TypeOK
  BY DEF TypeOK, OwnTypes
<1>. QED  BY <1>1, <1>2, <1>3, PanelTypes, ContainerInvariant, PTL DEF Spec

-----------------------------------------------------------------------------
(* The container of an install that stops it.                              *)

Off == docker = "exited" /\ manual

\* Labels only a managed install reaches, and those of any other one from the
\* stop's return to the end of its work on game/.
Managing == {"rt_status", "rt_start", "rt_health", "rt_stop", "run_installer"}
Working  == {"categories", "acquire", "resolve", "snapshot", "copying", "wipe", "place", "manifest"}

\* What each request relies on, unless a call has overruled its stop: the stop it waits
\* for ends with the container off, and off by hand it is while it works.
StopInvOf(t) ==
  /\ asked[t] => pc[t] \in {"stop", "rt_start", "restart"}
  /\ pc[t] \in Managing => Panel!Managed(request[t].sw)
  /\ t \notin overruled /\ ~Panel!Managed(request[t].sw) =>
       /\ pc[t] = "stop" /\ asked[t] => manual /\ (stopping = "none" => docker = "exited")
       /\ pc[t] \in Working => Off

\* The inductive invariant: docker's mark tells a stop under way, and whoever boots the
\* container by a call overrules every thread.
StopInv ==
  /\ stopping # "none" => manual
  /\ \A t \in Threads : StopInvOf(t)

\* A step that keeps the container off, and docker's mark, wherever a thread relies on it,
\* or overrules all threads.
DockerKeeps ==
  /\ stopping' # "none" => manual'
  /\ \/ overruled' = Threads
     \/ /\ manual => manual'
        /\ Off => Off'
        /\ manual /\ (stopping = "none" => docker = "exited")
             => (stopping' = "none" => docker' = "exited")

\* Such a step keeps the invariant of every thread that stays where it is.
LEMMA OthersKeepStopInv ==
  ASSUME StopInv, DockerKeeps, NEW u \in Threads, pc'[u] = pc[u], asked'[u] = asked[u],
         request'[u] = request[u], u \in overruled => u \in overruled'
  PROVE  StopInvOf(u)'
<1>1. Panel!Managed(request[u].sw)' <=> Panel!Managed(request[u].sw)
  BY DEF Panel!Managed
<1>. QED  BY <1>1 DEF StopInv, StopInvOf, DockerKeeps, Off

\* What the container can do by itself: nothing but the second half of a restart boots
\* one that was stopped by hand, and that overrules.
LEMMA OwnSteps ==
  ASSUME Container!TypeOK, stopping # "none" => manual, ContainerStep
  PROVE  /\ UNCHANGED <<requestVars, asked>> /\ overruled' \in {overruled, Threads}
         /\ DockerKeeps
<1>1. UNCHANGED <<requestVars, asked>> /\ overruled' \in {overruled, Threads}
  BY DEF ContainerStep, Own, Outside, RestartCompletes
<1>. SUFFICES DockerKeeps
  BY <1>1
<1>2. ASSUME Container!ContainerExits(stopping), manual' = manual
      PROVE  DockerKeeps
  BY <1>2 DEF Container!ContainerExits, Container!TypeOK, DockerKeeps, Off
<1>3. ASSUME UNCHANGED <<docker, manual, stopping>> PROVE DockerKeeps
  BY <1>3 DEF DockerKeeps, Off
<1>4. ASSUME Container!GracefulStop(Main) PROVE UNCHANGED <<docker, manual, stopping>>
  BY <1>4 DEF Container!GracefulStop, Container!StopSeesExit, Container!StopTerminates,
              Container!StopKills, Container!StopFixesPermissions, Container!daemon
<1>5. CASE Own(Container!MainThread)
  <2>1. \/ UNCHANGED <<docker, manual, stopping>>
        \/ Container!ContainerExits(stopping) /\ manual' = manual
    BY <1>4, <1>5 DEF Own, Outside, Container!MainThread, Container!Validate, Container!Resolve,
         Container!FixAtStart, Container!Launch, Container!Bind, Container!InstallSignalHandlers,
         Container!LeaveLoop, Container!Shutdown, Container!ReturnFromMain, Container!daemon
  <2>. QED  BY <1>2, <1>3, <2>1
<1>6. CASE Own(Container!DockerKill)
  <2>1. Container!ContainerExits(stopping) /\ manual' = manual
    BY <1>6 DEF Own, Outside, Container!DockerKill
  <2>. QED  BY <1>2, <2>1
<1>10. CASE Own(Container!ExternalKill)
  <2>1. Container!ContainerExits(stopping) /\ manual' = manual
    BY <1>10 DEF Own, Outside, Container!ExternalKill
  <2>. QED  BY <1>2, <2>1
<1>7. CASE Own(Container!RestartPolicy)
  BY <1>7 DEF Own, Outside, Container!RestartPolicy, Container!Boot, DockerKeeps, Off
<1>8. CASE RestartCompletes
  BY <1>8 DEF RestartCompletes, Outside, Container!DockerRestartCompletes, Container!Boot, DockerKeeps
<1>9. CASE \/ Own(Container!GameFinishes) \/ Own(Container!GameCrashes)
           \/ \E t \in Threads : Own(Container!Handler(t) \/ Container!ConnectionRefused(t))
  <2>1. UNCHANGED <<docker, manual, stopping>>
    BY <1>9 DEF Own, Outside, Container!GameFinishes, Container!GameCrashes, Container!Handler,
         Container!ConnectionRefused, Container!Health, Container!Command, Container!FixPermissions,
         Container!LifecycleStop, Container!GracefulStop, Container!StopSeesExit,
         Container!StopTerminates, Container!StopKills, Container!StopFixesPermissions,
         Container!LifecycleStopAnswers, Container!LifecycleInstall, Container!InstallerEnds,
         Container!daemon
  <2>. QED  BY <1>3, <2>1
<1>. QED  BY <1>5, <1>6, <1>7, <1>8, <1>9, <1>10, Zenon DEF ContainerStep

\* A call to stop or restart keeps an off container off until it boots it; one to start
\* boots it or changes nothing.
LEMMA CallsKeep ==
  ASSUME Container!TypeOK, stopping # "none" => manual, BootedByCall => overruled' = Threads,
         \/ \E kind \in {"stop", "restart"} : RequestStop(kind)
         \/ RequestStart \/ UNCHANGED containerVars
  PROVE  DockerKeeps
<1>1. CASE \E kind \in {"stop", "restart"} : RequestStop(kind)
  <2>1. PICK kind \in {"stop", "restart"} : RequestStop(kind)
    BY <1>1
  <2>2. CASE stopping = "none"
    BY <2>1, <2>2 DEF RequestStop, Container!DockerStop, Container!ContainerExits,
                      Container!TypeOK, DockerKeeps, Off
  <2>3. CASE stopping # "none"
    BY <2>1, <2>3 DEF RequestStop, containerVars, DockerKeeps, Off
  <2>. QED  BY <2>2, <2>3
<1>2. CASE RequestStart
  BY <1>2 DEF RequestStart, Container!DockerStart, Container!Boot, containerVars, BootedByCall,
              DockerKeeps, Off
<1>3. CASE UNCHANGED containerVars
  BY <1>3 DEF containerVars, DockerKeeps, Off
<1>. QED  BY <1>1, <1>2, <1>3

\* By itself, and at the click of another administrator, the container keeps it.
LEMMA OwnKeepsStopInv ==
  ASSUME Container!TypeOK, OwnTypes, StopInv, ContainerStep \/ OtherClick
  PROVE  StopInv'
<1>1. /\ UNCHANGED <<pc, request, asked>> /\ DockerKeeps
      /\ overruled \subseteq overruled'
  <2>1. stopping # "none" => manual
    BY DEF StopInv
  <2>2. CASE ContainerStep
    BY <2>1, <2>2, OwnSteps DEF requestVars, OwnTypes
  <2>3. CASE OtherClick
    <3>1. BootedByCall => overruled' = Threads
      BY <2>3 DEF OtherClick
    <3>. QED  BY <2>1, <2>3, <3>1, CallsKeep DEF OtherClick, Outside, requestVars, OwnTypes
  <2>. QED  BY <2>2, <2>3
<1>2. \A u \in Threads : StopInvOf(u)'
  BY <1>1, OthersKeepStopInv
<1>. QED  BY <1>1, <1>2 DEF StopInv, DockerKeeps

\* A request that goes on without docker keeps the invariant if it comes to a
\* managed install's labels only as one, and to work with the container off.
LEMMA MoveKeepsStopInv ==
  ASSUME NEW t \in Threads, ~asked'[t],
         pc'[t] \in Managing => Panel!Managed(request'[t].sw),
         pc'[t] \in Working /\ t \notin overruled' /\ ~Panel!Managed(request'[t].sw) => Off'
  PROVE  StopInvOf(t)'
<1>1. Panel!Managed(request[t].sw)' <=> Panel!Managed(request'[t].sw)
  BY DEF Panel!Managed
<1>. QED  BY <1>1 DEF StopInvOf

\* A new request has no call under way, and is stopped first unless it is managed.
LEMMA BeginKeepsStopInv ==
  ASSUME NEW t \in Threads, TypeOK, StopInv, Begin(t), UNCHANGED <<events, overruled>>
  PROVE  StopInv'
<1>1. pc[t] = "idle" /\ UNCHANGED <<docker, manual, stopping, asked>>
  BY DEF Begin, containerVars, Panel!BeginInstall, Panel!BeginRollback
<1>2. ~asked'[t]
  BY <1>1 DEF StopInv, StopInvOf
<1>3. DockerKeeps
  BY <1>1 DEF DockerKeeps, Off, StopInv
<1>4. \A u \in Threads : u # t => pc'[u] = pc[u] /\ request'[u] = request[u] /\ asked'[u] = asked[u]
  BY <1>1 DEF Begin, Panel!BeginInstall, Panel!BeginRollback, Panel!Goto, Panel!Refuse,
              TypeOK, Panel!TypeOK
<1>5. \A u \in Threads : u # t => StopInvOf(u)'
  BY <1>3, <1>4, OthersKeepStopInv
<1>6. StopInvOf(t)'
  <2>1. CASE Panel!BeginInstall(t)
    <3>1. PICK r \in Panel!Requests :
            /\ request' = [request EXCEPT ![t] = r]
            /\ pc' = [pc EXCEPT ![t] = IF Panel!Managed(r.sw) THEN "categories" ELSE "stop"]
      BY <2>1 DEF Panel!BeginInstall, Panel!Goto
    <3>2. request'[t] = r /\ pc'[t] = IF Panel!Managed(r.sw) THEN "categories" ELSE "stop"
      BY <3>1 DEF TypeOK, Panel!TypeOK
    <3>. QED  BY <1>2, <3>2, MoveKeepsStopInv DEF Managing, Working
  <2>2. CASE Panel!BeginRollback(t)
    <3>1. pc'[t] \in {"idle", "rb_pick"}
      BY <2>2 DEF Panel!BeginRollback, Panel!Goto, Panel!Refuse, TypeOK, Panel!TypeOK
    <3>. QED  BY <1>2, <3>1, MoveKeepsStopInv DEF Managing, Working
  <2>. QED  BY <2>1, <2>2 DEF Begin
<1>. QED  BY <1>3, <1>5, <1>6 DEF StopInv, DockerKeeps

\* A step of t's install or rollback moves t alone.
LEMMA InstallMoves ==
  ASSUME NEW t \in Threads, Panel!Install(t)
  PROVE  \E label : pc' = [pc EXCEPT ![t] = label] \/ pc' = pc
BY DEF Panel!Install, Panel!StopInstance, Panel!StopInstanceFails, Panel!ClearCategories,
       Panel!Acquire, Panel!Busy, Panel!Resolve, Panel!ResolveFails, Panel!RuntimeStatus,
       Panel!RuntimeHealth, Panel!RuntimeStarted, Panel!RuntimeStopped, Panel!RuntimeFails,
       Panel!NothingToClean, Panel!SkipSnapshot, Panel!BeginSnapshot, Panel!EndSnapshot,
       Panel!SnapshotFails, Panel!Wipe, Panel!PlaceJar, Panel!PlaceZip,
       Panel!DownloadInstaller, Panel!PlaceFails, Panel!InstallerWrites, Panel!InstallerRan,
       Panel!InstallerFails, Panel!WriteManifest, Panel!WriteManifestFails, Panel!WriteOverride,
       Panel!WriteOverrideFails, Panel!FinishInstall, Panel!Advance, Panel!Refuse, Panel!Abort,
       Panel!Fail, Panel!Goto

\* It does not change what it was asked for.
LEMMA InstallKeepsRequest ==
  ASSUME NEW t \in Threads, Panel!Install(t)
  PROVE  request' = request
BY DEF Panel!Install, Panel!StopInstance, Panel!StopInstanceFails, Panel!ClearCategories,
       Panel!Acquire, Panel!Busy, Panel!Resolve, Panel!ResolveFails, Panel!RuntimeStatus,
       Panel!RuntimeHealth, Panel!RuntimeStarted, Panel!RuntimeStopped, Panel!RuntimeFails,
       Panel!NothingToClean, Panel!SkipSnapshot, Panel!BeginSnapshot, Panel!EndSnapshot,
       Panel!SnapshotFails, Panel!Wipe, Panel!PlaceJar, Panel!PlaceZip,
       Panel!DownloadInstaller, Panel!PlaceFails, Panel!InstallerWrites, Panel!InstallerRan,
       Panel!InstallerFails, Panel!WriteManifest, Panel!WriteManifestFails, Panel!WriteOverride,
       Panel!WriteOverrideFails, Panel!FinishInstall, Panel!Advance, Panel!Abort, Panel!Fail

\* Nor does a rollback.
LEMMA RollbackMoves ==
  ASSUME NEW t \in Threads, Panel!Rollback(t)
  PROVE  request' = request /\ \E label : pc' = [pc EXCEPT ![t] = label] \/ pc' = pc
BY DEF Panel!Rollback, Panel!NoSnapshot, Panel!PickSnapshot, Panel!ClearBeforeRollback,
       Panel!MoveEntry, Panel!MoveFails, Panel!RemoveSnapshot, Panel!LeaveSnapshot,
       Panel!FinishRollback, Panel!FinishRollbackFails, Panel!Advance, Panel!Refuse, Panel!Goto

\* What a request that goes on does to docker, and that it leaves the others' requests alone.
LEMMA ProceedKeeps ==
  ASSUME NEW t \in Threads, TypeOK, StopInv, Proceed(t)
  PROVE  /\ DockerKeeps
         /\ \A u \in Threads : u # t => StopInvOf(u)'
<1>1. BootedByCall => overruled' = Threads
  BY DEF Proceed
<1>2. \/ \E kind \in {"stop", "restart"} : RequestStop(kind)
      \/ RequestStart \/ UNCHANGED containerVars
      \/ UNCHANGED <<docker, manual, stopping>>
  <2>1. CASE DockerCalls(t)
    BY <2>1 DEF DockerCalls, AskStop, StopReturns, StopFails, SkipStop, AskStart, AgentAnswers,
         RuntimeUnreachable, AskRestart, RestartEnds, DockerFails, Done, Ask, Outside
  <2>2. CASE AgentCalls(t)
    BY <2>2 DEF AgentCalls, Send, ReceiveHealth, ReceiveStop, ReceiveInstall, InstallerWrites,
         Container!Post, Container!CallerReads, Container!daemon, containerVars
  <2>3. CASE Local(t)
    BY <2>3 DEF Local
  <2>. QED  BY <2>1, <2>2, <2>3 DEF Proceed
<1>3. DockerKeeps
  <2>1. CASE UNCHANGED <<docker, manual, stopping>>
    BY <2>1 DEF DockerKeeps, Off, StopInv
  <2>. QED  BY <1>1, <1>2, <2>1, CallsKeep DEF StopInv, TypeOK
<1>4. \A u \in Threads : u # t =>
        pc'[u] = pc[u] /\ request'[u] = request[u] /\ asked'[u] = asked[u]
  <2>1. \A u \in Threads : u # t => asked'[u] = asked[u]
    <3>1. CASE DockerCalls(t)
      BY <3>1 DEF DockerCalls, AskStop, StopReturns, StopFails, SkipStop, AskStart,
           AgentAnswers, RuntimeUnreachable, AskRestart, RestartEnds, Ask, DockerFails, Done, TypeOK
    <3>2. CASE AgentCalls(t) \/ Local(t)
      BY <3>2 DEF AgentCalls, Send, ReceiveHealth, ReceiveStop, ReceiveInstall,
           InstallerWrites, Local
    <3>. QED  BY <3>1, <3>2 DEF Proceed
  <2>2. request' = request
    <3>1. CASE Panel!Install(t)
      BY <3>1, InstallKeepsRequest
    <3>2. CASE Panel!Rollback(t)
      BY <3>2, RollbackMoves
    <3>3. CASE Panel!StraysEnd
      BY <3>3 DEF Panel!StraysEnd
    <3>. QED  BY <3>1, <3>2, <3>3, ProceedIsInstall DEF panelVars, requestVars
  <2>3. \A u \in Threads : u # t => pc'[u] = pc[u]
    <3>1. CASE Panel!Install(t)
      BY <3>1, InstallMoves DEF TypeOK, Panel!TypeOK
    <3>2. CASE Panel!Rollback(t)
      BY <3>2, RollbackMoves DEF TypeOK, Panel!TypeOK
    <3>3. CASE Panel!StraysEnd
      BY <3>3 DEF Panel!StraysEnd
    <3>. QED  BY <3>1, <3>2, <3>3, ProceedIsInstall DEF panelVars, requestVars
  <2>. QED  BY <2>1, <2>2, <2>3
<1>5. \A u \in Threads : u # t /\ u \in overruled => u \in overruled'
  BY DEF Proceed
<1>. QED  BY <1>3, <1>4, <1>5, OthersKeepStopInv

\* The calls to docker: the request stays at its label until they return.
LEMMA AskKeepsStopInv ==
  ASSUME NEW t \in Threads, TypeOK, StopInv, Proceed(t),
         AskStop(t) \/ AskStart(t) \/ AskRestart(t)
  PROVE  StopInvOf(t)'
<1>1. UNCHANGED <<pc, request>> /\ asked'[t]
  BY DEF AskStop, AskStart, AskRestart, Ask, Outside, requestVars, TypeOK
<1>2. Panel!Managed(request[t].sw)' <=> Panel!Managed(request[t].sw)
  BY <1>1 DEF Panel!Managed
<1>3. CASE AskStop(t)
  <2>1. pc[t] = "stop" /\ RequestStop("stop") /\ Container!TypeOK
    BY <1>3 DEF AskStop, Ask, Outside, TypeOK
  <2>2. manual' /\ (stopping' = "none" => docker' = "exited")
    <3>1. CASE stopping = "none"
      BY <2>1, <3>1 DEF RequestStop, Container!DockerStop, Container!ContainerExits,
                        Container!TypeOK
    <3>2. CASE stopping # "none"
      BY <2>1, <3>2 DEF RequestStop, containerVars, StopInv
    <3>. QED  BY <3>1, <3>2
  <2>. QED  BY <1>1, <2>1, <2>2 DEF StopInvOf, Managing, Working
<1>4. CASE AskStart(t)
  <2>1. pc[t] = "rt_start" /\ Panel!Managed(request[t].sw)
    BY <1>4 DEF AskStart, StopInv, StopInvOf, Managing
  <2>. QED  BY <1>1, <1>2, <2>1 DEF StopInvOf
<1>5. CASE AskRestart(t)
  <2>1. pc[t] = "restart"
    BY <1>5 DEF AskRestart
  <2>. QED  BY <1>1, <2>1 DEF StopInvOf, Managing, Working
<1>. QED  BY <1>3, <1>4, <1>5

\* They return, or fail, or are not needed.
LEMMA ReturnKeepsStopInv ==
  ASSUME NEW t \in Threads, TypeOK, StopInv, Proceed(t),
         \/ StopReturns(t) \/ StopFails(t) \/ SkipStop(t)
         \/ AgentAnswers(t) \/ RuntimeUnreachable(t) \/ RestartEnds(t)
  PROVE  StopInvOf(t)'
<1>1. UNCHANGED <<docker, manual, stopping>> /\ ~asked'[t]
  BY DEF StopReturns, StopFails, SkipStop, AgentAnswers, RuntimeUnreachable, RestartEnds,
         DockerFails, Done, containerVars, TypeOK
<1>2. UNCHANGED request
  BY DEF StopReturns, StopFails, SkipStop, AgentAnswers, RuntimeUnreachable, RestartEnds,
         Panel!StopInstance, Panel!StopInstanceFails, Panel!RuntimeStarted, Panel!RuntimeFails,
         Panel!FinishInstall, Panel!Advance, Panel!Abort, Panel!Fail
<1>3. CASE StopReturns(t)
  <2>1. pc[t] = "stop" /\ pc'[t] = "categories" /\ stopping = "none" /\ asked[t]
    BY <1>3 DEF StopReturns, Done, Panel!StopInstance, Panel!Advance, Panel!Goto, TypeOK,
              Panel!TypeOK
  <2>2. t \notin overruled' => t \notin overruled
    BY <1>1, <2>1 DEF Proceed, BootedByCall
  <2>3. t \notin overruled' /\ ~Panel!Managed(request'[t].sw) => Off'
    BY <1>1, <1>2, <2>1, <2>2 DEF StopInv, StopInvOf, Off
  <2>. QED  BY <1>1, <2>1, <2>3, MoveKeepsStopInv DEF Managing
<1>4. CASE SkipStop(t)
  <2>1. pc'[t] = "categories" /\ ~Container!StatusRunning
    BY <1>4 DEF SkipStop, Panel!StopInstance, Panel!Advance, Panel!Goto, TypeOK, Panel!TypeOK
  <2>2. Off'
    BY <1>1, <2>1 DEF Container!StatusRunning, Off, StopInv, TypeOK, Container!TypeOK
  <2>. QED  BY <1>1, <2>1, <2>2, MoveKeepsStopInv DEF Managing
<1>5. CASE StopFails(t) \/ AgentAnswers(t) \/ RuntimeUnreachable(t) \/ RestartEnds(t)
  <2>1. \/ pc'[t] = "idle"
        \/ pc[t] = "rt_start" /\ pc'[t] = "rt_health"
    BY <1>5 DEF StopFails, AgentAnswers, RuntimeUnreachable, RestartEnds, Panel!FinishInstall,
         Panel!StopInstanceFails, Panel!RuntimeStarted, Panel!RuntimeFails, Panel!Abort, Panel!Fail,
         Panel!Refuse, Panel!Advance, Panel!Goto, TypeOK, Panel!TypeOK
  <2>2. pc[t] = "rt_start" => Panel!Managed(request'[t].sw)
    BY <1>2 DEF StopInv, StopInvOf, Managing
  <2>. QED  BY <1>1, <2>1, <2>2, MoveKeepsStopInv DEF Managing, Working
<1>. QED  BY <1>3, <1>4, <1>5

\* The calls to the agent are those of a managed install.
LEMMA CallKeepsStopInv ==
  ASSUME NEW t \in Threads, TypeOK, StopInv, AgentCalls(t) \/ GivesUp(t)
  PROVE  StopInvOf(t)'
<1>1. UNCHANGED asked
  BY DEF AgentCalls, Send, ReceiveHealth, ReceiveStop, ReceiveInstall, InstallerWrites, GivesUp
<1>2. pc[t] \in {"rt_health", "rt_stop", "run_installer"} /\ UNCHANGED request
  BY DEF AgentCalls, Send, CallOf, ReceiveHealth, ReceiveStop, ReceiveInstall, InstallerWrites,
         Panel!RuntimeHealth, Panel!RuntimeStopped, Panel!RuntimeFails, Panel!InstallerRan,
         Panel!InstallerFails, Panel!InstallerWrites, Panel!Advance, Panel!Abort, Panel!Fail,
         GivesUp, panelVars, requestVars
<1>3. Panel!Managed(request'[t].sw) /\ ~asked'[t]
  BY <1>1, <1>2 DEF StopInv, StopInvOf, Managing
<1>. QED  BY <1>3, MoveKeepsStopInv

\* Inside the dashboard a request comes to a managed install's labels as one,
\* and to work from work.
LEMMA LocalKeepsStopInv ==
  ASSUME NEW t \in Threads, TypeOK, StopInv, Proceed(t), Local(t)
  PROVE  StopInvOf(t)'
<1>1. UNCHANGED <<docker, manual, stopping, asked>>
  BY DEF Local, containerVars
<1>2. UNCHANGED request /\ pc \in [Threads -> {"idle"} \cup Panel!BeforeLock \cup Panel!UnderLock \cup Panel!AfterLock]
  BY DEF Local, Panel!ClearCategories, Panel!Acquire, Panel!Busy, Panel!Resolve, Panel!ResolveFails,
         Panel!RuntimeStatus, Panel!NothingToClean, Panel!SkipSnapshot, Panel!BeginSnapshot,
         Panel!SnapshotFails, Panel!EndSnapshot, Panel!Wipe, Panel!PlaceJar, Panel!PlaceZip,
         Panel!DownloadInstaller, Panel!PlaceFails, Panel!WriteManifest, Panel!WriteOverride,
         Panel!Rollback, Panel!NoSnapshot, Panel!PickSnapshot, Panel!ClearBeforeRollback,
         Panel!MoveEntry, Panel!MoveFails, Panel!RemoveSnapshot, Panel!LeaveSnapshot,
         Panel!FinishRollback, Panel!FinishRollbackFails, Panel!Advance, Panel!Abort, Panel!Fail, TypeOK, Panel!TypeOK
<1>3. \/ pc[t] \in Working /\ pc'[t] \in Working \cup {"config", "idle"}
      \/ pc[t] \in Working /\ pc'[t] \in Managing /\ Panel!Managed(request[t].sw)
      \/ pc[t] = "rt_status" /\ pc'[t] \in Managing
      \/ /\ pc[t] \in {"config", "rb_pick", "rb_clear", "rb_move", "rb_manifest"}
         /\ pc'[t] \in {"restart", "idle", "rb_clear", "rb_move", "rb_manifest"}
  BY <1>2 DEF Local, Panel!ClearCategories, Panel!Acquire, Panel!Busy, Panel!Resolve, Panel!ResolveFails,
         Panel!RuntimeStatus, Panel!NothingToClean, Panel!SkipSnapshot, Panel!BeginSnapshot,
         Panel!SnapshotFails, Panel!EndSnapshot, Panel!Wipe, Panel!PlaceJar, Panel!PlaceZip,
         Panel!DownloadInstaller, Panel!PlaceFails, Panel!WriteManifest, Panel!WriteOverride,
         Panel!Rollback, Panel!NoSnapshot, Panel!PickSnapshot, Panel!ClearBeforeRollback,
         Panel!MoveEntry, Panel!MoveFails, Panel!RemoveSnapshot, Panel!LeaveSnapshot,
         Panel!FinishRollback, Panel!FinishRollbackFails, Panel!Advance, Panel!Abort, Panel!Fail, Panel!Refuse, Panel!Goto, Managing, Working
<1>4. ~asked'[t]
  BY <1>1, <1>3 DEF StopInv, StopInvOf, Managing, Working
<1>5. t \notin overruled' => t \notin overruled
  <2>1. pc[t] # "stop"
    BY <1>3 DEF Working
  <2>. QED  BY <2>1 DEF Proceed
<1>6. pc'[t] \in Managing => Panel!Managed(request'[t].sw)
  BY <1>2, <1>3 DEF StopInv, StopInvOf, Managing, Working
<1>7. pc'[t] \in Working /\ t \notin overruled' /\ ~Panel!Managed(request'[t].sw) => Off'
  BY <1>1, <1>2, <1>3, <1>5 DEF StopInv, StopInvOf, Managing, Working, Off
<1>. QED  BY <1>4, <1>6, <1>7, MoveKeepsStopInv

\* A call that is given up leaves docker and the other requests alone.
LEMMA GivesUpKeepsStopInv ==
  ASSUME NEW t \in Threads, TypeOK, StopInv, GivesUp(t), UNCHANGED overruled
  PROVE  StopInv'
<1>1. UNCHANGED <<docker, manual, stopping, asked>>
  BY DEF GivesUp, Container!CallerGivesUp, Container!daemon
<1>2. DockerKeeps
  BY <1>1 DEF DockerKeeps, Off, StopInv
<1>3. \A u \in Threads : u # t => pc'[u] = pc[u] /\ request'[u] = request[u]
  <2>1. \/ UNCHANGED panelVars
        \/ Panel!RuntimeFails(t) \/ Panel!InstallerFails(t)
    BY DEF GivesUp
  <2>2. request' = request /\ (pc' = pc \/ pc' = [pc EXCEPT ![t] = "idle"])
    BY <2>1 DEF panelVars, requestVars, Panel!RuntimeFails, Panel!InstallerFails, Panel!Fail,
         Panel!Abort, Panel!Refuse, Panel!Goto
  <2>. QED  BY <2>2 DEF TypeOK, Panel!TypeOK
<1>4. \A u \in Threads : u # t => StopInvOf(u)'
  BY <1>1, <1>2, <1>3, OthersKeepStopInv
<1>5. StopInvOf(t)'
  BY CallKeepsStopInv
<1>. QED  BY <1>2, <1>4, <1>5 DEF StopInv, DockerKeeps

\* Every step keeps it.
LEMMA StopStep == ASSUME TypeOK, StopInv, [Next]_vars PROVE StopInv'
<1>0. Container!TypeOK /\ OwnTypes
  BY DEF TypeOK, OwnTypes
<1>1. ASSUME NEW t \in Threads, Begin(t), UNCHANGED <<events, overruled>> PROVE StopInv'
  BY <1>1, BeginKeepsStopInv
<1>2. ASSUME NEW t \in Threads, Proceed(t) PROVE StopInv'
  <2>1. StopInvOf(t)'
    <3>1. CASE DockerCalls(t)
      BY <1>2, <3>1, AskKeepsStopInv, ReturnKeepsStopInv DEF DockerCalls
    <3>. QED  BY <1>2, <3>1, CallKeepsStopInv, LocalKeepsStopInv DEF Proceed
  <2>2. DockerKeeps /\ \A u \in Threads : u # t => StopInvOf(u)'
    BY <1>2, ProceedKeeps
  <2>. QED  BY <2>1, <2>2 DEF StopInv, DockerKeeps
<1>3. CASE ContainerStep \/ OtherClick
  BY <1>0, <1>3, OwnKeepsStopInv
<1>4. CASE UNCHANGED vars
  BY <1>4 DEF vars, panelVars, requestVars, containerVars, StopInv, StopInvOf, Off, Panel!Managed
<1>5. ASSUME NEW t \in Threads, GivesUp(t), UNCHANGED overruled PROVE StopInv'
  BY <1>5, GivesUpKeepsStopInv
<1>6. ASSUME StrayWrites, UNCHANGED overruled PROVE StopInv'
  BY <1>6 DEF StrayWrites, Panel!StrayWrites, containerVars, StopInv, StopInvOf, Off,
              Panel!Managed
<1>. QED  BY <1>1, <1>2, <1>3, <1>4, <1>5, <1>6 DEF Next

\* However many requests, clicks and timeouts there are at once: the game of an install that stops
\* the container is off from the first deletion in game/ on (catalog.py), through stop
\* timeouts, kills and the restart policy, until a call boots the container again.
THEOREM StoppedInstall == Spec => []StoppedForInstall
<1>1. Init => StopInv
  <2>1. Init => \A t \in Threads : pc[t] = "idle" /\ ~asked[t] /\ stopping = "none"
    BY DEF Init, Panel!Init
  <2>2. Init => stopping = "none"
    BY DEF Init
  <2>. QED  BY <2>1, <2>2 DEF StopInv, StopInvOf, Managing, Working
<1>2. TypeOK /\ StopInv /\ [Next]_vars => StopInv'
  BY StopStep
<1>3. ContainerTheorems!IInv /\ StopInv => StoppedForInstall
  <2>1. ASSUME ContainerTheorems!IInv, Off PROVE ~Container!Running
    BY <2>1 DEF ContainerTheorems!IInv, ContainerTheorems!Serving, Container!Running, Off
  <2>. QED  BY <2>1 DEF StopInv, StopInvOf, StoppedForInstall, Working
<1>. QED  BY <1>1, <1>2, <1>3, TypeCorrect, ContainerInvariant, PTL DEF Spec

=============================================================================
