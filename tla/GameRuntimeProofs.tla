-------------------------- MODULE GameRuntimeProofs --------------------------
(***************************************************************************)
(* Proofs about GameRuntime, for any number of callers and adapters.       *)
(***************************************************************************)
EXTENDS GameRuntime, TLAPS

\* The stages from which the agent answers requests until it is gone.
Serving == {"hook", "loop", "drain", "close"}

\* The inductive invariant.  An exited container has no agent.  A thread is
\* inside graceful_stop() only in an agent that serves, a game exists only from
\* its launch on, permissions are fixed by graceful_stop() only once the game is
\* dead, and the main thread has left graceful_stop() without work only because
\* there was no live game.
IInv ==
  /\ TypeOK
  /\ docker = "exited" => agent = "off"
  /\ \A p \in AgentThreads : stopper[p] # "out" => agent \in Serving
  /\ \A p \in AgentThreads : stopper[p] = "fix" => ~Running
  /\ game # "none" => agent \in {"bind"} \cup Serving
  /\ stopper[Main] # "out" => agent \in {"drain", "close"}
  /\ agent = "drain" /\ stopper[Main] = "out" => ~Running
  /\ StoppedMeansReadable
  /\ UnreadableIsFromThisLife
  /\ OrderlyExitLeavesNoGame

USE CallersAssumption, SoftwareAssumption, KillsAssumption

\* What a broken connection leaves is a call.
LEMMA BrokenIsCall == ASSUME NEW k \in Calls PROVE Broken(k) \in Calls
BY DEF Broken, Calls, NoCall

\* The state ContainerExits() leaves is well typed, as far as it defines it.
LEMMA ExitTypes ==
  ASSUME TypeOK, NEW request \in {"none", "stop", "restart"}, ContainerExits(request),
         manual' \in BOOLEAN, kills' \in 0 .. MaxKills
  PROVE  TypeOK'
BY BrokenIsCall DEF TypeOK, ContainerExits, files, Stages

\* A step of the container's daemon preserves the types.
LEMMA DaemonTypes == ASSUME TypeOK, Daemon PROVE TypeOK'
<1>1. CASE \E request \in {"stop", "restart"} : DockerStop(request)
  BY <1>1, ExitTypes DEF DockerStop, TypeOK, files
<1>2. CASE DockerKill
  BY <1>2, ExitTypes DEF DockerKill, TypeOK
<1>3. CASE ExternalKill
  <2>1. kills' \in 0 .. MaxKills
    BY <1>3 DEF ExternalKill, TypeOK
  <2>. QED  BY <1>3, <2>1, ExitTypes DEF ExternalKill, TypeOK
<1>4. CASE DockerStart \/ RestartPolicy \/ DockerRestartCompletes
  BY <1>4 DEF DockerStart, RestartPolicy, DockerRestartCompletes, Boot, TypeOK, files, Stages
<1>. QED  BY <1>1, <1>2, <1>3, <1>4 DEF Daemon

\* A step of graceful_stop(), in whichever thread, preserves the types.
LEMMA GracefulStopTypes ==
  ASSUME TypeOK, NEW p \in AgentThreads, GracefulStop(p) PROVE TypeOK'
BY DEF GracefulStop, StopSeesExit, StopTerminates, StopKills, StopFixesPermissions,
       TypeOK, files, daemon

\* A step of the container's main process preserves the types.
LEMMA MainTypes == ASSUME TypeOK, MainThread PROVE TypeOK'
<1>1. CASE Validate
  BY <1>1, ExitTypes DEF Validate, TypeOK, files, daemon, Stages
<1>2. CASE Resolve
  BY <1>2, ExitTypes DEF Resolve, TypeOK, files, daemon, Stages
<1>3. CASE ReturnFromMain
  BY <1>3, ExitTypes DEF ReturnFromMain, TypeOK
<1>4. CASE FixAtStart \/ Launch \/ Bind \/ InstallSignalHandlers \/ Shutdown
  BY <1>4 DEF FixAtStart, Launch, Bind, InstallSignalHandlers, Shutdown,
              TypeOK, files, daemon, Stages
<1>5. CASE LeaveLoop
  <2>1. stopper' \in [AgentThreads -> {"out", "wait", "term", "fix", "done"}]
    BY <1>5 DEF LeaveLoop, BeginStop, TypeOK
  <2>2. game' \in {"none", "up", "saving", "gone"}
    BY <1>5 DEF LeaveLoop, BeginStop, TypeOK
  <2>. QED  BY <1>5, <2>1, <2>2 DEF LeaveLoop, TypeOK, files, daemon, Stages
<1>6. CASE GracefulStop(Main)
  BY <1>6, GracefulStopTypes DEF AgentThreads
<1>. QED  BY <1>1, <1>2, <1>3, <1>4, <1>5, <1>6 DEF MainThread

\* A step of an HTTP handler preserves the types.
LEMMA HandlerTypes == ASSUME TypeOK, NEW c \in Callers, Handler(c) PROVE TypeOK'
<1>0. ASSUME NEW status \in {"serving", "ok", "running", "error"}, Answer(c, status)
      PROVE  call' \in [Callers -> Calls]
  BY <1>0 DEF Answer, TypeOK, Calls
<1>1. CASE Health(c) \/ Command(c) \/ FixPermissions(c) \/ LifecycleInstall(c)
  <2>1. \E status \in {"serving", "ok", "running", "error"} : Answer(c, status)
    BY <1>1 DEF Health, Command, FixPermissions, LifecycleInstall
  <2>2. call' \in [Callers -> Calls]
    BY <2>1, <1>0
  <2>. QED
    BY <1>1, <2>2 DEF Health, Command, FixPermissions, LifecycleInstall, TypeOK, files, daemon
<1>2. CASE LifecycleStop(c)
  BY <1>2 DEF LifecycleStop, BeginStop, Answer, AgentThreads, TypeOK, Calls, files, daemon
<1>3. CASE LifecycleStopAnswers(c)
  BY <1>3 DEF LifecycleStopAnswers, Answer, NoCall, AgentThreads, TypeOK, Calls, files, daemon
<1>4. CASE InstallerEnds(c)
  <2>1. launchable' \in SUBSET Software
    BY <1>4 DEF InstallerEnds, TypeOK
  <2>2. call' \in [Callers -> Calls]
    BY <1>4 DEF InstallerEnds, Answer, NoCall, TypeOK, Calls
  <2>. QED  BY <1>4, <2>1, <2>2 DEF InstallerEnds, TypeOK, daemon
<1>5. CASE GracefulStop(c)
  BY <1>5, GracefulStopTypes DEF AgentThreads
<1>. QED  BY <1>1, <1>2, <1>3, <1>4, <1>5 DEF Handler

\* A step of a caller preserves the types.
LEMMA CallerTypes == ASSUME TypeOK, NEW c \in Callers, Caller(c) PROVE TypeOK'
BY DEF Caller, Post, ConnectionRefused, CallerGivesUp, CallerReads, Answer, NoCall, AgentThreads,
       TypeOK, Calls, Ops, files, daemon

\* Every step of the container preserves the types.
LEMMA StepTypes == ASSUME TypeOK, [Next]_vars PROVE TypeOK'
<1>1. CASE Daemon  BY <1>1, DaemonTypes
<1>2. CASE MainThread  BY <1>2, MainTypes
<1>3. CASE GameSaves \/ GameFinishes \/ GameCrashes
  BY <1>3 DEF GameSaves, GameFinishes, GameCrashes, TypeOK, files, daemon
<1>4. CASE \E c \in Callers : Handler(c) \/ Caller(c)
  BY <1>4, HandlerTypes, CallerTypes
<1>5. CASE DashboardWrites
  BY <1>5 DEF DashboardWrites, TypeOK, daemon
<1>6. CASE UNCHANGED vars
  BY <1>6 DEF vars, TypeOK
<1>. QED  BY <1>1, <1>2, <1>3, <1>4, <1>5, <1>6 DEF Next

-----------------------------------------------------------------------------
\* The state ContainerExits() leaves satisfies the rest of the invariant.
LEMMA ExitInvariant ==
  ASSUME IInv, NEW request \in {"none", "stop", "restart"}, ContainerExits(request), TypeOK'
  PROVE  IInv'
BY DEF IInv, ContainerExits, Serving, AgentThreads, Running, StoppedMeansReadable,
       UnreadableIsFromThisLife, OrderlyExitLeavesNoGame

\* A step of the container's daemon preserves the invariant.
LEMMA DaemonInvariant == ASSUME IInv, Daemon, TypeOK' PROVE IInv'
<1>1. CASE \E request \in {"stop", "restart"} : DockerStop(request)
  <2>. PICK request \in {"stop", "restart"} : DockerStop(request)  BY <1>1
  <2>1. CASE ContainerExits(request)
    BY <2>1, ExitInvariant
  <2>2. CASE ~ContainerExits(request)
    BY <2>2 DEF DockerStop, IInv, Running, StoppedMeansReadable,
                UnreadableIsFromThisLife, OrderlyExitLeavesNoGame
  <2>. QED  BY <2>1, <2>2
<1>2. CASE DockerKill \/ ExternalKill
  BY <1>2, ExitInvariant DEF DockerKill, ExternalKill, IInv, TypeOK
<1>3. CASE DockerStart \/ RestartPolicy \/ DockerRestartCompletes
  BY <1>3 DEF DockerStart, RestartPolicy, DockerRestartCompletes, Boot, IInv, Serving, Running,
              AgentThreads, StoppedMeansReadable, UnreadableIsFromThisLife, OrderlyExitLeavesNoGame
<1>. QED  BY <1>1, <1>2, <1>3 DEF Daemon

\* A step of graceful_stop(), in whichever thread, preserves the invariant.
LEMMA GracefulStopInvariant ==
  ASSUME IInv, NEW p \in AgentThreads, GracefulStop(p), TypeOK' PROVE IInv'
<1>1. CASE StopSeesExit(p)
  BY <1>1 DEF StopSeesExit, IInv, TypeOK, Serving, Running, AgentThreads, daemon, StoppedMeansReadable,
              UnreadableIsFromThisLife, OrderlyExitLeavesNoGame
<1>2. CASE StopTerminates(p)
  BY <1>2 DEF StopTerminates, IInv, TypeOK, Serving, Running, AgentThreads, daemon, StoppedMeansReadable,
              UnreadableIsFromThisLife, OrderlyExitLeavesNoGame
<1>3. CASE StopKills(p)
  BY <1>3 DEF StopKills, IInv, TypeOK, Serving, Running, AgentThreads, daemon, StoppedMeansReadable,
              UnreadableIsFromThisLife, OrderlyExitLeavesNoGame
<1>4. CASE StopFixesPermissions(p)
  BY <1>4 DEF StopFixesPermissions, IInv, TypeOK, Serving, Running, AgentThreads, daemon,
              StoppedMeansReadable, UnreadableIsFromThisLife, OrderlyExitLeavesNoGame
<1>. QED  BY <1>1, <1>2, <1>3, <1>4 DEF GracefulStop

\* A step of the container's main process preserves the invariant.
LEMMA MainInvariant == ASSUME IInv, MainThread, TypeOK' PROVE IInv'
<1>1. CASE Validate
  <2>1. CASE override = Invalid
    BY <1>1, <2>1, ExitInvariant DEF Validate, IInv, TypeOK
  <2>2. CASE override # Invalid
    BY <1>1, <2>2 DEF Validate, IInv, TypeOK, Serving, Running, AgentThreads, daemon,
              StoppedMeansReadable, UnreadableIsFromThisLife, OrderlyExitLeavesNoGame
  <2>. QED  BY <2>1, <2>2
<1>2. CASE Resolve
  <2>1. CASE override = Invalid
    BY <1>2, <2>1, ExitInvariant DEF Resolve, IInv, TypeOK
  <2>2. CASE override # Invalid
    BY <1>2, <2>2 DEF Resolve, IInv, TypeOK, Serving, Running, AgentThreads, daemon,
              StoppedMeansReadable, UnreadableIsFromThisLife, OrderlyExitLeavesNoGame
  <2>. QED  BY <2>1, <2>2
<1>3. CASE ReturnFromMain
  BY <1>3, ExitInvariant DEF ReturnFromMain, IInv, TypeOK
<1>4. CASE FixAtStart \/ Launch
  BY <1>4 DEF FixAtStart, Launch, IInv, TypeOK, Serving, Running, AgentThreads, daemon,
              StoppedMeansReadable, UnreadableIsFromThisLife, OrderlyExitLeavesNoGame
<1>5. CASE Bind \/ InstallSignalHandlers
  BY <1>5 DEF Bind, InstallSignalHandlers, IInv, TypeOK, Serving, Running, AgentThreads, daemon,
              StoppedMeansReadable, UnreadableIsFromThisLife, OrderlyExitLeavesNoGame
<1>6. CASE LeaveLoop
  BY <1>6 DEF LeaveLoop, BeginStop, IInv, TypeOK, Serving, Running, AgentThreads, daemon,
              StoppedMeansReadable, UnreadableIsFromThisLife, OrderlyExitLeavesNoGame
<1>7. CASE GracefulStop(Main)
  BY <1>7, GracefulStopInvariant DEF AgentThreads
<1>8. CASE Shutdown
  BY <1>8 DEF Shutdown, IInv, TypeOK, Serving, Running, AgentThreads, daemon,
              StoppedMeansReadable, UnreadableIsFromThisLife, OrderlyExitLeavesNoGame
<1>. QED  BY <1>1, <1>2, <1>3, <1>4, <1>5, <1>6, <1>7, <1>8 DEF MainThread

\* A step of an HTTP handler preserves the invariant.
LEMMA HandlerInvariant == ASSUME IInv, NEW c \in Callers, Handler(c), TypeOK' PROVE IInv'
<1>1. CASE Health(c) \/ LifecycleInstall(c) \/ InstallerEnds(c)
  BY <1>1 DEF Health, LifecycleInstall, InstallerEnds, IInv, Running, daemon,
              StoppedMeansReadable, UnreadableIsFromThisLife, OrderlyExitLeavesNoGame
<1>2. CASE Command(c)
  BY <1>2 DEF Command, IInv, TypeOK, Running, daemon,
              StoppedMeansReadable, UnreadableIsFromThisLife, OrderlyExitLeavesNoGame
<1>3. CASE FixPermissions(c)
  BY <1>3 DEF FixPermissions, IInv, Running, daemon,
              StoppedMeansReadable, UnreadableIsFromThisLife, OrderlyExitLeavesNoGame
<1>4. CASE LifecycleStop(c)
  BY <1>4 DEF LifecycleStop, Serve, Listening, BeginStop, IInv, TypeOK, Serving, Running, AgentThreads,
              daemon, StoppedMeansReadable, UnreadableIsFromThisLife, OrderlyExitLeavesNoGame
<1>5. CASE LifecycleStopAnswers(c)
  BY <1>5 DEF LifecycleStopAnswers, IInv, TypeOK, Running, AgentThreads, daemon,
              StoppedMeansReadable, UnreadableIsFromThisLife, OrderlyExitLeavesNoGame
<1>6. CASE GracefulStop(c)
  BY <1>6, GracefulStopInvariant DEF AgentThreads
<1>. QED  BY <1>1, <1>2, <1>3, <1>4, <1>5, <1>6 DEF Handler

\* A step of a caller preserves the invariant.
LEMMA CallerInvariant == ASSUME IInv, NEW c \in Callers, Caller(c), TypeOK' PROVE IInv'
BY DEF Caller, Post, ConnectionRefused, CallerGivesUp, CallerReads, IInv, TypeOK, Running, AgentThreads,
       daemon, StoppedMeansReadable, UnreadableIsFromThisLife, OrderlyExitLeavesNoGame

\* A step of the game process preserves the invariant.
LEMMA GameInvariant ==
  ASSUME IInv, GameSaves \/ GameFinishes \/ GameCrashes, TypeOK' PROVE IInv'
BY DEF GameSaves, GameFinishes, GameCrashes, IInv, TypeOK, Running, daemon,
       StoppedMeansReadable, UnreadableIsFromThisLife, OrderlyExitLeavesNoGame

-----------------------------------------------------------------------------
\* IInv holds of every reachable state of the container.
THEOREM Invariance == Spec => []IInv
<1>1. Init => IInv
  <2>. SUFFICES ASSUME Init PROVE IInv  OBVIOUS
  <2>1. TypeOK
    <3>1. call \in [Callers -> Calls]
      BY DEF Init, Calls, NoCall
    <3>2. stopper \in [AgentThreads -> {"out", "wait", "term", "fix", "done"}]
      BY DEF Init
    <3>3. kills \in 0 .. MaxKills
      BY DEF Init
    <3>. QED  BY <3>1, <3>2, <3>3 DEF Init, TypeOK, Stages
  <2>2. \A p \in AgentThreads : stopper[p] = "out"
    BY DEF Init
  <2>3. agent = "off" /\ game = "none" /\ stopper[Main] = "out"
    BY <2>2 DEF Init, AgentThreads
  <2>. QED
    BY <2>1, <2>2, <2>3 DEF IInv, Running, StoppedMeansReadable, UnreadableIsFromThisLife,
                            OrderlyExitLeavesNoGame
<1>2. IInv /\ [Next]_vars => IInv'
  <2>. SUFFICES ASSUME IInv, [Next]_vars PROVE IInv'  OBVIOUS
  <2>1. TypeOK'  BY StepTypes DEF IInv
  <2>2. CASE Daemon  BY <2>1, <2>2, DaemonInvariant
  <2>3. CASE MainThread  BY <2>1, <2>3, MainInvariant
  <2>4. CASE GameSaves \/ GameFinishes \/ GameCrashes  BY <2>1, <2>4, GameInvariant
  <2>5. CASE \E c \in Callers : Handler(c) \/ Caller(c)
    BY <2>1, <2>5, HandlerInvariant, CallerInvariant
  <2>6. CASE DashboardWrites
    BY <2>1, <2>6 DEF DashboardWrites, IInv, Running, daemon,
              StoppedMeansReadable, UnreadableIsFromThisLife, OrderlyExitLeavesNoGame
  <2>7. CASE UNCHANGED vars
    BY <2>1, <2>7 DEF vars, IInv, Running,
              StoppedMeansReadable, UnreadableIsFromThisLife, OrderlyExitLeavesNoGame
  <2>. QED  BY <2>2, <2>3, <2>4, <2>5, <2>6, <2>7 DEF Next
<1>. QED  BY <1>1, <1>2, PTL DEF Spec

\* Every variable of the container keeps its type.
THEOREM TypeCorrect == Spec => []TypeOK
<1>1. IInv => TypeOK  BY DEF IInv
<1>. QED  BY <1>1, Invariance, PTL

\* However many handlers race with the main thread in graceful_stop(), each of
\* them that did its work leaves a dead game and readable saves.
THEOREM StoppedIsReadable == Spec => []StoppedMeansReadable
<1>1. IInv => StoppedMeansReadable  BY DEF IInv
<1>. QED  BY <1>1, Invariance, PTL

\* start() repairs what any kill, at any moment, left unreadable.
THEOREM StartRepairs == Spec => []UnreadableIsFromThisLife
<1>1. IInv => UnreadableIsFromThisLife  BY DEF IInv
<1>. QED  BY <1>1, Invariance, PTL

\* The agent never returns from main() over a live game.
THEOREM OrderlyExit == Spec => []OrderlyExitLeavesNoGame
<1>1. IInv => OrderlyExitLeavesNoGame  BY DEF IInv
<1>. QED  BY <1>1, Invariance, PTL
=============================================================================
