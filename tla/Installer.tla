------------------------------ MODULE Installer ------------------------------
(***************************************************************************)
(* Installing software and reverting an install: the Software tab's        *)
(* handlers (blueprints/catalog.py) around services/installer.py, run by   *)
(* several gunicorn threads over one game/ directory, its snapshots, the   *)
(* manifest and the override file.  Every step between which another       *)
(* thread, a failure or a restart of the dashboard can come is an action.  *)
(*                                                                         *)
(* What docker and the control agent answer is chosen freely here; module  *)
(* GamePanel joins these steps with those of GameRuntime.  In this module  *)
(* the game writes only while no install or rollback is under way.         *)
(***************************************************************************)
EXTENDS Naturals, Sequences, SequencesExt

CONSTANTS
  Threads,      \* gunicorn worker threads
  Software,     \* what the catalogs offer; also, the entry point it leaves in game/
  Kind,         \* DownloadInfo.install_kind of each
  Data,         \* what the game and its users keep in game/: worlds, settings
  Stuck,        \* entries of game/ the dashboard's uid cannot delete
  Mods,         \* what users keep in the plugins/mods/resourcepacks mounts
  Initial,      \* the software of the instance at the start, installed
  None,
  MaxInstalls,  \* bound on the requests that are begun
  MaxFaults     \* bound on I/O faults, incomplete copies and dashboard restarts

Kinds == {"jar", "buildtools", "installer", "zip"}

ASSUME ConstantsAssumption ==
  /\ Kind \in [Software -> Kinds]
  /\ Initial \in Software
  /\ None \notin Threads \cup Software
  /\ Software \cap Data = {}
  /\ Stuck \subseteq Data
  /\ MaxInstalls \in Nat /\ MaxFaults \in Nat

VARIABLES
  game,       \* entries of game/
  mods,       \* entries of the category mounts
  snapshots,  \* install/snapshots, oldest first
  manifest,   \* installation.json
  override,   \* the software instance_override.json names
  lock,       \* _install_lock: its holder, or None
  pc,
  request,    \* what each thread was asked for
  progress,   \* InstallProgress: active, done, error or idle
  strays,     \* installers whose java runs on in the agent after their request has ended
  outcome,    \* history: how the last holder of the lock left game/
  held,       \* history: what game/ held when the last install took the lock
  owes,       \* history: the thread of the last install, until it has named it in the override
  misnamed,   \* history: a fault, or another's late write, has kept the override from it
  mixed,      \* history: other files than the install's own have come among them since the wipe
  begun, faults

disk    == <<game, mods, snapshots, manifest, override>>
late    == <<strays, mixed>>
history == <<outcome, held, owes, misnamed, begun, faults>>
vars    == <<disk, lock, pc, request, progress, late, history>>

Entries == Software \cup Data
JarSoftware == {s \in Software : Kind[s] \in {"jar", "buildtools"}}
Managed(s) == Kind[s] = "installer"
ManagedSoftware == {s \in Software : Managed(s)}

Requests   == [sw : Software, backup : BOOLEAN]
\* The rest is history.  of: what game/ held; lost: what a warning says was not
\* copied, or was moved back into a leftover of the same name instead of its place;
\* cut: the copying, the moving back or the removal stopped half way.
Snapshots  == [has : SUBSET Entries, of : SUBSET Entries, lost : SUBSET Entries, cut : BOOLEAN]
Manifests  == [sw : Software \cup {None}, mode : {"jar", "script", "binary"},
               result : {"success", "rolled_back"}]
\* What its readers make of a manifest that was being written.
Unparsable == [sw |-> None, mode |-> "jar", result |-> "success"]
LaunchMode(s) == CASE Kind[s] = "installer" -> "script"
                   [] Kind[s] = "zip"       -> "binary"
                   [] OTHER                 -> "jar"

\* The labels of an install up to the lock, under it, and past it.
BeforeLock == {"stop", "categories", "acquire"}
UnderLock  == {"resolve", "rt_status", "rt_start", "rt_health", "rt_stop",
               "snapshot", "copying", "wipe", "place", "run_installer", "manifest",
               "rb_pick", "rb_clear", "rb_move", "rb_manifest"}
AfterLock  == {"config", "restart"}

TypeOK ==
  /\ game \in SUBSET Entries
  /\ mods \in SUBSET Mods
  /\ snapshots \in Seq(Snapshots)
  /\ manifest \in Manifests
  /\ override \in Software
  /\ lock \in Threads \cup {None}
  /\ pc \in [Threads -> {"idle"} \cup BeforeLock \cup UnderLock \cup AfterLock]
  /\ request \in [Threads -> Requests]
  /\ progress \in {"idle", "active", "done", "error"}
  /\ outcome \in {"installed", "rolled_back", "failed"}
  /\ held \in SUBSET Entries
  /\ owes \in Threads \cup {None} /\ misnamed \in BOOLEAN
  /\ strays \in SUBSET Software /\ mixed \in BOOLEAN
  /\ begun \in Nat /\ faults \in Nat

\* What launch_command() of the adapter of s would start, or None when it raises
\* AdapterConfigError.  Java reads the launch mode and the target's file name from
\* the manifest - server.jar, run.sh or another game's binary; the other adapters
\* look for their own binary.
LaunchTarget(s) ==
  LET wanted == IF Kind[s] = "zip" THEN {s}
                ELSE CASE manifest.mode = "script" -> ManagedSoftware
                       [] manifest.mode = "binary" -> {manifest.sw}
                       [] OTHER                    -> JarSoftware
  IN  IF wanted \cap game = {} THEN None ELSE CHOOSE x \in wanted : x \in game

Init ==
  /\ \E d \in SUBSET Data : game = {Initial} \cup d
  /\ mods = Mods
  /\ snapshots = <<>>
  /\ manifest = [sw |-> Initial, mode |-> LaunchMode(Initial), result |-> "success"]
  /\ override = Initial
  /\ lock = None
  /\ pc = [t \in Threads |-> "idle"]
  /\ request = [t \in Threads |-> [sw |-> Initial, backup |-> TRUE]]
  /\ progress = "idle"
  /\ outcome = "installed" /\ held = {} /\ begun = 0 /\ faults = 0
  /\ owes = None /\ misnamed = FALSE
  /\ strays = {} /\ mixed = FALSE

-----------------------------------------------------------------------------
Goto(t, label) == pc' = [pc EXCEPT ![t] = label]

\* A step that is only progress.update() and a move to the next label.
Advance(t, from, to) ==
  /\ pc[t] = from /\ Goto(t, to)
  /\ progress' = "active"
  /\ UNCHANGED <<disk, lock, request, late, history>>

\* The handler reports an error before it holds the lock, or after.
Refuse(t) == Goto(t, "idle") /\ progress' = "error"

\* Mutant of Abort: the lock is not released.
AbortKeepingLock(t) ==
  /\ Refuse(t)
  /\ outcome' = "failed"
  /\ UNCHANGED <<lock, mods, snapshots, override, request, held, owes, misnamed, mixed, begun>>

\* An exception under the lock: finally releases it, the handler reports it.
Abort(t) ==
  /\ Refuse(t)
  /\ lock' = None /\ outcome' = "failed"
  /\ UNCHANGED <<mods, snapshots, override, request, held, owes, misnamed, mixed, begun>>

Fail(t) == Abort(t) /\ UNCHANGED <<game, manifest, strays, faults>>

\* An I/O error or a restart.
Fault == faults < MaxFaults /\ faults' = faults + 1

\* The snapshots, the newest one being s now.
Renewed(s) == [snapshots EXCEPT ![Len(snapshots)] = s]

-----------------------------------------------------------------------------
(* POST /api/catalog/install, up to the lock. *)

\* Validated; the container is stopped first unless the install is managed.
BeginInstall(t) ==
  /\ pc[t] = "idle" /\ begun < MaxInstalls
  /\ \E r \in Requests :
       /\ request' = [request EXCEPT ![t] = r]
       /\ Goto(t, IF Managed(r.sw) THEN "categories" ELSE "stop")
  /\ progress' = "active" /\ begun' = begun + 1
  /\ UNCHANGED <<disk, lock, outcome, held, owes, misnamed, late, faults>>

StopInstance(t) == Advance(t, "stop", "categories")

StopInstanceFails(t) ==
  /\ pc[t] = "stop" /\ Refuse(t)
  /\ UNCHANGED <<disk, lock, request, late, history>>

\* The mounts of the plugins, mods and resourcepacks are emptied.
ClearCategories(t) ==
  /\ pc[t] = "categories" /\ Goto(t, "acquire")
  /\ mods' = {} /\ progress' = "active"
  /\ UNCHANGED <<game, snapshots, manifest, override, lock, request, late, history>>

Acquire(t) ==
  /\ pc[t] = "acquire" /\ lock = None
  /\ lock' = t /\ held' = game
  /\ Goto(t, "resolve")
  /\ UNCHANGED <<disk, request, progress, outcome, owes, misnamed, late, begun, faults>>

Busy(t) ==
  /\ pc[t] = "acquire" /\ lock # None /\ Refuse(t)
  /\ UNCHANGED <<disk, lock, request, late, history>>

-----------------------------------------------------------------------------
(* Installer._install_locked() *)

Resolve(t) ==
  Advance(t, "resolve", IF Managed(request[t].sw) THEN "rt_status" ELSE "snapshot")

ResolveFails(t) == pc[t] = "resolve" /\ Fail(t)

\* _ensure_game_runtime_idle(): status, start and wait for the agent, health,
\* stop the game; any of the calls may fail.
RuntimeStatus(t, running) == Advance(t, "rt_status", IF running THEN "rt_health" ELSE "rt_start")
RuntimeStarted(t)         == Advance(t, "rt_start", "rt_health")
RuntimeHealth(t, running) == Advance(t, "rt_health", IF running THEN "rt_stop" ELSE "snapshot")
RuntimeStopped(t)         == Advance(t, "rt_stop", "snapshot")
RuntimeFails(t) ==
  pc[t] \in {"rt_status", "rt_start", "rt_health", "rt_stop"} /\ Fail(t)

\* _snapshot_and_clean_game_dir()
NothingToClean(t) == game = {} /\ Advance(t, "snapshot", "place")

\* Mutant of SkipSnapshot: whether a backup was asked for or not.
SkipAnySnapshot(t) == game # {} /\ Advance(t, "snapshot", "wipe")

SkipSnapshot(t) == game # {} /\ ~request[t].backup /\ Advance(t, "snapshot", "wipe")

BeginSnapshot(t) ==
  /\ pc[t] = "snapshot" /\ game # {} /\ request[t].backup
  /\ Goto(t, "copying") /\ progress' = "active"
  /\ snapshots' = Append(snapshots, [has |-> {}, of |-> game, lost |-> {}, cut |-> FALSE])
  /\ UNCHANGED <<game, mods, manifest, override, lock, request, late, history>>

\* copytree() refuses a directory that exists - snapshots are named after the
\* second they are taken in - and install/ may be full.
SnapshotFails(t) == pc[t] = "snapshot" /\ game # {} /\ request[t].backup /\ Fail(t)

\* copytree() copies what it can.  What it cannot - a file of another uid, or any
\* file when the disk is full or fails - is a warning, and the install goes on.
EndSnapshot(t) ==
  /\ pc[t] = "copying" /\ Goto(t, "wipe") /\ progress' = "active"
  /\ \E missed \in SUBSET game :
       /\ IF missed = {} THEN UNCHANGED faults ELSE Fault
       /\ snapshots' = Renewed([Last(snapshots) EXCEPT !.has = game \ missed,
                                                       !.lost = missed])
  /\ UNCHANGED <<game, mods, manifest, override, lock, request, late,
                 outcome, held, owes, misnamed, begun>>

\* Mutant of Wipe: nothing is deleted.
WipeNothing(t) ==
  /\ pc[t] = "wipe" /\ Goto(t, "place") /\ progress' = "active"
  /\ mixed' = FALSE
  /\ UNCHANGED <<disk, lock, request, strays, history>>

\* _clear_directory_contents(): what cannot be deleted stays, with a warning.
Wipe(t) ==
  /\ pc[t] = "wipe" /\ Goto(t, "place") /\ progress' = "active"
  /\ game' = game \cap Stuck /\ mixed' = FALSE
  /\ UNCHANGED <<mods, snapshots, manifest, override, lock, request, strays, history>>

\* game/ with the entry point of s: a server.jar replaces the one there is.
With(s) == (IF s \in JarSoftware THEN game \ JarSoftware ELSE game) \cup {s}

\* Downloading, checking and compiling touch no entry of game/.
PlaceJar(t) ==
  /\ pc[t] = "place" /\ request[t].sw \in JarSoftware
  /\ Goto(t, "manifest") /\ progress' = "active"
  /\ game' = With(request[t].sw)
  /\ UNCHANGED <<mods, snapshots, manifest, override, lock, request, late, history>>

\* Extracted beside game/'s entries, then moved in among what the wipe left: a
\* directory goes inside a leftover of its name, whose old files stay.
PlaceZip(t) ==
  /\ pc[t] = "place" /\ Kind[request[t].sw] = "zip"
  /\ Goto(t, "manifest") /\ progress' = "active"
  /\ game' = With(request[t].sw)
  /\ mixed' \in {mixed, mixed \/ game # {}}
  /\ UNCHANGED <<mods, snapshots, manifest, override, lock, request, strays, history>>

DownloadInstaller(t) == Managed(request[t].sw) /\ Advance(t, "place", "run_installer")

\* A jar that was built is copied in, and the entries of a zip are moved one by
\* one: an error, or a leftover in the way, may come after the entry point is there.
PlaceFails(t) ==
  /\ pc[t] = "place" /\ Abort(t)
  /\ \/ UNCHANGED game
     \/ Kind[request[t].sw] \in {"buildtools", "zip"} /\ game' = With(request[t].sw)
  /\ UNCHANGED <<manifest, strays, faults>>

\* The agent runs the installer in game/: run.sh may appear before the reply
\* does, and the reply may be an error or be lost.
InstallerWrites(t) ==
  /\ pc[t] = "run_installer"
  /\ game' = game \cup {request[t].sw}
  /\ UNCHANGED <<mods, snapshots, manifest, override, lock, pc, request, progress, late,
                 history>>

\* The answer is good and there is a run.sh, the call's own or a stray's.
InstallerRan(t) ==
  game \cap ManagedSoftware # {} /\ Advance(t, "run_installer", "manifest")

\* A bad answer, or none: nothing then stops the java process.
InstallerFails(t) ==
  /\ pc[t] = "run_installer" /\ Abort(t)
  /\ strays' \in {strays, strays \cup {request[t].sw}}
  /\ UNCHANGED <<game, manifest, faults>>

\* Mutant of WriteManifest: the launch mode of the last install stays.
WriteManifestKeepingMode(t) ==
  /\ pc[t] = "manifest" /\ Goto(t, "config")
  /\ manifest' = [manifest EXCEPT !.sw = request[t].sw, !.result = "success"]
  /\ lock' = None /\ outcome' = "installed" /\ owes' = t
  /\ progress' = "active"
  /\ UNCHANGED <<game, mods, snapshots, override, request, held, misnamed, late, begun, faults>>

\* The manifest is written and the lock released.
WriteManifest(t) ==
  /\ pc[t] = "manifest" /\ Goto(t, "config")
  /\ manifest' = [sw |-> request[t].sw, mode |-> LaunchMode(request[t].sw), result |-> "success"]
  /\ lock' = None /\ outcome' = "installed" /\ owes' = t
  /\ progress' = "active"
  /\ UNCHANGED <<game, mods, snapshots, override, request, held, misnamed, late, begun, faults>>

\* An OSError before the file is truncated, or after.
WriteManifestFails(t) ==
  /\ pc[t] = "manifest" /\ Fault /\ Abort(t)
  /\ manifest' \in {manifest, Unparsable}
  /\ UNCHANGED <<game, strays>>

-----------------------------------------------------------------------------
(* POST /api/catalog/install, after the lock. *)

\* What the write of t makes of owes and misnamed.
Named(t) ==
  /\ owes' = IF owes = t THEN None ELSE owes
  /\ misnamed' = (owes # t)

\* Mutant of WriteOverride: the file is left as it is.
WriteNoOverride(t) ==
  /\ pc[t] = "config" /\ Goto(t, "restart")
  /\ progress' = "active" /\ Named(t)
  /\ UNCHANGED <<disk, lock, request, outcome, held, late, begun, faults>>

\* Other installs may have come since the lock was released.
WriteOverride(t) ==
  /\ pc[t] = "config" /\ Goto(t, "restart")
  /\ override' = request[t].sw /\ progress' = "active" /\ Named(t)
  /\ UNCHANGED <<game, mods, snapshots, manifest, lock, request, outcome, held, late, begun, faults>>

\* An OSError here is not caught: the request ends, the progress does not.
WriteOverrideFails(t) ==
  /\ pc[t] = "config" /\ Fault /\ Goto(t, "idle")
  /\ owes' = IF owes = t THEN None ELSE owes
  /\ misnamed' = (misnamed \/ owes = t)
  /\ UNCHANGED <<disk, lock, request, progress, outcome, held, late, begun>>

\* docker start, restart or stop, whatever they answer.
FinishInstall(t) ==
  /\ pc[t] = "restart" /\ Goto(t, "idle") /\ progress' = "done"
  /\ UNCHANGED <<disk, lock, request, late, history>>

-----------------------------------------------------------------------------
(* POST /api/catalog/install/rollback *)

\* Mutant of BeginRollback: the lock is not tried.
BeginRollbackAnyway(t) ==
  /\ pc[t] = "idle" /\ begun < MaxInstalls
  /\ begun' = begun + 1
  /\ lock' = t /\ Goto(t, "rb_pick") /\ progress' = "active"
  /\ UNCHANGED <<disk, request, outcome, held, owes, misnamed, late, faults>>

BeginRollback(t) ==
  /\ pc[t] = "idle" /\ begun < MaxInstalls
  /\ begun' = begun + 1
  /\ \/ /\ lock = None
        /\ lock' = t
        /\ Goto(t, "rb_pick") /\ progress' = "active"
     \/ lock # None /\ Refuse(t) /\ UNCHANGED lock
  /\ UNCHANGED <<disk, request, outcome, held, owes, misnamed, late, faults>>

\* InstallError before anything is touched.
NoSnapshot(t) ==
  /\ pc[t] = "rb_pick" /\ snapshots = <<>>
  /\ Refuse(t) /\ lock' = None
  /\ UNCHANGED <<disk, request, late, history>>

PickSnapshot(t) == snapshots # <<>> /\ Advance(t, "rb_pick", "rb_clear")

ClearBeforeRollback(t) ==
  /\ pc[t] = "rb_clear" /\ Goto(t, "rb_move") /\ progress' = "active"
  /\ game' = game \cap Stuck /\ mixed' = FALSE
  /\ UNCHANGED <<mods, snapshots, manifest, override, lock, request, strays, history>>

\* shutil.move() of one entry.  Where the clearing has left a directory of that
\* name, or a stray has made one, the entry goes inside it and not into its place.
MoveEntry(t) ==
  /\ pc[t] = "rb_move"
  /\ \E e \in Last(snapshots).has :
       \/ /\ game' = game \cup {e}
          /\ snapshots' = Renewed([Last(snapshots) EXCEPT !.has = @ \ {e}])
       \/ /\ e \in game /\ UNCHANGED game
          /\ snapshots' = Renewed([Last(snapshots) EXCEPT !.has = @ \ {e},
                                                          !.lost = @ \cup {e}])
  /\ UNCHANGED <<mods, manifest, override, lock, pc, request, progress, late,
                 history>>

\* A leftover in the way, or a failing disk: an OSError, which the handler does not
\* catch, so that the progress stays active.
MoveFails(t) ==
  /\ pc[t] = "rb_move" /\ Last(snapshots).has # {}
  /\ \/ Last(snapshots).has \cap game # {} /\ UNCHANGED faults
     \/ Fault
  /\ Goto(t, "idle") /\ lock' = None /\ outcome' = "failed"
  /\ snapshots' = Renewed([Last(snapshots) EXCEPT !.cut = TRUE])
  /\ UNCHANGED <<game, mods, manifest, override, request, progress, late,
                 held, owes, misnamed, begun>>

\* Mutant of RemoveSnapshot: before all its entries are moved.
RemoveSnapshotEarly(t) ==
  /\ pc[t] = "rb_move"
  /\ Goto(t, "rb_manifest")
  /\ snapshots' = Front(snapshots)
  /\ UNCHANGED <<game, mods, manifest, override, lock, request, progress, late,
                 history>>

RemoveSnapshot(t) ==
  /\ pc[t] = "rb_move" /\ Last(snapshots).has = {}
  /\ Goto(t, "rb_manifest")
  /\ snapshots' = Front(snapshots)
  /\ UNCHANGED <<game, mods, manifest, override, lock, request, progress, late,
                 history>>

\* rmtree() ignores its errors: what it leaves is the newest snapshot still, and
\* holds nothing that the next rollback could restore.
LeaveSnapshot(t) ==
  /\ pc[t] = "rb_move" /\ Last(snapshots).has = {} /\ Fault
  /\ Goto(t, "rb_manifest")
  /\ snapshots' = Renewed([Last(snapshots) EXCEPT !.cut = TRUE])
  /\ UNCHANGED <<game, mods, manifest, override, lock, request, progress, late,
                 outcome, held, owes, misnamed, begun>>

\* Mutant of FinishRollback: the launch mode is forgotten.
FinishRollbackBlank(t) ==
  /\ pc[t] = "rb_manifest" /\ Goto(t, "idle")
  /\ manifest' = [sw |-> None, mode |-> None, result |-> "rolled_back"]
  /\ lock' = None /\ outcome' = "rolled_back" /\ progress' = "done"
  /\ UNCHANGED <<game, mods, snapshots, override, request, held, owes, misnamed, late, begun, faults>>

\* Only the result of the manifest changes.
FinishRollback(t) ==
  /\ pc[t] = "rb_manifest" /\ Goto(t, "idle")
  /\ manifest' = [manifest EXCEPT !.result = "rolled_back"]
  /\ lock' = None /\ outcome' = "rolled_back" /\ progress' = "done"
  /\ UNCHANGED <<game, mods, snapshots, override, request, held, owes, misnamed, late, begun, faults>>

\* An OSError, as in MoveFails.
FinishRollbackFails(t) ==
  /\ pc[t] = "rb_manifest" /\ Fault
  /\ Goto(t, "idle") /\ lock' = None /\ outcome' = "failed"
  /\ manifest' \in {manifest, Unparsable}
  /\ UNCHANGED <<game, mods, snapshots, override, request, progress, late,
                 held, owes, misnamed, begun>>

-----------------------------------------------------------------------------
(* The surroundings. *)

\* An installer nobody waits for writes on, whatever is installed by now.
StrayWrites ==
  /\ \E s \in strays : game' = game \cup {s}
  /\ mixed' = TRUE
  /\ UNCHANGED <<mods, snapshots, manifest, override, lock, pc, request, progress, strays,
                 history>>

\* They end, time out, or are killed with their container.
StraysEnd ==
  /\ strays # {} /\ strays' = {}
  /\ UNCHANGED <<disk, lock, pc, request, progress, mixed, history>>

\* The game saves a world, a user uploads a mod.
GameWrites ==
  /\ \A t \in Threads : pc[t] = "idle"
  /\ \E d \in Data : d \notin game /\ game' = game \cup {d}
  /\ UNCHANGED <<mods, snapshots, manifest, override, lock, pc, request, progress, late,
                 history>>

UploadMod ==
  /\ \E m \in Mods : m \notin mods /\ mods' = mods \cup {m}
  /\ UNCHANGED <<game, snapshots, manifest, override, lock, pc, request, progress, late,
                 history>>

\* What is left of the newest snapshot when its copying, or its moving back, is
\* interrupted.
CutShort ==
  IF \E t \in Threads : pc[t] = "copying"
  THEN {Renewed([Last(snapshots) EXCEPT !.has = h, !.cut = TRUE]) : h \in SUBSET game}
  ELSE IF \E t \in Threads : pc[t] = "rb_move"
  THEN {Renewed([Last(snapshots) EXCEPT !.cut = TRUE])}
  ELSE {snapshots}

\* The dashboard restarts: its threads, lock and progress are gone, a copy, a wipe
\* or a manifest being written is left half done, and the agent's java runs on.
DashboardRestarts ==
  /\ Fault
  /\ snapshots' \in CutShort
  /\ game' \in IF \E t \in Threads : pc[t] \in {"wipe", "rb_clear"}
               THEN SUBSET game ELSE {game}
  /\ manifest' \in {manifest} \cup
       (IF \E t \in Threads : pc[t] \in {"manifest", "rb_manifest"}
        THEN {Unparsable} ELSE {})
  /\ pc' = [t \in Threads |-> "idle"]
  /\ lock' = None /\ progress' = "idle"
  /\ outcome' = IF lock = None THEN outcome ELSE "failed"
  /\ owes' = None /\ misnamed' = (misnamed \/ owes # None)
  /\ \E ran \in SUBSET {t \in Threads : pc[t] = "run_installer"} :
       strays' = strays \cup {request[t].sw : t \in ran}
  /\ UNCHANGED <<mods, override, request, held, mixed, begun>>

-----------------------------------------------------------------------------
Install(t) ==
  \/ StopInstance(t) \/ StopInstanceFails(t) \/ ClearCategories(t) \/ Acquire(t) \/ Busy(t)
  \/ Resolve(t) \/ ResolveFails(t)
  \/ \E running \in BOOLEAN : RuntimeStatus(t, running) \/ RuntimeHealth(t, running)
  \/ RuntimeStarted(t) \/ RuntimeStopped(t) \/ RuntimeFails(t)
  \/ NothingToClean(t) \/ SkipSnapshot(t) \/ BeginSnapshot(t) \/ SnapshotFails(t) \/ EndSnapshot(t)
  \/ Wipe(t)
  \/ PlaceJar(t) \/ PlaceZip(t) \/ DownloadInstaller(t) \/ PlaceFails(t) \/ InstallerWrites(t)
  \/ InstallerRan(t) \/ InstallerFails(t)
  \/ WriteManifest(t) \/ WriteManifestFails(t)
  \/ WriteOverride(t) \/ WriteOverrideFails(t) \/ FinishInstall(t)

Rollback(t) ==
  \/ NoSnapshot(t) \/ PickSnapshot(t) \/ ClearBeforeRollback(t)
  \/ MoveEntry(t) \/ MoveFails(t) \/ RemoveSnapshot(t) \/ LeaveSnapshot(t)
  \/ FinishRollback(t) \/ FinishRollbackFails(t)

Next ==
  \/ \E t \in Threads : BeginInstall(t) \/ BeginRollback(t) \/ Install(t) \/ Rollback(t)
  \/ GameWrites \/ UploadMod \/ StrayWrites \/ StraysEnd \/ DashboardRestarts

Spec == Init /\ [][Next]_vars

\* A thread that has begun a request runs on; requests come as they please.
FairSpec == Spec /\ \A t \in Threads : WF_vars(Install(t) \/ Rollback(t))

-----------------------------------------------------------------------------
(* Safety. *)

Quiet == \A t \in Threads : pc[t] = "idle"

\* Installs and rollbacks, from whichever thread, never overlap in game/.
Exclusive == \A t \in Threads : pc[t] \in UnderLock <=> lock = t

\* Whatever failures, restarts and refused requests came before, and whoever
\* asked: once an install has succeeded, game/ holds exactly the software the
\* manifest names, in the manifest's launch mode, until the lock is taken again -
\* or until an installer whose request is long over writes among it, before or after
\* the install ends, or a zip has met what the wipe could not delete.
InstalledIsWhole ==
  lock = None /\ outcome = "installed" /\ ~mixed =>
    game \cap Software = {manifest.sw} /\ manifest.mode = LaunchMode(manifest.sw)

\* From the first deletion to the end of an install with a backup, all that game/
\* held when it took the lock is in the newest snapshot, but for what the copying
\* has warned of.
SnapshotHoldsWhatIsWiped ==
  \A t \in Threads :
    /\ pc[t] \in {"wipe", "place", "run_installer", "manifest"}
    /\ request[t].backup /\ held # {}
    => snapshots # <<>> /\ held \ Last(snapshots).lost \subseteq Last(snapshots).has

\* A snapshot is removed only when all it was taken of is back in game/, but for
\* what its copying warned of and what went inside a leftover, unless its copying
\* or an earlier rollback to it was cut short.
RollbackRestoresSnapshot ==
  [][Len(snapshots') < Len(snapshots) /\ ~Last(snapshots).cut =>
       Last(snapshots).of \ Last(snapshots).lost \subseteq game]_vars

\* Whatever other installs and rollbacks did before or do beside it: once a
\* successful install has written the override, the next start launches what it has
\* installed, until the lock is taken again, another install's late write of the
\* override or an installer's into game/ comes, or the override's write has failed.
InstallIsLaunched ==
  lock = None /\ outcome = "installed" /\ owes = None /\ ~misnamed /\ ~mixed =>
    LaunchTarget(override) = manifest.sw

(* Liveness. *)

\* No install, failed or not, keeps the instance locked.
LockIsReleased == \A t \in Threads : lock = t ~> lock # t

(* What comments and documents say, and the code does not do. *)

\* rollback() is there "to undo a clean (re)install": the container can launch
\* what it has restored.
RollbackIsLaunchable == Quiet /\ outcome = "rolled_back" => LaunchTarget(override) # None
=============================================================================
