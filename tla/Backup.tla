-------------------------------- MODULE Backup --------------------------------
(***************************************************************************)
(* Backups of game/: the Backups tab's handlers (blueprints/backups.py),   *)
(* the thread that builds an archive, the scheduler, retention, deletion   *)
(* and restores (services/backup.py), over one directory of archives and   *)
(* beside a game server that saves into game/ unless its autosave is off.  *)
(*                                                                         *)
(* An archive stands for its contents, and so does its hash.  Archives are *)
(* named after the second they are begun in, and no two are begun in the   *)
(* same one: here they are numbered.  So are the directories that restores *)
(* extract to, but two of one second share theirs: here the directory is   *)
(* chosen freely, and named after an administrator.  Whether scheduled     *)
(* backups are on and one is due is chosen freely.                         *)
(***************************************************************************)
EXTENDS Naturals, FiniteSets

CONSTANTS
  Admins,        \* gunicorn threads that serve the Backups tab
  Entries,       \* entries of game/
  Stuck,         \* those the dashboard's uid cannot delete
  Private,       \* those the game writes with a mode that keeps the dashboard out
  None,
  MaxRetention,  \* bound on the retention setting
  MaxRequests,   \* bound on requests and scheduled backups
  MaxFaults      \* bound on I/O faults, failed resumes and dashboard restarts

ASSUME ConstantsAssumption ==
  /\ IsFiniteSet(Admins) /\ Stuck \subseteq Entries /\ Private \subseteq Entries
  /\ None \notin Admins /\ \A s \in SUBSET Entries : s # None
  /\ MaxRetention \in Nat \ {0} /\ MaxRequests \in Nat /\ MaxFaults \in Nat

VARIABLES
  server,     \* is the game server up?
  autosave,   \* the game's own autosave flag
  game,       \* entries of game/
  locked,     \* entries the dashboard's uid cannot read for now
  archives,   \* the archive of each number, or None
  metas,      \* its metadata file, that list() shows: what was archived, or None
  torn,       \* numbers whose archive has half of an entry in it
  retention,  \* of settings.json
  busy,       \* _busy_lock
  progress,   \* BackupProgress.status
  worker,     \* the background thread
  due,        \* the scheduler has found a backup to be due
  begun,      \* archives begun
  pc, target, goal,  \* of each request
  dir, todo,  \* of each restore: its staging directory, and what is left to do there
  staged,     \* entries in each staging directory
  requests, faults,
  held,       \* history: the archive was begun with autosave off
  unresumed,  \* history: a resume did not reach the game that is up
  mixed,      \* history: restores since whose clearing others have changed game/
  shared      \* history: restores whose staging directory has been another's too

files    == <<game, locked>>
disk     == <<archives, metas, torn, retention>>
thread   == <<busy, progress, worker, due, begun>>
staging  == <<dir, todo, staged>>
restores == <<target, goal, staging>>
bounds   == <<requests, faults>>
vars == <<server, autosave, files, disk, thread, pc, restores, bounds, held, unresumed,
          mixed, shared>>

Ids == 1 .. MaxRequests + 1
Stages == {"off", "begin", "archive", "publish", "meta", "retain", "unlink", "unlink_meta",
           "on_done", "release"}
Creating  == {"flush", "save_off", "start", "resume"}
Restoring == {"rs_verify", "rs_stage", "rs_extract", "rs_clear", "rs_list", "rs_move", "rs_done"}

TypeOK ==
  /\ server \in {"up", "down"} /\ autosave \in BOOLEAN
  /\ game \in SUBSET Entries /\ locked \in SUBSET Entries
  /\ archives \in [Ids -> {None} \cup SUBSET Entries]
  /\ metas \in [Ids -> {None} \cup SUBSET Entries] /\ torn \in SUBSET Ids
  /\ retention \in 1 .. MaxRetention
  /\ busy \in BOOLEAN
  /\ progress \in {"idle", "running", "done", "error"}
  /\ worker \in [at : Stages, resumes : BOOLEAN, todo : SUBSET Entries, has : SUBSET Entries,
                old : SUBSET Ids]
  /\ due \in BOOLEAN
  /\ begun \in 0 .. MaxRequests + 1
  /\ pc \in [Admins -> {"idle", "del_archive", "del_meta"} \cup Creating \cup Restoring]
  /\ target \in [Admins -> Ids \cup {0}]
  /\ goal \in [Admins -> SUBSET Entries] /\ todo \in [Admins -> SUBSET Entries]
  /\ dir \in [Admins -> Admins \cup {None}] /\ staged \in [Admins -> SUBSET Entries]
  /\ requests \in 0 .. MaxRequests /\ faults \in 0 .. MaxFaults
  /\ held \in BOOLEAN /\ unresumed \in BOOLEAN
  /\ mixed \in SUBSET Admins /\ shared \in SUBSET Admins

NoWork == [at |-> "off", resumes |-> FALSE, todo |-> {}, has |-> {}, old |-> {}]

\* The server is up with all its files, and there is a backup from before.
Init ==
  /\ server = "up" /\ autosave = TRUE /\ game = Entries /\ locked = {}
  /\ \E e \in Entries : archives = [i \in Ids |-> IF i = 1 THEN {e} ELSE None]
  /\ metas = archives /\ torn = {}
  /\ retention \in 1 .. MaxRetention
  /\ busy = FALSE /\ progress = "idle" /\ worker = NoWork /\ due = FALSE /\ begun = 1
  /\ pc = [a \in Admins |-> "idle"] /\ target = [a \in Admins |-> 0]
  /\ goal = [a \in Admins |-> {}] /\ todo = [a \in Admins |-> {}]
  /\ dir = [a \in Admins |-> None] /\ staged = [d \in Admins |-> {}]
  /\ requests = 0 /\ faults = 0
  /\ held = FALSE /\ unresumed = FALSE /\ mixed = {} /\ shared = {}

Listed == {i \in Ids : metas[i] # None}

-----------------------------------------------------------------------------
Goto(a, from, to) == pc[a] = from /\ pc' = [pc EXCEPT ![a] = to]

\* The locals of a request end with it.
Forget(a) ==
  /\ target' = [target EXCEPT ![a] = 0] /\ goal' = [goal EXCEPT ![a] = {}]
  /\ dir' = [dir EXCEPT ![a] = None] /\ todo' = [todo EXCEPT ![a] = {}]

Request == requests < MaxRequests /\ requests' = requests + 1 /\ UNCHANGED faults
Fault   == faults < MaxFaults /\ faults' = faults + 1 /\ UNCHANGED requests

\* "save-on", best effort: when no server is up there is nobody to tell.
SendResume ==
  \/ server = "up" /\ autosave' = TRUE /\ UNCHANGED <<unresumed, bounds>>
  \/ server = "up" /\ unresumed' = TRUE /\ Fault /\ UNCHANGED autosave
  \/ server = "down" /\ UNCHANGED <<autosave, unresumed, bounds>>

\* start_create_async(), when _busy_lock is free.
StartWorker(resumes) ==
  /\ ~busy /\ busy' = TRUE
  /\ worker' = [NoWork EXCEPT !.at = "begin", !.resumes = resumes]
  /\ held' = (server = "up" /\ ~autosave)
  /\ UNCHANGED <<progress, begun>>

-----------------------------------------------------------------------------
(* POST /api/backups/create *)

\* The agent is asked to fix permissions, and may not answer.
BeginCreate(a) ==
  /\ Goto(a, "idle", "flush") /\ Request
  /\ locked' \in IF server = "up" THEN {{}, locked} ELSE {locked}
  /\ UNCHANGED <<server, autosave, game, disk, thread, restores, held, unresumed>>

\* The pause commands, "save-all flush" and "save-off", in this order.
Flush(a) ==
  /\ server = "up" /\ Goto(a, "flush", "save_off")
  /\ \E new \in SUBSET Entries : game' = game \cup new
  /\ UNCHANGED <<server, autosave, locked, disk, thread, restores, bounds, held, unresumed>>

SaveOff(a) ==
  /\ server = "up" /\ Goto(a, "save_off", "start")
  /\ autosave' = FALSE
  /\ UNCHANGED <<server, files, disk, thread, restores, bounds, held, unresumed>>

\* A command that fails ends the sequence.
PauseFails(a) ==
  /\ Goto(a, "flush", "start") \/ Goto(a, "save_off", "start")
  /\ UNCHANGED <<server, autosave, files, disk, thread, restores, bounds, held, unresumed>>

StartCreate(a) ==
  /\ Goto(a, "start", "idle") /\ StartWorker(TRUE)
  /\ UNCHANGED <<server, autosave, files, disk, due, restores, bounds, unresumed>>

\* Mutant of Busy: the refused request does not resume what it has paused.
BusyLeavesPaused(a) ==
  /\ busy /\ Goto(a, "start", "idle")
  /\ UNCHANGED <<server, autosave, files, disk, thread, restores, bounds, held, unresumed>>

Busy(a) ==
  /\ busy /\ Goto(a, "start", "resume")
  /\ UNCHANGED <<server, autosave, files, disk, thread, restores, bounds, held, unresumed>>

ResumeRefused(a) ==
  /\ Goto(a, "resume", "idle") /\ SendResume
  /\ UNCHANGED <<server, files, disk, thread, restores, held>>

Create(a) ==
  Flush(a) \/ SaveOff(a) \/ PauseFails(a) \/ StartCreate(a) \/ Busy(a) \/ ResumeRefused(a)

-----------------------------------------------------------------------------
(* maybe_run_scheduled(), called by the scheduler's thread. *)

\* Settings, lock and list are read first.
FindDue ==
  /\ ~due /\ ~busy /\ Request
  /\ due' = TRUE
  /\ UNCHANGED <<server, autosave, files, disk, busy, progress, worker, begun, pc, restores,
                 held, unresumed>>

\* No commands pause or resume the server.
StartScheduled ==
  /\ due /\ due' = FALSE
  /\ StartWorker(FALSE) \/ (busy /\ UNCHANGED <<busy, worker, held, progress, begun>>)
  /\ UNCHANGED <<server, autosave, files, disk, pc, restores, bounds, unresumed>>

-----------------------------------------------------------------------------
(* The background thread: create(), on_done(), the lock's release. *)

Work(from, to) == worker.at = from /\ worker' = [worker EXCEPT !.at = to]

\* The walk finds what is in game/ now.
BeginArchive ==
  /\ worker.at = "begin"
  /\ worker' = [worker EXCEPT !.at = "archive", !.todo = game]
  /\ begun' = begun + 1 /\ progress' = "running"
  /\ UNCHANGED <<server, autosave, files, disk, busy, due, pc, restores, bounds, held, unresumed>>

\* A file that cannot be read, or is gone, is skipped after a few attempts.  One
\* that is opened but shrinks or fails while it is read leaves half of an entry
\* behind, whether or not a later attempt succeeds.
ArchiveEntry ==
  /\ worker.at = "archive"
  /\ \E e \in worker.todo, added \in BOOLEAN, half \in BOOLEAN :
       /\ e \in game \ locked <=> added \/ half
       /\ worker' = [worker EXCEPT !.todo = @ \ {e},
                                   !.has = IF added THEN @ \cup {e} ELSE @]
       /\ torn' = IF half THEN torn \cup {begun} ELSE torn
  /\ UNCHANGED <<server, autosave, files, archives, metas, retention, busy, progress, due, begun,
                 pc, restores, bounds, held, unresumed>>

EndArchive ==
  /\ worker.todo = {} /\ worker.has # {} /\ Work("archive", "publish")
  /\ UNCHANGED <<server, autosave, files, disk, busy, progress, due, begun, pc, restores,
                 bounds, held, unresumed>>

\* Mutant of NothingReadable: the progress is left as it is.
NothingReadableUnsaid ==
  /\ worker.todo = {} /\ worker.has = {} /\ Work("archive", "on_done")
  /\ UNCHANGED <<server, autosave, files, disk, busy, progress, due, begun, pc, restores,
                 bounds, held, unresumed>>

NothingReadable ==
  /\ worker.todo = {} /\ worker.has = {} /\ Work("archive", "on_done")
  /\ progress' = "error"
  /\ UNCHANGED <<server, autosave, files, disk, busy, due, begun, pc, restores, bounds, held,
                 unresumed>>

\* Mutant of Publish: only the metadata is written.
PublishNothing ==
  /\ Work("publish", "meta")
  /\ UNCHANGED <<server, autosave, files, disk, busy, progress, due, begun, pc, restores,
                 bounds, held, unresumed>>

\* The finished archive gets its name, then its metadata.
Publish ==
  /\ Work("publish", "meta")
  /\ archives' = [archives EXCEPT ![begun] = worker.has]
  /\ UNCHANGED <<server, autosave, files, metas, torn, retention, busy, progress, due, begun,
                 pc, restores, bounds, held, unresumed>>

WriteMeta ==
  /\ Work("meta", "retain")
  /\ metas' = [metas EXCEPT ![begun] = worker.has]
  /\ UNCHANGED <<server, autosave, files, archives, torn, retention, busy, progress, due, begun,
                 pc, restores, bounds, held, unresumed>>

\* Mutant of Surplus: one too many.
SurplusAndOne == {i \in Listed : Cardinality({j \in Listed : j > i}) >= retention - 1}

Surplus == {i \in Listed : Cardinality({j \in Listed : j > i}) >= retention}

\* _enforce_retention(): settings and list are read once.
Retain ==
  /\ worker.at = "retain"
  /\ worker' = [worker EXCEPT !.at = "unlink", !.has = {}, !.old = Surplus]
  /\ UNCHANGED <<server, autosave, files, disk, busy, progress, due, begun, pc, restores,
                 bounds, held, unresumed>>

\* The backups found to be too many go one by one, the newest of them first, and
\* of each its archive first.
First(i) == i \in worker.old /\ \A j \in worker.old : j <= i

UnlinkArchive ==
  /\ Work("unlink", "unlink_meta")
  /\ \E i \in Ids : First(i) /\ archives' = [archives EXCEPT ![i] = None]
  /\ UNCHANGED <<server, autosave, files, metas, torn, retention, busy, progress, due, begun,
                 pc, restores, bounds, held, unresumed>>

UnlinkMeta ==
  /\ worker.at = "unlink_meta"
  /\ \E i \in Ids :
       /\ First(i) /\ metas' = [metas EXCEPT ![i] = None]
       /\ worker' = [worker EXCEPT !.at = "unlink", !.old = @ \ {i}]
  /\ UNCHANGED <<server, autosave, files, archives, torn, retention, busy, progress, due, begun,
                 pc, restores, bounds, held, unresumed>>

\* The end of create().
EndCreate ==
  /\ worker.old = {} /\ Work("unlink", "on_done")
  /\ progress' = "done"
  /\ UNCHANGED <<server, autosave, files, disk, busy, due, begun, pc, restores, bounds, held,
                 unresumed>>

\* An exception, wherever it comes, is an error of the progress and of on_done().
WorkFails ==
  /\ worker.at \notin {"off", "on_done", "release"} /\ Fault
  /\ worker' = [NoWork EXCEPT !.at = "on_done", !.resumes = worker.resumes]
  /\ progress' = "error"
  /\ UNCHANGED <<server, autosave, files, disk, busy, due, begun, pc, restores, held, unresumed>>

OnDone ==
  /\ Work("on_done", "release")
  /\ IF worker.resumes THEN SendResume ELSE UNCHANGED <<autosave, unresumed, bounds>>
  /\ UNCHANGED <<server, files, disk, busy, progress, due, begun, pc, restores, held>>

\* Mutant of Release: not after a failure.
ReleaseIfDone ==
  /\ worker.at = "release" /\ worker' = NoWork
  /\ busy' = (progress = "error") /\ held' = FALSE
  /\ UNCHANGED <<server, autosave, files, disk, progress, due, begun, pc, restores, bounds,
                 unresumed>>

Release ==
  /\ worker.at = "release" /\ worker' = NoWork
  /\ busy' = FALSE /\ held' = FALSE
  /\ UNCHANGED <<server, autosave, files, disk, progress, due, begun, pc, restores, bounds,
                 unresumed>>

Worker ==
  \/ BeginArchive \/ ArchiveEntry \/ EndArchive \/ NothingReadable
  \/ Publish \/ WriteMeta \/ Retain \/ UnlinkArchive \/ UnlinkMeta \/ EndCreate
  \/ WorkFails \/ OnDone \/ Release

-----------------------------------------------------------------------------
(* DELETE /api/backups/<id> and POST /api/backups/settings *)

BeginDelete(a) ==
  /\ Goto(a, "idle", "del_archive") /\ Request
  /\ \E i \in Listed : target' = [target EXCEPT ![a] = i]
  /\ UNCHANGED <<server, autosave, files, disk, thread, goal, staging, held, unresumed>>

DeleteArchive(a) ==
  /\ Goto(a, "del_archive", "del_meta")
  /\ archives' = [archives EXCEPT ![target[a]] = None]
  /\ UNCHANGED <<server, autosave, files, metas, torn, retention, thread, restores, bounds,
                 held, unresumed>>

DeleteMeta(a) ==
  /\ Goto(a, "del_meta", "idle")
  /\ metas' = [metas EXCEPT ![target[a]] = None] /\ Forget(a)
  /\ UNCHANGED <<server, autosave, files, archives, torn, retention, thread, staged, bounds,
                 held, unresumed>>

\* Mutant of UpdateSettings: the range of the retention is not checked.
UpdateSettingsUnchecked ==
  /\ Request /\ retention' \in 0 .. MaxRetention
  /\ UNCHANGED <<server, autosave, files, archives, metas, torn, thread, pc, restores, held,
                 unresumed>>

UpdateSettings ==
  /\ Request /\ retention' \in 1 .. MaxRetention
  /\ UNCHANGED <<server, autosave, files, archives, metas, torn, thread, pc, restores, held,
                 unresumed>>

-----------------------------------------------------------------------------
(* POST /api/backups/<id>/restore *)

\* Refused while docker says that the server is up.
BeginRestore(a) ==
  /\ server = "down" /\ Goto(a, "idle", "rs_verify") /\ Request
  /\ \E i \in Ids : i <= begun /\ target' = [target EXCEPT ![a] = i]
  /\ UNCHANGED <<server, autosave, files, disk, thread, goal, staging, held, unresumed>>

\* The staging directory of this second is made, if it is not another's already.
Unused == CHOOSE d \in Admins : \A b \in Admins : dir[b] # d

MakeStaging(a) ==
  \E d \in Admins :
    /\ d = Unused \/ \E b \in Admins : dir[b] = d
    /\ dir' = [dir EXCEPT ![a] = d]

\* Its removal, whoever else is using it.
RemoveStaging(a) == staged' = [staged EXCEPT ![dir[a]] = {}]

\* Mutant of Verify: the hash is not compared.
VerifyListed(a) ==
  /\ Goto(a, "rs_verify", "rs_stage") /\ MakeStaging(a)
  /\ metas[target[a]] # None /\ archives[target[a]] # None
  /\ goal' = [goal EXCEPT ![a] = metas[target[a]]]
  /\ UNCHANGED <<server, autosave, files, disk, thread, target, todo, staged, bounds, held,
                 unresumed>>

\* Listed, on disk, and with the hash its metadata says.
Verify(a) ==
  /\ Goto(a, "rs_verify", "rs_stage") /\ MakeStaging(a)
  /\ metas[target[a]] # None /\ archives[target[a]] = metas[target[a]]
  /\ goal' = [goal EXCEPT ![a] = metas[target[a]]]
  /\ UNCHANGED <<server, autosave, files, disk, thread, target, todo, staged, bounds, held,
                 unresumed>>

VerifyFails(a) ==
  /\ Goto(a, "rs_verify", "idle") /\ Forget(a)
  /\ metas[target[a]] = None \/ archives[target[a]] # metas[target[a]]
  /\ UNCHANGED <<server, autosave, files, disk, thread, staged, bounds, held, unresumed>>

\* The archive is opened again.  Reading one with half of an entry in it ends
\* early, at what cannot be a header, and no error need come of it.
Stage(a) ==
  /\ Goto(a, "rs_stage", "rs_extract") /\ archives[target[a]] # None
  /\ \E found \in SUBSET archives[target[a]] :
       /\ target[a] \notin torn => found = archives[target[a]]
       /\ todo' = [todo EXCEPT ![a] = found]
  /\ UNCHANGED <<server, autosave, files, disk, thread, target, goal, dir, staged, bounds, held,
                 unresumed>>

\* Its entries are extracted beside the archives, one by one.
Extract(a) ==
  \/ /\ pc[a] = "rs_extract"
     /\ \E e \in todo[a] :
          /\ todo' = [todo EXCEPT ![a] = @ \ {e}]
          /\ staged' = [staged EXCEPT ![dir[a]] = @ \cup {e}]
     /\ UNCHANGED <<server, autosave, files, disk, thread, pc, target, goal, dir, bounds, held,
                    unresumed>>
  \/ /\ todo[a] = {} /\ Goto(a, "rs_extract", "rs_clear")
     /\ UNCHANGED <<server, autosave, files, disk, thread, restores, bounds, held, unresumed>>

\* The archive is gone, cannot be read, or another restore removes what is being
\* extracted or leaves no game/ in it.
StageFails(a) ==
  /\ Goto(a, "rs_stage", "idle") \/ Goto(a, "rs_extract", "idle")
  /\ Forget(a) /\ RemoveStaging(a)
  /\ \/ Fault
     \/ /\ UNCHANGED bounds
        /\ \/ pc[a] = "rs_stage" /\ archives[target[a]] = None
           \/ target[a] \in torn
           \/ \E b \in Admins \ {a} : dir[b] = dir[a]
           \/ pc[a] = "rs_extract" /\ todo[a] = {} /\ staged[dir[a]] = {}
  /\ UNCHANGED <<server, autosave, files, disk, thread, held, unresumed>>

\* Mutant of Clear: nothing is deleted.
ClearNothing(a) ==
  /\ Goto(a, "rs_clear", "rs_list")
  /\ UNCHANGED <<server, autosave, files, disk, thread, restores, bounds, held, unresumed>>

\* What cannot be deleted stays, unnoticed.
Clear(a) ==
  /\ Goto(a, "rs_clear", "rs_list")
  /\ game' = game \cap Stuck
  /\ UNCHANGED <<server, autosave, locked, disk, thread, restores, bounds, held, unresumed>>

\* What there is to move in is listed once.
List(a) ==
  /\ Goto(a, "rs_list", "rs_move")
  /\ todo' = [todo EXCEPT ![a] = staged[dir[a]]]
  /\ UNCHANGED <<server, autosave, files, disk, thread, target, goal, dir, staged, bounds, held,
                 unresumed>>

\* A directory goes inside one of its name that could not be deleted.
Move(a) ==
  /\ pc[a] = "rs_move"
  /\ \E e \in todo[a] \cap staged[dir[a]] :
       /\ todo' = [todo EXCEPT ![a] = @ \ {e}]
       /\ staged' = [staged EXCEPT ![dir[a]] = @ \ {e}]
       /\ game' = game \cup {e}
  /\ UNCHANGED <<server, autosave, locked, disk, thread, pc, target, goal, dir, bounds, held,
                 unresumed>>

\* A disk error, a leftover in the way, or an entry that another restore has taken.
MoveFails(a) ==
  /\ Goto(a, "rs_list", "idle") \/ (todo[a] # {} /\ Goto(a, "rs_move", "idle"))
  /\ Forget(a) /\ RemoveStaging(a)
  /\ \/ Fault
     \/ /\ UNCHANGED bounds
        /\ \/ pc[a] = "rs_list" /\ staged[dir[a]] = {}
           \/ \E e \in todo[a] : e \in game \/ e \notin staged[dir[a]]
  /\ UNCHANGED <<server, autosave, files, disk, thread, held, unresumed>>

\* The staging directory is removed, and the administrator told.
EndRestore(a) ==
  /\ \/ /\ todo[a] = {} /\ Goto(a, "rs_move", "rs_done") /\ RemoveStaging(a)
        /\ dir' = [dir EXCEPT ![a] = None]
        /\ UNCHANGED <<target, goal, todo>>
     \/ Goto(a, "rs_done", "idle") /\ Forget(a) /\ UNCHANGED staged
  /\ UNCHANGED <<server, autosave, files, disk, thread, bounds, held, unresumed>>

Restore(a) ==
  \/ Verify(a) \/ VerifyFails(a) \/ Stage(a) \/ Extract(a) \/ StageFails(a)
  \/ Clear(a) \/ List(a) \/ Move(a) \/ MoveFails(a) \/ EndRestore(a)

-----------------------------------------------------------------------------
(* The surroundings. *)

\* A tick of the autosave; the file may be unreadable while it is written.
GameSaves ==
  /\ server = "up" /\ autosave
  /\ \E e \in Entries :
       game' = game \cup {e} /\ locked' \in {locked, locked \cup ({e} \cap Private)}
  /\ UNCHANGED <<server, autosave, disk, thread, pc, restores, bounds, held, unresumed>>

\* The server is started, by whomever, and its autosave with it.
ServerStarts ==
  /\ server = "down" /\ server' = "up" /\ autosave' = TRUE /\ unresumed' = FALSE /\ locked' = {}
  /\ UNCHANGED <<game, disk, thread, pc, restores, bounds, held>>

\* It stops after a last save, which only an orderly stop makes readable.
ServerStops ==
  /\ server = "up" /\ server' = "down"
  /\ \E new \in SUBSET Entries : game' = game \cup new
  /\ locked' \in {{}, locked} /\ held' = FALSE
  /\ UNCHANGED <<autosave, disk, thread, pc, restores, bounds, unresumed>>

\* An archive is lost or becomes another, while no backup or restore reads it.
Tamper ==
  /\ Fault /\ worker.at = "off" /\ \A a \in Admins : pc[a] \notin Restoring
  /\ \E i \in Ids :
       /\ archives[i] # None
       /\ \E x \in {None, Entries \ archives[i]} : archives' = [archives EXCEPT ![i] = x]
  /\ UNCHANGED <<server, autosave, files, metas, torn, retention, thread, pc, restores, held,
                 unresumed>>

\* The dashboard restarts: its threads and locks are gone, with the restore they
\* were at half done.  What is left of the staging directories is not used again.
DashboardRestarts ==
  /\ Fault
  /\ IF \E a \in Admins : pc[a] = "rs_clear"
     THEN \E kept \in SUBSET game : game' = kept \cup (game \cap Stuck)
     ELSE game' = game
  /\ pc' = [a \in Admins |-> "idle"] /\ target' = [a \in Admins |-> 0]
  /\ goal' = [a \in Admins |-> {}] /\ todo' = [a \in Admins |-> {}]
  /\ dir' = [a \in Admins |-> None] /\ staged' = [d \in Admins |-> {}]
  /\ busy' = FALSE /\ progress' = "idle" /\ worker' = NoWork /\ due' = FALSE
  /\ unresumed' = (unresumed \/ (server = "up" /\ ~autosave))
  /\ UNCHANGED <<server, autosave, locked, disk, begun, held>>

-----------------------------------------------------------------------------
\* Which restores of those past their clearing know all that is in game/.
Mixing ==
  mixed' = {a \in Admins :
              /\ {pc[a], pc'[a]} \subseteq {"rs_list", "rs_move", "rs_done"}
              /\ a \in mixed \/ (game' # game /\ todo'[a] = todo[a])}

\* Which restores have a staging directory, or had one, that others used as well.
Sharing ==
  shared' = {a \in Admins :
               /\ pc'[a] \in Restoring
               /\ \/ a \in shared
                  \/ dir'[a] # None /\ \E b \in Admins \ {a} : dir'[b] = dir'[a]}

Step ==
  \/ \E a \in Admins : BeginCreate(a) \/ Create(a)
  \/ FindDue \/ StartScheduled \/ Worker
  \/ \E a \in Admins : BeginDelete(a) \/ DeleteArchive(a) \/ DeleteMeta(a)
  \/ UpdateSettings
  \/ \E a \in Admins : BeginRestore(a) \/ Restore(a)
  \/ GameSaves \/ ServerStarts \/ ServerStops \/ Tamper \/ DashboardRestarts

Next == Step /\ Mixing /\ Sharing

Spec == Init /\ [][Next]_vars

\* The background thread runs; all its waits are file operations and calls with
\* a timeout.
FairSpec == Spec /\ WF_vars(Worker /\ Mixing /\ Sharing)

-----------------------------------------------------------------------------
(* Safety. *)

\* However requests and scheduled backups overlap, once nobody is making a
\* backup the server saves again - unless its resume failed or the dashboard was
\* restarted in between.
AutosaveComesBack ==
  server = "up" /\ ~autosave /\ ~unresumed =>
    worker.at # "off" \/ \E a \in Admins : pc[a] \in Creating

\* A restore that ends well leaves game/ as the backup says, past deletions,
\* retention, damage, backups under way and other restores, unless the archive has
\* half of an entry in it, another restore has used its staging directory, or
\* another restore or a server has changed game/ since it was cleared.
RestoredIsWhole ==
  \A a \in Admins \ (mixed \cup shared) :
    pc[a] = "rs_done" /\ target[a] \notin torn => game \ Stuck = goal[a] \ Stuck

\* Nothing of game/ is deleted before all of the verified backup is at hand, and
\* by nobody else, but for archives with half of an entry in them and for two
\* restores of one second.
NothingClearedUnstaged ==
  [][ game \subseteq game'
      \/ \E a \in Admins :
           /\ pc[a] = "rs_clear"
           /\ staged[dir[a]] = goal[a] \/ a \in shared \/ target[a] \in torn ]_vars

\* The backup just made, the newest, is removed by an administrator only and not by
\* the retention that follows it.
NewestIsKept ==
  [][ \A i \in Listed :
        i = begun /\ metas'[i] = None =>
          \E a \in Admins : pc[a] = "del_meta" /\ target[a] = i ]_vars

\* Before any fault, whatever is listed is on disk as it was made, so that its hash
\* matches, but for a backup whose removal is under way.
ListedIsRestorable ==
  faults = 0 =>
    \A i \in Listed :
      \/ archives[i] = metas[i]
      \/ \E a \in Admins : pc[a] = "del_meta" /\ target[a] = i
      \/ worker.at = "unlink_meta" /\ First(i)

\* When nobody is making a backup the progress does not say so.
SettledWhenFree == ~busy => progress # "running"

(* Liveness. *)

\* Every backup ends, failed or not, and another can be made.
BackupEnds == busy ~> ~busy

(* What comments say, and the code does not do. *)

\* "save-off" stops the autosave from "racing the archive copy until
\* backup_resume_commands() below runs": the archive of a request that has paused
\* the server is made in a paused server.
PausedWhileArchiving == worker.at = "archive" /\ worker.resumes /\ held => ~autosave
=============================================================================
