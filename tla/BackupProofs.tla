----------------------------- MODULE BackupProofs -----------------------------
(***************************************************************************)
(* Theorems about Backup.                                                  *)
(***************************************************************************)
EXTENDS Backup, FiniteSetTheorems, TLAPS

Steps == {"idle", "del_archive", "del_meta"} \cup Creating \cup Restoring
Building == {"archive", "publish", "meta"}
Retaining == {"retain", "unlink", "unlink_meta"}
One(condition) == IF condition THEN 1 ELSE 0

\* Requests that are still to start, or be refused, a backup of their own.
Asking == {"flush", "save_off", "start"}
Waiting == {a \in Admins : pc[a] \in Asking}

\* The lock is held for the thread's whole life, and by it alone.
Locked ==
  /\ busy <=> worker.at # "off"
  /\ progress = "running" => worker.at \in Building \cup Retaining

\* Whoever has paused the server is still there to resume it.
Resumed ==
  server = "up" /\ ~autosave /\ ~unresumed =>
    \/ worker.at \notin {"off", "release"} /\ worker.resumes
    \/ \E a \in Admins : pc[a] \in Creating

\* There is a number left for each backup that may still be begun.
Counted == begun + One(worker.at = "begin") + One(due) + Cardinality(Waiting) <= requests + 1

\* A number names nothing before its backup is written.
Numbered ==
  /\ begun \in Ids
  /\ \A i \in Ids : i > begun => archives[i] = None /\ metas[i] = None
  /\ worker.at \in Building => metas[begun] = None

\* Requests are for archives begun before, and what a deletion or a verified
\* restore is for is not the archive that is being written.
Targeted ==
  \A a \in Admins :
    /\ pc[a] \in {"del_archive", "del_meta", "rs_verify", "rs_stage"} => target[a] \in 1..begun
    /\ pc[a] \in {"del_archive", "del_meta", "rs_stage"} /\ worker.at \in Building =>
         target[a] # begun

\* The archive that is about to be listed is what its metadata will say.
Written == faults = 0 /\ worker.at = "meta" => archives[begun] = worker.has

\* What retention is at is not the backup just made.
Retired == worker.at \in {"unlink", "unlink_meta"} => begun \notin worker.old

\* Between verification and staging an archive may go, but does not change.
Verified == \A a \in Admins : pc[a] = "rs_stage" => archives[target[a]] \in {None, goal[a]}

\* Who has a staging directory, that nobody else has unless it is known to be shared, and
\* that nothing is in those that nobody has.
Using == {"rs_stage", "rs_extract", "rs_clear", "rs_list", "rs_move"}

Placed ==
  /\ \A a \in Admins : IF pc[a] \in Using THEN dir[a] \in Admins ELSE dir[a] = None
  /\ \A d \in Admins : (\A a \in Admins : dir[a] # d) => staged[d] = {}

Alone ==
  \A a \in Admins \ shared : pc[a] \in Using => \A b \in Admins \ {a} : dir[b] # dir[a]

\* What a restore has extracted and has still to extract is the backup.
AtHand ==
  \A a \in Admins \ shared : target[a] \notin torn =>
    /\ pc[a] = "rs_stage" => staged[dir[a]] = {}
    /\ pc[a] = "rs_extract" => staged[dir[a]] \cup todo[a] = goal[a]
    /\ pc[a] \in {"rs_clear", "rs_list"} => staged[dir[a]] = goal[a]

\* What a restore has moved and has still to move is the backup, and no more, unless
\* others have changed game/ meanwhile.
Moved ==
  \A a \in Admins \ (mixed \cup shared) : target[a] \notin torn =>
    /\ pc[a] = "rs_list" => game \subseteq Stuck
    /\ pc[a] = "rs_move" => (game \cup todo[a]) \ Stuck = goal[a] \ Stuck
    /\ pc[a] = "rs_done" => game \ Stuck = goal[a] \ Stuck

IInv ==
  /\ TypeOK /\ Locked /\ Resumed /\ Counted /\ Numbered /\ Targeted
  /\ ListedIsRestorable /\ Written /\ Retired
  /\ Verified /\ Placed /\ Alone /\ AtHand /\ Moved

-----------------------------------------------------------------------------
(* Requests and the thread. *)

\* Where a request goes from, and that the others stay.
LEMMA GotoSteps ==
  ASSUME TypeOK, NEW a \in Admins, NEW from, NEW to \in Steps, Goto(a, from, to)
  PROVE  /\ pc' \in [Admins -> Steps] /\ pc[a] = from /\ pc'[a] = to
         /\ \A b \in Admins \ {a} : pc'[b] = pc[b]
BY DEF TypeOK, Goto, Steps

\* A backup's numbers.
LEMMA Begun ==
  ASSUME TypeOK
  PROVE  /\ begun \in Nat /\ requests \in Nat /\ faults \in Nat
         /\ requests <= MaxRequests /\ faults <= MaxFaults
         /\ 1..begun \subseteq Ids /\ Ids \subseteq Nat
BY ConstantsAssumption DEF TypeOK, Ids

\* The requests that wait can be counted.
LEMMA WaitingCounted ==
  /\ IsFiniteSet(Waiting) /\ Cardinality(Waiting) \in Nat
  /\ IsFiniteSet(Waiting') /\ Cardinality(Waiting)' \in Nat
<1>1. Waiting \subseteq Admins /\ Waiting' \subseteq Admins
  BY DEF Waiting
<1> QED
  BY <1>1, ConstantsAssumption, FS_Subset, FS_CardinalityType

\* A request that goes on without waiting more or less.
LEMMA WaitingStays ==
  ASSUME \A a \in Admins : pc'[a] \in Asking <=> pc[a] \in Asking
  PROVE  Waiting' = Waiting
BY DEF Waiting

\* One more request waits.
LEMMA WaitingMore ==
  ASSUME NEW a \in Admins, pc[a] \notin Asking, pc'[a] \in Asking,
         \A b \in Admins \ {a} : pc'[b] = pc[b]
  PROVE  Cardinality(Waiting)' = Cardinality(Waiting) + 1
<1>1. Waiting' = Waiting \cup {a} /\ a \notin Waiting
  BY DEF Waiting
<1> QED
  BY <1>1, WaitingCounted, FS_AddElement

\* One request less waits.
LEMMA WaitingLess ==
  ASSUME NEW a \in Admins, pc[a] \in Asking, pc'[a] \notin Asking,
         \A b \in Admins \ {a} : pc'[b] = pc[b]
  PROVE  Cardinality(Waiting)' = Cardinality(Waiting) - 1
<1>1. Waiting' = Waiting \ {a} /\ a \in Waiting
  BY DEF Waiting
<1> QED
  BY <1>1, WaitingCounted, FS_RemoveElement

-----------------------------------------------------------------------------
(* Typing. *)

\* The part of the types that the archives and the thread do not concern.
RequestsTyped ==
  /\ server \in {"up", "down"} /\ autosave \in BOOLEAN
  /\ game \in SUBSET Entries /\ locked \in SUBSET Entries
  /\ pc \in [Admins -> Steps]
  /\ target \in [Admins -> Ids \cup {0}]
  /\ goal \in [Admins -> SUBSET Entries] /\ todo \in [Admins -> SUBSET Entries]
  /\ dir \in [Admins -> Admins \cup {None}] /\ staged \in [Admins -> SUBSET Entries]
  /\ requests \in 0 .. MaxRequests /\ faults \in 0 .. MaxFaults
  /\ held \in BOOLEAN /\ unresumed \in BOOLEAN

Job == [at : Stages, resumes : BOOLEAN, todo : SUBSET Entries, has : SUBSET Entries,
        old : SUBSET Ids]

DiskTyped ==
  /\ archives \in [Ids -> {None} \cup SUBSET Entries]
  /\ metas \in [Ids -> {None} \cup SUBSET Entries] /\ torn \in SUBSET Ids
  /\ retention \in 1 .. MaxRetention

ThreadTyped ==
  /\ busy \in BOOLEAN
  /\ progress \in {"idle", "running", "done", "error"}
  /\ worker \in Job
  /\ due \in BOOLEAN
  /\ begun \in 0 .. MaxRequests + 1

\* Typing, part by part.
LEMMA TypeParts ==
  /\ TypeOK => RequestsTyped /\ DiskTyped /\ ThreadTyped
  /\ RequestsTyped' /\ DiskTyped' /\ ThreadTyped'
     /\ mixed' \in SUBSET Admins /\ shared' \in SUBSET Admins
       => TypeOK'
BY DEF TypeOK, RequestsTyped, DiskTyped, ThreadTyped, Steps, Job

\* The thread's record, and what its steps make of it.
LEMMA WorkerTyped ==
  ASSUME TypeOK
  PROVE  /\ NoWork \in Job
         /\ worker.at \in Stages /\ worker.resumes \in BOOLEAN
         /\ worker.todo \subseteq Entries /\ worker.has \subseteq Entries
         /\ worker.old \subseteq Ids
<1>1. NoWork \in Job
  BY DEF NoWork, Stages, Job
<1>3. worker \in Job
  BY DEF TypeOK, Job
<1>4. /\ worker.at \in Stages /\ worker.todo \subseteq Entries /\ worker.has \subseteq Entries
      /\ worker.old \subseteq Ids
  BY <1>3 DEF Job
<1>5. worker.resumes \in BOOLEAN
  BY <1>3 DEF Job
<1> QED
  BY <1>1, <1>4, <1>5

\* The fields that matter to the invariant, after each step of the thread.
LEMMA WorkSteps ==
  ASSUME TypeOK, NEW from, NEW to \in Stages, Work(from, to)
  PROVE  /\ worker' \in Job
         /\ worker.at = from /\ worker'.at = to
         /\ worker'.resumes = worker.resumes /\ worker'.has = worker.has
         /\ worker'.old = worker.old
BY DEF TypeOK, Work, Job

\* Starting the thread.
LEMMA StartSteps ==
  ASSUME TypeOK, NEW r \in BOOLEAN, StartWorker(r)
  PROVE  /\ worker' \in Job
         /\ worker'.at = "begin" /\ worker'.resumes = r /\ busy' = TRUE /\ busy = FALSE
         /\ held' \in BOOLEAN /\ progress' = progress /\ begun' = begun
<1>1. worker'.at = "begin"
  BY WorkerTyped DEF StartWorker, Job
<1>2. worker'.resumes = r
  BY WorkerTyped DEF StartWorker, Job
<1>3. worker' \in Job
  BY WorkerTyped DEF StartWorker, Job, Stages
<1>4. busy' = TRUE /\ busy = FALSE
  BY DEF StartWorker, TypeOK
<1>5. held' \in BOOLEAN /\ progress' = progress /\ begun' = begun
  BY DEF StartWorker, TypeOK
<1> QED
  BY <1>1, <1>2, <1>3, <1>4, <1>5

\* A resume that is sent or not, and gets lost or not.
LEMMA SendResumeTyped ==
  ASSUME TypeOK, SendResume
  PROVE  /\ autosave' \in BOOLEAN /\ unresumed' \in BOOLEAN
         /\ requests' = requests /\ faults' \in 0 .. MaxFaults /\ faults <= faults'
         /\ server = "up" => autosave' = TRUE \/ unresumed' = TRUE
<1>1. autosave' \in BOOLEAN /\ unresumed' \in BOOLEAN
  BY DEF SendResume, TypeOK
<1>2. requests' = requests /\ faults' \in 0 .. MaxFaults /\ faults <= faults'
  BY ConstantsAssumption DEF SendResume, TypeOK, Fault, bounds
<1>3. server = "up" => autosave' = TRUE \/ unresumed' = TRUE
  BY DEF SendResume
<1> QED
  BY <1>1, <1>2, <1>3

\* The steps that make a backup keep the types.
LEMMA CreateTyped ==
  ASSUME TypeOK, mixed' \in SUBSET Admins, shared' \in SUBSET Admins,
         NEW a \in Admins, BeginCreate(a) \/ Create(a)
  PROVE  TypeOK'
<1> USE ConstantsAssumption
<1>0. RequestsTyped /\ DiskTyped /\ ThreadTyped
  BY TypeParts
<1>1. CASE BeginCreate(a)
  <2>1. pc' \in [Admins -> Steps]
    BY <1>1, GotoSteps DEF BeginCreate, Steps, Creating
  <2>2. locked' \in SUBSET Entries /\ requests' \in 0 .. MaxRequests
    BY <1>1 DEF BeginCreate, Request, TypeOK
  <2>3. UNCHANGED <<server, autosave, game, disk, thread, restores, held, unresumed, faults>>
    BY <1>1 DEF BeginCreate, Request
  <2> QED
    BY <1>0, <2>1, <2>2, <2>3, TypeParts
    DEF RequestsTyped, DiskTyped, ThreadTyped, disk, thread, restores, staging
<1>2. CASE Flush(a)
  <2>1. pc' \in [Admins -> Steps]
    BY <1>2, GotoSteps DEF Flush, Steps, Creating
  <2>2. game' \in SUBSET Entries
    BY <1>2 DEF Flush, TypeOK
  <2>3. UNCHANGED <<server, autosave, locked, disk, thread, restores, bounds, held, unresumed>>
    BY <1>2 DEF Flush
  <2> QED
    BY <1>0, <2>1, <2>2, <2>3, TypeParts
    DEF RequestsTyped, DiskTyped, ThreadTyped, disk, thread, restores, staging, bounds
<1>3. CASE SaveOff(a)
  <2>1. pc' \in [Admins -> Steps]
    BY <1>3, GotoSteps DEF SaveOff, Steps, Creating
  <2>2. autosave' \in BOOLEAN
    BY <1>3 DEF SaveOff
  <2>3. UNCHANGED <<server, files, disk, thread, restores, bounds, held, unresumed>>
    BY <1>3 DEF SaveOff
  <2> QED
    BY <1>0, <2>1, <2>2, <2>3, TypeParts
    DEF RequestsTyped, DiskTyped, ThreadTyped, files, disk, thread, restores, staging, bounds
<1>4. CASE PauseFails(a) \/ Busy(a)
  <2>1. pc' \in [Admins -> Steps]
    BY <1>4, GotoSteps DEF PauseFails, Busy, Steps, Creating
  <2>2. UNCHANGED <<server, autosave, files, disk, thread, restores, bounds, held, unresumed>>
    BY <1>4 DEF PauseFails, Busy
  <2> QED
    BY <1>0, <2>1, <2>2, TypeParts
    DEF RequestsTyped, DiskTyped, ThreadTyped, files, disk, thread, restores, staging, bounds
<1>5. CASE StartCreate(a)
  <2>1. pc' \in [Admins -> Steps]
    BY <1>5, GotoSteps DEF StartCreate, Steps
  <2>2. worker' \in Job /\ busy' = TRUE /\ held' \in BOOLEAN /\ progress' = progress /\ begun' = begun
    BY <1>5, StartSteps DEF StartCreate
  <2>3. UNCHANGED <<server, autosave, files, disk, due, restores, bounds, unresumed>>
    BY <1>5 DEF StartCreate
  <2> QED
    BY <1>0, <2>1, <2>2, <2>3, TypeParts
    DEF RequestsTyped, DiskTyped, ThreadTyped, files, disk, restores, staging, bounds
<1>6. CASE ResumeRefused(a)
  <2>1. pc' \in [Admins -> Steps]
    BY <1>6, GotoSteps DEF ResumeRefused, Steps
  <2>2. autosave' \in BOOLEAN /\ unresumed' \in BOOLEAN /\ requests' = requests
        /\ faults' \in 0 .. MaxFaults
    BY <1>6, SendResumeTyped DEF ResumeRefused
  <2>3. UNCHANGED <<server, files, disk, thread, restores, held>>
    BY <1>6 DEF ResumeRefused
  <2> QED
    BY <1>0, <2>1, <2>2, <2>3, TypeParts
    DEF RequestsTyped, DiskTyped, ThreadTyped, files, disk, thread, restores, staging
<1> QED
  BY <1>1, <1>2, <1>3, <1>4, <1>5, <1>6 DEF Create

\* The steps of the scheduler and of the thread keep the types.
LEMMA WorkerKeepsTypes ==
  ASSUME mixed' \in SUBSET Admins, shared' \in SUBSET Admins, TypeOK, Counted, Numbered,
         FindDue \/ StartScheduled \/ Worker
  PROVE  TypeOK'
<1> USE ConstantsAssumption
<1>0. RequestsTyped /\ DiskTyped /\ ThreadTyped
  BY TypeParts
<1>1. CASE FindDue
  <2>1. due' \in BOOLEAN /\ requests' \in 0 .. MaxRequests /\ faults' = faults
    BY <1>1 DEF FindDue, Request, TypeOK
  <2>2. UNCHANGED <<server, autosave, files, disk, busy, progress, worker, begun, pc, restores,
                    held, unresumed>>
    BY <1>1 DEF FindDue
  <2> QED
    BY <1>0, <2>1, <2>2, TypeParts DEF RequestsTyped, DiskTyped, ThreadTyped, files, disk,
       restores, staging
<1>2. CASE StartScheduled
  <2>1. due' \in BOOLEAN
    BY <1>2 DEF StartScheduled
  <2>2. worker' \in Job /\ busy' \in BOOLEAN /\ held' \in BOOLEAN /\ progress' = progress
        /\ begun' = begun
    BY <1>0, <1>2, StartSteps DEF StartScheduled, RequestsTyped, ThreadTyped
  <2>3. UNCHANGED <<server, autosave, files, disk, pc, restores, bounds, unresumed>>
    BY <1>2 DEF StartScheduled
  <2> QED
    BY <1>0, <2>1, <2>2, <2>3, TypeParts
    DEF RequestsTyped, DiskTyped, ThreadTyped, files, disk, restores, staging, bounds
<1>3. CASE BeginArchive
  <2>1. worker' \in Job
    BY <1>3, WorkerTyped DEF BeginArchive, TypeOK, Stages, Job
  <2>2. begun' \in 0 .. MaxRequests + 1
    <3>1. One(worker.at = "begin") = 1 /\ One(due) \in Nat
      BY <1>3 DEF BeginArchive, One
    <3> QED
      BY <1>3, <3>1, Begun, WaitingCounted DEF BeginArchive, Counted
  <2>3. progress' = "running"
    BY <1>3 DEF BeginArchive
  <2>4. UNCHANGED <<server, autosave, files, disk, busy, due, pc, restores, bounds, held, unresumed>>
    BY <1>3 DEF BeginArchive
  <2> QED
    BY <1>0, <2>1, <2>2, <2>3, <2>4, TypeParts
    DEF RequestsTyped, DiskTyped, ThreadTyped, files, disk, restores, staging, bounds
<1>4. CASE ArchiveEntry
  <2>1. worker' \in Job
    <3>1. PICK e \in worker.todo, added \in BOOLEAN, half \in BOOLEAN :
            /\ e \in game \ locked <=> added \/ half
            /\ worker' = [worker EXCEPT !.todo = @ \ {e},
                                        !.has = IF added THEN @ \cup {e} ELSE @]
            /\ torn' = IF half THEN torn \cup {begun} ELSE torn
      BY <1>4, Zenon DEF ArchiveEntry
    <3>2. e \in Entries /\ worker \in Job
      BY WorkerTyped DEF TypeOK, Job
    <3> QED
      BY <3>1, <3>2 DEF Job
  <2>2. torn' \in SUBSET Ids
    BY <1>4, Begun DEF ArchiveEntry, Numbered, TypeOK
  <2>3. UNCHANGED <<server, autosave, files, archives, metas, retention, busy, progress, due, begun,
                    pc, restores, bounds, held, unresumed>>
    BY <1>4 DEF ArchiveEntry
  <2> QED
    BY <1>0, <2>1, <2>2, <2>3, TypeParts
    DEF RequestsTyped, DiskTyped, ThreadTyped, files, restores, staging, bounds
<1>5. CASE EndArchive
  <2>1. worker' \in Job
    BY <1>5, WorkSteps DEF EndArchive, Stages
  <2>2. UNCHANGED <<server, autosave, files, disk, busy, progress, due, begun, pc, restores,
                    bounds, held, unresumed>>
    BY <1>5 DEF EndArchive
  <2> QED
    BY <1>0, <2>1, <2>2, TypeParts
    DEF RequestsTyped, DiskTyped, ThreadTyped, files, disk, restores, staging, bounds
<1>6. CASE NothingReadable
  <2>1. worker' \in Job /\ progress' = "error"
    BY <1>6, WorkSteps DEF NothingReadable, Stages
  <2>2. UNCHANGED <<server, autosave, files, disk, busy, due, begun, pc, restores, bounds, held,
                    unresumed>>
    BY <1>6 DEF NothingReadable
  <2> QED
    BY <1>0, <2>1, <2>2, TypeParts
    DEF RequestsTyped, DiskTyped, ThreadTyped, files, disk, restores, staging, bounds
<1>7. CASE Publish \/ WriteMeta
  <2>1. worker' \in Job
    BY <1>7, WorkSteps DEF Publish, WriteMeta, Stages
  <2>2. archives' \in [Ids -> {None} \cup SUBSET Entries] /\ metas' \in [Ids -> {None} \cup SUBSET Entries]
    BY <1>7, WorkerTyped DEF Publish, WriteMeta, TypeOK
  <2>3. UNCHANGED <<server, autosave, files, retention, busy, progress, due, begun,
                    pc, restores, bounds, held, unresumed>>
    BY <1>7 DEF Publish, WriteMeta
  <2>4. torn' = torn
    BY <1>7 DEF Publish, WriteMeta
  <2> QED
    BY <1>0, <2>1, <2>2, <2>3, <2>4, TypeParts
    DEF RequestsTyped, DiskTyped, ThreadTyped, files, restores, staging, bounds
<1>8. CASE Retain \/ EndCreate
  <2>1. worker' \in Job
    <3>1. Surplus \in SUBSET Ids
      BY DEF Surplus, Listed
    <3>2. CASE Retain
      BY <3>1, <3>2, WorkerTyped DEF Retain, TypeOK, Stages, Job
    <3>3. CASE EndCreate
      BY <3>3, WorkSteps DEF EndCreate, Stages
    <3> QED
      BY <1>8, <3>2, <3>3
  <2>2. progress' \in {progress, "done"}
    BY <1>8 DEF Retain, EndCreate
  <2>3. UNCHANGED <<server, autosave, files, disk, busy, due, begun, pc, restores, bounds, held,
                    unresumed>>
    BY <1>8 DEF Retain, EndCreate
  <2> QED
    BY <1>0, <2>1, <2>2, <2>3, TypeParts
    DEF RequestsTyped, DiskTyped, ThreadTyped, files, disk, restores, staging, bounds
<1>12. CASE UnlinkArchive
  <2>1. worker' \in Job
    BY <1>12, WorkSteps DEF UnlinkArchive, Stages
  <2>2. archives' \in [Ids -> {None} \cup SUBSET Entries]
    BY <1>12 DEF UnlinkArchive, TypeOK
  <2>3. UNCHANGED <<server, autosave, files, metas, torn, retention, busy, progress, due, begun,
                    pc, restores, bounds, held, unresumed>>
    BY <1>12 DEF UnlinkArchive
  <2> QED
    BY <1>0, <2>1, <2>2, <2>3, TypeParts
    DEF RequestsTyped, DiskTyped, ThreadTyped, files, restores, staging, bounds
<1>13. CASE UnlinkMeta
  <2>1. worker' \in Job
    <3>1. PICK i \in Ids : worker' = [worker EXCEPT !.at = "unlink", !.old = @ \ {i}]
      BY <1>13, Zenon DEF UnlinkMeta
    <3>2. worker \in Job
      BY DEF TypeOK, Job
    <3> QED
      BY <3>1, <3>2 DEF Stages, Job
  <2>2. metas' \in [Ids -> {None} \cup SUBSET Entries]
    BY <1>13 DEF UnlinkMeta, TypeOK
  <2>3. UNCHANGED <<server, autosave, files, archives, torn, retention, busy, progress, due, begun,
                    pc, restores, bounds, held, unresumed>>
    BY <1>13 DEF UnlinkMeta
  <2> QED
    BY <1>0, <2>1, <2>2, <2>3, TypeParts
    DEF RequestsTyped, DiskTyped, ThreadTyped, files, restores, staging, bounds
<1>9. CASE WorkFails
  <2>1. worker' \in Job
    BY <1>9, WorkerTyped DEF WorkFails, TypeOK, Stages, Job
  <2>2. progress' = "error" /\ requests' = requests /\ faults' \in 0 .. MaxFaults
    BY <1>9 DEF WorkFails, Fault, TypeOK
  <2>3. UNCHANGED <<server, autosave, files, disk, busy, due, begun, pc, restores, held, unresumed>>
    BY <1>9 DEF WorkFails
  <2> QED
    BY <1>0, <2>1, <2>2, <2>3, TypeParts
    DEF RequestsTyped, DiskTyped, ThreadTyped, files, disk, restores, staging
<1>10. CASE OnDone
  <2>1. worker' \in Job
    BY <1>10, WorkSteps DEF OnDone, Stages
  <2>2. autosave' \in BOOLEAN /\ unresumed' \in BOOLEAN
    BY <1>10, SendResumeTyped DEF OnDone, TypeOK
  <2>3. requests' \in 0 .. MaxRequests /\ faults' \in 0 .. MaxFaults
    BY <1>10, SendResumeTyped DEF OnDone, TypeOK, bounds
  <2>4. UNCHANGED <<server, files, disk, busy, progress, due, begun, pc, restores, held>>
    BY <1>10 DEF OnDone
  <2> QED
    BY <1>0, <2>1, <2>2, <2>3, <2>4, TypeParts
    DEF RequestsTyped, DiskTyped, ThreadTyped, files, disk, restores, staging
<1>11. CASE Release
  <2>1. worker' \in Job /\ busy' = FALSE /\ held' = FALSE
    BY <1>11, WorkerTyped DEF Release
  <2>2. UNCHANGED <<server, autosave, files, disk, progress, due, begun, pc, restores, bounds,
                    unresumed>>
    BY <1>11 DEF Release
  <2> QED
    BY <1>0, <2>1, <2>2, TypeParts
    DEF RequestsTyped, DiskTyped, ThreadTyped, files, disk, restores, staging, bounds
<1> QED
  BY <1>1, <1>2, <1>3, <1>4, <1>5, <1>6, <1>7, <1>8, <1>9, <1>10, <1>11, <1>12, <1>13 DEF Worker

\* The end of a request keeps the types of its locals.
LEMMA ForgetTyped ==
  ASSUME TypeOK, NEW a \in Admins, Forget(a)
  PROVE  /\ target' \in [Admins -> Ids \cup {0}]
         /\ goal' \in [Admins -> SUBSET Entries] /\ todo' \in [Admins -> SUBSET Entries]
         /\ dir' \in [Admins -> Admins \cup {None}]
BY DEF TypeOK, Forget

\* Deletions keep the types.
LEMMA DeleteTyped ==
  ASSUME mixed' \in SUBSET Admins, shared' \in SUBSET Admins, TypeOK, NEW a \in Admins,
         BeginDelete(a) \/ DeleteArchive(a) \/ DeleteMeta(a)
  PROVE  TypeOK'
<1> USE ConstantsAssumption
<1>0. RequestsTyped /\ DiskTyped /\ ThreadTyped
  BY TypeParts
<1>1. CASE BeginDelete(a)
  <2>1. pc' \in [Admins -> Steps]
    BY <1>1, GotoSteps DEF BeginDelete, Steps
  <2>2. target' \in [Admins -> Ids \cup {0}] /\ requests' \in 0 .. MaxRequests
    BY <1>1 DEF BeginDelete, Listed, Request, TypeOK
  <2>3. UNCHANGED <<server, autosave, files, disk, thread, goal, staging, held, unresumed, faults>>
    BY <1>1 DEF BeginDelete, Request
  <2> QED
    BY <1>0, <2>1, <2>2, <2>3, TypeParts
    DEF RequestsTyped, DiskTyped, ThreadTyped, files, disk, thread, staging
<1>2. CASE DeleteArchive(a)
  <2>1. pc' \in [Admins -> Steps]
    BY <1>2, GotoSteps DEF DeleteArchive, Steps
  <2>2. archives' \in [Ids -> {None} \cup SUBSET Entries]
    BY <1>2 DEF DeleteArchive, TypeOK
  <2>3. UNCHANGED <<server, autosave, files, metas, torn, retention, thread, restores, bounds, held,
                    unresumed>>
    BY <1>2 DEF DeleteArchive
  <2> QED
    BY <1>0, <2>1, <2>2, <2>3, TypeParts
    DEF RequestsTyped, DiskTyped, ThreadTyped, files, thread, restores, staging, bounds
<1>3. CASE DeleteMeta(a)
  <2>1. pc' \in [Admins -> Steps]
    BY <1>3, GotoSteps DEF DeleteMeta, Steps
  <2>2. metas' \in [Ids -> {None} \cup SUBSET Entries]
    BY <1>3 DEF DeleteMeta, TypeOK
  <2>3. /\ target' \in [Admins -> Ids \cup {0}]
        /\ goal' \in [Admins -> SUBSET Entries] /\ todo' \in [Admins -> SUBSET Entries]
        /\ dir' \in [Admins -> Admins \cup {None}]
    BY <1>3, ForgetTyped DEF DeleteMeta
  <2>4. UNCHANGED <<server, autosave, files, archives, torn, retention, thread, staged, bounds,
                    held, unresumed>>
    BY <1>3 DEF DeleteMeta
  <2> QED
    BY <1>0, <2>1, <2>2, <2>3, <2>4, TypeParts
    DEF RequestsTyped, DiskTyped, ThreadTyped, files, thread, bounds
<1> QED
  BY <1>1, <1>2, <1>3

\* Restores keep the types.
LEMMA RestoreTyped ==
  ASSUME mixed' \in SUBSET Admins, shared' \in SUBSET Admins, TypeOK, Targeted, Placed,
         NEW a \in Admins, BeginRestore(a) \/ Restore(a)
  PROVE  TypeOK'
<1> USE ConstantsAssumption
<1>0. RequestsTyped /\ DiskTyped /\ ThreadTyped
  BY TypeParts
<1>1. CASE BeginRestore(a)
  <2>1. pc' \in [Admins -> Steps]
    BY <1>1, GotoSteps DEF BeginRestore, Steps, Restoring
  <2>2. target' \in [Admins -> Ids \cup {0}] /\ requests' \in 0 .. MaxRequests
    BY <1>1 DEF BeginRestore, Request, TypeOK
  <2>3. UNCHANGED <<server, autosave, files, disk, thread, goal, staging, held, unresumed, faults>>
    BY <1>1 DEF BeginRestore, Request
  <2> QED
    BY <1>0, <2>1, <2>2, <2>3, TypeParts
    DEF RequestsTyped, DiskTyped, ThreadTyped, files, disk, thread, staging
<1>2. CASE Verify(a)
  <2>1. pc' \in [Admins -> Steps] /\ pc[a] = "rs_verify"
    BY <1>2, GotoSteps DEF Verify, Steps, Restoring
  <2>2. target[a] \in Ids
    BY <2>1, Begun DEF Targeted
  <2>3. goal' \in [Admins -> SUBSET Entries]
    BY <1>2, <2>2 DEF Verify, TypeOK
  <2>4. dir' \in [Admins -> Admins \cup {None}]
    BY <1>2 DEF Verify, MakeStaging, TypeOK
  <2>5. UNCHANGED <<server, autosave, files, disk, thread, target, todo, staged, bounds, held,
                    unresumed>>
    BY <1>2 DEF Verify
  <2> QED
    BY <1>0, <2>1, <2>3, <2>4, <2>5, TypeParts
    DEF RequestsTyped, DiskTyped, ThreadTyped, files, disk, thread, bounds
<1>3. CASE VerifyFails(a)
  <2>1. pc' \in [Admins -> Steps]
    BY <1>3, GotoSteps DEF VerifyFails, Steps
  <2>2. /\ target' \in [Admins -> Ids \cup {0}]
        /\ goal' \in [Admins -> SUBSET Entries] /\ todo' \in [Admins -> SUBSET Entries]
        /\ dir' \in [Admins -> Admins \cup {None}]
    BY <1>3, ForgetTyped DEF VerifyFails
  <2>3. UNCHANGED <<server, autosave, files, disk, thread, staged, bounds, held, unresumed>>
    BY <1>3 DEF VerifyFails
  <2> QED
    BY <1>0, <2>1, <2>2, <2>3, TypeParts
    DEF RequestsTyped, DiskTyped, ThreadTyped, files, disk, thread, bounds
<1>4. CASE Stage(a)
  <2>1. pc' \in [Admins -> Steps] /\ pc[a] = "rs_stage"
    BY <1>4, GotoSteps DEF Stage, Steps, Restoring
  <2>2. target[a] \in Ids
    BY <2>1, Begun DEF Targeted
  <2>3. todo' \in [Admins -> SUBSET Entries]
    BY <1>4, <2>2 DEF Stage, TypeOK
  <2>4. UNCHANGED <<server, autosave, files, disk, thread, target, goal, dir, staged, bounds, held,
                    unresumed>>
    BY <1>4 DEF Stage
  <2> QED
    BY <1>0, <2>1, <2>3, <2>4, TypeParts
    DEF RequestsTyped, DiskTyped, ThreadTyped, files, disk, thread, bounds
<1>9. CASE Extract(a) \/ List(a)
  <2>1. pc' \in [Admins -> Steps]
    BY <1>9, GotoSteps DEF Extract, List, Steps, Restoring, TypeOK
  <2>2. todo' \in [Admins -> SUBSET Entries] /\ staged' \in [Admins -> SUBSET Entries]
    <3>1. CASE Extract(a)
      BY <3>1 DEF Extract, restores, staging, TypeOK
    <3>2. CASE List(a)
      <4>1. pc[a] = "rs_list" /\ dir[a] \in Admins
        BY <3>2 DEF List, Goto, Placed, Using
      <4> QED
        BY <3>2, <4>1 DEF List, TypeOK
    <3> QED
      BY <1>9, <3>1, <3>2
  <2>3. UNCHANGED <<server, autosave, files, disk, thread, target, goal, dir, bounds, held,
                    unresumed>>
    BY <1>9 DEF Extract, List, restores, staging
  <2> QED
    BY <1>0, <2>1, <2>2, <2>3, TypeParts
    DEF RequestsTyped, DiskTyped, ThreadTyped, files, disk, thread, bounds
<1>5. CASE StageFails(a) \/ MoveFails(a)
  <2>1. pc' \in [Admins -> Steps]
    BY <1>5, GotoSteps DEF StageFails, MoveFails, Steps
  <2>2. /\ target' \in [Admins -> Ids \cup {0}]
        /\ goal' \in [Admins -> SUBSET Entries] /\ todo' \in [Admins -> SUBSET Entries]
        /\ dir' \in [Admins -> Admins \cup {None}]
    BY <1>5, ForgetTyped DEF StageFails, MoveFails
  <2>3. staged' \in [Admins -> SUBSET Entries]
    BY <1>5 DEF StageFails, MoveFails, RemoveStaging, TypeOK
  <2>4. requests' = requests /\ faults' \in 0 .. MaxFaults
    BY <1>5 DEF StageFails, MoveFails, Fault, bounds, TypeOK
  <2>5. UNCHANGED <<server, autosave, files, disk, thread, held, unresumed>>
    BY <1>5 DEF StageFails, MoveFails
  <2> QED
    BY <1>0, <2>1, <2>2, <2>3, <2>4, <2>5, TypeParts
    DEF RequestsTyped, DiskTyped, ThreadTyped, files, disk, thread
<1>6. CASE Clear(a)
  <2>1. pc' \in [Admins -> Steps]
    BY <1>6, GotoSteps DEF Clear, Steps, Restoring
  <2>2. game' \in SUBSET Entries
    BY <1>6 DEF Clear, TypeOK
  <2>3. UNCHANGED <<server, autosave, locked, disk, thread, restores, bounds, held, unresumed>>
    BY <1>6 DEF Clear
  <2> QED
    BY <1>0, <2>1, <2>2, <2>3, TypeParts
    DEF RequestsTyped, DiskTyped, ThreadTyped, disk, thread, restores, staging, bounds
<1>7. CASE Move(a)
  <2>1. game' \in SUBSET Entries
    BY <1>7 DEF Move, TypeOK
  <2>2. todo' \in [Admins -> SUBSET Entries] /\ staged' \in [Admins -> SUBSET Entries]
    <3>1. PICK e \in todo[a] \cap staged[dir[a]] :
            /\ todo' = [todo EXCEPT ![a] = @ \ {e}]
            /\ staged' = [staged EXCEPT ![dir[a]] = @ \ {e}]
      BY <1>7, Zenon DEF Move
    <3> QED
      BY <3>1 DEF TypeOK
  <2>3. UNCHANGED <<server, autosave, locked, disk, thread, pc, target, goal, dir, bounds, held,
                    unresumed>>
    BY <1>7 DEF Move
  <2> QED
    BY <1>0, <2>1, <2>2, <2>3, TypeParts
    DEF RequestsTyped, DiskTyped, ThreadTyped, disk, thread, bounds
<1>8. CASE EndRestore(a)
  <2>1. pc' \in [Admins -> Steps]
    BY <1>8, GotoSteps DEF EndRestore, Steps, Restoring
  <2>2. /\ target' \in [Admins -> Ids \cup {0}]
        /\ goal' \in [Admins -> SUBSET Entries] /\ todo' \in [Admins -> SUBSET Entries]
        /\ dir' \in [Admins -> Admins \cup {None}]
    BY <1>8, ForgetTyped DEF EndRestore, TypeOK
  <2>3. staged' \in [Admins -> SUBSET Entries]
    BY <1>8 DEF EndRestore, RemoveStaging, TypeOK
  <2>4. UNCHANGED <<server, autosave, files, disk, thread, bounds, held, unresumed>>
    BY <1>8 DEF EndRestore
  <2> QED
    BY <1>0, <2>1, <2>2, <2>3, <2>4, TypeParts
    DEF RequestsTyped, DiskTyped, ThreadTyped, files, disk, thread, bounds
<1> QED
  BY <1>1, <1>2, <1>3, <1>4, <1>5, <1>6, <1>7, <1>8, <1>9 DEF Restore

\* What comes from outside keeps the types.
LEMMA SurroundingsTyped ==
  ASSUME mixed' \in SUBSET Admins, shared' \in SUBSET Admins, TypeOK,
         UpdateSettings \/ GameSaves \/ ServerStarts \/ ServerStops \/ Tamper \/ DashboardRestarts
  PROVE  TypeOK'
<1> USE ConstantsAssumption
<1>0. RequestsTyped /\ DiskTyped /\ ThreadTyped
  BY TypeParts
<1>1. CASE GameSaves
  <2>1. game' \in SUBSET Entries /\ locked' \in SUBSET Entries
    BY <1>1 DEF GameSaves, TypeOK
  <2>2. UNCHANGED <<server, autosave, disk, thread, pc, restores, bounds, held, unresumed>>
    BY <1>1 DEF GameSaves
  <2> QED
    BY <1>0, <2>1, <2>2, TypeParts
    DEF RequestsTyped, DiskTyped, ThreadTyped, disk, thread, restores, staging, bounds
<1>2. CASE ServerStarts
  <2>1. server' = "up" /\ autosave' = TRUE /\ unresumed' = FALSE /\ locked' = {}
    BY <1>2 DEF ServerStarts
  <2>2. UNCHANGED <<game, disk, thread, pc, restores, bounds, held>>
    BY <1>2 DEF ServerStarts
  <2> QED
    BY <1>0, <2>1, <2>2, TypeParts
    DEF RequestsTyped, DiskTyped, ThreadTyped, disk, thread, restores, staging, bounds
<1>3. CASE ServerStops
  <2>1. server' = "down" /\ game' \in SUBSET Entries /\ locked' \in SUBSET Entries /\ held' = FALSE
    BY <1>3 DEF ServerStops, TypeOK
  <2>2. UNCHANGED <<autosave, disk, thread, pc, restores, bounds, unresumed>>
    BY <1>3 DEF ServerStops
  <2> QED
    BY <1>0, <2>1, <2>2, TypeParts
    DEF RequestsTyped, DiskTyped, ThreadTyped, disk, thread, restores, staging, bounds
<1>4. CASE Tamper
  <2>1. archives' \in [Ids -> {None} \cup SUBSET Entries]
    <3>1. PICK i \in Ids, x \in {None} \cup SUBSET Entries : archives' = [archives EXCEPT ![i] = x]
      BY <1>4 DEF Tamper, TypeOK
    <3> QED
      BY <3>1 DEF TypeOK
  <2>2. requests' = requests /\ faults' \in 0 .. MaxFaults
    BY <1>4 DEF Tamper, Fault, TypeOK
  <2>3. UNCHANGED <<server, autosave, files, metas, torn, retention, thread, pc, restores, held,
                    unresumed>>
    BY <1>4 DEF Tamper
  <2> QED
    BY <1>0, <2>1, <2>2, <2>3, TypeParts
    DEF RequestsTyped, DiskTyped, ThreadTyped, files, thread, restores, staging
<1>5. CASE DashboardRestarts
  <2>1. game' \in SUBSET Entries
    BY <1>5 DEF DashboardRestarts, TypeOK
  <2>3. /\ pc' \in [Admins -> Steps] /\ target' \in [Admins -> Ids \cup {0}]
        /\ goal' \in [Admins -> SUBSET Entries] /\ todo' \in [Admins -> SUBSET Entries]
        /\ dir' \in [Admins -> Admins \cup {None}] /\ staged' \in [Admins -> SUBSET Entries]
    BY <1>5 DEF DashboardRestarts, Steps
  <2>4. requests' = requests /\ faults' \in 0 .. MaxFaults
    BY <1>5 DEF DashboardRestarts, Fault, TypeOK
  <2>5. busy' = FALSE /\ progress' = "idle" /\ worker' \in Job /\ due' = FALSE
    BY <1>5, WorkerTyped DEF DashboardRestarts
  <2>6. unresumed' \in BOOLEAN
    BY <1>5 DEF DashboardRestarts, TypeOK
  <2>7. UNCHANGED <<server, autosave, locked, disk, begun, held>>
    BY <1>5 DEF DashboardRestarts
  <2>8. RequestsTyped'
    BY <1>0, <2>1, <2>3, <2>4, <2>6, <2>7 DEF RequestsTyped
  <2>9. DiskTyped' /\ ThreadTyped'
    BY <1>0, <2>5, <2>7 DEF DiskTyped, ThreadTyped, disk
  <2> QED
    BY <2>8, <2>9, TypeParts
<1>6. CASE UpdateSettings
  <2>1. retention' \in 1 .. MaxRetention /\ requests' \in 0 .. MaxRequests /\ faults' = faults
    BY <1>6 DEF UpdateSettings, Request, TypeOK
  <2>2. UNCHANGED <<server, autosave, files, archives, metas, torn, thread, pc, restores, held,
                    unresumed>>
    BY <1>6 DEF UpdateSettings
  <2> QED
    BY <1>0, <2>1, <2>2, TypeParts
    DEF RequestsTyped, DiskTyped, ThreadTyped, files, thread, restores, staging
<1> QED
  BY <1>1, <1>2, <1>3, <1>4, <1>5, <1>6

\* Every step keeps the types.
LEMMA TypeStep ==
  ASSUME TypeOK, Counted, Numbered, Targeted, Placed, [Next]_vars
  PROVE  TypeOK'
<1>1. CASE UNCHANGED vars
  BY <1>1 DEF TypeOK, vars, files, disk, thread, restores, staging, bounds
<1>2. CASE Next
  <2>1. mixed' \in SUBSET Admins /\ shared' \in SUBSET Admins
    BY <1>2 DEF Next, Mixing, Sharing
  <2> QED
    BY <1>2, <2>1, CreateTyped, WorkerKeepsTypes, DeleteTyped, RestoreTyped, SurroundingsTyped
    DEF Next, Step
<1> QED
  BY <1>1, <1>2

-----------------------------------------------------------------------------
(* The lock, and the resume that follows each pause. *)

\* Who changes the thread's state.
LEMMA OutsideThread ==
  ASSUME [Next]_vars
  PROVE  \/ UNCHANGED thread
         \/ FindDue \/ StartScheduled \/ Worker \/ DashboardRestarts
         \/ \E a \in Admins : StartCreate(a)
<1>1. CASE UNCHANGED vars
  BY <1>1 DEF vars
<1>2. ASSUME NEW a \in Admins, BeginCreate(a) \/ Create(a) PROVE UNCHANGED thread \/ StartCreate(a)
  BY <1>2 DEF BeginCreate, Create, Flush, SaveOff, PauseFails, Busy, ResumeRefused
<1>3. ASSUME NEW a \in Admins, BeginDelete(a) \/ DeleteArchive(a) \/ DeleteMeta(a)
      PROVE  UNCHANGED thread
  BY <1>3 DEF BeginDelete, DeleteArchive, DeleteMeta
<1>4. ASSUME NEW a \in Admins, BeginRestore(a) \/ Restore(a) PROVE UNCHANGED thread
  BY <1>4 DEF BeginRestore, Restore, Verify, VerifyFails, Stage, Extract, StageFails, Clear,
     List, Move, MoveFails,
              EndRestore
<1>5. ASSUME UpdateSettings \/ GameSaves \/ ServerStarts \/ ServerStops \/ Tamper
      PROVE  UNCHANGED thread
  BY <1>5 DEF UpdateSettings, GameSaves, ServerStarts, ServerStops, Tamper
<1> QED
  BY <1>1, <1>2, <1>3, <1>4, <1>5 DEF Next, Step

\* Where each step of the thread leads, and what it carries on.
LEMMA WorkerMoves ==
  ASSUME TypeOK, Worker
  PROVE  /\ BeginArchive => worker.at = "begin" /\ worker'.at = "archive"
         /\ ArchiveEntry => worker.at = "archive" /\ worker'.at = "archive"
         /\ EndArchive => worker.at = "archive" /\ worker'.at = "publish"
         /\ NothingReadable => worker.at = "archive" /\ worker'.at = "on_done"
         /\ Publish => worker.at = "publish" /\ worker'.at = "meta" /\ worker'.has = worker.has
         /\ WriteMeta => worker.at = "meta" /\ worker'.at = "retain"
         /\ Retain => worker.at = "retain" /\ worker'.at = "unlink" /\ worker'.old = Surplus
         /\ UnlinkArchive => /\ worker.at = "unlink" /\ worker'.at = "unlink_meta"
                             /\ worker'.old = worker.old
         /\ UnlinkMeta => /\ worker.at = "unlink_meta" /\ worker'.at = "unlink"
                          /\ worker'.old \subseteq worker.old
         /\ EndCreate => worker.at = "unlink" /\ worker'.at = "on_done"
         /\ WorkFails => /\ worker.at \in Building \cup Retaining \cup {"begin"}
                         /\ worker'.at = "on_done"
         /\ OnDone => worker.at = "on_done" /\ worker'.at = "release"
         /\ Release => worker.at = "release" /\ worker'.at = "off"
         /\ ~Release => worker'.resumes = worker.resumes /\ busy' = busy
<1>0. worker \in Job
  BY DEF TypeOK, Job
<1>1. BeginArchive => worker.at = "begin" /\ worker'.at = "archive" /\ worker'.resumes = worker.resumes
  BY <1>0 DEF BeginArchive, Job
<1>2. ArchiveEntry => worker.at = "archive" /\ worker'.at = "archive" /\ worker'.resumes = worker.resumes
  <2> SUFFICES ASSUME ArchiveEntry
               PROVE  /\ worker.at = "archive" /\ worker'.at = "archive"
                      /\ worker'.resumes = worker.resumes
    OBVIOUS
  <2>1. PICK e \in worker.todo, added \in BOOLEAN, half \in BOOLEAN :
          /\ e \in game \ locked <=> added \/ half
          /\ worker' = [worker EXCEPT !.todo = @ \ {e},
                                      !.has = IF added THEN @ \cup {e} ELSE @]
          /\ torn' = IF half THEN torn \cup {begun} ELSE torn
    BY Zenon DEF ArchiveEntry
  <2> QED
    BY <1>0, <2>1 DEF ArchiveEntry, Job
<1>3. EndArchive => worker.at = "archive" /\ worker'.at = "publish" /\ worker'.resumes = worker.resumes
  BY <1>0 DEF EndArchive, Work, Job
<1>4. NothingReadable => worker.at = "archive" /\ worker'.at = "on_done" /\ worker'.resumes = worker.resumes
  BY <1>0 DEF NothingReadable, Work, Job
<1>5. Publish => /\ worker.at = "publish" /\ worker'.at = "meta" /\ worker'.has = worker.has
                 /\ worker'.resumes = worker.resumes
  BY <1>0 DEF Publish, Work, Job
<1>6. WriteMeta => worker.at = "meta" /\ worker'.at = "retain" /\ worker'.resumes = worker.resumes
  BY <1>0 DEF WriteMeta, Work, Job
<1>7. Retain => /\ worker.at = "retain" /\ worker'.at = "unlink" /\ worker'.old = Surplus
                /\ worker'.resumes = worker.resumes
  BY <1>0 DEF Retain, Job
<1>8. WorkFails => /\ worker.at \in Building \cup Retaining \cup {"begin"} /\ worker'.at = "on_done"
                   /\ worker'.resumes = worker.resumes
  <2> SUFFICES ASSUME WorkFails
               PROVE  /\ worker.at \in Building \cup Retaining \cup {"begin"}
                      /\ worker'.at = "on_done" /\ worker'.resumes = worker.resumes
    OBVIOUS
  <2>1. worker.at \in Stages \ {"off", "on_done", "release"}
    BY <1>0 DEF WorkFails, Job
  <2>2. worker'.at = "on_done" /\ worker'.resumes = worker.resumes
    BY DEF WorkFails, NoWork
  <2> QED
    BY <2>1, <2>2 DEF Stages, Building, Retaining
<1>9. OnDone => worker.at = "on_done" /\ worker'.at = "release" /\ worker'.resumes = worker.resumes
  BY <1>0 DEF OnDone, Work, Job
<1>10. Release => worker.at = "release" /\ worker'.at = "off"
  BY DEF Release, NoWork
<1>11. ~Release => busy' = busy
  BY DEF Worker, BeginArchive, ArchiveEntry, EndArchive, NothingReadable, Publish, WriteMeta,
         Retain, UnlinkArchive, UnlinkMeta, EndCreate, WorkFails, OnDone
<1>12. UnlinkArchive => /\ worker.at = "unlink" /\ worker'.at = "unlink_meta"
                        /\ worker'.old = worker.old /\ worker'.resumes = worker.resumes
  BY <1>0 DEF UnlinkArchive, Work, Job
<1>13. UnlinkMeta => /\ worker.at = "unlink_meta" /\ worker'.at = "unlink"
                     /\ worker'.old \subseteq worker.old /\ worker'.resumes = worker.resumes
  <2> SUFFICES ASSUME UnlinkMeta
               PROVE  /\ worker.at = "unlink_meta" /\ worker'.at = "unlink"
                      /\ worker'.old \subseteq worker.old /\ worker'.resumes = worker.resumes
    OBVIOUS
  <2>1. PICK i \in Ids : worker' = [worker EXCEPT !.at = "unlink", !.old = @ \ {i}]
    BY Zenon DEF UnlinkMeta
  <2> QED
    BY <1>0, <2>1 DEF UnlinkMeta, Job
<1>14. EndCreate => worker.at = "unlink" /\ worker'.at = "on_done" /\ worker'.resumes = worker.resumes
  BY <1>0 DEF EndCreate, Work, Job
<1> QED
  BY <1>1, <1>2, <1>3, <1>4, <1>5, <1>6, <1>7, <1>8, <1>9, <1>10, <1>11, <1>12, <1>13, <1>14
  DEF Worker

\* Every step keeps lock, thread and progress in step.
LEMMA LockedStep ==
  ASSUME TypeOK, Locked, [Next]_vars
  PROVE  Locked'
<1>1. CASE UNCHANGED thread
  BY <1>1 DEF Locked, thread
<1>2. CASE FindDue
  BY <1>2 DEF Locked, FindDue
<1>3. ASSUME NEW r \in BOOLEAN, StartWorker(r) PROVE Locked'
  <2>1. worker'.at = "begin" /\ busy' = TRUE /\ busy = FALSE /\ progress' = progress
    BY <1>3, StartSteps
  <2>2. worker.at = "off" /\ progress # "running"
    BY <2>1 DEF Locked, Building, Retaining
  <2> QED
    BY <2>1, <2>2 DEF Locked
<1>4. CASE StartScheduled
  <2>1. CASE StartWorker(FALSE)
    BY <1>3, <2>1
  <2>2. CASE UNCHANGED <<busy, worker, progress>>
    BY <2>2 DEF Locked
  <2> QED
    BY <1>4, <2>1, <2>2 DEF StartScheduled
<1>5. ASSUME NEW a \in Admins, StartCreate(a) PROVE Locked'
  BY <1>3, <1>5 DEF StartCreate
<1>6. CASE Worker
  <2>1. CASE Release
    <3>1. worker.at = "release" /\ worker'.at = "off" /\ busy' = FALSE /\ progress' = progress
      BY <2>1, <1>6, WorkerMoves DEF Release
    <3> QED
      BY <3>1 DEF Locked, Building, Retaining
  <2>2. CASE ~Release
    <3>1. worker.at # "off" /\ worker'.at # "off" /\ busy' = busy
      BY <1>6, <2>2, WorkerMoves DEF Worker, Building, Retaining
    <3>2. progress' = "running" => worker'.at \in Building \cup Retaining
      <4>1. CASE BeginArchive
        BY <1>6, <4>1, WorkerMoves DEF Building
      <4>2. CASE \/ ArchiveEntry \/ EndArchive \/ Publish \/ WriteMeta
                 \/ Retain \/ UnlinkArchive \/ UnlinkMeta
        BY <1>6, <4>2, WorkerMoves DEF Building, Retaining
      <4>3. CASE NothingReadable \/ EndCreate \/ WorkFails
        BY <4>3 DEF NothingReadable, EndCreate, WorkFails
      <4>4. CASE OnDone
        BY <1>6, <4>4, WorkerMoves DEF OnDone, Locked, Building, Retaining
      <4> QED
        BY <1>6, <2>2, <4>1, <4>2, <4>3, <4>4 DEF Worker
    <3> QED
      BY <3>1, <3>2 DEF Locked
  <2> QED
    BY <2>1, <2>2
<1>7. CASE DashboardRestarts
  BY <1>7 DEF DashboardRestarts, NoWork, Locked
<1> QED
  BY <1>1, <1>2, <1>4, <1>5, <1>6, <1>7, OutsideThread

\* The server, its autosave and the thread stay, and whoever is making a backup goes on.
LEMMA ResumedFrame ==
  ASSUME Resumed,
         server' = "up" => server = "up" /\ (autosave' = autosave \/ autosave' = TRUE),
         unresumed => unresumed',
         worker' = worker,
         \A a \in Admins : pc[a] \in Creating => pc'[a] \in Creating
  PROVE  Resumed'
BY DEF Resumed

\* Every step keeps a paused server in somebody's hands.
LEMMA ResumedStep ==
  ASSUME TypeOK, Locked, Resumed, [Next]_vars
  PROVE  Resumed'
<1>1. CASE UNCHANGED vars
  BY <1>1, ResumedFrame DEF vars, thread
<1>2. ASSUME NEW a \in Admins, BeginCreate(a) PROVE Resumed'
  <2>1. pc[a] = "idle" /\ \A b \in Admins \ {a} : pc'[b] = pc[b]
    BY <1>2, GotoSteps DEF BeginCreate, Steps, Creating
  <2> QED
    BY <1>2, <2>1, ResumedFrame DEF BeginCreate, thread, Creating
<1>3. ASSUME NEW a \in Admins, Flush(a) \/ SaveOff(a) \/ PauseFails(a) \/ Busy(a) PROVE Resumed'
  <2>1. pc' \in [Admins -> Steps] /\ pc'[a] \in Creating
    BY <1>3, GotoSteps DEF Flush, SaveOff, PauseFails, Busy, Steps, Creating
  <2> QED
    BY <2>1 DEF Resumed
<1>4. ASSUME NEW a \in Admins, StartCreate(a) PROVE Resumed'
  <2>1. worker'.at = "begin" /\ worker'.resumes = TRUE
    BY <1>4, StartSteps DEF StartCreate
  <2> QED
    BY <2>1 DEF Resumed
<1>5. ASSUME NEW a \in Admins, ResumeRefused(a) PROVE Resumed'
  <2>1. server = "up" => autosave' = TRUE \/ unresumed' = TRUE
    BY <1>5, SendResumeTyped DEF ResumeRefused
  <2> QED
    BY <1>5, <2>1 DEF ResumeRefused, Resumed
<1>6. CASE FindDue
  BY <1>6, ResumedFrame DEF FindDue
<1>7. CASE StartScheduled
  <2>1. CASE StartWorker(FALSE)
    <3>1. worker.at = "off"
      BY <2>1, StartSteps DEF Locked
    <3> QED
      BY <1>7, <3>1 DEF StartScheduled, Resumed
  <2>2. CASE busy /\ UNCHANGED <<busy, worker, held, progress, begun>>
    BY <1>7, <2>2, ResumedFrame DEF StartScheduled
  <2> QED
    BY <1>7, <2>1, <2>2 DEF StartScheduled
<1>8. CASE Worker
  <2>1. CASE OnDone
    <3>1. worker.at = "on_done" /\ UNCHANGED <<server, pc>>
      BY <2>1 DEF OnDone, Work
    <3>2. CASE worker.resumes
      <4>1. server = "up" => autosave' = TRUE \/ unresumed' = TRUE
        BY <2>1, <3>2, SendResumeTyped DEF OnDone
      <4> QED
        BY <3>1, <4>1 DEF Resumed
    <3>3. CASE ~worker.resumes
      BY <2>1, <3>1, <3>3 DEF OnDone, Resumed
    <3> QED
      BY <3>2, <3>3
  <2>2. CASE ~OnDone
    <3>1. UNCHANGED <<server, autosave, unresumed, pc>>
      BY <1>8, <2>2 DEF Worker, BeginArchive, ArchiveEntry, EndArchive, NothingReadable, Publish,
                        WriteMeta, Retain, UnlinkArchive, UnlinkMeta, EndCreate, WorkFails, Release
    <3>2. \/ worker.at = "release"
          \/ worker'.at \notin {"off", "release"} /\ worker'.resumes = worker.resumes
      BY <1>8, <2>2, WorkerMoves DEF Worker
    <3> QED
      BY <3>1, <3>2 DEF Resumed
  <2> QED
    BY <2>1, <2>2
<1>9. ASSUME NEW a \in Admins, BeginDelete(a) \/ DeleteArchive(a) \/ DeleteMeta(a) PROVE Resumed'
  <2>1. pc[a] \notin Creating /\ \A b \in Admins \ {a} : pc'[b] = pc[b]
    BY <1>9, GotoSteps DEF BeginDelete, DeleteArchive, DeleteMeta, Steps, Creating
  <2>2. UNCHANGED <<server, autosave, unresumed, worker>>
    BY <1>9 DEF BeginDelete, DeleteArchive, DeleteMeta, thread
  <2> QED
    BY <2>1, <2>2, ResumedFrame
<1>10. ASSUME NEW a \in Admins, BeginRestore(a) \/ Restore(a) PROVE Resumed'
  <2>1. pc[a] \notin Creating /\ \A b \in Admins \ {a} : pc'[b] = pc[b]
    BY <1>10 DEF BeginRestore, Restore, Verify, VerifyFails, Stage, Extract, StageFails, Clear,
       List, Move,
                 MoveFails, EndRestore, Goto, TypeOK, Creating
  <2>2. UNCHANGED <<server, autosave, unresumed, worker>>
    BY <1>10 DEF BeginRestore, Restore, Verify, VerifyFails, Stage, Extract, StageFails, Clear,
       List, Move,
                 MoveFails, EndRestore, thread
  <2> QED
    BY <2>1, <2>2, ResumedFrame
<1>11. CASE UpdateSettings \/ GameSaves \/ ServerStops \/ Tamper
  <2>1. server' \in {server, "down"} /\ UNCHANGED <<autosave, unresumed, worker, pc>>
    BY <1>11 DEF UpdateSettings, GameSaves, ServerStops, Tamper, thread
  <2> QED
    BY <2>1, ResumedFrame
<1>12. CASE ServerStarts
  BY <1>12 DEF ServerStarts, Resumed
<1>13. CASE DashboardRestarts
  BY <1>13 DEF DashboardRestarts, Resumed
<1> QED
  BY <1>1, <1>2, <1>3, <1>4, <1>5, <1>6, <1>7, <1>8, <1>9, <1>10, <1>11, <1>12, <1>13
  DEF Next, Step, Create

-----------------------------------------------------------------------------
(* Numbers. *)

\* Steps that neither begin a backup nor count one, and do not change who waits.
LEMMA CountedFrame ==
  ASSUME TypeOK, Counted, begun' = begun, due' = due, requests' \in Nat, requests <= requests',
         worker'.at = "begin" => worker.at = "begin",
         \A a \in Admins : pc'[a] \in Asking <=> pc[a] \in Asking
  PROVE  Counted'
<1>1. Cardinality(Waiting)' = Cardinality(Waiting)
  BY WaitingStays
<1>2. One(due)' = One(due) /\ One(worker.at = "begin")' <= One(worker.at = "begin")
  BY DEF One
<1>3. One(due) \in Nat /\ One(worker.at = "begin") \in Nat /\ One(worker.at = "begin")' \in Nat
  BY DEF One
<1> QED
  BY <1>1, <1>2, <1>3, Begun, WaitingCounted DEF Counted

\* Every step leaves a number for each backup that is still to be begun.
LEMMA CountedStep ==
  ASSUME TypeOK, Locked, Counted, [Next]_vars
  PROVE  Counted'
<1> DEFINE b == One(worker.at = "begin")
           d == One(due)
           w == Cardinality(Waiting)
<1>0. /\ begun \in Nat /\ requests \in Nat /\ w \in Nat /\ b \in 0..1 /\ d \in 0..1
      /\ w' \in Nat /\ b' \in 0..1 /\ d' \in 0..1
      /\ begun + b + d + w <= requests + 1
  BY Begun, WaitingCounted DEF One, Counted
<1>1. CASE UNCHANGED vars
  BY <1>0, <1>1, CountedFrame DEF vars, thread, bounds
<1>2. ASSUME NEW a \in Admins, BeginCreate(a) PROVE Counted'
  <2>1. pc[a] = "idle" /\ pc'[a] = "flush" /\ \A c \in Admins \ {a} : pc'[c] = pc[c]
    BY <1>2, GotoSteps DEF BeginCreate, Steps, Creating
  <2>2. w' = w + 1
    BY <2>1, WaitingMore DEF Asking
  <2>3. begun' = begun /\ b' = b /\ d' = d /\ requests' = requests + 1
    BY <1>2 DEF BeginCreate, Request, thread, One
  <2> QED
    BY <1>0, <2>2, <2>3 DEF Counted
<1>3. ASSUME NEW a \in Admins, Flush(a) \/ SaveOff(a) \/ PauseFails(a) PROVE Counted'
  <2>1. pc[a] \in Asking /\ pc'[a] \in Asking /\ \A c \in Admins \ {a} : pc'[c] = pc[c]
    BY <1>3, GotoSteps DEF Flush, SaveOff, PauseFails, Steps, Creating, Asking
  <2>2. UNCHANGED <<thread, requests>>
    BY <1>3 DEF Flush, SaveOff, PauseFails, bounds
  <2> QED
    BY <1>0, <2>1, <2>2, CountedFrame DEF thread
<1>4. ASSUME NEW a \in Admins, StartCreate(a) PROVE Counted'
  <2>1. pc[a] \in Asking /\ pc'[a] \notin Asking /\ \A c \in Admins \ {a} : pc'[c] = pc[c]
    BY <1>4, GotoSteps DEF StartCreate, Steps, Asking
  <2>2. w' = w - 1
    BY <2>1, WaitingLess
  <2>3. busy = FALSE /\ begun' = begun /\ worker'.at = "begin"
    BY <1>4, StartSteps DEF StartCreate
  <2>4. b = 0 /\ b' = 1
    BY <2>3 DEF Locked, One
  <2>5. d' = d /\ requests' = requests
    BY <1>4 DEF StartCreate, bounds, One
  <2> HIDE DEF b, d, w
  <2>6. begun' = begun
    BY <2>3
  <2>7. begun' + b' + d' + w' <= requests' + 1
    BY <1>0, <2>2, <2>4, <2>5, <2>6
  <2> QED
    BY <2>7 DEF Counted, b, d, w
<1>5. ASSUME NEW a \in Admins, Busy(a) PROVE Counted'
  <2>1. pc[a] \in Asking /\ pc'[a] \notin Asking /\ \A c \in Admins \ {a} : pc'[c] = pc[c]
    BY <1>5, GotoSteps DEF Busy, Steps, Creating, Asking
  <2>2. w' = w - 1
    BY <2>1, WaitingLess
  <2>3. begun' = begun /\ b' = b /\ d' = d /\ requests' = requests
    BY <1>5 DEF Busy, thread, bounds, One
  <2> QED
    BY <1>0, <2>2, <2>3 DEF Counted
<1>6. ASSUME NEW a \in Admins, ResumeRefused(a) PROVE Counted'
  <2>1. pc[a] \notin Asking /\ pc'[a] \notin Asking /\ \A c \in Admins \ {a} : pc'[c] = pc[c]
    BY <1>6, GotoSteps DEF ResumeRefused, Steps, Asking
  <2>2. UNCHANGED <<thread, requests>>
    BY <1>6, SendResumeTyped DEF ResumeRefused
  <2> QED
    BY <1>0, <2>1, <2>2, CountedFrame DEF thread
<1>7. CASE FindDue
  <2>1. d = 0 /\ d' = 1 /\ requests' = requests + 1
    BY <1>7 DEF FindDue, Request, One
  <2>2. begun' = begun /\ b' = b /\ w' = w
    BY <1>7 DEF FindDue, Waiting, One
  <2> QED
    BY <1>0, <2>1, <2>2 DEF Counted
<1>8. CASE StartScheduled
  <2>1. d = 1 /\ d' = 0 /\ requests' = requests /\ w' = w
    BY <1>8 DEF StartScheduled, bounds, One, Waiting
  <2>2. begun' = begun
    BY <1>8, StartSteps DEF StartScheduled
  <2> HIDE DEF b, d, w
  <2>3. CASE StartWorker(FALSE)
    <3>1. worker'.at = "begin" /\ busy = FALSE
      BY <2>3, StartSteps
    <3>2. b = 0 /\ b' = 1
      BY <3>1 DEF Locked, b, One
    <3>3. begun' + b' + d' + w' <= requests' + 1
      BY <1>0, <2>1, <2>2, <3>2
    <3> QED
      BY <3>3 DEF Counted, b, d, w
  <2>4. CASE worker' = worker
    <3>1. b' = b
      BY <2>4 DEF b
    <3>2. begun' + b' + d' + w' <= requests' + 1
      BY <1>0, <2>1, <2>2, <3>1
    <3> QED
      BY <3>2 DEF Counted, b, d, w
  <2> QED
    BY <1>8, <2>3, <2>4 DEF StartScheduled
<1>9. CASE Worker
  <2>1. CASE BeginArchive
    <3>1. begun' = begun + 1 /\ d' = d /\ w' = w /\ requests' = requests
      BY <2>1 DEF BeginArchive, bounds, Waiting, One
    <3>2. worker.at = "begin" /\ worker'.at = "archive"
      BY <1>9, <2>1, WorkerMoves
    <3>3. b = 1 /\ b' = 0
      BY <3>2 DEF One
    <3> HIDE DEF b, d, w
    <3>4. begun' + b' + d' + w' <= requests' + 1
      BY <1>0, <3>1, <3>3
    <3> QED
      BY <3>4 DEF Counted, b, d, w
  <2>2. CASE ~BeginArchive
    <3>1. worker'.at # "begin"
      BY <1>9, <2>2, WorkerMoves DEF Worker
    <3>2. UNCHANGED <<begun, due, pc, requests>>
      BY <1>9, <2>2, SendResumeTyped
      DEF Worker, ArchiveEntry, EndArchive, NothingReadable, Publish, WriteMeta, Retain,
      UnlinkArchive, UnlinkMeta, EndCreate, WorkFails,
          Fault, OnDone, Release, bounds
    <3> QED
      BY <1>0, <3>1, <3>2, CountedFrame
  <2> QED
    BY <2>1, <2>2
<1>10. ASSUME NEW a \in Admins, BeginDelete(a) \/ DeleteArchive(a) \/ DeleteMeta(a) PROVE Counted'
  <2>1. pc[a] \notin Asking /\ pc'[a] \notin Asking /\ \A c \in Admins \ {a} : pc'[c] = pc[c]
    BY <1>10, GotoSteps DEF BeginDelete, DeleteArchive, DeleteMeta, Steps, Asking
  <2>2. UNCHANGED thread /\ requests' \in {requests, requests + 1}
    BY <1>10 DEF BeginDelete, DeleteArchive, DeleteMeta, Request, bounds
  <2> QED
    BY <1>0, <2>1, <2>2, CountedFrame DEF thread
<1>11. ASSUME NEW a \in Admins, BeginRestore(a) \/ Restore(a) PROVE Counted'
  <2>1. pc[a] \notin Asking /\ pc'[a] \notin Asking /\ \A c \in Admins \ {a} : pc'[c] = pc[c]
    BY <1>11 DEF BeginRestore, Restore, Verify, VerifyFails, Stage, Extract, StageFails, Clear,
       List, Move,
                 MoveFails, EndRestore, Goto, TypeOK, Asking
  <2>2. UNCHANGED thread /\ requests' \in {requests, requests + 1}
    BY <1>11 DEF BeginRestore, Restore, Verify, VerifyFails, Stage, Extract, StageFails, Clear,
       List, Move,
                 MoveFails, EndRestore, Request, Fault, bounds
  <2> QED
    BY <1>0, <2>1, <2>2, CountedFrame DEF thread
<1>12. CASE UpdateSettings \/ GameSaves \/ ServerStarts \/ ServerStops \/ Tamper
  <2>1. UNCHANGED <<thread, pc>> /\ requests' \in {requests, requests + 1}
    BY <1>12 DEF UpdateSettings, GameSaves, ServerStarts, ServerStops, Tamper, Request, Fault,
       bounds
  <2> QED
    BY <1>0, <2>1, CountedFrame DEF thread
<1>13. CASE DashboardRestarts
  <2>1. begun' = begun /\ requests' = requests /\ b' = 0 /\ d' = 0
    BY <1>13 DEF DashboardRestarts, Fault, NoWork, One
  <2>2. Waiting' = {}
    BY <1>13 DEF DashboardRestarts, Waiting, Asking
  <2>3. w' = 0
    BY <2>2, FS_EmptySet
  <2> QED
    BY <1>0, <2>1, <2>3 DEF Counted
<1> QED
  BY <1>1, <1>2, <1>3, <1>4, <1>5, <1>6, <1>7, <1>8, <1>9, <1>10, <1>11, <1>12, <1>13
  DEF Next, Step, Create

\* Archives and metadata go, and no other is written.
LEMMA NumberedFrame ==
  ASSUME Numbered, begun' = begun,
         \A i \in Ids : archives'[i] \in {archives[i], None} /\ metas'[i] \in {metas[i], None},
         worker'.at \in Building => worker.at \in Building
  PROVE  Numbered'
BY DEF Numbered

\* Who changes archives and metadata.
LEMMA OutsideDisk ==
  ASSUME [Next]_vars
  PROVE  \/ UNCHANGED <<archives, metas>>
         \/ Publish \/ WriteMeta \/ UnlinkArchive \/ UnlinkMeta \/ Tamper
         \/ \E a \in Admins : DeleteArchive(a) \/ DeleteMeta(a)
<1>1. CASE UNCHANGED vars
  BY <1>1 DEF vars, disk
<1>2. ASSUME NEW a \in Admins, BeginCreate(a) \/ Create(a) PROVE UNCHANGED <<archives, metas>>
  BY <1>2 DEF BeginCreate, Create, Flush, SaveOff, PauseFails, StartCreate, Busy, ResumeRefused,
     disk
<1>3. ASSUME NEW a \in Admins, BeginDelete(a) PROVE UNCHANGED <<archives, metas>>
  BY <1>3 DEF BeginDelete, disk
<1>4. ASSUME NEW a \in Admins, BeginRestore(a) \/ Restore(a) PROVE UNCHANGED <<archives, metas>>
  BY <1>4 DEF BeginRestore, Restore, Verify, VerifyFails, Stage, Extract, StageFails, Clear,
     List, Move, MoveFails,
              EndRestore, disk
<1>5. ASSUME FindDue \/ StartScheduled \/ Worker
      PROVE  UNCHANGED <<archives, metas>> \/ Publish \/ WriteMeta \/ UnlinkArchive \/ UnlinkMeta
  BY <1>5 DEF FindDue, StartScheduled, Worker, BeginArchive, ArchiveEntry, EndArchive,
              NothingReadable, Retain, EndCreate, WorkFails, OnDone, Release, disk
<1>6. ASSUME UpdateSettings \/ GameSaves \/ ServerStarts \/ ServerStops \/ DashboardRestarts
      PROVE  UNCHANGED <<archives, metas>>
  BY <1>6 DEF UpdateSettings, GameSaves, ServerStarts, ServerStops, DashboardRestarts, disk
<1> QED
  BY <1>1, <1>2, <1>3, <1>4, <1>5, <1>6 DEF Next, Step

\* What is removed, and nothing else.
LEMMA Removed ==
  ASSUME TypeOK,
         \/ UnlinkArchive \/ UnlinkMeta
         \/ \E a \in Admins : DeleteArchive(a) \/ DeleteMeta(a)
  PROVE  \A i \in Ids : archives'[i] \in {archives[i], None} /\ metas'[i] \in {metas[i], None}
<1>1. CASE UnlinkArchive
  BY <1>1 DEF UnlinkArchive, TypeOK
<1>2. CASE UnlinkMeta
  <2>1. PICK i \in Ids : metas' = [metas EXCEPT ![i] = None]
    BY <1>2, Zenon DEF UnlinkMeta
  <2> QED
    BY <1>2, <2>1 DEF UnlinkMeta, TypeOK
<1>3. ASSUME NEW a \in Admins, DeleteArchive(a) \/ DeleteMeta(a)
      PROVE  \A i \in Ids : archives'[i] \in {archives[i], None} /\ metas'[i] \in {metas[i], None}
  BY <1>3 DEF DeleteArchive, DeleteMeta, TypeOK
<1> QED
  BY <1>1, <1>2, <1>3

\* Only the beginning of an archive counts, and only its steps make it be built.
LEMMA BuildingSteps ==
  ASSUME TypeOK, [Next]_vars, ~BeginArchive
  PROVE  begun' = begun /\ (worker'.at \in Building => worker.at \in Building)
<1>1. CASE UNCHANGED thread
  BY <1>1 DEF thread
<1>2. CASE FindDue
  BY <1>2 DEF FindDue
<1>3. ASSUME NEW r \in BOOLEAN, StartWorker(r)
      PROVE  begun' = begun /\ (worker'.at \in Building => worker.at \in Building)
  BY <1>3, StartSteps DEF Building
<1>4. CASE StartScheduled
  <2>1. CASE StartWorker(FALSE)
    BY <1>3, <2>1
  <2>2. CASE UNCHANGED <<worker, begun>>
    BY <2>2
  <2> QED
    BY <1>4, <2>1, <2>2 DEF StartScheduled
<1>5. ASSUME NEW a \in Admins, StartCreate(a)
      PROVE  begun' = begun /\ (worker'.at \in Building => worker.at \in Building)
  BY <1>3, <1>5 DEF StartCreate
<1>6. CASE Worker
  <2>1. begun' = begun
    BY <1>6 DEF Worker, ArchiveEntry, EndArchive, NothingReadable, Publish, WriteMeta, Retain,
                UnlinkArchive, UnlinkMeta, EndCreate, WorkFails, OnDone, Release
  <2>2. worker'.at \in Building => worker.at \in Building
    BY <1>6, WorkerMoves DEF Worker, Building, Retaining
  <2> QED
    BY <2>1, <2>2
<1>7. CASE DashboardRestarts
  BY <1>7 DEF DashboardRestarts, NoWork, Building
<1> QED
  BY <1>1, <1>2, <1>4, <1>5, <1>6, <1>7, OutsideThread

\* Every step writes to the number of its backup only.
LEMMA NumberedStep ==
  ASSUME TypeOK, TypeOK', Numbered, [Next]_vars
  PROVE  Numbered'
<1>1. CASE BeginArchive
  <2>1. begun' = begun + 1 /\ UNCHANGED <<archives, metas>>
    BY <1>1 DEF BeginArchive, disk
  <2>2. begun \in Nat /\ begun' \in Ids
    BY <2>1, Begun DEF TypeOK, Numbered, Ids
  <2>3. \A i \in Ids : i > begun' => i > begun
    BY <2>1, <2>2, Begun
  <2>4. begun' > begun
    BY <2>1, <2>2
  <2>5. \A i \in Ids : i > begun => archives[i] = None /\ metas[i] = None
    BY DEF Numbered
  <2>6. \A i \in Ids : i > begun' => archives'[i] = None /\ metas'[i] = None
    BY <2>1, <2>3, <2>5
  <2>7. metas'[begun'] = None
    BY <2>1, <2>2, <2>4, <2>5
  <2> QED
    BY <2>2, <2>6, <2>7 DEF Numbered
<1>2. CASE ~BeginArchive /\ UNCHANGED <<archives, metas>>
  BY <1>2, BuildingSteps, NumberedFrame
<1>3. CASE \/ UnlinkArchive \/ UnlinkMeta
           \/ \E a \in Admins : DeleteArchive(a) \/ DeleteMeta(a)
  <2>1. CASE UnlinkArchive
    BY <2>1, WorkerMoves, Removed, NumberedFrame DEF UnlinkArchive, Worker, Building
  <2>2. CASE UnlinkMeta
    <3>1. begun' = begun /\ worker'.at = "unlink"
      BY <2>2, WorkerMoves DEF UnlinkMeta, Worker
    <3> QED
      BY <2>2, <3>1, Removed, NumberedFrame DEF Building
  <2>3. ASSUME NEW a \in Admins, DeleteArchive(a) \/ DeleteMeta(a) PROVE Numbered'
    <3>1. begun' = begun /\ worker' = worker
      BY <2>3 DEF DeleteArchive, DeleteMeta, thread
    <3> QED
      BY <2>3, <3>1, Removed, NumberedFrame
  <2> QED
    BY <1>3, <2>1, <2>2, <2>3
<1>4. CASE Publish
  <2>1. /\ worker.at = "publish" /\ begun' = begun /\ metas' = metas
        /\ archives' = [archives EXCEPT ![begun] = worker.has]
    BY <1>4 DEF Publish, Work
  <2> QED
    BY <2>1, Begun DEF Numbered, TypeOK, Building
<1>5. CASE WriteMeta
  <2>1. /\ worker'.at = "retain" /\ begun' = begun /\ archives' = archives
        /\ metas' = [metas EXCEPT ![begun] = worker.has]
    BY <1>5, WorkSteps DEF WriteMeta, Stages
  <2> QED
    BY <2>1, Begun DEF Numbered, TypeOK, Building
<1>6. CASE Tamper
  <2>1. begun' = begun /\ worker' = worker /\ metas' = metas
    BY <1>6 DEF Tamper, thread
  <2>2. \A i \in Ids : i > begun => archives'[i] = None
    BY <1>6 DEF Tamper, Numbered, TypeOK
  <2> QED
    BY <2>1, <2>2 DEF Numbered
<1> QED
  BY <1>1, <1>2, <1>3, <1>4, <1>5, <1>6, OutsideDisk

\* A request is for a number that names something by now.
LEMMA TargetedFrame ==
  ASSUME Targeted, begun' = begun, worker'.at \in Building => worker.at \in Building,
         \A a \in Admins :
           pc'[a] \in {"del_archive", "del_meta", "rs_verify", "rs_stage"} =>
             /\ target'[a] = target[a]
             /\ \/ pc'[a] = pc[a]
                \/ pc[a] = "del_archive" /\ pc'[a] = "del_meta"
  PROVE  Targeted'
BY DEF Targeted

\* Every step keeps the targets of deletions and restores apart from the archive in work.
LEMMA TargetedStep ==
  ASSUME TypeOK, Numbered, Targeted, [Next]_vars
  PROVE  Targeted'
<1> DEFINE Locals == \A a \in Admins :
             pc'[a] \in {"del_archive", "del_meta", "rs_verify", "rs_stage"} =>
               /\ target'[a] = target[a]
               /\ \/ pc'[a] = pc[a]
                  \/ pc[a] = "del_archive" /\ pc'[a] = "del_meta"
<1>0. ASSUME Locals, ~BeginArchive PROVE Targeted'
  BY <1>0, BuildingSteps, TargetedFrame
<1>1. CASE UNCHANGED vars
  BY <1>1 DEF vars, thread, restores, Targeted
<1>2. CASE BeginArchive
  <2>1. begun' = begun + 1 /\ UNCHANGED <<pc, target>>
    BY <1>2 DEF BeginArchive, restores
  <2> QED
    BY <2>1, Begun DEF Targeted
<1>3. ASSUME NEW a \in Admins, BeginCreate(a) \/ Create(a) PROVE Targeted'
  <2>1. ~BeginArchive
    BY <1>3, Begun DEF BeginArchive, BeginCreate, Create, Flush, SaveOff, PauseFails, StartCreate,
         StartWorker, Busy, ResumeRefused, thread
  <2>2. Locals
    BY <1>3 DEF BeginCreate, Create, Flush, SaveOff, PauseFails, StartCreate, Busy, ResumeRefused,
                Goto, restores, TypeOK
  <2> QED
    BY <1>0, <2>1, <2>2
<1>4. ASSUME NEW a \in Admins, BeginDelete(a) PROVE Targeted'
  <2>1. PICK i \in Listed : target' = [target EXCEPT ![a] = i]
    BY <1>4 DEF BeginDelete
  <2>2. i \in 1..begun /\ (worker.at \in Building => i # begun)
    BY <2>1, Begun DEF Listed, Numbered, Ids
  <2>3. /\ begun' = begun /\ worker' = worker /\ pc'[a] = "del_archive"
        /\ \A b \in Admins \ {a} : pc'[b] = pc[b]
    BY <1>4, GotoSteps DEF BeginDelete, Steps, thread
  <2> QED
    BY <2>1, <2>2, <2>3 DEF Targeted, TypeOK
<1>5. ASSUME NEW a \in Admins, DeleteArchive(a) \/ DeleteMeta(a) PROVE Targeted'
  <2>1. ~BeginArchive
    BY <1>5, Begun DEF BeginArchive, DeleteArchive, DeleteMeta, thread
  <2>2. Locals
    BY <1>5 DEF DeleteArchive, DeleteMeta, Goto, Forget, restores, TypeOK
  <2> QED
    BY <1>0, <2>1, <2>2
<1>6. ASSUME NEW a \in Admins, BeginRestore(a) PROVE Targeted'
  <2>1. PICK i \in Ids : i <= begun /\ target' = [target EXCEPT ![a] = i]
    BY <1>6 DEF BeginRestore
  <2>2. i \in 1..begun
    BY <2>1, Begun DEF Ids
  <2>3. /\ begun' = begun /\ worker' = worker /\ pc'[a] = "rs_verify"
        /\ \A b \in Admins \ {a} : pc'[b] = pc[b]
    BY <1>6, GotoSteps DEF BeginRestore, Steps, Restoring, thread
  <2> QED
    BY <2>1, <2>2, <2>3 DEF Targeted, TypeOK
<1>7. ASSUME NEW a \in Admins, Verify(a) PROVE Targeted'
  <2>1. /\ begun' = begun /\ worker' = worker /\ target' = target
        /\ pc[a] = "rs_verify" /\ pc'[a] = "rs_stage"
        /\ \A b \in Admins \ {a} : pc'[b] = pc[b]
    BY <1>7, GotoSteps DEF Verify, Steps, Restoring, thread
  <2>2. metas[target[a]] # None
    BY <1>7 DEF Verify
  <2>3. worker.at \in Building => target[a] # begun
    BY <2>2 DEF Numbered
  <2> QED
    BY <2>1, <2>3 DEF Targeted
<1>8. ASSUME NEW a \in Admins,
             \/ VerifyFails(a) \/ Stage(a) \/ Extract(a) \/ StageFails(a) \/ Clear(a)
             \/ List(a) \/ Move(a) \/ MoveFails(a) \/ EndRestore(a)
      PROVE  Targeted'
  <2>1. ~BeginArchive
    BY <1>8, Begun DEF BeginArchive, VerifyFails, Stage, Extract, StageFails, Clear, List, Move,
       MoveFails,
                       EndRestore, thread
  <2>2. Locals
    BY <1>8 DEF VerifyFails, Stage, Extract, StageFails, Clear, List, Move, MoveFails,
       EndRestore, Goto, Forget,
                restores, TypeOK
  <2> QED
    BY <1>0, <2>1, <2>2
<1>9. CASE DashboardRestarts
  BY <1>9 DEF DashboardRestarts, Targeted
<1>10. CASE /\ ~BeginArchive
            /\ \/ FindDue \/ StartScheduled \/ Worker
               \/ UpdateSettings \/ GameSaves \/ ServerStarts \/ ServerStops \/ Tamper
  <2>1. UNCHANGED <<pc, target>>
    BY <1>10 DEF FindDue, StartScheduled, Worker, ArchiveEntry, EndArchive, NothingReadable,
       Publish,
                 WriteMeta, Retain, UnlinkArchive, UnlinkMeta, EndCreate, WorkFails, OnDone,
                 Release, UpdateSettings, GameSaves,
                 ServerStarts, ServerStops, Tamper, restores
  <2> QED
    BY <1>0, <1>10, <2>1
<1> QED
  BY <1>1, <1>2, <1>3, <1>4, <1>5, <1>6, <1>7, <1>8, <1>9, <1>10 DEF Next, Step, Restore

-----------------------------------------------------------------------------
(* What is listed, and what is restored. *)

\* Faults are counted and not forgotten.
LEMMA FaultsGrow ==
  ASSUME TypeOK, [Next]_vars
  PROVE  faults' \in Nat /\ faults <= faults'
<1>0. faults \in Nat
  BY Begun
<1>1. CASE UNCHANGED vars
  BY <1>0, <1>1 DEF vars, bounds
<1>2. ASSUME SendResume PROVE faults' \in {faults, faults + 1}
  BY <1>0, <1>2 DEF SendResume, Fault, bounds
<1>3. ASSUME NEW a \in Admins, BeginCreate(a) \/ Create(a) PROVE faults' \in {faults, faults + 1}
  <2>1. CASE ResumeRefused(a)
    BY <1>2, <2>1 DEF ResumeRefused
  <2>2. CASE BeginCreate(a) \/ Flush(a) \/ SaveOff(a) \/ PauseFails(a) \/ StartCreate(a) \/ Busy(a)
    BY <2>2 DEF BeginCreate, Flush, SaveOff, PauseFails, StartCreate, Busy, Request, bounds
  <2> QED
    BY <1>3, <2>1, <2>2 DEF Create
<1>4. ASSUME NEW a \in Admins,
             \/ BeginDelete(a) \/ DeleteArchive(a) \/ DeleteMeta(a)
             \/ BeginRestore(a) \/ Restore(a)
      PROVE  faults' \in {faults, faults + 1}
  BY <1>4
  DEF BeginDelete, DeleteArchive, DeleteMeta, BeginRestore, Restore, Verify, VerifyFails, Stage,
      Extract, StageFails, Clear, List, Move, MoveFails, EndRestore, Request, Fault, bounds
<1>5. ASSUME FindDue \/ StartScheduled \/ Worker PROVE faults' \in {faults, faults + 1}
  <2>1. CASE OnDone
    <3>1. SendResume \/ UNCHANGED bounds
      BY <2>1 DEF OnDone
    <3> QED
      BY <1>2, <3>1 DEF bounds
  <2>2. CASE ~OnDone
    BY <1>5, <2>2
    DEF FindDue, StartScheduled, Worker, BeginArchive, ArchiveEntry, EndArchive, NothingReadable,
        Publish, WriteMeta, Retain, UnlinkArchive, UnlinkMeta, EndCreate, WorkFails, Release,
        Request, Fault, bounds
  <2> QED
    BY <2>1, <2>2
<1>6. ASSUME \/ UpdateSettings \/ GameSaves \/ ServerStarts \/ ServerStops
             \/ Tamper \/ DashboardRestarts
      PROVE  faults' \in {faults, faults + 1}
  BY <1>6
  DEF UpdateSettings, GameSaves, ServerStarts, ServerStops, Tamper, DashboardRestarts, Request,
      Fault, bounds
<1>7. CASE Next
  <2>1. faults' \in {faults, faults + 1}
    BY <1>3, <1>4, <1>5, <1>6, <1>7 DEF Next, Step
  <2> QED
    BY <1>0, <2>1
<1> QED
  BY <1>1, <1>7

\* Nothing is archived or listed differently, and no removal ends.
LEMMA RestorableFrame ==
  ASSUME ListedIsRestorable, faults' = 0 => faults = 0, UNCHANGED <<archives, metas>>,
         \A a \in Admins : pc[a] = "del_meta" => pc'[a] = "del_meta" /\ target'[a] = target[a],
         worker.at = "unlink_meta" => worker' = worker
  PROVE  ListedIsRestorable'
BY DEF ListedIsRestorable, Listed, First

\* Every step without a fault keeps what is listed restorable.
LEMMA RestorableStep ==
  ASSUME TypeOK, Locked, Numbered, Written, ListedIsRestorable, [Next]_vars
  PROVE  ListedIsRestorable'
<1> USE DEF Listed
<1>0. faults \in Nat /\ (faults' = 0 => faults = 0)
  BY Begun, FaultsGrow
<1>1. CASE UNCHANGED vars
  BY <1>1, RestorableFrame DEF vars, disk, thread, restores, bounds
<1>2. ASSUME NEW a \in Admins, BeginCreate(a) \/ Create(a) PROVE ListedIsRestorable'
  <2>1. /\ UNCHANGED <<archives, metas, target>>
        /\ \A b \in Admins : pc[b] = "del_meta" => pc'[b] = "del_meta"
    BY <1>2 DEF BeginCreate, Create, Flush, SaveOff, PauseFails, StartCreate, Busy, ResumeRefused,
                Goto, disk, restores, TypeOK
  <2>2. worker.at = "unlink_meta" => worker' = worker
    <3>1. CASE StartCreate(a)
      BY <3>1, StartSteps DEF StartCreate, Locked
    <3>2. CASE ~StartCreate(a)
      BY <1>2, <3>2 DEF BeginCreate, Create, Flush, SaveOff, PauseFails, Busy, ResumeRefused, thread
    <3> QED
      BY <3>1, <3>2
  <2> QED
    BY <1>0, <2>1, <2>2, RestorableFrame
<1>3. ASSUME NEW a \in Admins, BeginDelete(a) \/ BeginRestore(a) \/ Restore(a)
      PROVE  ListedIsRestorable'
  <2>1. UNCHANGED <<archives, metas>>
    BY <1>3 DEF BeginDelete, BeginRestore, Restore, Verify, VerifyFails, Stage, Extract,
       StageFails, Clear,
                List, Move, MoveFails, EndRestore, disk
  <2>2. \A b \in Admins : pc[b] = "del_meta" => pc'[b] = "del_meta" /\ target'[b] = target[b]
    BY <1>3 DEF BeginDelete, BeginRestore, Restore, Verify, VerifyFails, Stage, Extract,
       StageFails, Clear,
                List, Move, MoveFails, EndRestore, Goto, Forget, restores, TypeOK
  <2>3. worker' = worker
    BY <1>3 DEF BeginDelete, BeginRestore, Restore, Verify, VerifyFails, Stage, Extract, StageFails,
                Clear, List, Move, MoveFails, EndRestore, thread
  <2> QED
    BY <1>0, <2>1, <2>2, <2>3, RestorableFrame
<1>4. ASSUME NEW a \in Admins, DeleteArchive(a) PROVE ListedIsRestorable'
  <2>1. pc[a] = "del_archive" /\ pc'[a] = "del_meta" /\ \A b \in Admins \ {a} : pc'[b] = pc[b]
    BY <1>4, GotoSteps DEF DeleteArchive, Steps
  <2>2. /\ archives' = [archives EXCEPT ![target[a]] = None]
        /\ UNCHANGED <<metas, target, faults, worker>>
    BY <1>4 DEF DeleteArchive, restores, bounds, thread
  <2> QED
    BY <2>1, <2>2 DEF ListedIsRestorable, First, TypeOK
<1>5. ASSUME NEW a \in Admins, DeleteMeta(a) PROVE ListedIsRestorable'
  <2>1. pc[a] = "del_meta" /\ \A b \in Admins \ {a} : pc'[b] = pc[b] /\ target'[b] = target[b]
    BY <1>5, GotoSteps DEF DeleteMeta, Steps, Forget, TypeOK
  <2>2. metas' = [metas EXCEPT ![target[a]] = None] /\ UNCHANGED <<archives, faults, worker>>
    BY <1>5 DEF DeleteMeta, bounds, thread
  <2>3. \A i \in Ids : metas'[i] # None => metas'[i] = metas[i] /\ i # target[a]
    BY <2>2 DEF TypeOK
  <2> QED
    BY <2>1, <2>2, <2>3 DEF ListedIsRestorable, First
<1>6. CASE Publish
  <2>1. /\ worker.at = "publish" /\ archives' = [archives EXCEPT ![begun] = worker.has]
        /\ UNCHANGED <<metas, pc, target, faults>>
    BY <1>6 DEF Publish, Work, restores, bounds
  <2>2. metas[begun] = None
    BY <2>1 DEF Numbered, Building
  <2> QED
    BY <2>1, <2>2 DEF ListedIsRestorable, TypeOK
<1>7. CASE WriteMeta
  <2>1. /\ worker.at = "meta" /\ metas' = [metas EXCEPT ![begun] = worker.has]
        /\ UNCHANGED <<archives, pc, target, faults>>
    BY <1>7 DEF WriteMeta, Work, restores, bounds
  <2>2. faults = 0 => archives[begun] = worker.has
    BY <2>1 DEF Written
  <2> QED
    BY <2>1, <2>2 DEF ListedIsRestorable, TypeOK
<1>8. CASE UnlinkArchive
  <2>1. PICK i \in Ids : First(i) /\ archives' = [archives EXCEPT ![i] = None]
    BY <1>8, Zenon DEF UnlinkArchive
  <2>2. /\ worker.at = "unlink" /\ worker'.at = "unlink_meta" /\ worker'.old = worker.old
        /\ UNCHANGED <<metas, pc, target, faults>>
    BY <1>8, WorkerMoves DEF Worker, UnlinkArchive, restores, bounds
  <2>3. First(i)'
    BY <2>1, <2>2 DEF First
  <2>4. \A j \in Ids \ {i} : archives'[j] = archives[j]
    BY <2>1 DEF TypeOK
  <2> QED
    BY <2>2, <2>3, <2>4 DEF ListedIsRestorable
<1>11. CASE UnlinkMeta
  <2>1. PICK i \in Ids : First(i) /\ metas' = [metas EXCEPT ![i] = None]
    BY <1>11, Zenon DEF UnlinkMeta
  <2>2. UNCHANGED <<archives, pc, target, faults>>
    BY <1>11 DEF UnlinkMeta, restores, bounds
  <2>3. \A j \in Ids : metas'[j] # None => metas'[j] = metas[j] /\ j # i
    BY <2>1 DEF TypeOK
  <2>4. \A j \in Ids : First(j) => j = i
    <3>1. i \in Nat /\ \A j \in Ids : j \in Nat
      BY Begun
    <3> QED
      BY <2>1, <3>1 DEF First
  <2> QED
    BY <2>2, <2>3, <2>4 DEF ListedIsRestorable
<1>9. CASE Tamper \/ DashboardRestarts \/ WorkFails
  <2>1. faults' = faults + 1
    BY <1>9 DEF Tamper, DashboardRestarts, WorkFails, Fault
  <2> QED
    BY <1>0, <2>1 DEF ListedIsRestorable
<1>10. CASE \/ FindDue \/ StartScheduled \/ BeginArchive \/ ArchiveEntry \/ EndArchive
            \/ NothingReadable \/ Retain \/ EndCreate \/ OnDone \/ Release
            \/ UpdateSettings \/ GameSaves \/ ServerStarts \/ ServerStops
  <2>1. UNCHANGED <<archives, metas, pc, target>>
    BY <1>10 DEF FindDue, StartScheduled, BeginArchive, ArchiveEntry, EndArchive, NothingReadable,
                 Retain, EndCreate, OnDone, Release, UpdateSettings, GameSaves, ServerStarts,
                 ServerStops, disk, restores
  <2>2. worker.at = "unlink_meta" => worker' = worker
    <3>1. CASE StartScheduled
      BY <3>1, StartSteps DEF StartScheduled, Locked
    <3>2. CASE ~StartScheduled
      BY <1>10, <3>2 DEF FindDue, BeginArchive, ArchiveEntry, EndArchive, NothingReadable, Work,
        Retain, EndCreate, OnDone, Release, UpdateSettings, GameSaves, ServerStarts, ServerStops,
        thread
    <3> QED
      BY <3>1, <3>2
  <2> QED
    BY <1>0, <2>1, <2>2, RestorableFrame
<1> QED
  BY <1>1, <1>2, <1>3, <1>4, <1>5, <1>6, <1>7, <1>8, <1>9, <1>10, <1>11 DEF Next, Step, Worker

\* Without a fault the archive that is about to be listed is as it was written.
LEMMA WrittenStep ==
  ASSUME TypeOK, Numbered, Targeted, Written, [Next]_vars
  PROVE  Written'
<1>0. faults \in Nat /\ faults' \in Nat /\ faults <= faults'
  BY Begun, FaultsGrow
<1>1. CASE Publish
  <2>1. worker'.has = worker.has
    BY <1>1, WorkerMoves DEF Worker
  <2>2. archives' = [archives EXCEPT ![begun] = worker.has] /\ begun' = begun
    BY <1>1 DEF Publish
  <2> QED
    BY <2>1, <2>2 DEF Written, Numbered, TypeOK
<1>2. CASE worker'.at # "meta"
  BY <1>2 DEF Written
<1>3. CASE worker' = worker /\ begun' = begun /\ worker.at = "meta" /\ faults' = 0
  <2>1. faults = 0 /\ ~Tamper
    BY <1>0, <1>3 DEF Tamper, Fault
  <2>2. archives[begun] = worker.has
    BY <1>3, <2>1 DEF Written
  <2>3. ~Publish /\ ~WriteMeta /\ ~UnlinkArchive /\ ~UnlinkMeta
    BY <1>3, WorkerMoves DEF Worker
  <2>4. ASSUME NEW a \in Admins, DeleteArchive(a) PROVE archives'[begun] = archives[begun]
    <3>1. pc[a] = "del_archive" /\ archives' = [archives EXCEPT ![target[a]] = None]
      BY <2>4 DEF DeleteArchive, Goto
    <3>2. target[a] # begun
      BY <1>3, <3>1 DEF Targeted, Building
    <3> QED
      BY <3>1, <3>2 DEF Numbered, TypeOK
  <2>5. ASSUME NEW a \in Admins, DeleteMeta(a) PROVE archives' = archives
    BY <2>5 DEF DeleteMeta
  <2>6. archives'[begun] = archives[begun]
    BY <2>1, <2>3, <2>4, <2>5, OutsideDisk
  <2> QED
    BY <1>3, <2>2, <2>6 DEF Written
<1>4. CASE faults' # 0
  BY <1>4 DEF Written
<1>5. (worker' = worker /\ begun' = begun) \/ worker'.at # "meta" \/ Publish
  <2>1. ASSUME NEW r \in BOOLEAN, StartWorker(r) PROVE worker'.at # "meta"
    BY <2>1, StartSteps
  <2>2. StartScheduled => (worker' = worker /\ begun' = begun) \/ worker'.at # "meta"
    <3>1. StartWorker(FALSE) => worker'.at # "meta"
      BY <2>1
    <3> QED
      BY <3>1 DEF StartScheduled
  <2>3. ASSUME NEW a \in Admins, StartCreate(a) PROVE worker'.at # "meta"
    BY <2>1, <2>3 DEF StartCreate
  <2>4. Worker => worker'.at # "meta" \/ Publish
    BY WorkerMoves DEF Worker
  <2>5. DashboardRestarts => worker'.at # "meta"
    BY DEF DashboardRestarts, NoWork
  <2>6. FindDue => worker' = worker /\ begun' = begun
    BY DEF FindDue
  <2>7. UNCHANGED thread => worker' = worker /\ begun' = begun
    BY DEF thread
  <2> QED
    BY <2>2, <2>3, <2>4, <2>5, <2>6, <2>7, OutsideThread
<1> QED
  BY <1>1, <1>2, <1>3, <1>4, <1>5

\* What retention is at was not the newest when it was found to be too many.
LEMMA RetiredStep ==
  ASSUME TypeOK, Numbered, Retired, [Next]_vars
  PROVE  Retired'
<1>0. begun \in Nat /\ retention \in Nat /\ retention >= 1 /\ Ids \subseteq Nat
  BY Begun DEF TypeOK
<1>1. CASE Retain
  <2>1. worker'.old = Surplus /\ begun' = begun
    BY <1>1, WorkerMoves DEF Worker, Retain
  <2>2. ASSUME begun \in Surplus PROVE FALSE
    <3>1. {j \in Listed : j > begun} = {}
      BY DEF Numbered, Listed
    <3>2. Cardinality({j \in Listed : j > begun}) >= retention
      BY <2>2 DEF Surplus
    <3> QED
      BY <1>0, <3>1, <3>2, FS_EmptySet
  <2> QED
    BY <2>1, <2>2 DEF Retired
<1>2. CASE UNCHANGED thread \/ FindDue \/ DashboardRestarts
  BY <1>2 DEF thread, FindDue, DashboardRestarts, NoWork, Retired
<1>3. ASSUME NEW x \in BOOLEAN, StartWorker(x) PROVE Retired'
  BY <1>3, StartSteps DEF Retired
<1>4. CASE StartScheduled
  <2>1. CASE StartWorker(FALSE)
    BY <1>3, <2>1
  <2>2. CASE UNCHANGED <<worker, begun>>
    BY <2>2 DEF Retired
  <2> QED
    BY <1>4, <2>1, <2>2 DEF StartScheduled
<1>5. ASSUME NEW a \in Admins, StartCreate(a) PROVE Retired'
  BY <1>3, <1>5 DEF StartCreate
<1>6. CASE UnlinkArchive \/ UnlinkMeta
  <2>1. worker'.old \subseteq worker.old /\ worker.at \in {"unlink", "unlink_meta"} /\ begun' = begun
    BY <1>6, WorkerMoves DEF Worker, UnlinkArchive, UnlinkMeta
  <2> QED
    BY <2>1 DEF Retired
<1>7. CASE Worker /\ ~Retain /\ ~UnlinkArchive /\ ~UnlinkMeta
  <2>1. worker'.at \notin {"unlink", "unlink_meta"}
    BY <1>7, WorkerMoves DEF Worker
  <2> QED
    BY <2>1 DEF Retired
<1> QED
  BY <1>1, <1>2, <1>4, <1>5, <1>6, <1>7, OutsideThread

\* Archives only go, and a restore keeps what it is for until it goes on.
LEMMA VerifiedFrame ==
  ASSUME Verified, Targeted,
         \A i \in Ids : archives'[i] \in {archives[i], None},
         \A a \in Admins : pc[a] = "rs_stage" => target[a] \in Ids,
         \A a \in Admins : pc'[a] = "rs_stage" =>
           pc'[a] = pc[a] /\ target'[a] = target[a] /\ goal'[a] = goal[a]
  PROVE  Verified'
BY DEF Verified

\* Every step keeps what restores have verified.
LEMMA VerifiedStep ==
  ASSUME TypeOK, Numbered, Targeted, Verified, [Next]_vars
  PROVE  Verified'
<1> DEFINE Locals == \A a \in Admins : pc'[a] = "rs_stage" =>
             pc'[a] = pc[a] /\ target'[a] = target[a] /\ goal'[a] = goal[a]
           Fewer == \A i \in Ids : archives'[i] \in {archives[i], None}
<1>0. ASSUME Locals, Fewer PROVE Verified'
  <2>1. \A a \in Admins : pc[a] = "rs_stage" => target[a] \in Ids
    BY Begun DEF Targeted
  <2> QED
    BY <1>0, <2>1, VerifiedFrame
<1>1. CASE UNCHANGED vars
  BY <1>1 DEF vars, disk, restores, Verified
<1>2. ASSUME NEW a \in Admins, BeginCreate(a) \/ Create(a) PROVE Verified'
  <2>1. archives' = archives
    BY <1>2 DEF BeginCreate, Create, Flush, SaveOff, PauseFails, StartCreate, Busy,
       ResumeRefused, disk
  <2>2. Locals
    BY <1>2 DEF BeginCreate, Create, Flush, SaveOff, PauseFails, StartCreate, Busy, ResumeRefused,
                Goto, restores, TypeOK
  <2> QED
    BY <1>0, <2>1, <2>2
<1>3. ASSUME NEW a \in Admins, BeginDelete(a) \/ DeleteArchive(a) \/ DeleteMeta(a) PROVE Verified'
  <2>1. Fewer
    BY <1>3 DEF BeginDelete, DeleteArchive, DeleteMeta, disk, TypeOK
  <2>2. Locals
    BY <1>3 DEF BeginDelete, DeleteArchive, DeleteMeta, Goto, Forget, restores, TypeOK
  <2> QED
    BY <1>0, <2>1, <2>2
<1>4. ASSUME NEW a \in Admins,
             \/ BeginRestore(a) \/ VerifyFails(a) \/ Stage(a) \/ Extract(a) \/ StageFails(a)
             \/ Clear(a) \/ List(a) \/ Move(a) \/ MoveFails(a) \/ EndRestore(a)
      PROVE  Verified'
  <2>1. archives' = archives
    BY <1>4 DEF BeginRestore, VerifyFails, Stage, Extract, StageFails, Clear, List, Move, MoveFails,
                EndRestore, disk
  <2>2. Locals
    BY <1>4 DEF BeginRestore, VerifyFails, Stage, Extract, StageFails, Clear, List, Move, MoveFails,
                EndRestore, Goto, Forget, restores, TypeOK
  <2> QED
    BY <1>0, <2>1, <2>2
<1>5. ASSUME NEW a \in Admins, Verify(a) PROVE Verified'
  <2>1. pc[a] = "rs_verify" /\ pc'[a] = "rs_stage" /\ \A b \in Admins \ {a} : pc'[b] = pc[b]
    BY <1>5, GotoSteps DEF Verify, Steps, Restoring
  <2>2. /\ archives[target[a]] = metas[target[a]]
        /\ goal' = [goal EXCEPT ![a] = metas[target[a]]]
        /\ UNCHANGED <<archives, target>>
    BY <1>5 DEF Verify, disk
  <2> QED
    BY <2>1, <2>2 DEF Verified, TypeOK
<1>7. CASE Publish
  <2>1. /\ worker.at = "publish" /\ archives' = [archives EXCEPT ![begun] = worker.has]
        /\ UNCHANGED <<pc, target, goal>>
    BY <1>7 DEF Publish, Work, restores
  <2>2. \A a \in Admins : pc[a] = "rs_stage" => target[a] # begun /\ target[a] \in Ids
    BY <2>1, Begun DEF Targeted, Building
  <2> QED
    BY <2>1, <2>2 DEF Verified, TypeOK
<1>8. CASE UnlinkArchive
  <2>1. Fewer
    BY <1>8, Removed
  <2>2. Locals
    BY <1>8 DEF UnlinkArchive, restores
  <2> QED
    BY <1>0, <2>1, <2>2
<1>9. CASE DashboardRestarts
  BY <1>9 DEF DashboardRestarts, Verified
<1>10. CASE Tamper
  BY <1>10 DEF Tamper, Verified, Restoring
<1>11. CASE \/ FindDue \/ StartScheduled \/ (Worker /\ ~Publish /\ ~UnlinkArchive)
            \/ UpdateSettings \/ GameSaves \/ ServerStarts \/ ServerStops
  <2>1. UNCHANGED <<archives, pc, target, goal>>
    BY <1>11 DEF FindDue, StartScheduled, Worker, BeginArchive, ArchiveEntry, EndArchive,
                 NothingReadable, WriteMeta, Retain, UnlinkMeta, EndCreate, WorkFails, OnDone,
                 Release,
                 UpdateSettings, GameSaves, ServerStarts, ServerStops, disk, restores
  <2> QED
    BY <1>0, <2>1
<1> QED
  BY <1>1, <1>2, <1>3, <1>4, <1>5, <1>7, <1>8, <1>9, <1>10, <1>11 DEF Next, Step, Restore

\* What steps other than those of restores, and a restart, leave of restores.
LEMMA OutsideRestores ==
  ASSUME TypeOK, [Next]_vars
  PROVE  \/ /\ UNCHANGED <<dir, todo, staged>>
            /\ \A a \in Admins : pc[a] \in Restoring \/ pc'[a] \in Restoring =>
                 pc'[a] = pc[a] /\ target'[a] = target[a] /\ goal'[a] = goal[a]
         \/ \E a \in Admins : BeginRestore(a) \/ Restore(a) \/ DeleteMeta(a)
         \/ DashboardRestarts
<1> DEFINE Stays == /\ UNCHANGED <<dir, todo, staged>>
                    /\ \A a \in Admins : pc[a] \in Restoring \/ pc'[a] \in Restoring =>
                         pc'[a] = pc[a] /\ target'[a] = target[a] /\ goal'[a] = goal[a]
<1>1. CASE UNCHANGED vars
  BY <1>1 DEF vars, restores, staging
<1>2. ASSUME NEW a \in Admins, BeginCreate(a) \/ Create(a) PROVE Stays
  BY <1>2 DEF BeginCreate, Create, Flush, SaveOff, PauseFails, StartCreate, Busy, ResumeRefused,
              Goto, Restoring, restores, staging, TypeOK
<1>3. ASSUME NEW a \in Admins, BeginDelete(a) \/ DeleteArchive(a) PROVE Stays
  BY <1>3 DEF BeginDelete, DeleteArchive, Goto, Restoring, restores, staging, TypeOK
<1>4. ASSUME FindDue \/ StartScheduled \/ Worker PROVE Stays
  BY <1>4 DEF FindDue, StartScheduled, Worker, BeginArchive, ArchiveEntry, EndArchive,
              NothingReadable, Publish, WriteMeta, Retain, UnlinkArchive, UnlinkMeta, EndCreate,
              WorkFails, OnDone, Release, restores, staging
<1>5. ASSUME UpdateSettings \/ GameSaves \/ ServerStarts \/ ServerStops \/ Tamper PROVE Stays
  BY <1>5 DEF UpdateSettings, GameSaves, ServerStarts, ServerStops, Tamper, restores, staging
<1> QED
  BY <1>1, <1>2, <1>3, <1>4, <1>5 DEF Next, Step

\* Where a restore's steps take it, and that they leave the others where they are.
LEMMA RestoreSteps ==
  ASSUME TypeOK, NEW a \in Admins, BeginRestore(a) \/ Restore(a) \/ DeleteMeta(a)
  PROVE  /\ \A b \in Admins \ {a} : /\ pc'[b] = pc[b] /\ target'[b] = target[b]
                                    /\ goal'[b] = goal[b] /\ dir'[b] = dir[b] /\ todo'[b] = todo[b]
         /\ BeginRestore(a) => pc[a] = "idle" /\ pc'[a] = "rs_verify" /\ UNCHANGED staging
         /\ DeleteMeta(a) => pc[a] = "del_meta" /\ pc'[a] = "idle" /\ dir'[a] = None /\ staged' = staged
         /\ Verify(a) => /\ pc[a] = "rs_verify" /\ pc'[a] = "rs_stage" /\ staged' = staged
                         /\ dir'[a] \in Admins
         /\ VerifyFails(a) => /\ pc[a] = "rs_verify" /\ pc'[a] = "idle" /\ dir'[a] = None
                              /\ staged' = staged
         /\ Stage(a) => /\ pc[a] = "rs_stage" /\ pc'[a] = "rs_extract"
                        /\ UNCHANGED <<dir, staged, target, goal>>
         /\ Extract(a) => /\ pc[a] = "rs_extract" /\ pc'[a] \in {"rs_extract", "rs_clear"}
                          /\ UNCHANGED <<dir, target, goal>>
         /\ StageFails(a) => /\ pc[a] \in {"rs_stage", "rs_extract"} /\ pc'[a] = "idle"
                             /\ dir'[a] = None /\ RemoveStaging(a)
         /\ Clear(a) => pc[a] = "rs_clear" /\ pc'[a] = "rs_list" /\ UNCHANGED restores
         /\ List(a) => /\ pc[a] = "rs_list" /\ pc'[a] = "rs_move"
                       /\ UNCHANGED <<dir, staged, target, goal>>
         /\ Move(a) => pc[a] = "rs_move" /\ pc'[a] = "rs_move" /\ UNCHANGED <<dir, target, goal>>
         /\ MoveFails(a) => /\ pc[a] \in {"rs_list", "rs_move"} /\ pc'[a] = "idle"
                            /\ dir'[a] = None /\ RemoveStaging(a)
         /\ EndRestore(a) => /\ dir'[a] = None
                             /\ \/ /\ pc[a] = "rs_move" /\ pc'[a] = "rs_done" /\ RemoveStaging(a)
                                   /\ todo[a] = {} /\ UNCHANGED <<target, goal>>
                                \/ pc[a] = "rs_done" /\ pc'[a] = "idle" /\ staged' = staged
<1>1. BeginRestore(a) => /\ pc[a] = "idle" /\ pc'[a] = "rs_verify" /\ UNCHANGED <<staging, goal>>
                         /\ \A b \in Admins \ {a} : pc'[b] = pc[b] /\ target'[b] = target[b]
  BY DEF BeginRestore, Goto, TypeOK
<1>2. DeleteMeta(a) =>
        /\ pc[a] = "del_meta" /\ pc'[a] = "idle" /\ dir'[a] = None /\ staged' = staged
        /\ \A b \in Admins \ {a} : /\ pc'[b] = pc[b] /\ target'[b] = target[b]
                                   /\ goal'[b] = goal[b] /\ dir'[b] = dir[b] /\ todo'[b] = todo[b]
  BY DEF DeleteMeta, Goto, Forget, TypeOK
<1>3. Verify(a) =>
        /\ pc[a] = "rs_verify" /\ pc'[a] = "rs_stage" /\ UNCHANGED <<target, todo, staged>>
        /\ dir'[a] \in Admins
        /\ \A b \in Admins \ {a} : pc'[b] = pc[b] /\ goal'[b] = goal[b] /\ dir'[b] = dir[b]
  BY DEF Verify, MakeStaging, Goto, TypeOK
<1>4. VerifyFails(a) =>
        /\ pc[a] = "rs_verify" /\ pc'[a] = "idle" /\ dir'[a] = None /\ staged' = staged
        /\ \A b \in Admins \ {a} : /\ pc'[b] = pc[b] /\ target'[b] = target[b]
                                   /\ goal'[b] = goal[b] /\ dir'[b] = dir[b] /\ todo'[b] = todo[b]
  BY DEF VerifyFails, Goto, Forget, TypeOK
<1>5. Stage(a) =>
        /\ pc[a] = "rs_stage" /\ pc'[a] = "rs_extract" /\ UNCHANGED <<dir, staged, target, goal>>
        /\ \A b \in Admins \ {a} : pc'[b] = pc[b] /\ todo'[b] = todo[b]
  BY DEF Stage, Goto, TypeOK
<1>6. Extract(a) =>
        /\ pc[a] = "rs_extract" /\ pc'[a] \in {"rs_extract", "rs_clear"}
        /\ UNCHANGED <<dir, target, goal>>
        /\ \A b \in Admins \ {a} : pc'[b] = pc[b] /\ todo'[b] = todo[b]
  BY DEF Extract, Goto, restores, staging, TypeOK
<1>7. StageFails(a) =>
        /\ pc[a] \in {"rs_stage", "rs_extract"} /\ pc'[a] = "idle" /\ dir'[a] = None
        /\ RemoveStaging(a)
        /\ \A b \in Admins \ {a} : /\ pc'[b] = pc[b] /\ target'[b] = target[b]
                                   /\ goal'[b] = goal[b] /\ dir'[b] = dir[b] /\ todo'[b] = todo[b]
  BY DEF StageFails, Goto, Forget, TypeOK
<1>8. Clear(a) => /\ pc[a] = "rs_clear" /\ pc'[a] = "rs_list" /\ UNCHANGED restores
                  /\ \A b \in Admins \ {a} : pc'[b] = pc[b]
  BY DEF Clear, Goto, TypeOK
<1>9. List(a) =>
        /\ pc[a] = "rs_list" /\ pc'[a] = "rs_move" /\ UNCHANGED <<dir, staged, target, goal>>
        /\ \A b \in Admins \ {a} : pc'[b] = pc[b] /\ todo'[b] = todo[b]
  BY DEF List, Goto, TypeOK
<1>10. Move(a) =>
        /\ pc[a] = "rs_move" /\ UNCHANGED <<pc, dir, target, goal>>
        /\ \A b \in Admins \ {a} : todo'[b] = todo[b]
  BY DEF Move, TypeOK
<1>11. MoveFails(a) =>
        /\ pc[a] \in {"rs_list", "rs_move"} /\ pc'[a] = "idle" /\ dir'[a] = None /\ RemoveStaging(a)
        /\ \A b \in Admins \ {a} : /\ pc'[b] = pc[b] /\ target'[b] = target[b]
                                   /\ goal'[b] = goal[b] /\ dir'[b] = dir[b] /\ todo'[b] = todo[b]
  BY DEF MoveFails, Goto, Forget, TypeOK
<1>12. EndRestore(a) =>
        /\ dir'[a] = None
        /\ \/ /\ pc[a] = "rs_move" /\ pc'[a] = "rs_done" /\ RemoveStaging(a)
              /\ todo[a] = {} /\ UNCHANGED <<target, goal>>
           \/ pc[a] = "rs_done" /\ pc'[a] = "idle" /\ staged' = staged
        /\ \A b \in Admins \ {a} : /\ pc'[b] = pc[b] /\ target'[b] = target[b]
                                   /\ goal'[b] = goal[b] /\ dir'[b] = dir[b] /\ todo'[b] = todo[b]
  BY DEF EndRestore, Goto, Forget, TypeOK
<1>13. UNCHANGED restores => UNCHANGED <<target, goal, dir, todo, staged>>
  BY DEF restores, staging
<1>14. UNCHANGED staging => UNCHANGED <<dir, todo, staged>>
  BY DEF staging
<1> QED
  BY <1>1, <1>2, <1>3, <1>4, <1>5, <1>6, <1>7, <1>8, <1>9, <1>10, <1>11, <1>12, <1>13, <1>14
  DEF Restore

\* Every step keeps staging directories with whoever uses them, and the others empty.
LEMMA PlacedStep ==
  ASSUME TypeOK, Placed, [Next]_vars
  PROVE  Placed'
<1>0. Using \subseteq Restoring /\ None \notin Admins
  BY ConstantsAssumption DEF Using, Restoring
<1>1. CASE /\ UNCHANGED <<dir, todo, staged>>
           /\ \A a \in Admins : pc[a] \in Restoring \/ pc'[a] \in Restoring =>
                pc'[a] = pc[a] /\ target'[a] = target[a] /\ goal'[a] = goal[a]
  BY <1>0, <1>1 DEF Placed
<1>2. ASSUME NEW a \in Admins, BeginRestore(a) \/ Restore(a) \/ DeleteMeta(a) PROVE Placed'
  <2>1. \A b \in Admins \ {a} : pc'[b] = pc[b] /\ dir'[b] = dir[b]
    BY <1>2, RestoreSteps
  <2>2. IF pc'[a] \in Using THEN dir'[a] \in Admins ELSE dir'[a] = None
    BY <1>2, RestoreSteps DEF Restore, Placed, Using, staging, restores
  <2>3. ASSUME NEW d \in Admins, \A b \in Admins : dir'[b] # d PROVE staged'[d] = {}
    <3>1. CASE dir[a] = d
      <4>1. RemoveStaging(a)
        BY <1>0, <1>2, <2>3, <3>1, RestoreSteps DEF Restore, Placed, Using, staging, restores
      <4> QED
        BY <3>1, <4>1 DEF RemoveStaging, TypeOK
    <3>2. CASE dir[a] # d
      <4>1. staged[d] = {}
        BY <2>1, <2>3, <3>2 DEF Placed
      <4>2. CASE RemoveStaging(a)
        BY <3>2, <4>1, <4>2 DEF RemoveStaging, TypeOK
      <4>3. CASE staged' = staged
        BY <4>1, <4>3
      <4>4. CASE Extract(a) \/ Move(a)
        BY <3>2, <4>1, <4>4 DEF Extract, Move, restores, staging, TypeOK
      <4> QED
        BY <1>2, <4>2, <4>3, <4>4, RestoreSteps DEF Restore, staging, restores
    <3> QED
      BY <3>1, <3>2
  <2> QED
    BY <2>1, <2>2, <2>3 DEF Placed
<1>3. CASE DashboardRestarts
  BY <1>0, <1>3 DEF DashboardRestarts, Placed, Using
<1> QED
  BY <1>1, <1>2, <1>3, OutsideRestores

\* What the history variables forget: nothing, while a restore lasts.
LEMMA Remembered ==
  ASSUME TypeOK, [Next]_vars, NEW a \in Admins, pc'[a] \in Restoring
  PROVE  /\ a \in shared => a \in shared'
         /\ a \notin shared' /\ dir'[a] # None => \A b \in Admins \ {a} : dir'[b] # dir[a]'
            \/ UNCHANGED vars
         /\ torn \subseteq torn'
<1>1. CASE UNCHANGED vars
  BY <1>1 DEF vars, disk
<1>2. CASE Next
  <2>1. torn \subseteq torn'
    <3>1. ArchiveEntry => torn \subseteq torn'
      BY DEF ArchiveEntry
    <3>2. ASSUME NEW b \in Admins, BeginCreate(b) \/ Create(b) PROVE torn' = torn
      BY <3>2 DEF BeginCreate, Create, Flush, SaveOff, PauseFails, StartCreate, Busy, ResumeRefused,
                  disk
    <3>3. ASSUME NEW b \in Admins, BeginDelete(b) \/ DeleteArchive(b) \/ DeleteMeta(b)
          PROVE  torn' = torn
      BY <3>3 DEF BeginDelete, DeleteArchive, DeleteMeta, disk
    <3>4. ASSUME NEW b \in Admins, BeginRestore(b) \/ Restore(b) PROVE torn' = torn
      BY <3>4 DEF BeginRestore, Restore, Verify, VerifyFails, Stage, Extract, StageFails, Clear,
                  List, Move, MoveFails, EndRestore, disk
    <3>5. ASSUME FindDue \/ StartScheduled \/ Worker, ~ArchiveEntry PROVE torn' = torn
      BY <3>5 DEF FindDue, StartScheduled, Worker, BeginArchive, EndArchive, NothingReadable,
         Publish,
                  WriteMeta, Retain, UnlinkArchive, UnlinkMeta, EndCreate, WorkFails, OnDone,
                  Release, disk
    <3>6. ASSUME \/ UpdateSettings \/ GameSaves \/ ServerStarts \/ ServerStops \/ Tamper
                 \/ DashboardRestarts
          PROVE  torn' = torn
      BY <3>6 DEF UpdateSettings, GameSaves, ServerStarts, ServerStops, Tamper,
         DashboardRestarts, disk
    <3> QED
      BY <1>2, <3>1, <3>2, <3>3, <3>4, <3>5, <3>6 DEF Next, Step
  <2>2. Sharing
    BY <1>2 DEF Next
  <2> QED
    BY <2>1, <2>2 DEF Sharing
<1> QED
  BY <1>1, <1>2

\* Whoever shares a staging directory is known to.
LEMMA AloneStep ==
  ASSUME TypeOK, Placed', Alone, [Next]_vars
  PROVE  Alone'
<1>1. CASE UNCHANGED vars
  BY <1>1 DEF Alone, vars, restores, staging
<1>2. CASE ~UNCHANGED vars
  <2> SUFFICES ASSUME NEW a \in Admins, a \notin shared', pc'[a] \in Using
               PROVE  \A b \in Admins \ {a} : dir'[b] # dir[a]'
    BY DEF Alone
  <2>1. pc'[a] \in Restoring /\ dir'[a] # None
    BY ConstantsAssumption DEF Placed, Using, Restoring
  <2> QED
    BY <1>2, <2>1, Remembered
<1> QED
  BY <1>1, <1>2

\* Every step keeps what a restore has staged and has still to stage together the backup, or
\* shares its directory.
LEMMA AtHandStep ==
  ASSUME TypeOK, Verified, Placed, Alone, AtHand, [Next]_vars
  PROVE  AtHand'
<1> SUFFICES ASSUME NEW a \in Admins, a \notin shared', target'[a] \notin torn',
                    pc'[a] \in {"rs_stage", "rs_extract", "rs_clear", "rs_list"}
             PROVE  /\ pc'[a] = "rs_stage" => staged'[dir[a]'] = {}
                    /\ pc'[a] = "rs_extract" => staged'[dir[a]'] \cup todo'[a] = goal'[a]
                    /\ pc'[a] \in {"rs_clear", "rs_list"} => staged'[dir[a]'] = goal'[a]
  BY DEF AtHand
<1> DEFINE Same == /\ pc'[a] = pc[a] /\ target'[a] = target[a] /\ goal'[a] = goal[a]
                   /\ dir'[a] = dir[a] /\ todo'[a] = todo[a]
<1>0. pc'[a] \in Restoring
  BY DEF Restoring
<1>1. a \notin shared /\ torn \subseteq torn'
  BY <1>0, Remembered
<1>2. target'[a] \notin torn
  BY <1>1
<1>3. target'[a] = target[a] =>
        /\ pc[a] = "rs_stage" => staged[dir[a]] = {}
        /\ pc[a] = "rs_extract" => staged[dir[a]] \cup todo[a] = goal[a]
        /\ pc[a] \in {"rs_clear", "rs_list"} => staged[dir[a]] = goal[a]
  BY <1>1, <1>2 DEF AtHand
<1>4. ASSUME Same, staged'[dir[a]] = staged[dir[a]]
      PROVE  /\ pc'[a] = "rs_stage" => staged'[dir[a]'] = {}
             /\ pc'[a] = "rs_extract" => staged'[dir[a]'] \cup todo'[a] = goal'[a]
             /\ pc'[a] \in {"rs_clear", "rs_list"} => staged'[dir[a]'] = goal'[a]
  BY <1>3, <1>4
<1>5. CASE /\ UNCHANGED <<dir, todo, staged>>
           /\ \A b \in Admins : pc[b] \in Restoring \/ pc'[b] \in Restoring =>
                pc'[b] = pc[b] /\ target'[b] = target[b] /\ goal'[b] = goal[b]
  BY <1>0, <1>4, <1>5
<1>6. ASSUME NEW b \in Admins, b # a, BeginRestore(b) \/ Restore(b) \/ DeleteMeta(b)
      PROVE  Same /\ staged'[dir[a]] = staged[dir[a]]
  <2>1. Same
    BY <1>6, RestoreSteps
  <2>2. pc[a] \in Using /\ dir[a] \in Admins /\ dir[b] # dir[a]
    BY <1>1, <1>6, <2>1 DEF Using, Placed, Alone
  <2>3. RemoveStaging(b) => staged'[dir[a]] = staged[dir[a]]
    BY <2>2 DEF RemoveStaging, TypeOK
  <2>4. staged' = staged => staged'[dir[a]] = staged[dir[a]]
    OBVIOUS
  <2>5. Extract(b) \/ Move(b) => staged'[dir[a]] = staged[dir[a]]
    BY <2>2 DEF Extract, Move, restores, staging, TypeOK
  <2>6. staged'[dir[a]] = staged[dir[a]]
    BY <1>6, <2>3, <2>4, <2>5, RestoreSteps DEF Restore, staging, restores
  <2> QED
    BY <2>1, <2>6
<1>7. CASE Verify(a)
  <2>1. /\ pc'[a] = "rs_stage" /\ staged' = staged /\ dir'[a] \in Admins /\ dir[a] = None
        /\ \A b \in Admins \ {a} : dir'[b] = dir[b]
    BY <1>7, RestoreSteps DEF Restore, Placed, Using
  <2>2. \A b \in Admins \ {a} : dir'[b] # dir[a]'
    <3>1. ~UNCHANGED vars
      BY <1>7, <2>1 DEF vars, Verify, Goto
    <3>2. dir'[a] # None
      BY <2>1, ConstantsAssumption
    <3> QED
      BY <1>0, <3>1, <3>2, Remembered
  <2>3. \A b \in Admins : dir[b] # dir'[a]
    BY <2>1, <2>2, ConstantsAssumption
  <2>4. staged[dir'[a]] = {}
    BY <2>1, <2>3 DEF Placed
  <2> QED
    BY <2>1, <2>4
<1>8. CASE Stage(a)
  <2>1. /\ pc[a] = "rs_stage" /\ pc'[a] = "rs_extract" /\ UNCHANGED <<dir, staged, target, goal>>
    BY <1>8, RestoreSteps DEF Restore
  <2>2. todo'[a] = archives[target[a]] /\ archives[target[a]] # None
    BY <1>2, <1>8, <2>1 DEF Stage, TypeOK
  <2>3. archives[target[a]] = goal[a]
    BY <2>1, <2>2 DEF Verified
  <2> QED
    BY <1>3, <2>1, <2>2, <2>3
<1>9. CASE Extract(a)
  <2>1. pc[a] = "rs_extract" /\ UNCHANGED <<dir, target, goal>> /\ dir[a] \in Admins
    BY <1>9, RestoreSteps DEF Restore, Placed, Using
  <2>2. staged[dir[a]] \cup todo[a] = goal[a]
    BY <1>3, <2>1
  <2>3. CASE pc' = pc
    <3>0. ~Goto(a, "rs_extract", "rs_clear")
      BY <2>1, <2>3 DEF Goto, TypeOK
    <3>1. PICK e \in todo[a] : /\ todo' = [todo EXCEPT ![a] = @ \ {e}]
                               /\ staged' = [staged EXCEPT ![dir[a]] = @ \cup {e}]
      BY <1>9, <3>0, Zenon DEF Extract
    <3>2. todo'[a] = todo[a] \ {e} /\ staged'[dir[a]] = staged[dir[a]] \cup {e}
      BY <2>1, <3>1 DEF TypeOK
    <3> QED
      BY <2>1, <2>2, <2>3, <3>1, <3>2
  <2>4. CASE pc' # pc
    <3>1. todo[a] = {} /\ pc'[a] = "rs_clear" /\ staged' = staged
      BY <1>9, <2>4 DEF Extract, Goto, restores, staging, TypeOK
    <3> QED
      BY <2>1, <2>2, <3>1
  <2> QED
    BY <2>3, <2>4
<1>10. CASE Clear(a)
  <2>1. pc[a] = "rs_clear" /\ pc'[a] = "rs_list" /\ UNCHANGED <<dir, staged, target, goal>>
    BY <1>10, RestoreSteps DEF Restore, restores, staging
  <2> QED
    BY <1>3, <2>1
<1>11. ~DashboardRestarts
  BY <1>0 DEF DashboardRestarts, Restoring
<1>12. ASSUME BeginRestore(a) \/ Restore(a) \/ DeleteMeta(a)
       PROVE  Verify(a) \/ Stage(a) \/ Extract(a) \/ Clear(a)
  BY <1>12, RestoreSteps DEF Restore
<1> QED
  BY <1>4, <1>5, <1>6, <1>7, <1>8, <1>9, <1>10, <1>11, <1>12, OutsideRestores

\* Every step keeps what a restore has moved and has still to move together the backup,
\* or is another's and has game/ mixed.
LEMMA MovedStep ==
  ASSUME TypeOK, AtHand, Moved, [Next]_vars
  PROVE  Moved'
<1>1. CASE UNCHANGED vars
  BY <1>1 DEF Moved, vars, files, disk, restores, staging
<1>2. CASE Next
  <2> SUFFICES ASSUME NEW a \in Admins, a \notin mixed', a \notin shared', target'[a] \notin torn',
                      pc'[a] \in {"rs_list", "rs_move", "rs_done"}
               PROVE  /\ pc'[a] = "rs_list" => game' \subseteq Stuck
                      /\ pc'[a] = "rs_move" => (game' \cup todo'[a]) \ Stuck = goal'[a] \ Stuck
                      /\ pc'[a] = "rs_done" => game' \ Stuck = goal'[a] \ Stuck
    BY DEF Moved
  <2>0. a \notin shared /\ torn \subseteq torn'
    BY Remembered DEF Restoring
  <2>1. \/ pc[a] \notin {"rs_list", "rs_move", "rs_done"}
        \/ a \notin mixed /\ (game' = game \/ todo'[a] # todo[a])
    BY <1>2 DEF Next, Mixing
  <2>2. CASE Clear(a)
    BY <2>2, RestoreSteps DEF Restore, Clear
  <2>3. CASE List(a)
    <3>1. /\ pc[a] = "rs_list" /\ pc'[a] = "rs_move" /\ UNCHANGED <<target, goal, game>>
          /\ todo'[a] = staged[dir[a]]
      BY <2>3, RestoreSteps DEF Restore, List, files, TypeOK
    <3>2. staged[dir[a]] = goal[a]
      BY <2>0, <3>1 DEF AtHand
    <3>3. game \subseteq Stuck
      BY <2>0, <2>1, <3>1 DEF Moved
    <3> QED
      BY <3>1, <3>2, <3>3
  <2>4. CASE Move(a)
    <3>1. pc[a] = "rs_move" /\ pc'[a] = "rs_move" /\ UNCHANGED <<target, goal>>
      BY <2>4, RestoreSteps DEF Restore
    <3>2. PICK e \in todo[a] : todo' = [todo EXCEPT ![a] = @ \ {e}] /\ game' = game \cup {e}
      BY <2>4 DEF Move
    <3>3. todo'[a] = todo[a] \ {e}
      BY <3>2 DEF TypeOK
    <3>4. a \notin mixed
      BY <2>1, <3>1
    <3>5. (game \cup todo[a]) \ Stuck = goal[a] \ Stuck
      BY <2>0, <3>1, <3>4 DEF Moved
    <3>6. game' \cup todo'[a] = game \cup todo[a]
      BY <3>2, <3>3
    <3> QED
      BY <3>1, <3>5, <3>6
  <2>5. CASE EndRestore(a)
    <3>1. /\ pc[a] = "rs_move" /\ pc'[a] = "rs_done" /\ todo[a] = {} /\ UNCHANGED <<target, goal>>
      BY <2>5, RestoreSteps DEF Restore
    <3>2. game' = game
      BY <2>5 DEF EndRestore, files
    <3>3. (game \cup todo[a]) \ Stuck = goal[a] \ Stuck
      BY <2>0, <2>1, <3>1, <3>2 DEF Moved
    <3> QED
      BY <3>1, <3>2, <3>3
  <2>6. CASE /\ pc'[a] = pc[a] /\ target'[a] = target[a] /\ goal'[a] = goal[a]
             /\ todo'[a] = todo[a]
    BY <2>0, <2>1, <2>6 DEF Moved
  <2>7. ASSUME NEW b \in Admins, b # a, BeginRestore(b) \/ Restore(b) \/ DeleteMeta(b)
        PROVE  /\ pc'[a] = pc[a] /\ target'[a] = target[a] /\ goal'[a] = goal[a]
               /\ todo'[a] = todo[a]
    BY <2>7, RestoreSteps
  <2>8. ASSUME BeginRestore(a) \/ Restore(a) \/ DeleteMeta(a)
        PROVE  Clear(a) \/ List(a) \/ Move(a) \/ EndRestore(a)
    BY <2>8, RestoreSteps DEF Restore
  <2>9. ~DashboardRestarts /\ pc'[a] \in Restoring
    BY DEF DashboardRestarts, Restoring
  <2> QED
    BY <2>2, <2>3, <2>4, <2>5, <2>6, <2>7, <2>8, <2>9, OutsideRestores
<1> QED
  BY <1>1, <1>2

-----------------------------------------------------------------------------
(* The theorems. *)

\* The first state satisfies the invariant.
LEMMA InitInvariant == Init => IInv
<1> SUFFICES ASSUME Init PROVE IInv
  OBVIOUS
<1> USE ConstantsAssumption
<1>1. begun = 1 /\ requests = 0 /\ faults = 0 /\ 1 \in Ids
  BY DEF Init, Ids
<1>2. PICK e \in Entries : archives = [i \in Ids |-> IF i = 1 THEN {e} ELSE None]
  BY DEF Init
<1>3. metas = archives
  BY DEF Init
<1>4. TypeOK
  <2>1. RequestsTyped
    <3>1. pc \in [Admins -> Steps]
      BY DEF Init, Steps
    <3>2. target \in [Admins -> Ids \cup {0}]
      BY DEF Init
    <3>3. /\ goal \in [Admins -> SUBSET Entries] /\ todo \in [Admins -> SUBSET Entries]
          /\ dir \in [Admins -> Admins \cup {None}] /\ staged \in [Admins -> SUBSET Entries]
      BY DEF Init
    <3>4. server = "up" /\ autosave = TRUE /\ held = FALSE /\ unresumed = FALSE
      BY DEF Init
    <3>5. game = Entries /\ locked = {} /\ requests \in 0..MaxRequests /\ faults \in 0..MaxFaults
      BY <1>1 DEF Init
    <3> QED
      BY <3>1, <3>2, <3>3, <3>4, <3>5 DEF RequestsTyped
  <2>2. archives \in [Ids -> {None} \cup SUBSET Entries]
    BY <1>2
  <2>3. DiskTyped
    BY <1>3, <2>2 DEF Init, DiskTyped
  <2>4. ThreadTyped
    <3>1. NoWork \in Job
      BY DEF NoWork, Job, Stages
    <3>2. busy = FALSE /\ progress = "idle" /\ worker = NoWork /\ due = FALSE
      BY DEF Init
    <3>3. begun \in 0 .. MaxRequests + 1
      BY <1>1
    <3> QED
      BY <3>1, <3>2, <3>3 DEF ThreadTyped
  <2>5. mixed = {} /\ shared = {}
    BY DEF Init
  <2> QED
    BY <2>1, <2>3, <2>4, <2>5 DEF TypeOK, RequestsTyped, DiskTyped, ThreadTyped, Steps, Job
<1>5. Locked /\ Resumed
  BY DEF Init, NoWork, Locked, Resumed
<1>6. Counted
  <2>1. Waiting = {}
    BY DEF Init, Waiting, Asking
  <2>2. Cardinality(Waiting) = 0
    BY <2>1, FS_EmptySet
  <2>3. One(due) = 0 /\ One(worker.at = "begin") = 0
    BY DEF Init, NoWork, One
  <2> QED
    BY <1>1, <2>2, <2>3 DEF Counted
<1>7. Numbered
  BY <1>1, <1>2, <1>3 DEF Init, Numbered, NoWork, Building, Ids
<1>8. Targeted /\ Verified /\ Alone /\ AtHand /\ Moved
  BY DEF Init, Targeted, Verified, Alone, Using, AtHand, Moved
<1>9. ListedIsRestorable /\ Written /\ Retired
  BY <1>3 DEF Init, NoWork, ListedIsRestorable, Listed, Written, Retired
<1>10. Placed
  BY DEF Init, Placed, Using
<1> QED
  BY <1>4, <1>5, <1>6, <1>7, <1>8, <1>9, <1>10 DEF IInv

\* Every step keeps it.
LEMMA StepInvariant == IInv /\ [Next]_vars => IInv'
<1> SUFFICES ASSUME IInv, [Next]_vars PROVE IInv'
  OBVIOUS
<1>1. Placed' /\ AtHand' /\ Moved'
  BY PlacedStep, AtHandStep, MovedStep DEF IInv
<1>2. TypeOK'
  BY TypeStep DEF IInv
<1>3. Locked' /\ Resumed'
  BY LockedStep, ResumedStep DEF IInv
<1>4. Counted' /\ Numbered' /\ Targeted'
  BY <1>2, CountedStep, NumberedStep, TargetedStep DEF IInv
<1>5. ListedIsRestorable' /\ Written' /\ Retired'
  BY RestorableStep, WrittenStep, RetiredStep DEF IInv
<1>6. Verified' /\ Alone'
  BY <1>1, VerifiedStep, AloneStep DEF IInv
<1> QED
  BY <1>1, <1>2, <1>3, <1>4, <1>5, <1>6 DEF IInv

\* The inductive invariant of the backups: who holds the lock, who will resume the
\* server, which number each request and the thread are at, and whose each staging
\* directory is.
THEOREM Invariance == Spec => []IInv
BY InitInvariant, StepInvariant, PTL DEF Spec

\* Every variable keeps its type, and numbers never run out, for any number of
\* administrators, entries, requests and faults.
THEOREM TypeCorrect == Spec => []TypeOK
<1>1. IInv => TypeOK
  BY DEF IInv
<1> QED
  BY <1>1, Invariance, PTL

\* However requests and scheduled backups overlap, the server saves again once
\* nobody is making a backup, unless its resume failed or the dashboard was restarted.
THEOREM AutosaveReturns == Spec => []AutosaveComesBack
<1>1. IInv => AutosaveComesBack
  BY DEF IInv, Resumed, AutosaveComesBack
<1> QED
  BY <1>1, Invariance, PTL

\* Before any fault, whatever is listed is on disk as it was made, but for a backup
\* whose removal, by an administrator or by retention, is under way.  Of an archive
\* with half of an entry in it this is not said to be all that was in game/.
THEOREM ListedRestorable == Spec => []ListedIsRestorable
<1>1. IInv => ListedIsRestorable
  BY DEF IInv
<1> QED
  BY <1>1, Invariance, PTL

\* When nobody is making a backup the progress does not say so.
THEOREM Settled == Spec => []SettledWhenFree
<1>1. IInv => SettledWhenFree
  BY DEF IInv, Locked, Building, Retaining, SettledWhenFree
<1> QED
  BY <1>1, Invariance, PTL

\* A restore that ends well leaves game/ as the backup says, whatever backups, deletions,
\* retention and damage come in between, unless the archive has half of an entry in it,
\* another restore has used its staging directory, or another restore or a server has
\* changed game/ since it was cleared.
THEOREM RestoredWhole == Spec => []RestoredIsWhole
<1>1. IInv => RestoredIsWhole
  BY DEF IInv, Moved, RestoredIsWhole
<1> QED
  BY <1>1, Invariance, PTL

\* Nothing of game/ is deleted before all of the verified backup is at hand, but for
\* archives with half of an entry in them and for two restores of one second.
THEOREM ClearedStaged == Spec => NothingClearedUnstaged
<1>1. ASSUME IInv, [Next]_vars
      PROVE  [ game \subseteq game'
               \/ \E a \in Admins :
                    /\ pc[a] = "rs_clear"
                    /\ staged[dir[a]] = goal[a] \/ a \in shared \/ target[a] \in torn ]_vars
  <2>1. ASSUME NEW a \in Admins, pc[a] = "rs_clear"
        PROVE  staged[dir[a]] = goal[a] \/ a \in shared \/ target[a] \in torn
    BY <1>1, <2>1 DEF IInv, AtHand
  <2>2. CASE \E a \in Admins : pc[a] = "rs_clear"
    BY <2>1, <2>2
  <2>3. CASE ~\E a \in Admins : pc[a] = "rs_clear"
    <3>1. CASE UNCHANGED vars
      BY <3>1
    <3>2. ASSUME NEW a \in Admins,
                 \/ BeginCreate(a) \/ Create(a) \/ BeginDelete(a) \/ DeleteArchive(a)
                 \/ DeleteMeta(a) \/ BeginRestore(a) \/ Restore(a)
          PROVE  game \subseteq game'
      BY <2>3, <3>2 DEF BeginCreate, Create, Flush, SaveOff, PauseFails, StartCreate, Busy,
         ResumeRefused, BeginDelete, DeleteArchive, DeleteMeta, BeginRestore, Restore, Verify,
         VerifyFails, Stage, Extract, StageFails, Clear, List, Move, MoveFails, EndRestore, Goto,
         files
    <3>3. ASSUME FindDue \/ StartScheduled \/ Worker PROVE game \subseteq game'
      BY <3>3 DEF FindDue, StartScheduled, Worker, BeginArchive, ArchiveEntry, EndArchive,
         NothingReadable, Publish, WriteMeta, Retain, UnlinkArchive, UnlinkMeta, EndCreate,
         WorkFails, OnDone, Release, files
    <3>4. ASSUME \/ UpdateSettings \/ GameSaves \/ ServerStarts \/ ServerStops \/ Tamper
                 \/ DashboardRestarts
          PROVE  game \subseteq game'
      BY <2>3, <3>4 DEF UpdateSettings, GameSaves, ServerStarts, ServerStops, Tamper,
         DashboardRestarts, files
    <3> QED
      BY <1>1, <3>1, <3>2, <3>3, <3>4 DEF Next, Step
  <2> QED
    BY <2>2, <2>3
<1> QED
  BY <1>1, Invariance, PTL DEF Spec, NothingClearedUnstaged

\* The retention that follows a backup does not remove it; only an administrator does.
THEOREM NewestKept == Spec => NewestIsKept
<1>1. ASSUME IInv, [Next]_vars
      PROVE  [ \A i \in Listed :
                 i = begun /\ metas'[i] = None =>
                   \E a \in Admins : pc[a] = "del_meta" /\ target[a] = i ]_vars
  <2> SUFFICES ASSUME begun \in Listed, metas'[begun] = None
               PROVE  \E a \in Admins : pc[a] = "del_meta" /\ target[a] = begun
    OBVIOUS
  <2>0. TypeOK /\ begun \in Ids /\ metas[begun] # None
    BY <1>1 DEF IInv, Listed
  <2>1. ~UnlinkMeta
    <3>1. SUFFICES ASSUME UnlinkMeta PROVE FALSE
      OBVIOUS
    <3>2. PICK i \in Ids : First(i) /\ metas' = [metas EXCEPT ![i] = None]
      BY <3>1, Zenon DEF UnlinkMeta
    <3>3. begun \notin worker.old
      BY <1>1, <3>1 DEF IInv, Retired, UnlinkMeta
    <3> QED
      BY <2>0, <3>2, <3>3 DEF First, TypeOK
  <2>2. ASSUME NEW a \in Admins, DeleteMeta(a)
        PROVE  pc[a] = "del_meta" /\ target[a] = begun
    BY <2>0, <2>2 DEF DeleteMeta, Goto, TypeOK
  <2>3. ~WriteMeta
    <3>1. SUFFICES ASSUME WriteMeta PROVE FALSE
      OBVIOUS
    <3>2. metas' = [metas EXCEPT ![begun] = worker.has]
      BY <3>1 DEF WriteMeta
    <3>3. worker.has # None
      BY <2>0, WorkerTyped, ConstantsAssumption
    <3> QED
      BY <2>0, <3>2, <3>3 DEF TypeOK
  <2>4. ~UNCHANGED metas
    BY <2>0
  <2>5. Publish \/ UnlinkArchive \/ Tamper => UNCHANGED metas
    BY DEF Publish, UnlinkArchive, Tamper
  <2>6. ASSUME NEW a \in Admins, DeleteArchive(a) PROVE UNCHANGED metas
    BY <2>6 DEF DeleteArchive
  <2> QED
    BY <1>1, <2>1, <2>2, <2>3, <2>4, <2>5, <2>6, OutsideDisk
<1> QED
  BY <1>1, Invariance, PTL DEF Spec, NewestIsKept
=============================================================================
