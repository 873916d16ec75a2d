------------------------------- MODULE Storage -------------------------------
(***************************************************************************)
(* The Files tab over one category directory: uploads and text edits that  *)
(* several gunicorn threads write through ".<name>.part" and os.replace(), *)
(* deletions, an install that clears the category meanwhile, and the quota,*)
(* which is checked against a cached usage that background threads bring   *)
(* up to date.                                                             *)
(*                                                                         *)
(* A file is an inode: a thread goes on writing to the one it has opened,  *)
(* wherever a rename or a deletion by another thread has put it.           *)
(***************************************************************************)
EXTENDS Naturals, FiniteSets, FiniteSetsExt

CONSTANTS
  Threads,      \* gunicorn's threads
  Names,        \* file names of the category
  Chunks,       \* length of a file, in reads of the upload's stream
  Quota,        \* quota_bytes, in chunks
  None,
  MaxRequests,  \* bound on requests that write, delete or clear
  MaxFaults     \* bound on I/O errors, threads that fail and restarts

ASSUME StorageAssumption ==
  /\ Chunks \in Nat \ {0} /\ Quota \in Nat
  /\ MaxRequests \in Nat /\ MaxFaults \in Nat
  /\ None \notin Nat /\ None \notin Names

VARIABLES
  file, part,    \* the inodes of <name> and of .<name>.part
  disk,          \* an inode's chunks, each with the request that wrote it
  pc, req,       \* a thread's step, and the request it serves
  fd, next,      \* its handle: inode, and the chunk it writes next
  clearing,      \* the listing a clear_category() still works through
  cache, fresh,  \* _usage_cache: the total, and whether it is younger than the TTL
  refreshing,    \* is the root in _usage_refreshing?
  walk,          \* the refresh thread a request has started
  unstarted,     \* history: a refresh thread could not be started
  overlapped,    \* history: names whose .part two threads have had open at once
  orphans,       \* history: names whose .part a restart has left behind
  requests, faults

fileVars == <<file, part, disk, overlapped, orphans>>
threadVars == <<pc, req, fd, next>>
usageVars == <<cache, fresh, refreshing, walk, unstarted>>
vars == <<fileVars, threadVars, usageVars, clearing, requests, faults>>

\* Request 0 stands for what was there before; an inode has the number of the
\* request that created it.
Inodes == 0..MaxRequests
Content == [1..Chunks -> Inodes \cup {None}]
Empty == [k \in 1..Chunks |-> None]
Whole(r) == [k \in 1..Chunks |-> r]

Entries == Names \X {"file", "part"}
InodeOf(e) == IF e[2] = "file" THEN file[e[1]] ELSE part[e[1]]
Present == {e \in Entries : InodeOf(e) # None}
Size(i) == IF i = None THEN 0 ELSE Cardinality({k \in 1..Chunks : disk[i][k] # None})

\* What _compute_usage() would find in a directory at rest, temporary files included.
Usage == MapThenSumSet(LAMBDA e : Size(InodeOf(e)), Present)

Request == [name : Names \cup {None}, id : Inodes, announced : BOOLEAN]
NoRequest == [name |-> None, id |-> 0, announced |-> TRUE]
Walk == [at : {"off", "list", "stat", "discard"}, left : SUBSET Entries, sum : Nat]
NoWalk == [at |-> "off", left |-> {}, sum |-> 0]

TypeOK ==
  /\ file \in [Names -> Inodes \cup {None}]
  /\ part \in [Names -> Inodes \cup {None}]
  /\ disk \in [Inodes -> Content]
  /\ pc \in [Threads -> {"idle", "open", "write", "quota", "replace"}]
  /\ req \in [Threads -> Request]
  /\ fd \in [Threads -> Inodes]
  /\ next \in [Threads -> 1..(Chunks + 1)]
  /\ clearing \subseteq Entries
  /\ cache \in Nat \cup {None} /\ fresh \in BOOLEAN
  /\ refreshing \in BOOLEAN /\ unstarted \in BOOLEAN
  /\ walk \in [Threads -> Walk]
  /\ overlapped \subseteq Names /\ orphans \subseteq Names
  /\ requests \in 0..MaxRequests /\ faults \in 0..MaxFaults

Init ==
  /\ file \in [Names -> {0, None}]
  /\ part = [n \in Names |-> None]
  /\ disk = [i \in Inodes |-> IF i = 0 THEN Whole(0) ELSE Empty]
  /\ pc = [t \in Threads |-> "idle"]
  /\ req = [t \in Threads |-> NoRequest]
  /\ fd = [t \in Threads |-> 0]
  /\ next = [t \in Threads |-> 1]
  /\ clearing = {}
  /\ cache = None /\ fresh = FALSE /\ refreshing = FALSE /\ unstarted = FALSE
  /\ walk = [t \in Threads |-> NoWalk]
  /\ overlapped = {} /\ orphans = {}
  /\ requests = 0 /\ faults = 0

-----------------------------------------------------------------------------
(* Usage and quota. *)

\* A missing or old total is recomputed by a thread of its own, one per root.
Trigger(t) ==
  /\ IF fresh \/ refreshing THEN UNCHANGED <<refreshing, walk>>
     ELSE /\ refreshing' = TRUE
          /\ walk' = [walk EXCEPT ![t] = [NoWalk EXCEPT !.at = "list"]]
  /\ UNCHANGED <<cache, fresh, unstarted>>

\* check_quota() against the total as last computed, 0 before that.
QuotaAllows(more) == (IF cache = None THEN 0 ELSE cache) + more <= Quota

\* Overview and Files tabs ask for the usage.
AskUsage(t) ==
  /\ pc[t] = "idle"
  /\ Trigger(t)
  /\ UNCHANGED <<fileVars, threadVars, clearing, requests, faults>>

\* The system has no thread to give: start() raises, with the root already in
\* _usage_refreshing.
NoThread(t) ==
  /\ pc[t] = "idle" /\ ~fresh /\ ~refreshing
  /\ faults < MaxFaults /\ faults' = faults + 1
  /\ refreshing' = TRUE /\ unstarted' = TRUE
  /\ UNCHANGED <<fileVars, threadVars, clearing, cache, fresh, walk, requests>>

WalkList(t) ==
  /\ walk[t].at = "list"
  /\ walk' = [walk EXCEPT ![t].at = "stat", ![t].left = Present]
  /\ UNCHANGED <<fileVars, threadVars, clearing, cache, fresh, refreshing, unstarted, requests, faults>>

\* A file that is gone by now counts nothing.
WalkStat(t) ==
  /\ walk[t].at = "stat"
  /\ \E e \in walk[t].left :
       walk' = [walk EXCEPT ![t].left = @ \ {e}, ![t].sum = @ + Size(InodeOf(e))]
  /\ UNCHANGED <<fileVars, threadVars, clearing, cache, fresh, refreshing, unstarted, requests, faults>>

WalkStore(t) ==
  /\ walk[t].at = "stat" /\ walk[t].left = {}
  /\ cache' = walk[t].sum /\ fresh' = TRUE
  /\ walk' = [walk EXCEPT ![t].at = "discard"]
  /\ UNCHANGED <<fileVars, threadVars, clearing, refreshing, unstarted, requests, faults>>

\* Mutant of WalkFails: without finally, the root stays in _usage_refreshing.
WalkFailsForGood(t) ==
  /\ walk[t].at \in {"list", "stat"}
  /\ faults < MaxFaults /\ faults' = faults + 1
  /\ walk' = [walk EXCEPT ![t] = NoWalk]
  /\ UNCHANGED <<fileVars, threadVars, clearing, cache, fresh, refreshing, unstarted, requests>>

WalkFails(t) ==
  /\ walk[t].at \in {"list", "stat"}
  /\ faults < MaxFaults /\ faults' = faults + 1
  /\ walk' = [walk EXCEPT ![t].at = "discard"]
  /\ UNCHANGED <<fileVars, threadVars, clearing, cache, fresh, refreshing, unstarted, requests>>

WalkDiscard(t) ==
  /\ walk[t].at = "discard"
  /\ refreshing' = FALSE
  /\ walk' = [walk EXCEPT ![t] = NoWalk]
  /\ UNCHANGED <<fileVars, threadVars, clearing, cache, fresh, unstarted, requests, faults>>

Refresh(t) ==
  \/ WalkList(t) \/ WalkStat(t) \/ WalkStore(t) \/ WalkFails(t) \/ WalkDiscard(t)

\* The TTL runs out.
Expire ==
  /\ fresh /\ fresh' = FALSE
  /\ UNCHANGED <<fileVars, threadVars, clearing, cache, refreshing, walk, unstarted, requests, faults>>

-----------------------------------------------------------------------------
(* Uploads and edits. *)

\* Threads that have the part file of n open, or are about to rename it.
Writing(t, n) == pc[t] \in {"write", "quota", "replace"} /\ req[t].name = n

Admit(t, n, announced) ==
  /\ pc[t] = "idle" /\ requests < MaxRequests
  /\ requests' = requests + 1
  /\ pc' = [pc EXCEPT ![t] = "open"]
  /\ req' = [req EXCEPT ![t] = [name |-> n, id |-> requests + 1, announced |-> announced]]
  /\ UNCHANGED <<fileVars, fd, next, clearing, faults>>

\* An upload: a file of that name must be confirmed to be overwritten, and a
\* request that states its length must fit the quota before anything is written.
BeginUpload(t) ==
  \E n \in Names, overwrite, announced \in BOOLEAN :
    /\ file[n] = None \/ overwrite
    /\ announced => QuotaAllows(Chunks)
    /\ Admit(t, n, announced)
    /\ IF announced THEN Trigger(t) ELSE UNCHANGED usageVars

\* A text edit: only of a file that exists, and only the growth counts.
BeginEdit(t) ==
  \E n \in Names :
    /\ file[n] # None
    /\ QuotaAllows(Chunks - Size(file[n]))
    /\ Admit(t, n, TRUE)
    /\ Trigger(t)

\* Mutant of Open: an upload goes on where a part file ends, as with "ab".
OpenAppending(t) ==
  LET n == req[t].name
      i == IF part[n] = None THEN req[t].id ELSE part[n]
  IN  /\ pc[t] = "open" /\ pc' = [pc EXCEPT ![t] = "write"]
      /\ part' = [part EXCEPT ![n] = i]
      /\ fd' = [fd EXCEPT ![t] = i]
      /\ next' = [next EXCEPT ![t] = IF disk[i] = Empty THEN 1 ELSE Chunks]
      /\ overlapped' = IF \E s \in Threads : Writing(s, n) THEN overlapped \cup {n} ELSE overlapped
      /\ orphans' = orphans \ {n}
      /\ UNCHANGED <<file, disk, req, clearing, usageVars, requests, faults>>

\* Mutant of Open: a part file that is complete is not written again.
OpenResuming(t) ==
  LET n == req[t].name
      i == IF part[n] = None THEN req[t].id ELSE part[n]
      done == disk[i] # Empty /\ disk[i] = Whole(disk[i][1])
  IN  /\ pc[t] = "open" /\ pc' = [pc EXCEPT ![t] = IF done THEN "replace" ELSE "write"]
      /\ part' = [part EXCEPT ![n] = i]
      /\ disk' = [disk EXCEPT ![i] = IF done THEN @ ELSE Empty]
      /\ fd' = [fd EXCEPT ![t] = i] /\ next' = [next EXCEPT ![t] = IF done THEN Chunks + 1 ELSE 1]
      /\ overlapped' = IF \E s \in Threads : Writing(s, n) THEN overlapped \cup {n} ELSE overlapped
      /\ orphans' = orphans \ {n}
      /\ UNCHANGED <<file, req, clearing, usageVars, requests, faults>>

\* Mutant of WriteChunk: it writes to the file that is already published.
WriteInPlace(t) ==
  LET i == IF file[req[t].name] = None THEN fd[t] ELSE file[req[t].name]
  IN  /\ pc[t] = "write"
      /\ disk' = [disk EXCEPT ![i][next[t]] = req[t].id]
      /\ next' = [next EXCEPT ![t] = @ + 1]
      /\ pc' = [pc EXCEPT ![t] = IF next[t] < Chunks THEN "write" ELSE "replace"]
      /\ UNCHANGED <<file, part, overlapped, orphans, req, fd, clearing, usageVars, requests, faults>>

\* Mutant of WriteChunk: one read too many.
WriteOneTooMany(t) ==
  /\ pc[t] = "write"
  /\ disk' = [disk EXCEPT ![fd[t]][next[t]] = req[t].id]
  /\ next' = [next EXCEPT ![t] = @ + 1]
  /\ pc' = [pc EXCEPT ![t] = IF next[t] <= Chunks THEN "write" ELSE "replace"]
  /\ UNCHANGED <<file, part, overlapped, orphans, req, fd, clearing, usageVars, requests, faults>>

\* open(tmp_path, "wb"): the file that is there is truncated, not replaced.
Open(t) ==
  LET n == req[t].name
      i == IF part[n] = None THEN req[t].id ELSE part[n]
  IN  /\ pc[t] = "open" /\ pc' = [pc EXCEPT ![t] = "write"]
      /\ part' = [part EXCEPT ![n] = i]
      /\ disk' = [disk EXCEPT ![i] = Empty]
      /\ fd' = [fd EXCEPT ![t] = i] /\ next' = [next EXCEPT ![t] = 1]
      /\ overlapped' = IF \E s \in Threads : Writing(s, n) THEN overlapped \cup {n} ELSE overlapped
      /\ orphans' = orphans \ {n}
      /\ UNCHANGED <<file, req, clearing, usageVars, requests, faults>>

\* The last chunk is followed by the quota check of an upload that did not
\* state its length, and by the rename.
WriteChunk(t) ==
  /\ pc[t] = "write"
  /\ disk' = [disk EXCEPT ![fd[t]][next[t]] = req[t].id]
  /\ next' = [next EXCEPT ![t] = @ + 1]
  /\ pc' = [pc EXCEPT ![t] = IF next[t] < Chunks THEN "write"
                             ELSE IF req[t].announced THEN "replace" ELSE "quota"]
  /\ UNCHANGED <<file, part, overlapped, orphans, req, fd, clearing, usageVars, requests, faults>>

EndRequest(t) ==
  /\ pc' = [pc EXCEPT ![t] = "idle"] /\ req' = [req EXCEPT ![t] = NoRequest]
  /\ fd' = [fd EXCEPT ![t] = 0] /\ next' = [next EXCEPT ![t] = 1]

\* The handlers of save_upload() and write_text_file() unlink the part file.
Abandon(t) ==
  /\ EndRequest(t)
  /\ part' = [part EXCEPT ![req[t].name] = None]
  /\ UNCHANGED <<file, disk, overlapped, orphans, clearing, requests>>

CheckWritten(t) ==
  /\ pc[t] = "quota"
  /\ QuotaAllows(Chunks)
  /\ pc' = [pc EXCEPT ![t] = "replace"]
  /\ Trigger(t)
  /\ UNCHANGED <<fileVars, req, fd, next, clearing, requests, faults>>

\* Mutant of OverQuota: only I/O errors are cleaned up after.
OverQuotaLeavesPart(t) ==
  /\ pc[t] = "quota" /\ ~QuotaAllows(Chunks)
  /\ EndRequest(t)
  /\ Trigger(t)
  /\ UNCHANGED <<fileVars, clearing, requests, faults>>

OverQuota(t) ==
  /\ pc[t] = "quota" /\ ~QuotaAllows(Chunks)
  /\ Abandon(t)
  /\ Trigger(t)
  /\ UNCHANGED faults

\* A full disk, no permission, a stream longer than MAX_UPLOAD_MB.
WriteFails(t) ==
  /\ pc[t] \in {"open", "write", "replace"}
  /\ faults < MaxFaults /\ faults' = faults + 1
  /\ Abandon(t)
  /\ UNCHANGED usageVars

\* os.replace(), of whatever has the part file's name by now.
Publish(t) ==
  LET n == req[t].name
  IN  /\ pc[t] = "replace" /\ part[n] # None
      /\ file' = [file EXCEPT ![n] = part[n]]
      /\ part' = [part EXCEPT ![n] = None]
      /\ EndRequest(t)
      /\ UNCHANGED <<disk, overlapped, orphans, clearing, usageVars, requests, faults>>

\* Somebody has taken the part file away.
PartIsGone(t) ==
  /\ pc[t] = "replace" /\ part[req[t].name] = None
  /\ Abandon(t)
  /\ UNCHANGED <<usageVars, faults>>

Write(t) ==
  \/ Open(t) \/ WriteChunk(t) \/ CheckWritten(t) \/ OverQuota(t) \/ WriteFails(t)
  \/ Publish(t) \/ PartIsGone(t)

-----------------------------------------------------------------------------
(* Deletions. *)

Remove(e) ==
  /\ file' = IF e[2] = "file" THEN [file EXCEPT ![e[1]] = None] ELSE file
  /\ part' = IF e[2] = "part" THEN [part EXCEPT ![e[1]] = None] ELSE part
  /\ UNCHANGED <<disk, overlapped, orphans>>

\* A click on an entry of the listing, which shows part files like others.
Delete(t) ==
  /\ pc[t] = "idle" /\ requests < MaxRequests /\ requests' = requests + 1
  /\ \E e \in Present : Remove(e)
  /\ UNCHANGED <<threadVars, usageVars, clearing, faults>>

\* An install lists the category, then takes the entries away one by one; one
\* that cannot be removed is left.
BeginClear ==
  /\ clearing = {} /\ requests < MaxRequests /\ requests' = requests + 1
  /\ clearing' = Present
  /\ UNCHANGED <<fileVars, threadVars, usageVars, faults>>

ClearEntry ==
  \E e \in clearing :
    /\ clearing' = clearing \ {e}
    /\ Remove(e) \/ UNCHANGED fileVars
    /\ UNCHANGED <<threadVars, usageVars, requests, faults>>

\* The module's cache starts empty; part files stay.
DashboardRestarts ==
  /\ faults < MaxFaults /\ faults' = faults + 1
  /\ pc' = [t \in Threads |-> "idle"] /\ req' = [t \in Threads |-> NoRequest]
  /\ fd' = [t \in Threads |-> 0] /\ next' = [t \in Threads |-> 1]
  /\ clearing' = {}
  /\ cache' = None /\ fresh' = FALSE /\ refreshing' = FALSE /\ unstarted' = FALSE
  /\ walk' = [t \in Threads |-> NoWalk]
  /\ orphans' = {n \in Names : part[n] # None}
  /\ UNCHANGED <<file, part, disk, overlapped, requests>>

-----------------------------------------------------------------------------
Next ==
  \/ \E t \in Threads :
       \/ BeginUpload(t) \/ BeginEdit(t) \/ Write(t) \/ Delete(t)
       \/ AskUsage(t) \/ NoThread(t) \/ Refresh(t)
  \/ Expire \/ BeginClear \/ ClearEntry \/ DashboardRestarts

Spec == Init /\ [][Next]_vars

\* Requests and refresh threads run on, time passes, and some browser keeps the
\* Overview tab open; nobody need upload, delete or install.
FairSpec ==
  /\ Spec
  /\ \A t \in Threads : WF_vars(Write(t)) /\ WF_vars(Refresh(t))
  /\ WF_vars(Expire) /\ WF_vars(\E t \in Threads : AskUsage(t))

-----------------------------------------------------------------------------
\* What is published under a name is one request's file from beginning to end,
\* after whatever failures, deletions, clearings and restarts, as long as no
\* two threads have written to that name at once.
PublishedIsWhole ==
  \A n \in Names \ overlapped :
    file[n] # None => \E r \in Inodes : disk[file[n]] = Whole(r)

\* A request that has ended, in whichever way, leaves no part file behind; only
\* a restart does, until the next upload of that name.
NoPartLeft ==
  \A n \in Names \ orphans : part[n] # None => \E t \in Threads : Writing(t, n)

\* A published file does not change under those who download it: its content
\* is replaced whole or not at all.
FrozenOncePublished ==
  [][\A n \in Names \ overlapped :
       file[n] # None /\ file'[n] = file[n] => disk'[file[n]] = disk[file[n]]]_vars

\* The request whose whole file a name holds.
Published(n) ==
  IF n \notin overlapped /\ file[n] # None /\ disk[file[n]] = Whole(disk[file[n]][1])
  THEN disk[file[n]][1] ELSE None

Store == INSTANCE FileStore
  WITH Ids <- Inodes, content <- [n \in Names |-> Published(n)], torn <- overlapped,
       pending <- [t \in Threads |-> [name |-> req[t].name, id |-> req[t].id]]

\* Through part files, renames and truncations, the Files tab is a store whose
\* writes happen at once or not at all: the rename is the moment, nothing of a write
\* that was refused, failed or was lost shows up later, and only two writes of one
\* name at the same time spoil it.
StoreSpec == Store!Spec

\* The total that uploads are checked against is eventually the one on disk, and
\* stays it once nothing changes any more, whatever walk failed or was raced,
\* unless a refresh could not be started at all.
UsageCatchesUp == <>[](unstarted \/ cache = Usage)
=============================================================================
