---------------------------- MODULE StorageProofs ----------------------------
(***************************************************************************)
(* Theorems about Storage.                                                 *)
(***************************************************************************)
EXTENDS Storage, FiniteSetTheorems, TLAPS

\* Inode i is named n, or is written by a request for n.
Held(i, n) ==
  \/ file[n] = i
  \/ part[n] = i
  \/ \E s \in Threads : Writing(s, n) /\ fd[s] = i

\* Requests under way have a name and numbers of their own.
Numbered ==
  /\ \A t \in Threads : pc[t] # "idle" => req[t].name \in Names /\ req[t].id \in 1..requests
  /\ \A s, t \in Threads :
       pc[s] # "idle" /\ pc[t] # "idle" /\ req[s].id = req[t].id => s = t

\* A request that has yet to open its part file has touched no inode, and no
\* part file is the inode of what was there before.
Untouched ==
  /\ \A n \in Names : \A i \in Inodes :
       Held(i, n) => i <= requests /\ \A t \in Threads : pc[t] = "open" => req[t].id # i
  /\ \A n \in Names : part[n] # 0
  /\ \A t \in Threads, n \in Names : Writing(t, n) => fd[t] # 0

\* No inode is shared by two names.
Disjoint ==
  \A m, n \in Names : \A i \in Inodes \ {0} : Held(i, m) /\ Held(i, n) => m = n

\* A name that has not been overlapped has one writer, who has the part file
\* open or has lost it, and has not been published.
Lone ==
  \A n \in Names \ overlapped :
    /\ part[n] # None => part[n] # file[n]
    /\ \A s, t \in Threads : Writing(s, n) /\ Writing(t, n) => s = t
    /\ \A t \in Threads : Writing(t, n) => part[n] \in {None, fd[t]} /\ fd[t] # file[n]

\* What a writer has written is where it has written it, up to the last chunk.
Progress ==
  /\ \A t \in Threads : pc[t] = "write" => next[t] <= Chunks
  /\ \A t \in Threads : pc[t] \in {"quota", "replace"} => next[t] = Chunks + 1
  /\ \A t \in Threads, n \in Names \ overlapped :
       Writing(t, n) => \A k \in 1..Chunks : k < next[t] => disk[fd[t]][k] = req[t].id

Shape ==
  Numbered /\ Untouched /\ Disjoint /\ Lone /\ Progress /\ PublishedIsWhole /\ NoPartLeft

IInv == TypeOK /\ Shape

-----------------------------------------------------------------------------
(* Typing. *)

\* The size of an inode is a natural number.
LEMMA SizeIsNat ==
  ASSUME TypeOK, NEW i \in Inodes \cup {None}
  PROVE  Size(i) \in Nat
<1>1. CASE i = None
  BY <1>1 DEF Size
<1>2. CASE i # None
  <2> DEFINE K == {k \in 1..Chunks : disk[i][k] # None}
  <2>1. IsFiniteSet(1..Chunks)
    BY StorageAssumption, FS_Interval
  <2>2. IsFiniteSet(K)
    BY <2>1, FS_Subset
  <2>3. Cardinality(K) \in Nat
    BY <2>2, FS_CardinalityType
  <2> QED
    BY <1>2, <2>3 DEF Size
<1> QED
  BY <1>1, <1>2

\* What a step of a refresh thread may leave as its state.
LEMMA WalkTyped ==
  ASSUME TypeOK, NEW t \in Threads, NEW w \in Walk
  PROVE  [walk EXCEPT ![t] = w] \in [Threads -> Walk]
BY DEF TypeOK

\* An inode that a directory entry names.
LEMMA InodeOfTyped ==
  ASSUME TypeOK, NEW e \in Entries
  PROVE  InodeOf(e) \in Inodes \cup {None}
BY DEF TypeOK, Entries, InodeOf

\* Asking for the usage keeps the types of what it touches.
LEMMA TriggerTyped ==
  ASSUME TypeOK, NEW t \in Threads, Trigger(t)
  PROVE  /\ cache' \in Nat \cup {None} /\ fresh' \in BOOLEAN
         /\ refreshing' \in BOOLEAN /\ unstarted' \in BOOLEAN
         /\ walk' \in [Threads -> Walk]
<1>1. [NoWalk EXCEPT !.at = "list"] \in Walk
  BY DEF NoWalk, Walk
<1>2. [walk EXCEPT ![t] = [NoWalk EXCEPT !.at = "list"]] \in [Threads -> Walk]
  BY <1>1, WalkTyped
<1> QED
  BY <1>2 DEF Trigger, TypeOK

\* Types of what ends a request.
LEMMA EndTyped ==
  ASSUME TypeOK, NEW t \in Threads, EndRequest(t)
  PROVE  /\ pc' \in [Threads -> {"idle", "open", "write", "quota", "replace"}]
         /\ req' \in [Threads -> Request] /\ fd' \in [Threads -> Inodes]
         /\ next' \in [Threads -> 1..(Chunks + 1)]
<1>1. NoRequest \in Request
  BY StorageAssumption DEF NoRequest, Request, Inodes
<1>2. 0 \in Inodes /\ 1 \in 1..(Chunks + 1)
  BY StorageAssumption DEF Inodes
<1> QED
  BY <1>1, <1>2 DEF EndRequest, TypeOK

\* The steps of the refresh threads and of the clock keep the types.
LEMMA UsageKeepsTypes ==
  ASSUME TypeOK, NEW t \in Threads,
         AskUsage(t) \/ NoThread(t) \/ Refresh(t) \/ Expire
  PROVE  TypeOK'
<1> USE StorageAssumption
<1>1. CASE AskUsage(t)
  BY <1>1, TriggerTyped DEF AskUsage, TypeOK, fileVars, threadVars, Content
<1>2. CASE NoThread(t)
  BY <1>2 DEF NoThread, TypeOK, fileVars, threadVars, Content
<1>3. CASE WalkList(t)
  <2>1. walk[t] \in Walk
    BY DEF TypeOK
  <2>2. Present \subseteq Entries
    BY DEF Present
  <2>3. [walk[t] EXCEPT !.at = "stat", !.left = Present] \in Walk
    BY <2>1, <2>2 DEF Walk
  <2>4. walk' \in [Threads -> Walk]
    BY <1>3, <2>3 DEF WalkList, TypeOK
  <2> QED
    BY <1>3, <2>4 DEF WalkList, TypeOK, fileVars, threadVars, Content
<1>4. CASE WalkStat(t)
  <2>1. PICK e \in walk[t].left :
          walk' = [walk EXCEPT ![t].left = @ \ {e}, ![t].sum = @ + Size(InodeOf(e))]
    BY <1>4 DEF WalkStat
  <2>2. walk[t] \in Walk
    BY DEF TypeOK
  <2>3. e \in Entries
    BY <2>2 DEF Walk
  <2>4. Size(InodeOf(e)) \in Nat
    BY <2>3, InodeOfTyped, SizeIsNat
  <2>5. walk[t].sum + Size(InodeOf(e)) \in Nat /\ walk[t].left \ {e} \subseteq Entries
    BY <2>2, <2>4 DEF Walk
  <2>6. [walk[t] EXCEPT !.left = walk[t].left \ {e}, !.sum = walk[t].sum + Size(InodeOf(e))] \in Walk
    BY <2>2, <2>5 DEF Walk
  <2>7. walk' \in [Threads -> Walk]
    BY <2>1, <2>6 DEF TypeOK
  <2> QED
    BY <1>4, <2>7 DEF WalkStat, TypeOK, fileVars, threadVars, Content
<1>5. CASE WalkStore(t)
  <2>1. walk[t] \in Walk
    BY DEF TypeOK
  <2>2. [walk[t] EXCEPT !.at = "discard"] \in Walk /\ walk[t].sum \in Nat
    BY <2>1 DEF Walk
  <2>3. walk' \in [Threads -> Walk]
    BY <1>5, <2>2 DEF WalkStore, TypeOK
  <2> QED
    BY <1>5, <2>2, <2>3 DEF WalkStore, TypeOK, fileVars, threadVars, Content
<1>6. CASE WalkFails(t)
  <2>1. walk[t] \in Walk
    BY DEF TypeOK
  <2>2. [walk[t] EXCEPT !.at = "discard"] \in Walk
    BY <2>1 DEF Walk
  <2>3. walk' \in [Threads -> Walk]
    BY <1>6, <2>2 DEF WalkFails, TypeOK
  <2> QED
    BY <1>6, <2>3 DEF WalkFails, TypeOK, fileVars, threadVars, Content
<1>7. CASE WalkDiscard(t)
  <2>1. NoWalk \in Walk
    BY DEF NoWalk, Walk
  <2>2. walk' \in [Threads -> Walk]
    BY <1>7, <2>1 DEF WalkDiscard, TypeOK
  <2> QED
    BY <1>7, <2>2 DEF WalkDiscard, TypeOK, fileVars, threadVars, Content
<1>8. CASE Expire
  BY <1>8 DEF Expire, TypeOK, fileVars, threadVars, Content
<1> QED
  BY <1>1, <1>2, <1>3, <1>4, <1>5, <1>6, <1>7, <1>8 DEF Refresh

\* The part of a file of requests and directories that uploads and deletions touch.
FilesTyped ==
  /\ file \in [Names -> Inodes \cup {None}]
  /\ part \in [Names -> Inodes \cup {None}]
  /\ disk \in [Inodes -> Content]
  /\ overlapped \subseteq Names /\ orphans \subseteq Names

\* Beginning a request keeps the types.
LEMMA AdmitTyped ==
  ASSUME TypeOK, NEW t \in Threads, NEW n \in Names, NEW a \in BOOLEAN, Admit(t, n, a),
         Trigger(t) \/ UNCHANGED usageVars
  PROVE  TypeOK'
<1> USE StorageAssumption
<1>1. requests' \in 0..MaxRequests /\ requests + 1 \in Inodes
  BY DEF Admit, TypeOK, Inodes
<1>2. [name |-> n, id |-> requests + 1, announced |-> a] \in Request
  BY <1>1 DEF Request
<1>3. req' \in [Threads -> Request]
  BY <1>2 DEF Admit, TypeOK
<1>4. pc' \in [Threads -> {"idle", "open", "write", "quota", "replace"}]
  BY DEF Admit, TypeOK
<1>5. /\ cache' \in Nat \cup {None} /\ fresh' \in BOOLEAN
      /\ refreshing' \in BOOLEAN /\ unstarted' \in BOOLEAN
      /\ walk' \in [Threads -> Walk]
  BY TriggerTyped DEF usageVars, TypeOK
<1>6. FilesTyped'
  BY DEF FilesTyped, Admit, TypeOK, fileVars
<1>7. fd' = fd /\ next' = next /\ clearing' = clearing /\ faults' = faults
  BY DEF Admit
<1> QED
  BY <1>1, <1>3, <1>4, <1>5, <1>6, <1>7 DEF TypeOK, FilesTyped

\* Opening keeps the types.
LEMMA OpenTyped ==
  ASSUME TypeOK, Numbered, NEW t \in Threads, Open(t)
  PROVE  TypeOK'
<1> USE StorageAssumption
<1> DEFINE n == req[t].name
           i == IF part[n] = None THEN req[t].id ELSE part[n]
<1>1. n \in Names /\ i \in Inodes
  BY DEF Open, Numbered, TypeOK, Request
<1>2. Empty \in Content
  BY DEF Empty, Content
<1>3. disk' \in [Inodes -> Content] /\ part' \in [Names -> Inodes \cup {None}]
  BY <1>1, <1>2 DEF Open, TypeOK
<1>4. fd' \in [Threads -> Inodes] /\ next' \in [Threads -> 1..(Chunks + 1)]
  BY <1>1 DEF Open, TypeOK
<1>5. pc' \in [Threads -> {"idle", "open", "write", "quota", "replace"}]
  BY DEF Open, TypeOK
<1>6. overlapped' \subseteq Names /\ orphans' \subseteq Names
  BY <1>1 DEF Open, TypeOK
<1>7. UNCHANGED <<file, req, clearing, usageVars, requests, faults>>
  BY DEF Open
<1> QED
  BY <1>3, <1>4, <1>5, <1>6, <1>7 DEF TypeOK, usageVars

\* Writing a chunk keeps the types.
LEMMA WriteChunkTyped ==
  ASSUME TypeOK, Numbered, Progress, NEW t \in Threads, WriteChunk(t)
  PROVE  TypeOK'
<1> USE StorageAssumption
<1>1. next[t] \in 1..Chunks /\ fd[t] \in Inodes /\ req[t].id \in Inodes
  BY DEF WriteChunk, Progress, TypeOK, Request
<1>2. disk[fd[t]] \in Content
  BY <1>1 DEF TypeOK
<1>3. [disk[fd[t]] EXCEPT ![next[t]] = req[t].id] \in Content
  BY <1>1, <1>2 DEF Content
<1>4. disk' \in [Inodes -> Content]
  BY <1>1, <1>3 DEF WriteChunk, TypeOK
<1>5. next[t] + 1 \in 1..(Chunks + 1)
  BY <1>1
<1>6. next' \in [Threads -> 1..(Chunks + 1)]
  BY <1>5 DEF WriteChunk, TypeOK
<1>7. pc' \in [Threads -> {"idle", "open", "write", "quota", "replace"}]
  BY DEF WriteChunk, TypeOK
<1>8. UNCHANGED <<file, part, overlapped, orphans, req, fd, clearing, usageVars, requests, faults>>
  BY DEF WriteChunk
<1> QED
  BY <1>4, <1>6, <1>7, <1>8 DEF TypeOK, usageVars

\* The check of an upload that did not state its length keeps the types.
LEMMA CheckWrittenTyped ==
  ASSUME TypeOK, NEW t \in Threads, CheckWritten(t)
  PROVE  TypeOK'
<1>1. pc' \in [Threads -> {"idle", "open", "write", "quota", "replace"}]
  BY DEF CheckWritten, TypeOK
<1>2. /\ cache' \in Nat \cup {None} /\ fresh' \in BOOLEAN
      /\ refreshing' \in BOOLEAN /\ unstarted' \in BOOLEAN
      /\ walk' \in [Threads -> Walk]
  BY TriggerTyped DEF CheckWritten
<1>3. UNCHANGED <<fileVars, req, fd, next, clearing, requests, faults>>
  BY DEF CheckWritten
<1> QED
  BY <1>1, <1>2, <1>3 DEF TypeOK, fileVars

\* Giving up keeps the types.
LEMMA AbandonTyped ==
  ASSUME TypeOK, NEW t \in Threads, Abandon(t), faults' \in {faults, faults + 1},
         faults' <= MaxFaults, Trigger(t) \/ UNCHANGED usageVars
  PROVE  TypeOK'
<1> USE StorageAssumption
<1>1. /\ pc' \in [Threads -> {"idle", "open", "write", "quota", "replace"}]
      /\ req' \in [Threads -> Request] /\ fd' \in [Threads -> Inodes]
      /\ next' \in [Threads -> 1..(Chunks + 1)]
  BY EndTyped DEF Abandon
<1>2. part' \in [Names -> Inodes \cup {None}]
  BY DEF Abandon, TypeOK
<1>3. /\ cache' \in Nat \cup {None} /\ fresh' \in BOOLEAN
      /\ refreshing' \in BOOLEAN /\ unstarted' \in BOOLEAN
      /\ walk' \in [Threads -> Walk]
  BY TriggerTyped DEF usageVars, TypeOK
<1>4. faults' \in 0..MaxFaults
  BY DEF TypeOK
<1>5. UNCHANGED <<file, disk, overlapped, orphans, clearing, requests>>
  BY DEF Abandon
<1> QED
  BY <1>1, <1>2, <1>3, <1>4, <1>5 DEF TypeOK

\* Publishing keeps the types.
LEMMA PublishTyped ==
  ASSUME TypeOK, Numbered, NEW t \in Threads, Publish(t)
  PROVE  TypeOK'
<1>1. /\ pc' \in [Threads -> {"idle", "open", "write", "quota", "replace"}]
      /\ req' \in [Threads -> Request] /\ fd' \in [Threads -> Inodes]
      /\ next' \in [Threads -> 1..(Chunks + 1)]
  BY EndTyped DEF Publish
<1>2. req[t].name \in Names
  BY DEF Publish, Numbered
<1>3. part' \in [Names -> Inodes \cup {None}] /\ file' \in [Names -> Inodes \cup {None}]
  BY <1>2 DEF Publish, TypeOK
<1>4. UNCHANGED <<disk, overlapped, orphans, clearing, usageVars, requests, faults>>
  BY DEF Publish
<1> QED
  BY <1>1, <1>3, <1>4 DEF TypeOK, usageVars

\* Taking an entry away keeps the types.
LEMMA RemoveTyped ==
  ASSUME TypeOK, NEW e \in Entries, Remove(e)
  PROVE  FilesTyped'
BY DEF TypeOK, Entries, Remove, FilesTyped

\* Every step keeps the types.
LEMMA TypeStep ==
  ASSUME TypeOK, Numbered, Progress, [Next]_vars
  PROVE  TypeOK'
<1> USE StorageAssumption
<1>1. ASSUME NEW t \in Threads, BeginUpload(t) PROVE TypeOK'
  <2>1. PICK n \in Names, overwrite, announced \in BOOLEAN :
          /\ Admit(t, n, announced)
          /\ IF announced THEN Trigger(t) ELSE UNCHANGED usageVars
    BY <1>1 DEF BeginUpload
  <2> QED
    BY <2>1, AdmitTyped
<1>2. ASSUME NEW t \in Threads, BeginEdit(t) PROVE TypeOK'
  <2>1. PICK n \in Names : Admit(t, n, TRUE) /\ Trigger(t)
    BY <1>2 DEF BeginEdit
  <2> QED
    BY <2>1, AdmitTyped
<1>3. ASSUME NEW t \in Threads, Write(t) PROVE TypeOK'
  <2>1. CASE Open(t)
    BY <2>1, OpenTyped
  <2>2. CASE WriteChunk(t)
    BY <2>2, WriteChunkTyped
  <2>3. CASE CheckWritten(t)
    BY <2>3, CheckWrittenTyped
  <2>4. CASE OverQuota(t)
    <3>1. faults' <= MaxFaults
      BY <2>4 DEF OverQuota, TypeOK
    <3> QED
      BY <2>4, <3>1, AbandonTyped DEF OverQuota
  <2>5. CASE WriteFails(t)
    <3>1. faults' <= MaxFaults
      BY <2>5 DEF WriteFails, TypeOK
    <3> QED
      BY <2>5, <3>1, AbandonTyped DEF WriteFails
  <2>6. CASE Publish(t)
    BY <2>6, PublishTyped
  <2>7. CASE PartIsGone(t)
    <3>1. faults' <= MaxFaults
      BY <2>7 DEF PartIsGone, TypeOK
    <3> QED
      BY <2>7, <3>1, AbandonTyped DEF PartIsGone
  <2> QED
    BY <1>3, <2>1, <2>2, <2>3, <2>4, <2>5, <2>6, <2>7 DEF Write
<1>4. ASSUME NEW t \in Threads, Delete(t) PROVE TypeOK'
  <2>1. PICK e \in Entries : Remove(e)
    BY <1>4 DEF Delete, Present
  <2>2. FilesTyped'
    BY <2>1, RemoveTyped
  <2>3. requests' \in 0..MaxRequests
    BY <1>4 DEF Delete, TypeOK
  <2> QED
    BY <1>4, <2>2, <2>3 DEF Delete, FilesTyped, TypeOK, threadVars, usageVars
<1>5. CASE BeginClear
  BY <1>5 DEF BeginClear, TypeOK, Present, fileVars, threadVars, usageVars
<1>6. CASE ClearEntry
  <2>1. PICK e \in clearing :
          /\ clearing' = clearing \ {e}
          /\ Remove(e) \/ UNCHANGED fileVars
          /\ UNCHANGED <<threadVars, usageVars, requests, faults>>
    BY <1>6 DEF ClearEntry
  <2>2. e \in Entries /\ clearing' \subseteq Entries
    BY <2>1 DEF TypeOK
  <2>3. FilesTyped'
    BY <2>1, <2>2, RemoveTyped DEF FilesTyped, TypeOK, fileVars
  <2> QED
    BY <2>1, <2>2, <2>3 DEF FilesTyped, TypeOK, threadVars, usageVars
<1>7. CASE DashboardRestarts
  <2>1. NoWalk \in Walk /\ NoRequest \in Request /\ 0 \in Inodes /\ 1 \in 1..(Chunks + 1)
    BY DEF NoWalk, Walk, NoRequest, Request, Inodes
  <2>2. /\ walk' \in [Threads -> Walk] /\ req' \in [Threads -> Request]
        /\ fd' \in [Threads -> Inodes] /\ next' \in [Threads -> 1..(Chunks + 1)]
        /\ pc' \in [Threads -> {"idle", "open", "write", "quota", "replace"}]
    BY <1>7, <2>1 DEF DashboardRestarts
  <2>3. faults' \in 0..MaxFaults /\ orphans' \subseteq Names
    BY <1>7 DEF DashboardRestarts, TypeOK
  <2>4. /\ cache' = None /\ fresh' = FALSE /\ refreshing' = FALSE /\ unstarted' = FALSE
        /\ clearing' = {} /\ UNCHANGED <<file, part, disk, overlapped, requests>>
    BY <1>7 DEF DashboardRestarts
  <2> QED
    BY <2>2, <2>3, <2>4 DEF TypeOK
<1>8. CASE UNCHANGED vars
  BY <1>8 DEF vars, TypeOK, fileVars, threadVars, usageVars
<1>9. ASSUME NEW t \in Threads, AskUsage(t) \/ NoThread(t) \/ Refresh(t) PROVE TypeOK'
  BY <1>9, UsageKeepsTypes
<1>10. CASE Expire
  BY <1>10 DEF Expire, TypeOK, fileVars, threadVars
<1> QED
  BY <1>1, <1>2, <1>3, <1>4, <1>5, <1>6, <1>7, <1>8, <1>9, <1>10 DEF Next

-----------------------------------------------------------------------------
(* The shape of the files, kept by each kind of step. *)

\* Steps that touch no file and no request.
LEMMA ShapeFrame ==
  ASSUME TypeOK, Shape, UNCHANGED <<fileVars, threadVars>>, requests' \in {requests, requests + 1}
  PROVE  Shape'
<1>1. requests \in Nat /\ requests' \in Nat /\ requests <= requests'
  BY StorageAssumption DEF TypeOK
<1>2. \A t \in Threads, n \in Names : Writing(t, n)' <=> Writing(t, n)
  BY DEF Writing, threadVars
<1>3. \A n \in Names, i \in Inodes : Held(i, n)' <=> Held(i, n)
  BY <1>2 DEF Held, fileVars, threadVars
<1>4. Numbered'
  BY <1>1 DEF Shape, Numbered, threadVars, TypeOK, Request, Inodes
<1>5. Untouched'
  <2>1. \A n \in Names : \A i \in Inodes :
          Held(i, n)' => i <= requests' /\ \A t \in Threads : pc'[t] = "open" => req'[t].id # i
    BY <1>1, <1>3, StorageAssumption DEF Shape, Untouched, threadVars, Inodes
  <2> QED
    BY <2>1, <1>2 DEF Shape, Untouched, fileVars, threadVars
<1>6. Disjoint'
  BY <1>3 DEF Shape, Disjoint
<1>7. Lone' /\ Progress' /\ NoPartLeft'
  BY <1>2 DEF Shape, Lone, Progress, NoPartLeft, fileVars, threadVars
<1>8. PublishedIsWhole'
  BY DEF Shape, PublishedIsWhole, fileVars, Whole
<1> QED
  BY <1>4, <1>5, <1>6, <1>7, <1>8 DEF Shape

\* A request begins, under a number that no inode has.
LEMMA ShapeAdmit ==
  ASSUME TypeOK, Shape, NEW t \in Threads, NEW n \in Names, NEW a \in BOOLEAN, Admit(t, n, a)
  PROVE  Shape'
<1>1. /\ requests \in Nat /\ requests' = requests + 1
      /\ req'[t] = [name |-> n, id |-> requests + 1, announced |-> a]
      /\ pc'[t] = "open" /\ pc[t] = "idle"
      /\ \A s \in Threads \ {t} : pc'[s] = pc[s] /\ req'[s] = req[s]
      /\ UNCHANGED <<fileVars, fd, next>>
  BY StorageAssumption DEF Admit, TypeOK
<1>2. \A s \in Threads, m \in Names : Writing(s, m)' <=> Writing(s, m)
  BY <1>1 DEF Writing
<1>3. \A m \in Names, i \in Inodes : Held(i, m)' <=> Held(i, m)
  BY <1>1, <1>2 DEF Held, fileVars
<1>4. Numbered'
  <2>1. \A s \in Threads \ {t} : pc[s] # "idle" => req[s].id \in 1..requests
    BY DEF Shape, Numbered
  <2>2. \A s \in Threads : pc'[s] # "idle" => req'[s].name \in Names /\ req'[s].id \in 1..requests'
    BY <1>1 DEF Shape, Numbered
  <2>3. \A s, u \in Threads :
          pc'[s] # "idle" /\ pc'[u] # "idle" /\ req'[s].id = req'[u].id => s = u
    BY <1>1, <2>1 DEF Shape, Numbered
  <2> QED
    BY <2>2, <2>3 DEF Numbered
<1>5. Untouched'
  <2>1. ASSUME NEW m \in Names, NEW i \in Inodes, Held(i, m)'
        PROVE  i <= requests' /\ \A s \in Threads : pc'[s] = "open" => req'[s].id # i
    <3>1. Held(i, m) /\ i \in Nat
      BY <2>1, <1>3, StorageAssumption DEF Inodes
    <3>2. i <= requests /\ \A s \in Threads : pc[s] = "open" => req[s].id # i
      BY <3>1 DEF Shape, Untouched
    <3> QED
      BY <3>1, <3>2, <1>1
  <2>2. \A m \in Names : part'[m] # 0
    BY <1>1 DEF Shape, Untouched, fileVars
  <2>3. \A s \in Threads, m \in Names : Writing(s, m)' => fd'[s] # 0
    BY <1>1, <1>2 DEF Shape, Untouched
  <2> QED
    BY <2>1, <2>2, <2>3 DEF Untouched
<1>6. Disjoint'
  BY <1>3 DEF Shape, Disjoint
<1>7. Lone' /\ NoPartLeft'
  BY <1>1, <1>2 DEF Shape, Lone, NoPartLeft, fileVars
<1>8. Progress'
  <2>1. \A s \in Threads, m \in Names \ overlapped : Writing(s, m)' => s # t
    BY <1>1, <1>2 DEF Writing
  <2>2. \A s \in Threads, m \in Names \ overlapped :
          Writing(s, m)' => \A k \in 1..Chunks : k < next'[s] => disk'[fd'[s]][k] = req'[s].id
    BY <1>1, <1>2, <2>1 DEF Shape, Progress, fileVars
  <2>3. \A s \in Threads : pc'[s] = "write" => next'[s] <= Chunks
    BY <1>1 DEF Shape, Progress
  <2>4. \A s \in Threads : pc'[s] \in {"quota", "replace"} => next'[s] = Chunks + 1
    BY <1>1 DEF Shape, Progress
  <2> QED
    BY <1>1, <2>2, <2>3, <2>4 DEF Progress, fileVars
<1>9. PublishedIsWhole'
  BY <1>1 DEF Shape, PublishedIsWhole, fileVars, Whole
<1> QED
  BY <1>4, <1>5, <1>6, <1>7, <1>8, <1>9 DEF Shape

\* What opening a part file takes: an inode of its own, or the one that already
\* belongs to its name alone.
LEMMA OpenTakes ==
  ASSUME TypeOK, Shape, NEW t \in Threads, Open(t)
  PROVE  LET n == req[t].name
             i == IF part[n] = None THEN req[t].id ELSE part[n]
         IN  /\ n \in Names /\ i \in 1..requests /\ i \in Inodes
             /\ \A m \in Names : Held(i, m) => m = n
             /\ \A s \in Threads \ {t} : pc[s] = "open" => req[s].id # i
             /\ n \notin overlapped => i # file[n]
<1> DEFINE n == req[t].name
           i == IF part[n] = None THEN req[t].id ELSE part[n]
<1> USE StorageAssumption
<1>1. pc[t] = "open" /\ n \in Names /\ req[t].id \in 1..requests /\ requests \in 0..MaxRequests
  BY DEF Open, Shape, Numbered, TypeOK
<1>2. CASE part[n] = None
  <2>1. i = req[t].id /\ i \in Inodes
    BY <1>1, <1>2 DEF Inodes
  <2>2. \A m \in Names : ~Held(i, m)
    BY <1>1, <2>1 DEF Shape, Untouched
  <2>3. file[n] # i
    BY <1>1, <2>2 DEF Held
  <2>4. \A s \in Threads \ {t} : pc[s] = "open" => req[s].id # i
    BY <1>1, <2>1 DEF Shape, Numbered
  <2> QED
    BY <1>1, <2>1, <2>2, <2>3, <2>4
<1>3. CASE part[n] # None
  <2>1. i = part[n] /\ i \in Inodes /\ i # 0
    BY <1>1, <1>3 DEF TypeOK, Shape, Untouched
  <2>2. Held(i, n)
    BY <2>1 DEF Held
  <2>3. i <= requests /\ \A s \in Threads : pc[s] = "open" => req[s].id # i
    BY <1>1, <2>1, <2>2 DEF Shape, Untouched
  <2>4. \A m \in Names : Held(i, m) => m = n
    BY <1>1, <2>1, <2>2 DEF Shape, Disjoint
  <2>5. n \notin overlapped => i # file[n]
    BY <1>1, <1>3, <2>1 DEF Shape, Lone
  <2>6. i \in 1..requests
    BY <1>1, <2>1, <2>3 DEF Inodes
  <2> QED
    BY <1>1, <2>1, <2>3, <2>4, <2>5, <2>6
<1> QED
  BY <1>2, <1>3

\* An upload or an edit opens its part file.
LEMMA ShapeOpen ==
  ASSUME TypeOK, Shape, NEW t \in Threads, Open(t)
  PROVE  Shape'
<1> DEFINE n == req[t].name
           i == IF part[n] = None THEN req[t].id ELSE part[n]
<1> HIDE DEF i
<1>1. /\ n \in Names /\ i \in 1..requests /\ i \in Inodes
      /\ \A m \in Names : Held(i, m) => m = n
      /\ \A s \in Threads \ {t} : pc[s] = "open" => req[s].id # i
      /\ n \notin overlapped => i # file[n]
  BY OpenTakes DEF i
<1>2. /\ pc[t] = "open" /\ pc'[t] = "write" /\ fd'[t] = i /\ next'[t] = 1
      /\ \A s \in Threads \ {t} : pc'[s] = pc[s] /\ fd'[s] = fd[s] /\ next'[s] = next[s]
      /\ part' = [part EXCEPT ![n] = i] /\ disk' = [disk EXCEPT ![i] = Empty]
      /\ overlapped \subseteq overlapped'
      /\ (\E s \in Threads : Writing(s, n)) => n \in overlapped'
      /\ orphans' = orphans \ {n}
      /\ UNCHANGED <<file, req, requests>>
  BY DEF Open, TypeOK, i
<1>3. part'[n] = i /\ \A m \in Names \ {n} : part'[m] = part[m]
  BY <1>1, <1>2 DEF TypeOK
<1>4. \A j \in Inodes \ {i} : disk'[j] = disk[j]
  BY <1>1, <1>2 DEF TypeOK
<1>5. /\ \A m \in Names : ~Writing(t, m) /\ (Writing(t, m)' <=> m = n)
      /\ \A s \in Threads \ {t}, m \in Names : Writing(s, m)' <=> Writing(s, m)
  BY <1>2 DEF Writing
<1>6. \A m \in Names, j \in Inodes : Held(j, m)' => Held(j, m) \/ (m = n /\ j = i)
  BY <1>2, <1>3, <1>5 DEF Held
<1>7. Numbered'
  BY <1>2 DEF Shape, Numbered
<1>8. Untouched'
  <2>1. ASSUME NEW m \in Names, NEW j \in Inodes, Held(j, m)'
        PROVE  j <= requests' /\ \A s \in Threads : pc'[s] = "open" => req'[s].id # j
    <3>1. CASE Held(j, m)
      BY <3>1, <1>2 DEF Shape, Untouched
    <3>2. CASE j = i
      BY <3>2, <1>1, <1>2, StorageAssumption DEF TypeOK
    <3> QED
      BY <2>1, <3>1, <3>2, <1>6
  <2>2. \A m \in Names : part'[m] # 0
    BY <1>1, <1>3 DEF Shape, Untouched
  <2>3. \A s \in Threads, m \in Names : Writing(s, m)' => fd'[s] # 0
    BY <1>1, <1>2, <1>5 DEF Shape, Untouched
  <2> QED
    BY <2>1, <2>2, <2>3 DEF Untouched
<1>9. Disjoint'
  <2> SUFFICES ASSUME NEW m \in Names, NEW k \in Names, NEW j \in Inodes \ {0},
                      Held(j, m)', Held(j, k)'
               PROVE  m = k
    BY DEF Disjoint
  <2>1. CASE j = i
    BY <2>1, <1>1, <1>6
  <2>2. CASE j # i
    BY <2>2, <1>6 DEF Shape, Disjoint
  <2> QED
    BY <2>1, <2>2
<1>10. Lone'
  <2> SUFFICES ASSUME NEW m \in Names, m \notin overlapped'
               PROVE  /\ part'[m] # None => part'[m] # file'[m]
                      /\ \A s, u \in Threads : Writing(s, m)' /\ Writing(u, m)' => s = u
                      /\ \A s \in Threads :
                           Writing(s, m)' => part'[m] \in {None, fd'[s]} /\ fd'[s] # file'[m]
    BY DEF Lone
  <2>1. CASE m = n
    BY <2>1, <1>1, <1>2, <1>3, <1>5
  <2>2. CASE m # n
    <3>1. m \notin overlapped
      BY <1>2
    <3>2. part'[m] = part[m] /\ file'[m] = file[m]
      BY <2>2, <1>2, <1>3
    <3>3. \A s \in Threads : Writing(s, m)' => s # t /\ Writing(s, m) /\ fd'[s] = fd[s]
      BY <2>2, <1>2, <1>5
    <3> QED
      BY <3>1, <3>2, <3>3 DEF Shape, Lone
  <2> QED
    BY <2>1, <2>2
<1>11. Progress'
  <2>1. \A s \in Threads : pc'[s] = "write" => next'[s] <= Chunks
    BY <1>2, StorageAssumption DEF Shape, Progress
  <2>2. \A s \in Threads : pc'[s] \in {"quota", "replace"} => next'[s] = Chunks + 1
    BY <1>2 DEF Shape, Progress
  <2>3. ASSUME NEW s \in Threads, NEW m \in Names, m \notin overlapped', Writing(s, m)',
               NEW k \in 1..Chunks, k < next'[s]
        PROVE  disk'[fd'[s]][k] = req'[s].id
    <3>1. s # t
      BY <2>3, <1>2, StorageAssumption
    <3>2. Writing(s, m) /\ m # n /\ m \notin overlapped
      BY <2>3, <3>1, <1>2, <1>5
    <3>3. Held(fd[s], m) /\ fd[s] \in Inodes
      BY <3>2 DEF Held, TypeOK
    <3>4. fd[s] # i
      BY <3>2, <3>3, <1>1
    <3>5. disk[fd[s]][k] = req[s].id
      BY <2>3, <3>1, <3>2, <1>2 DEF Shape, Progress
    <3> QED
      BY <3>1, <3>3, <3>4, <3>5, <1>2, <1>4
  <2> QED
    BY <2>1, <2>2, <2>3 DEF Progress
<1>12. PublishedIsWhole'
  <2> SUFFICES ASSUME NEW m \in Names, m \notin overlapped', file'[m] # None
               PROVE  \E r \in Inodes : disk'[file'[m]] = Whole(r)
    BY DEF PublishedIsWhole, Whole
  <2>1. m \notin overlapped /\ file'[m] = file[m] /\ file[m] \in Inodes
    BY <1>2 DEF TypeOK
  <2>2. Held(file[m], m)
    BY DEF Held
  <2>3. file[m] # i
    BY <2>1, <2>2, <1>1
  <2> QED
    BY <2>1, <2>3, <1>4 DEF Shape, PublishedIsWhole
<1>13. NoPartLeft'
  <2> SUFFICES ASSUME NEW m \in Names, m \notin orphans', part'[m] # None
               PROVE  \E s \in Threads : Writing(s, m)'
    BY DEF NoPartLeft
  <2>1. CASE m = n
    BY <2>1, <1>5
  <2>2. CASE m # n
    <3>1. PICK s \in Threads : Writing(s, m)
      BY <2>2, <1>2, <1>3 DEF Shape, NoPartLeft
    <3> QED
      BY <3>1, <1>5
  <2> QED
    BY <2>1, <2>2
<1> QED
  BY <1>7, <1>8, <1>9, <1>10, <1>11, <1>12, <1>13 DEF Shape

\* A chunk is written, to an inode that is no other name's and not published.
LEMMA ShapeWriteChunk ==
  ASSUME TypeOK, Shape, NEW t \in Threads, WriteChunk(t)
  PROVE  Shape'
<1> DEFINE n == req[t].name
           i == fd[t]
<1>1. /\ pc[t] = "write" /\ pc'[t] \in {"write", "quota", "replace"}
      /\ \A s \in Threads \ {t} : pc'[s] = pc[s] /\ next'[s] = next[s]
      /\ next'[t] = next[t] + 1 /\ next[t] \in 1..Chunks
      /\ pc'[t] = "write" => next[t] < Chunks
      /\ pc'[t] \in {"quota", "replace"} => ~(next[t] < Chunks)
      /\ disk' = [disk EXCEPT ![i][next[t]] = req[t].id]
      /\ UNCHANGED <<file, part, overlapped, orphans, req, fd, requests>>
  <2>1. next[t] \in 1..Chunks
    BY StorageAssumption DEF WriteChunk, Shape, Progress, TypeOK
  <2>2. pc'[t] = IF next[t] < Chunks THEN "write"
                 ELSE IF req[t].announced THEN "replace" ELSE "quota"
    BY DEF WriteChunk, TypeOK
  <2>3. /\ pc'[t] \in {"write", "quota", "replace"}
        /\ pc'[t] = "write" => next[t] < Chunks
        /\ pc'[t] \in {"quota", "replace"} => ~(next[t] < Chunks)
    BY <2>2
  <2>4. next'[t] = next[t] + 1
    BY DEF WriteChunk, TypeOK
  <2> QED
    BY <2>1, <2>3, <2>4 DEF WriteChunk, TypeOK
<1>2. n \in Names /\ Writing(t, n) /\ i \in Inodes /\ i # 0
  BY <1>1 DEF Shape, Numbered, Untouched, Writing, TypeOK
<1>3. \A s \in Threads, m \in Names : Writing(s, m)' <=> Writing(s, m)
  BY <1>1 DEF Writing
<1>4. \A m \in Names, j \in Inodes : Held(j, m)' <=> Held(j, m)
  BY <1>1, <1>3 DEF Held
<1>5. Held(i, n) /\ \A m \in Names : Held(i, m) => m = n
  BY <1>2 DEF Held, Shape, Disjoint
<1>6. /\ \A j \in Inodes \ {i} : disk'[j] = disk[j]
      /\ \A k \in 1..Chunks : disk'[i][k] = IF k = next[t] THEN req[t].id ELSE disk[i][k]
  <2>1. disk[i] \in [1..Chunks -> Inodes \cup {None}] /\ disk \in [Inodes -> Content]
    BY <1>2 DEF TypeOK, Content
  <2> QED
    BY <2>1, <1>1, <1>2
<1>7. Numbered'
  BY <1>1 DEF Shape, Numbered
<1>8. Untouched'
  BY <1>1, <1>3, <1>4 DEF Shape, Untouched
<1>9. Disjoint'
  BY <1>4 DEF Shape, Disjoint
<1>10. Lone' /\ NoPartLeft'
  BY <1>1, <1>3 DEF Shape, Lone, NoPartLeft
<1>11. Progress'
  <2>1. \A s \in Threads : pc'[s] = "write" => next'[s] <= Chunks
    BY <1>1, StorageAssumption DEF Shape, Progress
  <2>2. \A s \in Threads : pc'[s] \in {"quota", "replace"} => next'[s] = Chunks + 1
    BY <1>1, StorageAssumption DEF Shape, Progress
  <2>3. ASSUME NEW s \in Threads, NEW m \in Names, m \notin overlapped', Writing(s, m)',
               NEW k \in 1..Chunks, k < next'[s]
        PROVE  disk'[fd'[s]][k] = req'[s].id
    <3>1. CASE s = t
      <4>1. m = n
        BY <3>1, <2>3, <1>1 DEF Writing
      <4>2. k # next[t] => k < next[t]
        BY <2>3, <3>1, <1>1, StorageAssumption
      <4>3. k < next[t] => disk[i][k] = req[t].id
        BY <2>3, <3>1, <1>1, <1>3 DEF Shape, Progress
      <4> QED
        BY <3>1, <4>2, <4>3, <1>1, <1>6
    <3>2. CASE s # t
      <4>1. Writing(s, m) /\ m \notin overlapped /\ fd[s] \in Inodes
        BY <2>3, <1>1, <1>3 DEF TypeOK
      <4>2. fd[s] # i
        <5> SUFFICES ASSUME fd[s] = i PROVE FALSE
          OBVIOUS
        <5>1. Held(i, m)
          BY <4>1 DEF Held
        <5>2. m = n
          BY <5>1, <1>5
        <5> QED
          BY <3>2, <4>1, <5>2, <1>2 DEF Shape, Lone
      <4>3. disk[fd[s]][k] = req[s].id
        BY <2>3, <3>2, <4>1, <1>1 DEF Shape, Progress
      <4> QED
        BY <4>1, <4>2, <4>3, <1>1, <1>6
    <3> QED
      BY <3>1, <3>2
  <2> QED
    BY <2>1, <2>2, <2>3 DEF Progress
<1>12. PublishedIsWhole'
  <2> SUFFICES ASSUME NEW m \in Names, m \notin overlapped', file'[m] # None
               PROVE  \E r \in Inodes : disk'[file'[m]] = Whole(r)
    BY DEF PublishedIsWhole, Whole
  <2>1. m \notin overlapped /\ file'[m] = file[m] /\ file[m] \in Inodes
    BY <1>1 DEF TypeOK
  <2>2. file[m] # i
    <3> SUFFICES ASSUME file[m] = i PROVE FALSE
      OBVIOUS
    <3>1. m = n
      BY <1>5 DEF Held
    <3> QED
      BY <2>1, <3>1, <1>2 DEF Shape, Lone
  <2> QED
    BY <2>1, <2>2, <1>6 DEF Shape, PublishedIsWhole
<1> QED
  BY <1>7, <1>8, <1>9, <1>10, <1>11, <1>12 DEF Shape

\* An upload passes the check of its length after it has been written.
LEMMA ShapeCheckWritten ==
  ASSUME TypeOK, Shape, NEW t \in Threads, CheckWritten(t)
  PROVE  Shape'
<1>1. /\ pc[t] = "quota" /\ pc'[t] = "replace"
      /\ \A s \in Threads \ {t} : pc'[s] = pc[s]
      /\ UNCHANGED <<fileVars, req, fd, next, requests>>
  BY DEF CheckWritten, TypeOK
<1>2. \A s \in Threads, m \in Names : Writing(s, m)' <=> Writing(s, m)
  BY <1>1 DEF Writing
<1>3. \A m \in Names, i \in Inodes : Held(i, m)' <=> Held(i, m)
  BY <1>1, <1>2 DEF Held, fileVars
<1>4. Numbered'
  BY <1>1 DEF Shape, Numbered
<1>5. Untouched'
  BY <1>1, <1>2, <1>3 DEF Shape, Untouched, fileVars
<1>6. Disjoint'
  BY <1>3 DEF Shape, Disjoint
<1>7. Lone' /\ NoPartLeft'
  BY <1>1, <1>2 DEF Shape, Lone, NoPartLeft, fileVars
<1>8. Progress'
  BY <1>1, <1>2 DEF Shape, Progress, fileVars
<1>9. PublishedIsWhole'
  BY <1>1 DEF Shape, PublishedIsWhole, fileVars, Whole
<1> QED
  BY <1>4, <1>5, <1>6, <1>7, <1>8, <1>9 DEF Shape

\* Steps after which less is held and fewer write, by requests that go on as
\* they were, and no name is a new one's.
LEMMA ShapeLess ==
  ASSUME TypeOK, Shape,
         requests' \in {requests, requests + 1},
         \A s \in Threads : pc'[s] = "idle" \/ (/\ pc'[s] = pc[s] /\ req'[s] = req[s]
                                               /\ fd'[s] = fd[s] /\ next'[s] = next[s]),
         \A m \in Names, i \in Inodes : Held(i, m)' => Held(i, m),
         \A m \in Names : part'[m] \in {None, part[m]}
  PROVE  Numbered' /\ Untouched' /\ Disjoint'
<1>1. requests \in Nat /\ requests' \in Nat /\ requests <= requests'
  BY StorageAssumption DEF TypeOK
<1>2. \A s \in Threads, m \in Names : Writing(s, m)' => Writing(s, m) /\ fd'[s] = fd[s]
  BY DEF Writing
<1>3. Numbered'
  BY <1>1 DEF Shape, Numbered, TypeOK, Request, Inodes
<1>4. Untouched'
  <2>1. ASSUME NEW m \in Names, NEW i \in Inodes, Held(i, m)'
        PROVE  i <= requests' /\ \A s \in Threads : pc'[s] = "open" => req'[s].id # i
    <3>1. i \in Nat /\ Held(i, m)
      BY <2>1, StorageAssumption DEF Inodes
    <3>2. i <= requests /\ \A s \in Threads : pc[s] = "open" => req[s].id # i
      BY <3>1 DEF Shape, Untouched
    <3>3. i <= requests'
      BY <3>1, <3>2, <1>1
    <3> QED
      BY <3>2, <3>3
  <2>2. \A m \in Names : part'[m] # 0
    BY StorageAssumption DEF Shape, Untouched
  <2>3. \A s \in Threads, m \in Names : Writing(s, m)' => fd'[s] # 0
    BY <1>2 DEF Shape, Untouched
  <2> QED
    BY <2>1, <2>2, <2>3 DEF Untouched
<1>5. Disjoint'
  BY DEF Shape, Disjoint
<1> QED
  BY <1>3, <1>4, <1>5

\* A name that two do not write at once is left to itself by the end of a request.
LEMMA ShapeAbandon ==
  ASSUME TypeOK, Shape, NEW t \in Threads, pc[t] # "idle", Abandon(t)
  PROVE  Shape'
<1> DEFINE n == req[t].name
<1>1. /\ n \in Names /\ pc'[t] = "idle"
      /\ \A s \in Threads \ {t} : /\ pc'[s] = pc[s] /\ req'[s] = req[s]
                                 /\ fd'[s] = fd[s] /\ next'[s] = next[s]
      /\ part'[n] = None /\ \A m \in Names \ {n} : part'[m] = part[m]
      /\ UNCHANGED <<file, disk, overlapped, orphans, requests>>
  BY DEF Abandon, EndRequest, TypeOK, Shape, Numbered
<1>2. /\ \A m \in Names : ~Writing(t, m)'
      /\ \A s \in Threads \ {t}, m \in Names : Writing(s, m)' <=> Writing(s, m)
  BY <1>1 DEF Writing
<1>3. \A m \in Names, i \in Inodes : Held(i, m)' => Held(i, m)
  <2> SUFFICES ASSUME NEW m \in Names, NEW i \in Inodes, Held(i, m)'
               PROVE  Held(i, m)
    OBVIOUS
  <2>1. i # None
    BY StorageAssumption DEF Inodes
  <2> QED
    BY <1>1, <1>2, <2>1 DEF Held
<1>4. Numbered' /\ Untouched' /\ Disjoint'
  BY <1>1, <1>3, ShapeLess
<1>5. Lone'
  BY <1>1, <1>2 DEF Shape, Lone
<1>6. Progress'
  <2>1. \A s \in Threads : pc'[s] \in {"write", "quota", "replace"} => s # t
    BY <1>1
  <2>2. \A s \in Threads, m \in Names \ overlapped :
          Writing(s, m)' => \A k \in 1..Chunks : k < next'[s] => disk'[fd'[s]][k] = req'[s].id
    BY <1>1, <1>2 DEF Shape, Progress
  <2> QED
    BY <1>1, <2>1, <2>2 DEF Shape, Progress
<1>7. PublishedIsWhole'
  BY <1>1 DEF Shape, PublishedIsWhole, Whole
<1>8. NoPartLeft'
  <2> SUFFICES ASSUME NEW m \in Names, m \notin orphans', part'[m] # None
               PROVE  \E s \in Threads : Writing(s, m)'
    BY DEF NoPartLeft
  <2>1. m # n /\ part[m] # None /\ m \notin orphans
    BY <1>1
  <2>2. PICK s \in Threads : Writing(s, m)
    BY <2>1 DEF Shape, NoPartLeft
  <2>3. s # t
    BY <2>1, <2>2 DEF Writing
  <2> QED
    BY <2>2, <2>3, <1>2
<1> QED
  BY <1>4, <1>5, <1>6, <1>7, <1>8 DEF Shape

\* The rename publishes what its request has written from beginning to end.
LEMMA ShapePublish ==
  ASSUME TypeOK, Shape, NEW t \in Threads, Publish(t)
  PROVE  Shape'
<1> DEFINE n == req[t].name
<1>1. /\ n \in Names /\ pc[t] = "replace" /\ pc'[t] = "idle"
      /\ \A s \in Threads \ {t} : /\ pc'[s] = pc[s] /\ req'[s] = req[s]
                                 /\ fd'[s] = fd[s] /\ next'[s] = next[s]
      /\ part[n] # None /\ part'[n] = None /\ \A m \in Names \ {n} : part'[m] = part[m]
      /\ file'[n] = part[n] /\ \A m \in Names \ {n} : file'[m] = file[m]
      /\ UNCHANGED <<disk, overlapped, orphans, requests>>
  BY DEF Publish, EndRequest, TypeOK, Shape, Numbered
<1>2. /\ Writing(t, n) /\ \A m \in Names : ~Writing(t, m)'
      /\ \A s \in Threads \ {t}, m \in Names : Writing(s, m)' <=> Writing(s, m)
  BY <1>1 DEF Writing
<1>3. \A m \in Names, i \in Inodes : Held(i, m)' => Held(i, m)
  <2> SUFFICES ASSUME NEW m \in Names, NEW i \in Inodes, Held(i, m)'
               PROVE  Held(i, m)
    OBVIOUS
  <2>1. i # None
    BY StorageAssumption DEF Inodes
  <2> QED
    BY <1>1, <1>2, <2>1 DEF Held
<1>4. Numbered' /\ Untouched' /\ Disjoint'
  BY <1>1, <1>3, ShapeLess
<1>5. Lone'
  <2> SUFFICES ASSUME NEW m \in Names, m \notin overlapped
               PROVE  /\ part'[m] # None => part'[m] # file'[m]
                      /\ \A s, u \in Threads : Writing(s, m)' /\ Writing(u, m)' => s = u
                      /\ \A s \in Threads :
                           Writing(s, m)' => part'[m] \in {None, fd'[s]} /\ fd'[s] # file'[m]
    BY <1>1 DEF Lone
  <2>1. CASE m = n
    <3>1. \A s \in Threads : ~Writing(s, m)'
      BY <2>1, <1>2 DEF Shape, Lone
    <3> QED
      BY <3>1, <2>1, <1>1
  <2>2. CASE m # n
    BY <2>2, <1>1, <1>2 DEF Shape, Lone
  <2> QED
    BY <2>1, <2>2
<1>6. Progress'
  <2>1. \A s \in Threads : pc'[s] \in {"write", "quota", "replace"} => s # t
    BY <1>1
  <2>2. \A s \in Threads, m \in Names \ overlapped :
          Writing(s, m)' => \A k \in 1..Chunks : k < next'[s] => disk'[fd'[s]][k] = req'[s].id
    BY <1>1, <1>2 DEF Shape, Progress
  <2> QED
    BY <1>1, <2>1, <2>2 DEF Shape, Progress
<1>7. PublishedIsWhole'
  <2> SUFFICES ASSUME NEW m \in Names, m \notin overlapped, file'[m] # None
               PROVE  \E r \in Inodes : disk'[file'[m]] = Whole(r)
    BY <1>1 DEF PublishedIsWhole, Whole
  <2>1. CASE m = n
    <3>1. file'[m] = fd[t] /\ fd[t] \in Inodes
      BY <2>1, <1>1, <1>2 DEF Shape, Lone, TypeOK
    <3>2. next[t] = Chunks + 1
      BY <1>1 DEF Shape, Progress
    <3>3. \A k \in 1..Chunks : k < next[t]
      BY <3>2, StorageAssumption
    <3>4. \A k \in 1..Chunks : disk[fd[t]][k] = req[t].id
      BY <2>1, <3>3, <1>1, <1>2 DEF Shape, Progress
    <3>5. disk[fd[t]] \in [1..Chunks -> Inodes \cup {None}]
      BY <3>1 DEF TypeOK, Content
    <3>6. disk[fd[t]] = Whole(req[t].id) /\ req[t].id \in Inodes
      BY <3>4, <3>5 DEF Whole, TypeOK, Request
    <3> QED
      BY <3>1, <3>6, <1>1
  <2>2. CASE m # n
    BY <2>2, <1>1 DEF Shape, PublishedIsWhole
  <2> QED
    BY <2>1, <2>2
<1>8. NoPartLeft'
  <2> SUFFICES ASSUME NEW m \in Names, m \notin orphans', part'[m] # None
               PROVE  \E s \in Threads : Writing(s, m)'
    BY DEF NoPartLeft
  <2>1. m # n /\ part[m] # None /\ m \notin orphans
    BY <1>1
  <2>2. PICK s \in Threads : Writing(s, m)
    BY <2>1 DEF Shape, NoPartLeft
  <2>3. s # t
    BY <2>1, <2>2 DEF Writing
  <2> QED
    BY <2>2, <2>3, <1>2
<1> QED
  BY <1>4, <1>5, <1>6, <1>7, <1>8 DEF Shape

\* Somebody takes an entry away.
LEMMA ShapeRemove ==
  ASSUME TypeOK, Shape, NEW e \in Entries, Remove(e), UNCHANGED threadVars,
         requests' \in {requests, requests + 1}
  PROVE  Shape'
<1>1. /\ \A m \in Names : file'[m] \in {None, file[m]} /\ part'[m] \in {None, part[m]}
      /\ UNCHANGED <<disk, overlapped, orphans, threadVars>>
  BY DEF Remove, TypeOK, Entries
<1>2. \A s \in Threads, m \in Names : Writing(s, m)' <=> Writing(s, m)
  BY <1>1 DEF Writing, threadVars
<1>3. \A m \in Names, i \in Inodes : Held(i, m)' => Held(i, m)
  <2> SUFFICES ASSUME NEW m \in Names, NEW i \in Inodes, Held(i, m)'
               PROVE  Held(i, m)
    OBVIOUS
  <2>1. i # None
    BY StorageAssumption DEF Inodes
  <2> QED
    BY <1>1, <1>2, <2>1 DEF Held, threadVars
<1>4. Numbered' /\ Untouched' /\ Disjoint'
  BY <1>1, <1>3, ShapeLess DEF threadVars
<1>5. Lone'
  <2>1. \A s \in Threads : fd[s] # None
    BY StorageAssumption DEF TypeOK, Inodes
  <2> QED
    BY <1>1, <1>2, <2>1 DEF Shape, Lone, threadVars
<1>6. Progress'
  BY <1>1, <1>2 DEF Shape, Progress, threadVars
<1>7. PublishedIsWhole'
  BY <1>1 DEF Shape, PublishedIsWhole, Whole
<1>8. NoPartLeft'
  BY <1>1, <1>2 DEF Shape, NoPartLeft
<1> QED
  BY <1>4, <1>5, <1>6, <1>7, <1>8 DEF Shape

\* A restart ends every request and leaves the part files.
LEMMA ShapeRestart ==
  ASSUME TypeOK, Shape, DashboardRestarts
  PROVE  Shape'
<1>1. /\ \A s \in Threads : pc'[s] = "idle"
      /\ orphans' = {m \in Names : part[m] # None}
      /\ UNCHANGED <<file, part, disk, overlapped, requests>>
  BY DEF DashboardRestarts
<1>2. \A s \in Threads, m \in Names : ~Writing(s, m)'
  BY <1>1 DEF Writing
<1>3. \A m \in Names, i \in Inodes : Held(i, m)' => Held(i, m)
  BY <1>1, <1>2 DEF Held
<1>4. Numbered' /\ Untouched' /\ Disjoint'
  BY <1>1, <1>3, ShapeLess
<1>5. Lone' /\ Progress'
  BY <1>1, <1>2 DEF Shape, Lone, Progress
<1>6. PublishedIsWhole'
  BY <1>1 DEF Shape, PublishedIsWhole, Whole
<1>7. NoPartLeft'
  BY <1>1 DEF NoPartLeft
<1> QED
  BY <1>4, <1>5, <1>6, <1>7 DEF Shape

\* Every step keeps the shape.
LEMMA ShapeStep ==
  ASSUME TypeOK, Shape, [Next]_vars
  PROVE  Shape'
<1>1. ASSUME NEW t \in Threads, BeginUpload(t) PROVE Shape'
  <2>1. PICK n \in Names, overwrite, announced \in BOOLEAN : Admit(t, n, announced)
    BY <1>1 DEF BeginUpload
  <2> QED
    BY <2>1, ShapeAdmit
<1>2. ASSUME NEW t \in Threads, BeginEdit(t) PROVE Shape'
  <2>1. PICK n \in Names : Admit(t, n, TRUE)
    BY <1>2 DEF BeginEdit
  <2> QED
    BY <2>1, ShapeAdmit
<1>3. ASSUME NEW t \in Threads, Write(t) PROVE Shape'
  <2>1. CASE Open(t)
    BY <2>1, ShapeOpen
  <2>2. CASE WriteChunk(t)
    BY <2>2, ShapeWriteChunk
  <2>3. CASE CheckWritten(t)
    BY <2>3, ShapeCheckWritten
  <2>4. CASE OverQuota(t)
    BY <2>4, ShapeAbandon DEF OverQuota
  <2>5. CASE WriteFails(t)
    BY <2>5, ShapeAbandon DEF WriteFails
  <2>6. CASE Publish(t)
    BY <2>6, ShapePublish
  <2>7. CASE PartIsGone(t)
    BY <2>7, ShapeAbandon DEF PartIsGone
  <2> QED
    BY <1>3, <2>1, <2>2, <2>3, <2>4, <2>5, <2>6, <2>7 DEF Write
<1>4. ASSUME NEW t \in Threads, Delete(t) PROVE Shape'
  <2>1. PICK e \in Entries : Remove(e)
    BY <1>4 DEF Delete, Present
  <2> QED
    BY <1>4, <2>1, ShapeRemove DEF Delete
<1>5. CASE BeginClear
  BY <1>5, ShapeFrame DEF BeginClear
<1>6. CASE ClearEntry
  <2>1. PICK e \in clearing :
          /\ Remove(e) \/ UNCHANGED fileVars
          /\ UNCHANGED <<threadVars, usageVars, requests, faults>>
    BY <1>6 DEF ClearEntry
  <2>2. e \in Entries
    BY <2>1 DEF TypeOK
  <2> QED
    BY <2>1, <2>2, ShapeRemove, ShapeFrame
<1>7. CASE DashboardRestarts
  BY <1>7, ShapeRestart
<1>8. CASE UNCHANGED vars
  BY <1>8, ShapeFrame DEF vars
<1>9. ASSUME NEW t \in Threads, AskUsage(t) \/ NoThread(t) PROVE Shape'
  BY <1>9, ShapeFrame DEF AskUsage, NoThread
<1>10. ASSUME NEW t \in Threads, Refresh(t) PROVE Shape'
  BY <1>10, ShapeFrame DEF Refresh, WalkList, WalkStat, WalkStore, WalkFails, WalkDiscard
<1>11. CASE Expire
  BY <1>11, ShapeFrame DEF Expire
<1> QED
  BY <1>1, <1>2, <1>3, <1>4, <1>5, <1>6, <1>7, <1>8, <1>9, <1>10, <1>11 DEF Next

\* At the start there is at most a whole file under each name.
LEMMA InitShape == Init => IInv
<1> SUFFICES ASSUME Init PROVE IInv
  OBVIOUS
<1> USE StorageAssumption
<1>1. 0 \in Inodes /\ 1 \in 1..(Chunks + 1) /\ Whole(0) \in Content /\ Empty \in Content
  BY DEF Inodes, Whole, Content, Empty
<1>2. NoRequest \in Request /\ NoWalk \in Walk
  BY DEF NoRequest, Request, NoWalk, Walk, Inodes
<1>3. TypeOK
  <2>1. file \in [Names -> Inodes \cup {None}] /\ part \in [Names -> Inodes \cup {None}]
    BY <1>1 DEF Init
  <2>2. disk \in [Inodes -> Content]
    BY <1>1 DEF Init
  <2>3. /\ pc \in [Threads -> {"idle", "open", "write", "quota", "replace"}]
        /\ req \in [Threads -> Request] /\ fd \in [Threads -> Inodes]
        /\ next \in [Threads -> 1..(Chunks + 1)] /\ walk \in [Threads -> Walk]
    BY <1>1, <1>2 DEF Init
  <2>4. fresh \in BOOLEAN /\ refreshing \in BOOLEAN /\ unstarted \in BOOLEAN
    BY DEF Init
  <2>5. clearing \subseteq Entries /\ overlapped \subseteq Names /\ orphans \subseteq Names
    BY DEF Init
  <2>6. cache \in Nat \cup {None} /\ requests \in 0..MaxRequests /\ faults \in 0..MaxFaults
    BY DEF Init
  <2> QED
    BY <2>1, <2>2, <2>3, <2>4, <2>5, <2>6 DEF TypeOK
<1>4. \A s \in Threads : pc[s] = "idle"
  BY DEF Init
<1>5. \A s \in Threads, m \in Names : ~Writing(s, m)
  BY <1>4 DEF Writing
<1>6. \A n \in Names : part[n] = None /\ file[n] \in {0, None}
  BY DEF Init
<1>7. \A m \in Names, i \in Inodes : Held(i, m) => i = 0
  BY <1>5, <1>6 DEF Held, Inodes
<1>8. Numbered /\ Untouched /\ Disjoint
  BY <1>4, <1>5, <1>6, <1>7 DEF Numbered, Untouched, Disjoint, Init
<1>9. Lone /\ Progress /\ NoPartLeft
  BY <1>4, <1>5, <1>6 DEF Lone, Progress, NoPartLeft
<1>10. PublishedIsWhole
  <2>1. disk[0] = Whole(0)
    BY <1>1 DEF Init
  <2> QED
    BY <1>1, <1>6, <2>1 DEF PublishedIsWhole
<1> QED
  BY <1>3, <1>8, <1>9, <1>10 DEF IInv, Shape

\* What a published file holds, no step changes: whoever writes has an inode that
\* is not published.
LEMMA FrozenStep ==
  ASSUME TypeOK, Shape, [Next]_vars,
         NEW n \in Names \ overlapped, file[n] # None, file'[n] = file[n]
  PROVE  disk'[file[n]] = disk[file[n]]
<1> USE StorageAssumption
<1>1. file[n] \in Inodes /\ Held(file[n], n)
  BY DEF TypeOK, Held
<1>2. ASSUME NEW t \in Threads, Open(t) PROVE disk'[file[n]] = disk[file[n]]
  <2> DEFINE i == IF part[req[t].name] = None THEN req[t].id ELSE part[req[t].name]
  <2>1. /\ i \in Inodes /\ \A m \in Names : Held(i, m) => m = req[t].name
        /\ req[t].name \notin overlapped => i # file[req[t].name]
    BY <1>2, OpenTakes
  <2>2. disk' = [disk EXCEPT ![i] = Empty]
    BY <1>2 DEF Open
  <2> HIDE DEF i
  <2>3. file[n] # i
    BY <1>1, <2>1
  <2> QED
    BY <1>1, <2>1, <2>2, <2>3 DEF TypeOK
<1>3. ASSUME NEW t \in Threads, WriteChunk(t) PROVE disk'[file[n]] = disk[file[n]]
  <2>1. /\ req[t].name \in Names /\ Writing(t, req[t].name) /\ fd[t] \in Inodes /\ fd[t] # 0
    BY <1>3 DEF WriteChunk, Shape, Numbered, Untouched, Writing, TypeOK
  <2>2. Held(fd[t], req[t].name)
    BY <2>1 DEF Held
  <2>3. file[n] # fd[t]
    <3> SUFFICES ASSUME file[n] = fd[t] PROVE FALSE
      OBVIOUS
    <3>1. n = req[t].name
      BY <1>1, <2>1, <2>2 DEF Shape, Disjoint
    <3> QED
      BY <2>1, <3>1 DEF Shape, Lone
  <2>4. disk' = [disk EXCEPT ![fd[t]][next[t]] = req[t].id]
    BY <1>3 DEF WriteChunk
  <2> QED
    BY <1>1, <2>1, <2>3, <2>4 DEF TypeOK
<1>4. CASE disk' = disk
  BY <1>4
<1>5. ASSUME NEW t \in Threads, Write(t) PROVE disk'[file[n]] = disk[file[n]]
  BY <1>2, <1>3, <1>5
     DEF Write, CheckWritten, OverQuota, WriteFails, Publish, PartIsGone, Abandon, fileVars
<1>6. ASSUME NEW t \in Threads,
             BeginUpload(t) \/ BeginEdit(t) \/ Delete(t) \/ AskUsage(t) \/ NoThread(t)
      PROVE  disk' = disk
  BY <1>6 DEF BeginUpload, BeginEdit, Admit, Delete, Remove, AskUsage, NoThread, fileVars
<1>7. ASSUME NEW t \in Threads, Refresh(t) PROVE disk' = disk
  BY <1>7 DEF Refresh, WalkList, WalkStat, WalkStore, WalkFails, WalkDiscard, fileVars
<1>8. ASSUME Expire \/ BeginClear \/ ClearEntry \/ DashboardRestarts \/ UNCHANGED vars
      PROVE  disk' = disk
  BY <1>8 DEF Expire, BeginClear, ClearEntry, Remove, DashboardRestarts, vars, fileVars
<1> QED
  BY <1>4, <1>5, <1>6, <1>7, <1>8 DEF Next

-----------------------------------------------------------------------------
(* The store without inodes and part files. *)

\* What the steps are, to the names: those in between touch no file and no request.
Between ==
  /\ UNCHANGED <<fileVars, req>> /\ requests' \in {requests, requests + 1}
  /\ \A t \in Threads : pc'[t] = pc[t] \/ (pc[t] # "idle" /\ pc'[t] # "idle")

Removal(e) ==
  Remove(e) /\ UNCHANGED threadVars /\ requests' \in {requests, requests + 1}

LEMMA StepKinds ==
  ASSUME TypeOK, [Next]_vars
  PROVE  \/ \E t \in Threads, n \in Names, a \in BOOLEAN : Admit(t, n, a)
         \/ \E t \in Threads : \/ Open(t) \/ WriteChunk(t) \/ Publish(t)
                               \/ pc[t] # "idle" /\ Abandon(t)
         \/ \E e \in Entries : Removal(e)
         \/ DashboardRestarts \/ Between
<1>1. ASSUME NEW t \in Threads, BeginUpload(t) \/ BeginEdit(t)
      PROVE  \E n \in Names, a \in BOOLEAN : Admit(t, n, a)
  BY <1>1 DEF BeginUpload, BeginEdit
<1>2. ASSUME NEW t \in Threads, CheckWritten(t) PROVE Between
  BY <1>2 DEF CheckWritten, Between, TypeOK
<1>3. ASSUME NEW t \in Threads, OverQuota(t) \/ WriteFails(t) \/ PartIsGone(t)
      PROVE  pc[t] # "idle" /\ Abandon(t)
  BY <1>3 DEF OverQuota, WriteFails, PartIsGone
<1>4. ASSUME NEW t \in Threads, Write(t)
      PROVE  \/ Open(t) \/ WriteChunk(t) \/ Publish(t) \/ (pc[t] # "idle" /\ Abandon(t)) \/ Between
  BY <1>2, <1>3, <1>4 DEF Write
<1>5. ASSUME NEW t \in Threads, Delete(t) PROVE \E e \in Entries : Removal(e)
  BY <1>5 DEF Delete, Present, Removal
<1>6. CASE ClearEntry
  <2>1. PICK e \in clearing :
          (Remove(e) \/ UNCHANGED fileVars) /\ UNCHANGED <<threadVars, usageVars, requests, faults>>
    BY <1>6 DEF ClearEntry
  <2>2. e \in Entries
    BY <2>1 DEF TypeOK
  <2> QED
    BY <2>1, <2>2 DEF Removal, Between, threadVars
<1>7. ASSUME NEW t \in Threads, AskUsage(t) \/ NoThread(t) PROVE Between
  BY <1>7 DEF AskUsage, NoThread, Between, threadVars
<1>8. ASSUME NEW t \in Threads, Refresh(t) PROVE Between
  BY <1>8 DEF Refresh, WalkList, WalkStat, WalkStore, WalkFails, WalkDiscard, Between, threadVars
<1>9. ASSUME Expire \/ BeginClear \/ UNCHANGED vars PROVE Between
  BY <1>9 DEF Expire, BeginClear, vars, Between, threadVars
<1> QED
  BY <1>1, <1>4, <1>5, <1>6, <1>7, <1>8, <1>9 DEF Next

\* An idle thread is at no request.
Quiet == \A t \in Threads : pc[t] = "idle" => req[t] = NoRequest

\* No inode holds what has not been asked for.
Stamped ==
  \A i \in Inodes : \A k \in 1..Chunks : disk[i][k] # None => disk[i][k] <= requests

StoreInv == IInv /\ Quiet /\ Stamped

\* Every step keeps the requests and their stamps.
LEMMA StoreInvStep ==
  ASSUME IInv, Quiet, Stamped, [Next]_vars
  PROVE  Quiet' /\ Stamped'
<1> USE StorageAssumption
<1>0. TypeOK /\ requests \in Nat
  BY DEF IInv, TypeOK
<1>1. ASSUME disk' = disk, requests' \in {requests, requests + 1} PROVE Stamped'
  <2>1. \A i \in Inodes : \A k \in 1..Chunks : disk[i][k] # None => disk[i][k] \in Nat
    BY <1>0 DEF TypeOK, Content, Inodes
  <2> QED
    BY <1>0, <1>1, <2>1 DEF Stamped
<1>2. ASSUME NEW t \in Threads, NEW n \in Names, NEW a \in BOOLEAN, Admit(t, n, a)
      PROVE  Quiet' /\ Stamped'
  <2>1. Quiet'
    BY <1>0, <1>2 DEF Admit, Quiet, TypeOK
  <2> QED
    BY <1>1, <1>2, <2>1 DEF Admit, fileVars
<1>3. ASSUME NEW t \in Threads, Open(t) PROVE Quiet' /\ Stamped'
  <2> DEFINE i == IF part[req[t].name] = None THEN req[t].id ELSE part[req[t].name]
  <2>1. Quiet'
    BY <1>0, <1>3 DEF Open, Quiet, TypeOK
  <2>2. i \in Inodes
    BY <1>0, <1>3, OpenTakes DEF IInv
  <2>3. disk' = [disk EXCEPT ![i] = Empty] /\ requests' = requests
    BY <1>3 DEF Open
  <2> HIDE DEF i
  <2>4. \A j \in Inodes : disk'[j] = disk[j] \/ disk'[j] = Empty
    BY <1>0, <2>2, <2>3 DEF TypeOK
  <2>5. Stamped'
    BY <2>3, <2>4 DEF Stamped, Empty
  <2> QED
    BY <2>1, <2>5
<1>4. ASSUME NEW t \in Threads, WriteChunk(t) PROVE Quiet' /\ Stamped'
  <2>1. Quiet'
    BY <1>0, <1>4 DEF WriteChunk, Quiet, TypeOK
  <2>2. req[t].id \in 1..requests /\ fd[t] \in Inodes
    BY <1>0, <1>4 DEF WriteChunk, IInv, Shape, Numbered, TypeOK
  <2>3. disk' = [disk EXCEPT ![fd[t]][next[t]] = req[t].id] /\ requests' = requests
    BY <1>4 DEF WriteChunk
  <2>4. \A j \in Inodes : \A k \in 1..Chunks : disk'[j][k] = disk[j][k] \/ disk'[j][k] = req[t].id
    BY <1>0, <2>2, <2>3 DEF TypeOK, Content
  <2>5. Stamped'
    BY <1>0, <2>2, <2>3, <2>4 DEF Stamped
  <2> QED
    BY <2>1, <2>5
<1>5. ASSUME NEW t \in Threads, Publish(t) \/ Abandon(t) PROVE Quiet' /\ Stamped'
  <2>1. Quiet'
    BY <1>0, <1>5 DEF Publish, Abandon, EndRequest, Quiet, TypeOK
  <2> QED
    BY <1>1, <1>5, <2>1 DEF Publish, Abandon
<1>6. ASSUME NEW e \in Entries, Removal(e) PROVE Quiet' /\ Stamped'
  BY <1>1, <1>6 DEF Removal, Remove, Quiet, threadVars
<1>7. CASE DashboardRestarts
  BY <1>1, <1>7 DEF DashboardRestarts, Quiet
<1>8. CASE Between
  BY <1>1, <1>8 DEF Between, Quiet, fileVars
<1> QED
  BY <1>0, <1>2, <1>3, <1>4, <1>5, <1>6, <1>7, <1>8, StepKinds

\* The store's view of the names and of the requests under way.
Holds   == [n \in Names |-> Published(n)]
Pending == [t \in Threads |-> [name |-> req[t].name, id |-> req[t].id]]

\* A name that keeps its inode keeps its content.
LEMMA PublishedStays ==
  ASSUME IInv, [Next]_vars, NEW n \in Names, file'[n] = file[n],
         n \in overlapped' <=> n \in overlapped
  PROVE  Published(n)' = Published(n)
<1>1. CASE n \in overlapped \/ file[n] = None
  BY <1>1 DEF Published
<1>2. CASE n \notin overlapped /\ file[n] # None
  <2>1. disk'[file[n]] = disk[file[n]]
    BY <1>2, FrozenStep DEF IInv
  <2> QED
    BY <2>1 DEF Published, Whole
<1> QED
  BY <1>1, <1>2

\* What a name holds is a request that has been made.
LEMMA PublishedTyped ==
  ASSUME TypeOK, Stamped, NEW n \in Names
  PROVE  /\ Published(n) \in Inodes \cup {None}
         /\ Published(n) # None => Published(n) <= requests
<1>1. CASE Published(n) = None
  BY <1>1
<1>2. CASE Published(n) # None
  <2>1. file[n] \in Inodes /\ Published(n) = disk[file[n]][1]
    BY <1>2 DEF Published, TypeOK
  <2>2. 1 \in 1..Chunks
    BY StorageAssumption
  <2>3. disk[file[n]][1] \in Inodes \cup {None}
    <3>1. disk[file[n]] \in Content
      BY <2>1 DEF TypeOK
    <3> QED
      BY <2>2, <3>1 DEF Content
  <2>4. disk[file[n]][1] # None => disk[file[n]][1] <= requests
    BY <2>1, <2>2 DEF Stamped
  <2> QED
    BY <1>2, <2>1, <2>3, <2>4
<1> QED
  BY <1>1, <1>2

\* A request is admitted: the store begins a write under a number nobody has.
LEMMA AdmitBegins ==
  ASSUME StoreInv, [Next]_vars, NEW t \in Threads, NEW n \in Names, NEW a \in BOOLEAN,
         Admit(t, n, a)
  PROVE  Store!Begin(t)
<1> USE StorageAssumption
<1>1. TypeOK /\ Stamped /\ IInv /\ requests \in Nat
  BY DEF StoreInv, IInv, TypeOK
<1>2. /\ req'[t] = [name |-> n, id |-> requests + 1, announced |-> a]
      /\ req[t] = NoRequest
      /\ \A s \in Threads \ {t} : req'[s] = req[s]
      /\ requests + 1 \in Inodes /\ UNCHANGED <<file, overlapped>>
  BY <1>1 DEF Admit, StoreInv, Quiet, TypeOK, fileVars, Inodes
<1>3. \A m \in Names : Published(m)' = Published(m)
  BY <1>1, <1>2, PublishedStays
<1>4. Holds' = Holds
  BY <1>3 DEF Holds
<1>5. \A m \in Names : Holds[m] # requests + 1
  BY <1>1, PublishedTyped DEF Holds, Inodes
<1>6. \A s \in Threads : Pending[s].id # requests + 1
  <2>1. \A s \in Threads : req[s].id \in 0..requests
    BY <1>1 DEF StoreInv, IInv, Shape, Numbered, Quiet, NoRequest
  <2> QED
    BY <1>1, <2>1 DEF Pending
<1>7. Pending' = [Pending EXCEPT ![t] = [name |-> n, id |-> requests + 1]]
  <2>1. req'[t].name = n /\ req'[t].id = requests + 1
    BY <1>2
  <2> QED
    BY <1>2, <2>1 DEF Pending
<1>8. Pending[t] = [name |-> None, id |-> 0]
  BY <1>2 DEF Pending, NoRequest
<1> QED
  BY <1>2, <1>4, <1>5, <1>6, <1>7, <1>8 DEF Store!Begin, Store!Fresh, Store!NoWrite, Holds, Pending

\* A part file is opened: nothing, or two requests spoil their name.
LEMMA OpenTears ==
  ASSUME StoreInv, [Next]_vars, NEW t \in Threads, Open(t)
  PROVE  UNCHANGED Store!vars \/ Store!Tear(req[t].name)
<1>0. PICK n \in Names : n = req[t].name
  BY DEF StoreInv, IInv, Shape, Numbered, Open
<1>1. IInv /\ TypeOK /\ n \in Names /\ UNCHANGED <<file, req>>
  BY <1>0 DEF StoreInv, IInv, Shape, Numbered, Open
<1>2. overlapped' = IF \E s \in Threads : Writing(s, n) THEN overlapped \cup {n} ELSE overlapped
  BY <1>0 DEF Open
<1>3. CASE overlapped' = overlapped
  <2>1. \A m \in Names : Published(m)' = Published(m)
    BY <1>1, <1>3, PublishedStays
  <2> QED
    BY <1>1, <1>3, <2>1 DEF Store!vars
<1>4. CASE overlapped' # overlapped
  <2>1. PICK s \in Threads : Writing(s, n)
    BY <1>2, <1>4
  <2>2. overlapped' = overlapped \cup {n} /\ n \notin overlapped
    BY <1>2, <1>4
  <2>3. s # t /\ req[s].name = n
    BY <1>0, <2>1 DEF Writing, Open
  <2>4. \A m \in Names \ {n} : Published(m)' = Published(m)
    BY <1>1, <2>2, PublishedStays
  <2>5. Published(n)' = None
    BY <2>2 DEF Published
  <2>6. Holds' = [Holds EXCEPT ![n] = None]
    BY <1>1, <2>4, <2>5 DEF Holds
  <2>7. Pending' = Pending /\ Pending[s].name = n /\ Pending[t].name = n
    BY <1>0, <1>1, <2>3 DEF Pending
  <2> QED
    BY <1>0, <2>2, <2>3, <2>6, <2>7 DEF Store!Tear, Holds, Pending
<1> QED
  BY <1>3, <1>4

\* The end of a request, to the store.
LEMMA EndEnds ==
  ASSUME StoreInv, NEW t \in Threads, pc[t] # "idle", EndRequest(t)
  PROVE  /\ Pending[t] = [name |-> req[t].name, id |-> req[t].id]
         /\ Pending[t] # Store!NoWrite
         /\ Pending' = [Pending EXCEPT ![t] = Store!NoWrite]
<1>1. req[t].name \in Names /\ TypeOK
  BY DEF StoreInv, IInv, Shape, Numbered
<1>2. Pending[t] = [name |-> req[t].name, id |-> req[t].id]
  BY DEF Pending
<1>3. Pending[t] # Store!NoWrite
  <2>1. Pending[t].name # Store!NoWrite.name
    BY <1>1, <1>2, StorageAssumption DEF Store!NoWrite
  <2> QED
    BY <2>1
<1>4. req'[t].name = None /\ req'[t].id = 0 /\ \A s \in Threads \ {t} : req'[s] = req[s]
  BY <1>1 DEF EndRequest, NoRequest, TypeOK
<1>5. Pending' = [Pending EXCEPT ![t] = Store!NoWrite]
  BY <1>4 DEF Pending, Store!NoWrite
<1> QED
  BY <1>2, <1>3, <1>5

\* A request that gives up has changed nothing.
LEMMA AbandonFails ==
  ASSUME StoreInv, [Next]_vars, NEW t \in Threads, pc[t] # "idle", Abandon(t)
  PROVE  Store!Fail(t)
<1>1. UNCHANGED <<file, overlapped>> /\ EndRequest(t) /\ IInv
  BY DEF Abandon, StoreInv
<1>2. \A m \in Names : Published(m)' = Published(m)
  BY <1>1, PublishedStays
<1>3. Holds' = Holds
  BY <1>2 DEF Holds
<1> QED
  BY <1>1, <1>3, EndEnds DEF Store!Fail, Store!End, Holds, Pending

\* The rename commits, the whole file and nobody else's.
LEMMA PublishCommits ==
  ASSUME StoreInv, [Next]_vars, NEW t \in Threads, Publish(t)
  PROVE  Store!Commit(t)
<1> USE StorageAssumption
<1>0. PICK n \in Names : n = req[t].name
  BY DEF StoreInv, IInv, Shape, Numbered, Publish
<1>1. /\ IInv /\ TypeOK /\ n \in Names /\ pc[t] = "replace" /\ EndRequest(t)
      /\ req[t].id \in Inodes /\ part[n] # None /\ Writing(t, n)
      /\ file' = [file EXCEPT ![n] = part[n]] /\ UNCHANGED <<disk, overlapped>>
  BY <1>0 DEF StoreInv, IInv, Shape, Numbered, Publish, TypeOK, Request, Writing
<1>2. \A m \in Names \ {n} : Published(m)' = Published(m)
  BY <1>1, PublishedStays DEF TypeOK
<1>3. CASE n \in overlapped
  <2>1. Published(n)' = Published(n)
    BY <1>1, <1>3 DEF Published
  <2>2. Holds' = Holds
    BY <1>2, <2>1 DEF Holds
  <2> QED
    BY <1>0, <1>1, <1>3, <2>2, EndEnds DEF Store!Commit, Store!End, Holds, Pending
<1>4. CASE n \notin overlapped
  <2>1. fd[t] = part[n] /\ next[t] = Chunks + 1
    BY <1>1, <1>4 DEF IInv, Shape, Lone, Progress
  <2>2. disk[part[n]] \in Content /\ \A k \in 1..Chunks : k < Chunks + 1 => disk[part[n]][k] = req[t].id
    BY <1>1, <1>4, <2>1 DEF IInv, Shape, Progress, TypeOK
  <2>3. disk[part[n]] = Whole(req[t].id)
    BY <2>2 DEF Content, Whole
  <2>4. disk[part[n]][1] = req[t].id
    BY <2>2
  <2>5. file'[n] = part[n]
    BY <1>1 DEF TypeOK
  <2>6. Published(n)' = req[t].id
    BY <1>1, <1>4, <2>3, <2>4, <2>5 DEF Published, Whole
  <2>7. Holds' = [Holds EXCEPT ![n] = req[t].id]
    BY <1>1, <1>2, <2>6 DEF Holds
  <2> QED
    BY <1>0, <1>1, <1>4, <2>7, EndEnds DEF Store!Commit, Store!End, Holds, Pending
<1> QED
  BY <1>3, <1>4

\* A file or a part file is taken away.
LEMMA RemovalDeletes ==
  ASSUME StoreInv, [Next]_vars, NEW e \in Entries, Removal(e)
  PROVE  UNCHANGED Store!vars \/ Store!Delete(e[1])
<1>1. IInv /\ TypeOK /\ UNCHANGED <<req, overlapped>> /\ e[1] \in Names
  BY DEF StoreInv, IInv, Removal, Remove, threadVars, Entries
<1>2. CASE file' = file
  <2>1. \A m \in Names : Published(m)' = Published(m)
    BY <1>1, <1>2, PublishedStays
  <2> QED
    BY <1>1, <2>1 DEF Store!vars
<1>3. CASE file' = [file EXCEPT ![e[1]] = None]
  <2>1. file'[e[1]] = None /\ \A m \in Names \ {e[1]} : file'[m] = file[m]
    BY <1>1, <1>3 DEF TypeOK
  <2>2. \A m \in Names \ {e[1]} : Published(m)' = Published(m)
    BY <1>1, <2>1, PublishedStays
  <2>3. Published(e[1])' = None
    BY <2>1 DEF Published
  <2>4. Holds' = [Holds EXCEPT ![e[1]] = None]
    BY <1>1, <2>2, <2>3 DEF Holds
  <2>5. Pending' = Pending
    BY <1>1 DEF Pending
  <2> QED
    BY <1>1, <2>4, <2>5 DEF Store!Delete, Holds, Pending
<1> QED
  BY <1>2, <1>3 DEF Removal, Remove

\* A restart loses the requests under way, and no content.
LEMMA RestartRestarts ==
  ASSUME StoreInv, [Next]_vars, DashboardRestarts
  PROVE  Store!Restart
<1>1. IInv /\ UNCHANGED <<file, overlapped>> /\ req' = [t \in Threads |-> NoRequest]
  BY DEF StoreInv, DashboardRestarts
<1>2. \A m \in Names : Published(m)' = Published(m)
  BY <1>1, PublishedStays
<1>3. Holds' = Holds
  BY <1>2 DEF Holds
<1>4. Pending' = [t \in Threads |-> Store!NoWrite]
  BY <1>1 DEF Pending, Store!NoWrite, NoRequest
<1> QED
  BY <1>1, <1>3, <1>4 DEF Store!Restart, Holds, Pending

\* Every step is one of the store, or none.
LEMMA StoreStep ==
  ASSUME StoreInv, [Next]_vars
  PROVE  [Store!Next]_(Store!vars)
<1>0. IInv /\ TypeOK
  BY DEF StoreInv, IInv
<1>1. ASSUME NEW t \in Threads, NEW n \in Names, NEW a \in BOOLEAN, Admit(t, n, a)
      PROVE  Store!Next
  BY <1>1, AdmitBegins DEF Store!Next
<1>2. ASSUME NEW t \in Threads, Open(t) PROVE Store!Next \/ UNCHANGED Store!vars
  <2>1. req[t].name \in Names
    BY <1>0, <1>2 DEF Open, IInv, Shape, Numbered
  <2> QED
    BY <1>2, <2>1, OpenTears DEF Store!Next
<1>3. ASSUME NEW t \in Threads, WriteChunk(t) PROVE UNCHANGED Store!vars
  <2>1. UNCHANGED <<file, overlapped, req>>
    BY <1>3 DEF WriteChunk
  <2>2. \A m \in Names : Published(m)' = Published(m)
    BY <1>0, <2>1, PublishedStays
  <2> QED
    BY <2>1, <2>2 DEF Store!vars
<1>4. ASSUME NEW t \in Threads, Publish(t) PROVE Store!Next
  BY <1>4, PublishCommits DEF Store!Next
<1>5. ASSUME NEW t \in Threads, pc[t] # "idle", Abandon(t) PROVE Store!Next
  BY <1>5, AbandonFails DEF Store!Next
<1>6. ASSUME NEW e \in Entries, Removal(e) PROVE Store!Next \/ UNCHANGED Store!vars
  <2>1. e[1] \in Names
    BY DEF Entries
  <2> QED
    BY <1>6, <2>1, RemovalDeletes DEF Store!Next
<1>7. CASE DashboardRestarts
  BY <1>7, RestartRestarts DEF Store!Next
<1>8. CASE Between
  <2>1. UNCHANGED <<file, overlapped, req>>
    BY <1>8 DEF Between, fileVars
  <2>2. \A m \in Names : Published(m)' = Published(m)
    BY <1>0, <2>1, PublishedStays
  <2> QED
    BY <2>1, <2>2 DEF Store!vars
<1> QED
  BY <1>0, <1>1, <1>2, <1>3, <1>4, <1>5, <1>6, <1>7, <1>8, StepKinds

-----------------------------------------------------------------------------
\* The inductive invariant of the files: to whom each inode belongs at each step
\* of an upload.
THEOREM Invariance == Spec => []IInv
<1>1. Init => IInv
  BY InitShape
<1>2. IInv /\ [Next]_vars => IInv'
  <2> SUFFICES ASSUME IInv, [Next]_vars PROVE IInv'
    OBVIOUS
  <2>1. TypeOK'
    BY TypeStep DEF IInv, Shape
  <2>2. Shape'
    BY ShapeStep DEF IInv
  <2> QED
    BY <2>1, <2>2 DEF IInv
<1> QED
  BY <1>1, <1>2, PTL DEF Spec

\* Every variable of the storage keeps its type, for any number of threads, names,
\* requests and faults.
THEOREM TypeCorrect == Spec => []TypeOK
<1>1. IInv => TypeOK
  BY DEF IInv
<1> QED
  BY <1>1, Invariance, PTL

\* What is published under a name is one request's whole file (save_upload() and
\* write_text_file(), against each other, deletions, clear_category() and restarts).
THEOREM PublishedWhole == Spec => []PublishedIsWhole
<1>1. IInv => PublishedIsWhole
  BY DEF IInv, Shape
<1> QED
  BY <1>1, Invariance, PTL

\* A request of save_upload() or write_text_file() that has ended leaves no part file.
THEOREM NoPartFileLeft == Spec => []NoPartLeft
<1>1. IInv => NoPartLeft
  BY DEF IInv, Shape
<1> QED
  BY <1>1, Invariance, PTL

\* os.replace() is the only way to change what a published name holds.
THEOREM PublishedFrozen == Spec => FrozenOncePublished
<1>1. IInv /\ [Next]_vars =>
        [\A n \in Names \ overlapped :
           file[n] # None /\ file'[n] = file[n] => disk'[file[n]] = disk[file[n]]]_vars
  BY FrozenStep DEF IInv
<1> QED
  BY <1>1, Invariance, PTL DEF Spec, FrozenOncePublished

\* save_upload() and write_text_file(), with their part files and renames, are a store
\* whose writes happen at once or not at all.
THEOREM ImplementsStore == Spec => StoreSpec
<1>1. Init => Store!Init /\ Quiet /\ Stamped
  <2> SUFFICES ASSUME Init PROVE Store!Init /\ Quiet /\ Stamped
    OBVIOUS
  <2>1. TypeOK
    BY InitShape DEF IInv
  <2>2. Quiet
    BY DEF Init, Quiet
  <2>3. Stamped
    BY <2>1, StorageAssumption DEF Init, Stamped, Whole, Empty, Inodes
  <2>4. \A n \in Names : Published(n) \in Inodes \cup {None}
    BY <2>1, <2>3, PublishedTyped
  <2>5. \A t \in Threads : req[t].name = None /\ req[t].id = 0
    BY DEF Init, NoRequest
  <2> QED
    BY <2>2, <2>3, <2>4, <2>5 DEF Init, Store!Init, Store!NoWrite
<1>2. IInv /\ Quiet /\ Stamped /\ [Next]_vars => (Quiet /\ Stamped)'
  BY StoreInvStep
<1>3. IInv /\ Quiet /\ Stamped /\ [Next]_vars => [Store!Next]_(Store!vars)
  BY StoreStep DEF StoreInv
<1> QED
  BY <1>1, <1>2, <1>3, Invariance, PTL DEF Spec, StoreSpec, Store!Spec
=============================================================================
