----------------------------- MODULE InstallerProofs -----------------------------
(***************************************************************************)
(* Proofs about Installer, for any number of threads, requests and faults, *)
(* any catalog and any contents of game/.                                  *)
(***************************************************************************)
EXTENDS Installer, SequenceTheorems, TLAPS

\* game/ holds the software s and no other.
Holds(s) == game \cap Software = {s}

\* What the steps of InstalledIsWhole rest on, thread by thread, as long as no
\* stray installer writes: after the wipe there is no software in game/, only the
\* installer of a managed install can bring its own, and a rollback that gives up
\* before its first deletion - the one holder of the lock that releases it with the
\* old outcome - leaves an installed game/ whole.
PlaceInv(t) ==
  /\ pc[t] = "place" /\ ~mixed => game \cap Software = {}
  /\ pc[t] = "run_installer" /\ ~mixed => game \cap Software \subseteq {request[t].sw}
  /\ pc[t] = "manifest" /\ ~mixed => Holds(request[t].sw)
  /\ pc[t] = "rb_pick" /\ outcome = "installed" /\ ~mixed =>
       Holds(manifest.sw) /\ manifest.mode = LaunchMode(manifest.sw)

\* What SnapshotHoldsWhatIsWiped rests on: game/ loses nothing between taking the
\* lock and the copy, and there is a snapshot wherever one is worked on.
SnapshotInv(t) ==
  /\ pc[t] \in {"resolve", "rt_status", "rt_start", "rt_health", "rt_stop", "snapshot", "copying"}
       => held \subseteq game
  /\ pc[t] \in {"copying", "rb_clear", "rb_move"} => snapshots # <<>>

\* The inductive invariant: without Exclusive, another thread could change
\* game/ between the wipe and the manifest of an install.
IInv ==
  /\ TypeOK /\ Exclusive
  /\ InstalledIsWhole /\ \A t \in Threads : PlaceInv(t)
  /\ SnapshotHoldsWhatIsWiped /\ \A t \in Threads : SnapshotInv(t)

USE ConstantsAssumption

Labels == {"idle"} \cup BeforeLock \cup UnderLock \cup AfterLock

\* A step that appends a snapshot, changes the newest or removes it leaves a list
\* of snapshots.
LEMMA SnapshotTypes ==
  ASSUME NEW s \in Seq(Snapshots), NEW r \in Snapshots
  PROVE  /\ Append(s, r) \in Seq(Snapshots)
         /\ s # <<>> => /\ [s EXCEPT ![Len(s)] = r] \in Seq(Snapshots)
                        /\ Last(s) \in Snapshots
                        /\ Front(s) \in Seq(Snapshots)
<1>1. Append(s, r) \in Seq(Snapshots)
  OBVIOUS
<1>2. ASSUME s # <<>> PROVE /\ [s EXCEPT ![Len(s)] = r] \in Seq(Snapshots)
                            /\ Last(s) \in Snapshots
                            /\ Front(s) \in Seq(Snapshots)
  <2>1. Len(s) \in 1 .. Len(s)
    BY <1>2
  <2>2. Last(s) \in Snapshots
    BY <2>1 DEF Last
  <2>3. [s EXCEPT ![Len(s)] = r] \in Seq(Snapshots)
    BY <2>1
  <2>4. Front(s) \in Seq(Snapshots)
    BY <1>2, <2>1 DEF Front
  <2>. QED  BY <2>2, <2>3, <2>4
<1>. QED  BY <1>1, <1>2

\* The newest snapshot changes to r, and only it.
LEMMA NewestIs ==
  ASSUME snapshots \in Seq(Snapshots), snapshots # <<>>, NEW r \in Snapshots,
         snapshots' = Renewed(r)
  PROVE  /\ snapshots' \in Seq(Snapshots) /\ snapshots' # <<>>
         /\ Len(snapshots') = Len(snapshots) /\ Len(snapshots) \in Nat \ {0}
         /\ \A i \in 1 .. Len(snapshots) : i # Len(snapshots) => snapshots'[i] = snapshots[i]
         /\ Last(snapshots') = r /\ snapshots'[Len(snapshots)] = r
<1>1. Len(snapshots) \in 1 .. Len(snapshots) /\ Len(snapshots) \in Nat \ {0}
  OBVIOUS
<1>2. snapshots' = [snapshots EXCEPT ![Len(snapshots)] = r]
  BY DEF Renewed
<1>3. snapshots' \in Seq(Snapshots) /\ Len(snapshots') = Len(snapshots)
  BY <1>1, <1>2
<1>4. \A i \in 1 .. Len(snapshots) : i # Len(snapshots) => snapshots'[i] = snapshots[i]
  BY <1>1, <1>2
<1>5. snapshots'[Len(snapshots)] = r
  BY <1>1, <1>2
<1>. QED  BY <1>1, <1>3, <1>4, <1>5 DEF Last

\* Every launch mode is one the manifest can have.
LEMMA LaunchModeType ==
  ASSUME NEW s \in Software PROVE LaunchMode(s) \in {"jar", "script", "binary"}
BY DEF LaunchMode

\* A step of t that only moves it to another label, with or without progress.
LEMMA MoveTypes ==
  ASSUME TypeOK, NEW t \in Threads, NEW label \in Labels, Goto(t, label),
         progress' \in {"idle", "active", "done", "error"}
  PROVE  /\ pc' \in [Threads -> Labels] /\ pc'[t] = label
         /\ \A u \in Threads : u # t => pc'[u] = pc[u]
         /\ progress' \in {"idle", "active", "done", "error"}
BY DEF Goto, TypeOK, Labels

\* Steps of an install, up to the lock and from its release on.
OutsideStep(t) ==
  \/ StopInstance(t) \/ StopInstanceFails(t) \/ ClearCategories(t) \/ Busy(t)
  \/ WriteOverride(t) \/ WriteOverrideFails(t) \/ FinishInstall(t)

\* They do not touch what the invariant relates.
LEMMA OutsideInvariant ==
  ASSUME IInv, NEW t \in Threads, OutsideStep(t) PROVE IInv'
<1>1. PICK label \in {"idle", "categories", "acquire", "restart"} : Goto(t, label)
  BY DEF OutsideStep, StopInstance, StopInstanceFails, ClearCategories, Busy, WriteOverride,
         WriteOverrideFails, FinishInstall, Advance, Refuse
<1>2. progress' \in {"idle", "active", "done", "error"}
  BY DEF OutsideStep, StopInstance, StopInstanceFails, ClearCategories, Busy, WriteOverride,
         WriteOverrideFails, FinishInstall, Advance, Refuse, IInv, TypeOK
<1>3. /\ pc[t] \in {"stop", "categories", "acquire", "config", "restart"}
      /\ UNCHANGED <<game, snapshots, manifest, lock, request, outcome, held, strays, mixed,
                     begun>>
      /\ owes' \in {owes, None} /\ misnamed' \in BOOLEAN
      /\ mods' \in {mods, {}}
      /\ override' \in {override, request[t].sw}
      /\ faults' \in {faults, faults + 1}
  BY DEF OutsideStep, StopInstance, StopInstanceFails, ClearCategories, Busy, WriteOverride,
         WriteOverrideFails, FinishInstall, Advance, Refuse, disk, late, history, Fault, Named,
         IInv, TypeOK
<1>4. /\ pc' \in [Threads -> Labels] /\ pc'[t] = label
      /\ \A u \in Threads : u # t => pc'[u] = pc[u]
  BY <1>1, <1>2, MoveTypes DEF IInv, Labels, BeforeLock, AfterLock
<1>5. TypeOK'
  BY <1>2, <1>3, <1>4 DEF IInv, TypeOK, Labels, Requests
<1>6. Exclusive'
  BY <1>3, <1>4 DEF IInv, Exclusive, UnderLock
<1>7. InstalledIsWhole' /\ \A u \in Threads : PlaceInv(u)'
  BY <1>3, <1>4 DEF IInv, InstalledIsWhole, PlaceInv, Holds
<1>8. SnapshotHoldsWhatIsWiped' /\ \A u \in Threads : SnapshotInv(u)'
  BY <1>3, <1>4 DEF IInv, SnapshotHoldsWhatIsWiped, SnapshotInv
<1>. QED  BY <1>5, <1>6, <1>7, <1>8 DEF IInv

\* Under the lock a thread is alone.
LEMMA Alone ==
  ASSUME IInv, NEW t \in Threads, pc[t] \in UnderLock
  PROVE  lock = t /\ \A u \in Threads : u # t => pc[u] \notin UnderLock
BY DEF IInv, Exclusive

\* An error under the lock, whatever it leaves in game/ and of the manifest.
LEMMA AbortInvariant ==
  ASSUME IInv, NEW t \in Threads, pc[t] \in UnderLock, Abort(t),
         game' \in SUBSET Entries, manifest' \in Manifests, strays' \in SUBSET Software,
         faults' \in Nat
  PROVE  IInv'
<1>1. lock = t /\ \A u \in Threads : u # t => pc[u] \notin UnderLock
  BY Alone
<1>2. /\ pc' \in [Threads -> Labels] /\ pc'[t] = "idle"
      /\ \A u \in Threads : u # t => pc'[u] = pc[u]
  BY DEF Abort, Refuse, Goto, IInv, TypeOK, Labels
<1>3. /\ progress' = "error" /\ lock' = None /\ outcome' = "failed"
      /\ UNCHANGED <<mods, snapshots, override, request, held, owes, misnamed, mixed, begun>>
  BY DEF Abort, Refuse
<1>8. TypeOK'
  BY <1>1, <1>2, <1>3 DEF IInv, TypeOK, Labels
<1>9. Exclusive'
  BY <1>1, <1>2, <1>3 DEF IInv, Exclusive, UnderLock
<1>10. InstalledIsWhole' /\ \A u \in Threads : PlaceInv(u)'
  BY <1>1, <1>2, <1>3 DEF IInv, InstalledIsWhole, PlaceInv, Holds, UnderLock
<1>11. SnapshotHoldsWhatIsWiped' /\ \A u \in Threads : SnapshotInv(u)'
  BY <1>1, <1>2, <1>3 DEF IInv, SnapshotHoldsWhatIsWiped, SnapshotInv, UnderLock
<1>. QED  BY <1>8, <1>9, <1>10, <1>11 DEF IInv

\* The steps that raise it.
AbortStep(t) ==
  \/ ResolveFails(t) \/ RuntimeFails(t) \/ SnapshotFails(t)
  \/ PlaceFails(t) \/ InstallerFails(t) \/ WriteManifestFails(t)

LEMMA AbortStepInvariant ==
  ASSUME IInv, NEW t \in Threads, AbortStep(t) PROVE IInv'
<1>1. pc[t] \in UnderLock /\ Abort(t)
  BY DEF AbortStep, ResolveFails, RuntimeFails, SnapshotFails, PlaceFails, InstallerFails,
         WriteManifestFails, Fail, UnderLock
<1>2. request[t].sw \in Software
  BY DEF IInv, TypeOK, Requests
<1>3. Unparsable \in Manifests
  BY DEF Unparsable, Manifests
<1>4. /\ game' \in SUBSET Entries /\ manifest' \in Manifests
      /\ strays' \in SUBSET Software /\ faults' \in Nat
  BY <1>2, <1>3
     DEF AbortStep, ResolveFails, RuntimeFails, SnapshotFails, PlaceFails, InstallerFails,
         WriteManifestFails, Fail, Fault, With, IInv, TypeOK, Entries
<1>. QED  BY <1>1, <1>4, AbortInvariant

\* The steps under the lock that only move on.
AdvanceStep(t) ==
  \/ Resolve(t)
  \/ \E running \in BOOLEAN : RuntimeStatus(t, running) \/ RuntimeHealth(t, running)
  \/ RuntimeStarted(t) \/ RuntimeStopped(t)
  \/ NothingToClean(t) \/ SkipSnapshot(t)
  \/ DownloadInstaller(t) \/ InstallerRan(t) \/ PickSnapshot(t)

\* What such a step finds is what the next one needs.
LEMMA AdvanceInvariant ==
  ASSUME IInv, NEW t \in Threads, AdvanceStep(t) PROVE IInv'
<1>1. PICK from \in UnderLock, to \in UnderLock :
        /\ Advance(t, from, to)
        /\ \/ /\ from \in {"resolve", "rt_status", "rt_start", "rt_health", "rt_stop"}
              /\ to \in {"rt_status", "rt_start", "rt_health", "rt_stop", "snapshot"}
           \/ from = "snapshot" /\ to = "place" /\ game = {}
           \/ from = "snapshot" /\ to = "wipe" /\ ~request[t].backup
           \/ from = "place" /\ to = "run_installer"
           \/ from = "run_installer" /\ to = "manifest"
              /\ game \cap ManagedSoftware # {}
           \/ from = "rb_pick" /\ to = "rb_clear" /\ snapshots # <<>>
  BY DEF AdvanceStep, Resolve, RuntimeStatus, RuntimeHealth, RuntimeStarted, RuntimeStopped,
         NothingToClean, SkipSnapshot, DownloadInstaller, InstallerRan, PickSnapshot, UnderLock
<1>2. pc[t] = from
  BY <1>1 DEF Advance
<1>3. lock = t /\ \A u \in Threads : u # t => pc[u] \notin UnderLock
  BY <1>2, Alone
<1>4. /\ pc' \in [Threads -> Labels] /\ pc'[t] = to
      /\ \A u \in Threads : u # t => pc'[u] = pc[u]
  BY <1>1 DEF Advance, Goto, IInv, TypeOK, Labels
<1>5. /\ progress' = "active"
      /\ UNCHANGED <<game, mods, snapshots, manifest, override, lock, request, outcome, held,
                     owes, misnamed, strays, mixed, begun, faults>>
  BY <1>1 DEF Advance, disk, late, history
<1>6. request[t].sw \in Software /\ ManagedSoftware \subseteq Software
  BY DEF IInv, TypeOK, Requests, ManagedSoftware
<1>8. TypeOK'
  BY <1>1, <1>2, <1>3, <1>4, <1>5, <1>6 DEF IInv, TypeOK, Labels
<1>9. Exclusive'
  BY <1>1, <1>2, <1>3, <1>4, <1>5, <1>6 DEF IInv, Exclusive, UnderLock
<1>10. InstalledIsWhole' /\ \A u \in Threads : PlaceInv(u)'
  BY <1>1, <1>2, <1>3, <1>4, <1>5, <1>6 DEF IInv, InstalledIsWhole, PlaceInv, Holds, UnderLock
<1>11. SnapshotHoldsWhatIsWiped' /\ \A u \in Threads : SnapshotInv(u)'
  BY <1>1, <1>2, <1>3, <1>4, <1>5, <1>6 DEF IInv, SnapshotHoldsWhatIsWiped, SnapshotInv, UnderLock
<1>. QED  BY <1>8, <1>9, <1>10, <1>11 DEF IInv

\* The lock is free, so no thread is in the installer: game/ is as it was left.
LEMMA AcquireInvariant ==
  ASSUME IInv, NEW t \in Threads, Acquire(t) PROVE IInv'
<1>1. pc[t] = "acquire" /\ lock = None /\ \A u \in Threads : pc[u] \notin UnderLock
  BY DEF Acquire, IInv, Exclusive
<1>2. /\ pc' \in [Threads -> Labels] /\ pc'[t] = "resolve"
      /\ \A u \in Threads : u # t => pc'[u] = pc[u]
  BY DEF Acquire, Goto, IInv, TypeOK, Labels, BeforeLock, UnderLock, AfterLock
<1>3. /\ lock' = t /\ held' = game
      /\ UNCHANGED <<game, mods, snapshots, manifest, override, request, progress, outcome, owes,
                     misnamed, strays, mixed, begun, faults>>
  BY DEF Acquire, disk, late
<1>8. TypeOK'
  BY <1>1, <1>2, <1>3 DEF IInv, TypeOK, Labels
<1>9. Exclusive'
  BY <1>1, <1>2, <1>3 DEF IInv, Exclusive, UnderLock
<1>10. InstalledIsWhole' /\ \A u \in Threads : PlaceInv(u)'
  BY <1>1, <1>2, <1>3 DEF IInv, InstalledIsWhole, PlaceInv, Holds, UnderLock
<1>11. SnapshotHoldsWhatIsWiped' /\ \A u \in Threads : SnapshotInv(u)'
  BY <1>1, <1>2, <1>3 DEF IInv, SnapshotHoldsWhatIsWiped, SnapshotInv, UnderLock
<1>. QED  BY <1>8, <1>9, <1>10, <1>11 DEF IInv

\* The snapshot begins empty and names what it is of.
Fresh == [has |-> {}, of |-> game, lost |-> {}, cut |-> FALSE]

LEMMA BeginSnapshotInvariant ==
  ASSUME IInv, NEW t \in Threads, BeginSnapshot(t) PROVE IInv'
<1>1. pc[t] = "snapshot" /\ lock = t /\ \A u \in Threads : u # t => pc[u] \notin UnderLock
  BY Alone DEF BeginSnapshot, UnderLock
<1>2. /\ pc' \in [Threads -> Labels] /\ pc'[t] = "copying"
      /\ \A u \in Threads : u # t => pc'[u] = pc[u]
  BY DEF BeginSnapshot, Goto, IInv, TypeOK, Labels, BeforeLock, UnderLock, AfterLock
<1>3. /\ progress' = "active"
      /\ snapshots' = Append(snapshots, Fresh)
      /\ UNCHANGED <<game, mods, manifest, override, lock, request, outcome, held, owes,
                     misnamed, strays, mixed, begun, faults>>
  BY DEF BeginSnapshot, Fresh, late, history
<1>4. snapshots' \in Seq(Snapshots) /\ snapshots' # <<>>
  <2>1. snapshots \in Seq(Snapshots) /\ Fresh \in Snapshots
    BY DEF IInv, TypeOK, Fresh, Snapshots
  <2>2. snapshots' \in Seq(Snapshots)
    BY <1>3, <2>1, SnapshotTypes
  <2>. QED  BY <1>3, <2>1, <2>2
<1>8. TypeOK'
  BY <1>1, <1>2, <1>3, <1>4 DEF IInv, TypeOK, Labels
<1>9. Exclusive'
  BY <1>1, <1>2, <1>3, <1>4 DEF IInv, Exclusive, UnderLock
<1>10. InstalledIsWhole' /\ \A u \in Threads : PlaceInv(u)'
  BY <1>1, <1>2, <1>3, <1>4 DEF IInv, InstalledIsWhole, PlaceInv, Holds, UnderLock
<1>11. SnapshotHoldsWhatIsWiped' /\ \A u \in Threads : SnapshotInv(u)'
  BY <1>1, <1>2, <1>3, <1>4 DEF IInv, SnapshotHoldsWhatIsWiped, SnapshotInv, UnderLock
<1>. QED  BY <1>8, <1>9, <1>10, <1>11 DEF IInv

\* What the copy of t holds, and what is missing from it.
Copied(t, missed) ==
  /\ missed \in SUBSET game
  /\ snapshots' = Renewed([Last(snapshots) EXCEPT !.has = game \ missed, !.lost = missed])

\* The copying leaves in the newest snapshot all that it has not missed.
LEMMA CopyIs ==
  ASSUME IInv, NEW t \in Threads, pc[t] = "copying", NEW missed, Copied(t, missed)
  PROVE  /\ snapshots' \in Seq(Snapshots) /\ snapshots' # <<>>
         /\ Len(snapshots') = Len(snapshots) /\ Len(snapshots) \in Nat \ {0}
         /\ \A i \in 1 .. Len(snapshots) : i # Len(snapshots) => snapshots'[i] = snapshots[i]
         /\ Last(snapshots').has = game \ missed /\ Last(snapshots').lost = missed
         /\ Last(snapshots').of = Last(snapshots).of
<1> DEFINE r == [Last(snapshots) EXCEPT !.has = game \ missed, !.lost = missed]
<1>1. snapshots \in Seq(Snapshots) /\ snapshots # <<>> /\ Last(snapshots) \in Snapshots
  <2>1. snapshots \in Seq(Snapshots) /\ snapshots # <<>>
    BY DEF IInv, TypeOK, SnapshotInv
  <2>2. Len(snapshots) \in 1 .. Len(snapshots)
    BY <2>1
  <2>. QED  BY <2>1, <2>2 DEF Last
<1>2. game \ missed \in SUBSET Entries /\ missed \in SUBSET Entries
  BY DEF Copied, IInv, TypeOK
<1>3. r \in Snapshots /\ r.has = game \ missed /\ r.lost = missed /\ r.of = Last(snapshots).of
  BY <1>1, <1>2 DEF Snapshots
<1>4. snapshots' = Renewed(r)
  BY DEF Copied
<1> HIDE DEF r
<1>. QED  BY <1>1, <1>3, <1>4, NewestIs

\* Since the lock was taken game/ has lost nothing: what is not copied is named.
LEMMA EndSnapshotInvariant ==
  ASSUME IInv, NEW t \in Threads, EndSnapshot(t) PROVE IInv'
<1>1. pc[t] = "copying" /\ lock = t /\ \A u \in Threads : u # t => pc[u] \notin UnderLock
  BY Alone DEF EndSnapshot, UnderLock
<1>2. /\ pc' \in [Threads -> Labels] /\ pc'[t] = "wipe"
      /\ \A u \in Threads : u # t => pc'[u] = pc[u]
  BY DEF EndSnapshot, Goto, IInv, TypeOK, Labels, BeforeLock, UnderLock, AfterLock
<1>3. /\ progress' = "active" /\ faults' \in Nat
      /\ UNCHANGED <<game, mods, manifest, override, lock, request, outcome, held, owes,
                     misnamed, strays, mixed, begun>>
  BY DEF EndSnapshot, Fault, late, IInv, TypeOK
<1>4. PICK missed : Copied(t, missed)
  BY DEF EndSnapshot, Copied
<1>5. /\ snapshots' \in Seq(Snapshots) /\ snapshots' # <<>>
      /\ held \ Last(snapshots').lost \subseteq Last(snapshots').has
  BY <1>1, <1>4, CopyIs DEF IInv, SnapshotInv
<1>8. TypeOK'
  BY <1>1, <1>2, <1>3, <1>5 DEF IInv, TypeOK, Labels
<1>9. Exclusive'
  BY <1>1, <1>2, <1>3 DEF IInv, Exclusive, UnderLock
<1>10. InstalledIsWhole' /\ \A u \in Threads : PlaceInv(u)'
  BY <1>1, <1>2, <1>3 DEF IInv, InstalledIsWhole, PlaceInv, Holds, UnderLock
<1>11. SnapshotHoldsWhatIsWiped' /\ \A u \in Threads : SnapshotInv(u)'
  BY <1>1, <1>2, <1>3, <1>5 DEF IInv, SnapshotHoldsWhatIsWiped, SnapshotInv, UnderLock
<1>. QED  BY <1>8, <1>9, <1>10, <1>11 DEF IInv

\* What cannot be deleted is data, not software.
LEMMA WipeInvariant ==
  ASSUME IInv, NEW t \in Threads, Wipe(t) PROVE IInv'
<1>1. pc[t] = "wipe" /\ lock = t /\ \A u \in Threads : u # t => pc[u] \notin UnderLock
  BY Alone DEF Wipe, UnderLock
<1>2. /\ pc' \in [Threads -> Labels] /\ pc'[t] = "place"
      /\ \A u \in Threads : u # t => pc'[u] = pc[u]
  BY DEF Wipe, Goto, IInv, TypeOK, Labels, BeforeLock, UnderLock, AfterLock
<1>3. /\ progress' = "active" /\ game' = game \cap Stuck /\ mixed' = FALSE
      /\ UNCHANGED <<mods, snapshots, manifest, override, lock, request, outcome, held, owes,
                     misnamed, strays, begun, faults>>
  BY DEF Wipe, late, history
<1>8. TypeOK'
  BY <1>1, <1>2, <1>3 DEF IInv, TypeOK, Labels
<1>9. Exclusive'
  BY <1>1, <1>2, <1>3 DEF IInv, Exclusive, UnderLock
<1>10. InstalledIsWhole' /\ \A u \in Threads : PlaceInv(u)'
  BY <1>1, <1>2, <1>3 DEF IInv, InstalledIsWhole, PlaceInv, Holds, UnderLock
<1>11. SnapshotHoldsWhatIsWiped' /\ \A u \in Threads : SnapshotInv(u)'
  BY <1>1, <1>2, <1>3 DEF IInv, SnapshotHoldsWhatIsWiped, SnapshotInv, UnderLock
<1>. QED  BY <1>8, <1>9, <1>10, <1>11 DEF IInv

\* The new software is put into a game/ without any.
LEMMA PlaceInvariant ==
  ASSUME IInv, NEW t \in Threads, PlaceJar(t) \/ PlaceZip(t) PROVE IInv'
<1>1. pc[t] = "place" /\ lock = t /\ \A u \in Threads : u # t => pc[u] \notin UnderLock
  BY Alone DEF PlaceJar, PlaceZip, UnderLock
<1>2. /\ pc' \in [Threads -> Labels] /\ pc'[t] = "manifest"
      /\ \A u \in Threads : u # t => pc'[u] = pc[u]
  BY DEF PlaceJar, PlaceZip, Goto, IInv, TypeOK, Labels, BeforeLock, UnderLock, AfterLock
<1>3. /\ progress' = "active" /\ request[t].sw \in Software
      /\ game' \subseteq {request[t].sw} \cup game /\ request[t].sw \in game'
      /\ mixed' \in BOOLEAN /\ (mixed => mixed')
      /\ UNCHANGED <<mods, snapshots, manifest, override, lock, request, outcome, held, owes,
                     misnamed, strays, begun, faults>>
  BY DEF PlaceJar, PlaceZip, With, late, history, IInv, TypeOK, Requests
<1>8. TypeOK'
  BY <1>1, <1>2, <1>3 DEF IInv, TypeOK, Labels, Entries
<1>9. Exclusive'
  BY <1>1, <1>2, <1>3 DEF IInv, Exclusive, UnderLock
<1>10. InstalledIsWhole' /\ \A u \in Threads : PlaceInv(u)'
  BY <1>1, <1>2, <1>3 DEF IInv, InstalledIsWhole, PlaceInv, Holds, UnderLock
<1>11. SnapshotHoldsWhatIsWiped' /\ \A u \in Threads : SnapshotInv(u)'
  BY <1>1, <1>2, <1>3 DEF IInv, SnapshotHoldsWhatIsWiped, SnapshotInv, UnderLock
<1>. QED  BY <1>8, <1>9, <1>10, <1>11 DEF IInv

\* The installer of a managed install adds only its own software.
LEMMA InstallerWritesInvariant ==
  ASSUME IInv, NEW t \in Threads, InstallerWrites(t) PROVE IInv'
<1>1. pc[t] = "run_installer" /\ lock = t /\ \A u \in Threads : u # t => pc[u] \notin UnderLock
  BY Alone DEF InstallerWrites, UnderLock
<1>2. request[t].sw \in Software
  BY DEF IInv, TypeOK, Requests
<1>3. /\ game' = game \cup {request[t].sw}
      /\ UNCHANGED <<mods, snapshots, manifest, override, lock, pc, request, progress, outcome,
                     held, owes, misnamed, strays, mixed, begun, faults>>
  BY DEF InstallerWrites, late, history
<1>8. TypeOK'
  BY <1>1, <1>2, <1>3 DEF IInv, TypeOK, Labels, Entries
<1>9. Exclusive'
  BY <1>1, <1>2, <1>3 DEF IInv, Exclusive, UnderLock
<1>10. InstalledIsWhole' /\ \A u \in Threads : PlaceInv(u)'
  BY <1>1, <1>2, <1>3 DEF IInv, InstalledIsWhole, PlaceInv, Holds, UnderLock
<1>11. SnapshotHoldsWhatIsWiped' /\ \A u \in Threads : SnapshotInv(u)'
  BY <1>1, <1>2, <1>3 DEF IInv, SnapshotHoldsWhatIsWiped, SnapshotInv, UnderLock
<1>. QED  BY <1>8, <1>9, <1>10, <1>11 DEF IInv

\* The manifest names the software that game/ holds when the lock is released.
LEMMA WriteManifestInvariant ==
  ASSUME IInv, NEW t \in Threads, WriteManifest(t) PROVE IInv'
<1>1. pc[t] = "manifest" /\ lock = t /\ \A u \in Threads : u # t => pc[u] \notin UnderLock
  BY Alone DEF WriteManifest, UnderLock
<1>2. /\ pc' \in [Threads -> Labels] /\ pc'[t] = "config"
      /\ \A u \in Threads : u # t => pc'[u] = pc[u]
  BY DEF WriteManifest, Goto, IInv, TypeOK, Labels, BeforeLock, UnderLock, AfterLock
<1>3. /\ manifest' = [sw |-> request[t].sw, mode |-> LaunchMode(request[t].sw), result |-> "success"]
      /\ lock' = None /\ outcome' = "installed" /\ progress' = "active" /\ owes' = t
      /\ UNCHANGED <<game, mods, snapshots, override, request, held, misnamed, strays, mixed, begun, faults>>
  BY DEF WriteManifest, late
<1>4. request[t].sw \in Software /\ LaunchMode(request[t].sw) \in {"jar", "script", "binary"}
  BY LaunchModeType DEF IInv, TypeOK, Requests
<1>5. manifest' \in Manifests
  BY <1>3, <1>4 DEF Manifests
<1>6. LaunchMode(request[t].sw)' = LaunchMode(request[t].sw)
  BY <1>3 DEF LaunchMode
<1>8. TypeOK'
  BY <1>1, <1>2, <1>3, <1>5, <1>6 DEF IInv, TypeOK, Labels
<1>9. Exclusive'
  BY <1>1, <1>2, <1>3, <1>5, <1>6 DEF IInv, Exclusive, UnderLock
<1>10. InstalledIsWhole' /\ \A u \in Threads : PlaceInv(u)'
  BY <1>1, <1>2, <1>3, <1>5, <1>6 DEF IInv, InstalledIsWhole, PlaceInv, Holds, UnderLock
<1>11. SnapshotHoldsWhatIsWiped' /\ \A u \in Threads : SnapshotInv(u)'
  BY <1>1, <1>2, <1>3, <1>5, <1>6 DEF IInv, SnapshotHoldsWhatIsWiped, SnapshotInv, UnderLock
<1>. QED  BY <1>8, <1>9, <1>10, <1>11 DEF IInv

\* A rollback that finds no snapshot releases an untouched instance.
LEMMA NoSnapshotInvariant ==
  ASSUME IInv, NEW t \in Threads, NoSnapshot(t) PROVE IInv'
<1>1. pc[t] = "rb_pick" /\ lock = t /\ \A u \in Threads : u # t => pc[u] \notin UnderLock
  BY Alone DEF NoSnapshot, UnderLock
<1>2. /\ pc' \in [Threads -> Labels] /\ pc'[t] = "idle"
      /\ \A u \in Threads : u # t => pc'[u] = pc[u]
  BY DEF NoSnapshot, Refuse, Goto, IInv, TypeOK, Labels, BeforeLock, UnderLock, AfterLock
<1>3. /\ progress' = "error" /\ lock' = None
      /\ UNCHANGED <<game, mods, snapshots, manifest, override, request, outcome, held, owes,
                     misnamed, strays, mixed, begun, faults>>
  BY DEF NoSnapshot, Refuse, disk, late, history
<1>8. TypeOK'
  BY <1>1, <1>2, <1>3 DEF IInv, TypeOK, Labels
<1>9. Exclusive'
  BY <1>1, <1>2, <1>3 DEF IInv, Exclusive, UnderLock
<1>10. InstalledIsWhole' /\ \A u \in Threads : PlaceInv(u)'
  BY <1>1, <1>2, <1>3 DEF IInv, InstalledIsWhole, PlaceInv, Holds, UnderLock
<1>11. SnapshotHoldsWhatIsWiped' /\ \A u \in Threads : SnapshotInv(u)'
  BY <1>1, <1>2, <1>3 DEF IInv, SnapshotHoldsWhatIsWiped, SnapshotInv, UnderLock
<1>. QED  BY <1>8, <1>9, <1>10, <1>11 DEF IInv

\* A rollback that deletes does not release the lock with an installed game/.
LEMMA ClearBeforeRollbackInvariant ==
  ASSUME IInv, NEW t \in Threads, ClearBeforeRollback(t) PROVE IInv'
<1>1. pc[t] = "rb_clear" /\ lock = t /\ \A u \in Threads : u # t => pc[u] \notin UnderLock
  BY Alone DEF ClearBeforeRollback, UnderLock
<1>2. /\ pc' \in [Threads -> Labels] /\ pc'[t] = "rb_move"
      /\ \A u \in Threads : u # t => pc'[u] = pc[u]
  BY DEF ClearBeforeRollback, Goto, IInv, TypeOK, Labels, BeforeLock, UnderLock, AfterLock
<1>3. /\ progress' = "active" /\ game' = game \cap Stuck /\ mixed' = FALSE
      /\ UNCHANGED <<mods, snapshots, manifest, override, lock, request, outcome, held, owes,
                     misnamed, strays, begun, faults>>
  BY DEF ClearBeforeRollback, late, history
<1>8. TypeOK'
  BY <1>1, <1>2, <1>3 DEF IInv, TypeOK, Labels
<1>9. Exclusive'
  BY <1>1, <1>2, <1>3 DEF IInv, Exclusive, UnderLock
<1>10. InstalledIsWhole' /\ \A u \in Threads : PlaceInv(u)'
  BY <1>1, <1>2, <1>3 DEF IInv, InstalledIsWhole, PlaceInv, Holds, UnderLock
<1>11. SnapshotHoldsWhatIsWiped' /\ \A u \in Threads : SnapshotInv(u)'
  BY <1>1, <1>2, <1>3 DEF IInv, SnapshotHoldsWhatIsWiped, SnapshotInv, UnderLock
<1>. QED  BY <1>8, <1>9, <1>10, <1>11 DEF IInv

\* What a move does: an entry leaves the newest snapshot for its place in game/, or
\* is lost inside a leftover.
LEMMA MovedEntry ==
  ASSUME IInv, NEW t \in Threads, MoveEntry(t)
  PROVE  /\ snapshots # <<>> /\ snapshots \in Seq(Snapshots) /\ Last(snapshots) \in Snapshots
         /\ snapshots' \in Seq(Snapshots) /\ snapshots' # <<>>
         /\ Len(snapshots') = Len(snapshots) /\ Len(snapshots) \in Nat \ {0}
         /\ \A i \in 1 .. Len(snapshots) : i # Len(snapshots) => snapshots'[i] = snapshots[i]
         /\ Last(snapshots').of = Last(snapshots).of
         /\ Last(snapshots').cut = Last(snapshots).cut
         /\ game' \in SUBSET Entries /\ game \subseteq game'
         /\ \E e \in Last(snapshots).has :
              /\ Last(snapshots').has = Last(snapshots).has \ {e}
              /\ \/ e \in game' /\ Last(snapshots').lost = Last(snapshots).lost
                 \/ Last(snapshots').lost = Last(snapshots).lost \cup {e}
<1>1. snapshots # <<>> /\ snapshots \in Seq(Snapshots) /\ Last(snapshots) \in Snapshots
  <2>1. snapshots # <<>> /\ snapshots \in Seq(Snapshots)
    BY DEF MoveEntry, IInv, SnapshotInv, TypeOK
  <2>2. Len(snapshots) \in 1 .. Len(snapshots)
    BY <2>1
  <2>. QED  BY <2>1, <2>2 DEF Last
<1> DEFINE Now(e) == [Last(snapshots) EXCEPT !.has = @ \ {e}]
           Lost(e) == [Last(snapshots) EXCEPT !.has = @ \ {e}, !.lost = @ \cup {e}]
<1>2. PICK e \in Last(snapshots).has :
        \/ game' = game \cup {e} /\ snapshots' = Renewed(Now(e))
        \/ game' = game /\ snapshots' = Renewed(Lost(e))
  BY DEF MoveEntry
<1>3. /\ e \in Entries /\ Last(snapshots).has \ {e} \in SUBSET Entries
      /\ Last(snapshots).lost \cup {e} \in SUBSET Entries
  BY <1>1, <1>2 DEF Snapshots
<1>4. game' \in SUBSET Entries /\ game \subseteq game'
  BY <1>2, <1>3 DEF IInv, TypeOK
<1>5. /\ Now(e) \in Snapshots /\ Now(e).has = Last(snapshots).has \ {e}
      /\ Now(e).of = Last(snapshots).of /\ Now(e).lost = Last(snapshots).lost
      /\ Now(e).cut = Last(snapshots).cut
  BY <1>1, <1>3 DEF Snapshots
<1>6. /\ Lost(e) \in Snapshots /\ Lost(e).has = Last(snapshots).has \ {e}
      /\ Lost(e).of = Last(snapshots).of /\ Lost(e).lost = Last(snapshots).lost \cup {e}
      /\ Lost(e).cut = Last(snapshots).cut
  BY <1>1, <1>3 DEF Snapshots
<1> HIDE DEF Now, Lost
<1>7. CASE game' = game \cup {e} /\ snapshots' = Renewed(Now(e))
  <2>1. e \in game'
    BY <1>7
  <2>. QED  BY <1>1, <1>4, <1>5, <1>7, <2>1, NewestIs
<1>8. CASE game' = game /\ snapshots' = Renewed(Lost(e))
  BY <1>1, <1>4, <1>6, <1>8, NewestIs
<1>. QED  BY <1>2, <1>7, <1>8

LEMMA MoveEntryInvariant ==
  ASSUME IInv, NEW t \in Threads, MoveEntry(t) PROVE IInv'
<1>1. pc[t] = "rb_move" /\ lock = t /\ \A u \in Threads : u # t => pc[u] \notin UnderLock
  BY Alone DEF MoveEntry, UnderLock
<1>6. snapshots' \in Seq(Snapshots) /\ snapshots' # <<>> /\ game' \in SUBSET Entries
  BY MovedEntry
<1>7. UNCHANGED <<mods, manifest, override, lock, pc, request, progress, outcome, held, owes,
                  misnamed, strays, mixed, begun, faults>>
  BY DEF MoveEntry, late, history
<1>8. TypeOK'
  BY <1>1, <1>6, <1>7 DEF IInv, TypeOK, Labels
<1>9. Exclusive'
  BY <1>1, <1>6, <1>7 DEF IInv, Exclusive, UnderLock
<1>10. InstalledIsWhole' /\ \A u \in Threads : PlaceInv(u)'
  BY <1>1, <1>6, <1>7 DEF IInv, InstalledIsWhole, PlaceInv, Holds, UnderLock
<1>11. SnapshotHoldsWhatIsWiped' /\ \A u \in Threads : SnapshotInv(u)'
  BY <1>1, <1>6, <1>7 DEF IInv, SnapshotHoldsWhatIsWiped, SnapshotInv, UnderLock
<1>. QED  BY <1>8, <1>9, <1>10, <1>11 DEF IInv

\* The newest snapshot, and only it, has been cut short.
Cut ==
  /\ snapshots # <<>> /\ Len(snapshots') = Len(snapshots)
  /\ \A i \in 1 .. Len(snapshots) : i # Len(snapshots) => snapshots'[i] = snapshots[i]
  /\ snapshots'[Len(snapshots)].cut

\* A record whose field is set has it.
LEMMA CutIsSet ==
  ASSUME snapshots # <<>>, snapshots \in Seq(Snapshots), NEW h \in SUBSET Entries,
         \/ snapshots' = Renewed([Last(snapshots) EXCEPT !.cut = TRUE])
         \/ snapshots' = Renewed([Last(snapshots) EXCEPT !.has = h, !.cut = TRUE])
  PROVE  Cut /\ snapshots' \in Seq(Snapshots)
<1> DEFINE one == [Last(snapshots) EXCEPT !.cut = TRUE]
           two == [Last(snapshots) EXCEPT !.has = h, !.cut = TRUE]
<1>1. Last(snapshots) \in Snapshots
  <2>1. Len(snapshots) \in 1 .. Len(snapshots)
    OBVIOUS
  <2>. QED  BY <2>1 DEF Last
<1>2. one \in Snapshots /\ one.cut /\ two \in Snapshots /\ two.cut
  BY <1>1 DEF Snapshots
<1>3. snapshots' = Renewed(one) \/ snapshots' = Renewed(two)
  OBVIOUS
<1> HIDE DEF one, two
<1>4. CASE snapshots' = Renewed(one)  BY <1>2, <1>4, NewestIs DEF Cut
<1>5. CASE snapshots' = Renewed(two)  BY <1>2, <1>5, NewestIs DEF Cut
<1>. QED  BY <1>3, <1>4, <1>5

\* A rollback that fails half way, or at its manifest, marks game/ as such.
LEMMA MoveFailsInvariant ==
  ASSUME IInv, NEW t \in Threads, MoveFails(t) \/ FinishRollbackFails(t) PROVE IInv'
<1>1. /\ pc[t] \in {"rb_move", "rb_manifest"} /\ lock = t
      /\ \A u \in Threads : u # t => pc[u] \notin UnderLock
  BY Alone DEF MoveFails, FinishRollbackFails, UnderLock
<1>2. /\ pc' \in [Threads -> Labels] /\ pc'[t] = "idle"
      /\ \A u \in Threads : u # t => pc'[u] = pc[u]
  BY DEF MoveFails, FinishRollbackFails, Goto, IInv, TypeOK, Labels, BeforeLock, UnderLock,
         AfterLock
<1>3. /\ lock' = None /\ outcome' = "failed" /\ faults' \in Nat
      /\ UNCHANGED <<game, mods, override, request, progress, held, owes, misnamed,
                     strays, mixed, begun>>
  BY DEF MoveFails, FinishRollbackFails, Fault, late, IInv, TypeOK
<1>4. snapshots' \in Seq(Snapshots)
  <2>1. snapshots \in Seq(Snapshots)
    BY DEF IInv, TypeOK
  <2>2. CASE MoveFails(t)
    <3>1. snapshots # <<>>
      BY <2>2 DEF MoveFails, IInv, SnapshotInv
    <3>. QED  BY <2>1, <2>2, <3>1, CutIsSet DEF MoveFails
  <2>3. CASE FinishRollbackFails(t)
    BY <2>1, <2>3 DEF FinishRollbackFails
  <2>. QED  BY <2>2, <2>3
<1>5. manifest' \in Manifests
  BY DEF MoveFails, FinishRollbackFails, Unparsable, Manifests, IInv, TypeOK
<1>8. TypeOK'
  BY <1>1, <1>2, <1>3, <1>4, <1>5 DEF IInv, TypeOK, Labels
<1>9. Exclusive'
  BY <1>1, <1>2, <1>3 DEF IInv, Exclusive, UnderLock
<1>10. InstalledIsWhole' /\ \A u \in Threads : PlaceInv(u)'
  BY <1>1, <1>2, <1>3 DEF IInv, InstalledIsWhole, PlaceInv, Holds, UnderLock
<1>11. SnapshotHoldsWhatIsWiped' /\ \A u \in Threads : SnapshotInv(u)'
  BY <1>1, <1>2, <1>3 DEF IInv, SnapshotHoldsWhatIsWiped, SnapshotInv, UnderLock
<1>. QED  BY <1>8, <1>9, <1>10, <1>11 DEF IInv

\* The emptied snapshot goes, or is left behind.
LEMMA RemoveSnapshotInvariant ==
  ASSUME IInv, NEW t \in Threads, RemoveSnapshot(t) \/ LeaveSnapshot(t) PROVE IInv'
<1>1. pc[t] = "rb_move" /\ lock = t /\ \A u \in Threads : u # t => pc[u] \notin UnderLock
  BY Alone DEF RemoveSnapshot, LeaveSnapshot, UnderLock
<1>2. /\ pc' \in [Threads -> Labels] /\ pc'[t] = "rb_manifest"
      /\ \A u \in Threads : u # t => pc'[u] = pc[u]
  BY DEF RemoveSnapshot, LeaveSnapshot, Goto, IInv, TypeOK, Labels, BeforeLock, UnderLock, AfterLock
<1>3. snapshots' \in Seq(Snapshots)
  <2>1. snapshots \in Seq(Snapshots) /\ snapshots # <<>>
    BY <1>1 DEF IInv, SnapshotInv, TypeOK
  <2>2. CASE RemoveSnapshot(t)
    <3>1. Fresh \in Snapshots
      BY DEF IInv, TypeOK, Fresh, Snapshots
    <3>. QED  BY <2>1, <2>2, <3>1, SnapshotTypes DEF RemoveSnapshot
  <2>3. CASE LeaveSnapshot(t)
    BY <2>1, <2>3, CutIsSet DEF LeaveSnapshot
  <2>. QED  BY <2>2, <2>3
<1>4. /\ faults' \in Nat
      /\ UNCHANGED <<game, mods, manifest, override, lock, request, progress, outcome, held, owes,
                     misnamed, strays, mixed, begun>>
  BY DEF RemoveSnapshot, LeaveSnapshot, Fault, late, history, IInv, TypeOK
<1>8. TypeOK'
  BY <1>1, <1>2, <1>3, <1>4 DEF IInv, TypeOK, Labels
<1>9. Exclusive'
  BY <1>1, <1>2, <1>3, <1>4 DEF IInv, Exclusive, UnderLock
<1>10. InstalledIsWhole' /\ \A u \in Threads : PlaceInv(u)'
  BY <1>1, <1>2, <1>3, <1>4 DEF IInv, InstalledIsWhole, PlaceInv, Holds, UnderLock
<1>11. SnapshotHoldsWhatIsWiped' /\ \A u \in Threads : SnapshotInv(u)'
  BY <1>1, <1>2, <1>3, <1>4 DEF IInv, SnapshotHoldsWhatIsWiped, SnapshotInv, UnderLock
<1>. QED  BY <1>8, <1>9, <1>10, <1>11 DEF IInv

\* The manifest of a rollback does not claim an install.
LEMMA FinishRollbackInvariant ==
  ASSUME IInv, NEW t \in Threads, FinishRollback(t) PROVE IInv'
<1>1. pc[t] = "rb_manifest" /\ lock = t /\ \A u \in Threads : u # t => pc[u] \notin UnderLock
  BY Alone DEF FinishRollback, UnderLock
<1>2. /\ pc' \in [Threads -> Labels] /\ pc'[t] = "idle"
      /\ \A u \in Threads : u # t => pc'[u] = pc[u]
  BY DEF FinishRollback, Goto, IInv, TypeOK, Labels, BeforeLock, UnderLock, AfterLock
<1>3. /\ manifest' = [manifest EXCEPT !.result = "rolled_back"]
      /\ lock' = None /\ outcome' = "rolled_back" /\ progress' = "done"
      /\ UNCHANGED <<game, mods, snapshots, override, request, held, owes, misnamed, strays, mixed, begun,
                     faults>>
  BY DEF FinishRollback, late
<1>4. manifest' \in Manifests
  BY <1>3 DEF IInv, TypeOK, Manifests
<1>8. TypeOK'
  BY <1>1, <1>2, <1>3, <1>4 DEF IInv, TypeOK, Labels
<1>9. Exclusive'
  BY <1>1, <1>2, <1>3, <1>4 DEF IInv, Exclusive, UnderLock
<1>10. InstalledIsWhole' /\ \A u \in Threads : PlaceInv(u)'
  BY <1>1, <1>2, <1>3, <1>4 DEF IInv, InstalledIsWhole, PlaceInv, Holds, UnderLock
<1>11. SnapshotHoldsWhatIsWiped' /\ \A u \in Threads : SnapshotInv(u)'
  BY <1>1, <1>2, <1>3, <1>4 DEF IInv, SnapshotHoldsWhatIsWiped, SnapshotInv, UnderLock
<1>. QED  BY <1>8, <1>9, <1>10, <1>11 DEF IInv

\* A request that begins finds the instance as the last one left it.
LEMMA BeginInvariant ==
  ASSUME IInv, NEW t \in Threads, BeginInstall(t) \/ BeginRollback(t) PROVE IInv'
<1>1. CASE BeginInstall(t)
  <2>1. PICK r \in Requests : /\ request' = [request EXCEPT ![t] = r]
                              /\ Goto(t, IF Managed(r.sw) THEN "categories" ELSE "stop")
    BY <1>1 DEF BeginInstall
  <2>2. /\ pc[t] = "idle" /\ progress' = "active" /\ begun' = begun + 1
        /\ UNCHANGED <<game, mods, snapshots, manifest, override, lock, outcome, held, owes,
                       misnamed, strays, mixed, faults>>
    BY <1>1 DEF BeginInstall, disk, late
  <2>3. /\ pc' \in [Threads -> Labels] /\ pc'[t] \in {"categories", "stop"}
        /\ \A u \in Threads : u # t => pc'[u] = pc[u]
    BY <2>1 DEF Goto, IInv, TypeOK, Labels, BeforeLock, UnderLock, AfterLock
  <2>4. request' \in [Threads -> Requests] /\ \A u \in Threads : u # t => request'[u] = request[u]
    BY <2>1 DEF IInv, TypeOK
  <2>5. TypeOK'
    BY <2>2, <2>3, <2>4 DEF IInv, TypeOK, Labels
  <2>6. Exclusive'
    BY <2>2, <2>3 DEF IInv, Exclusive, UnderLock
  <2>7. InstalledIsWhole' /\ \A u \in Threads : PlaceInv(u)'
    BY <2>2, <2>3, <2>4 DEF IInv, InstalledIsWhole, PlaceInv, Holds
  <2>8. SnapshotHoldsWhatIsWiped' /\ \A u \in Threads : SnapshotInv(u)'
    BY <2>2, <2>3, <2>4 DEF IInv, SnapshotHoldsWhatIsWiped, SnapshotInv
  <2>. QED  BY <2>5, <2>6, <2>7, <2>8 DEF IInv
<1>2. CASE BeginRollback(t)
  <2>1. PICK label \in {"idle", "rb_pick"} :
          /\ Goto(t, label) /\ pc[t] = "idle"
          /\ label = "rb_pick" => lock = None /\ lock' = t
          /\ label = "idle" => lock' = lock
    BY <1>2 DEF BeginRollback, Refuse
  <2>2. /\ progress' \in {"active", "error"} /\ begun' = begun + 1
        /\ UNCHANGED <<game, mods, snapshots, manifest, override, request, outcome, held, owes,
                       misnamed, strays, mixed, faults>>
    BY <1>2 DEF BeginRollback, Refuse, disk, late
  <2>3. /\ pc' \in [Threads -> Labels] /\ pc'[t] = label
        /\ \A u \in Threads : u # t => pc'[u] = pc[u]
    BY <2>1 DEF Goto, IInv, TypeOK, Labels, BeforeLock, UnderLock, AfterLock
  <2>5. TypeOK'
    BY <2>1, <2>2, <2>3 DEF IInv, TypeOK, Labels
  <2>6. Exclusive'
    BY <2>1, <2>2, <2>3 DEF IInv, TypeOK, Exclusive, UnderLock
  <2>7. InstalledIsWhole' /\ \A u \in Threads : PlaceInv(u)'
    BY <2>1, <2>2, <2>3 DEF IInv, InstalledIsWhole, PlaceInv, Holds
  <2>8. SnapshotHoldsWhatIsWiped' /\ \A u \in Threads : SnapshotInv(u)'
    BY <2>1, <2>2, <2>3 DEF IInv, SnapshotHoldsWhatIsWiped, SnapshotInv
  <2>. QED  BY <2>5, <2>6, <2>7, <2>8 DEF IInv
<1>. QED  BY <1>1, <1>2

\* The game and the users add data, never software, and only while no thread is
\* in the installer.
LEMMA SurroundingsInvariant ==
  ASSUME IInv, GameWrites \/ UploadMod PROVE IInv'
<1>1. /\ game' = game \/ /\ \A u \in Threads : pc[u] = "idle"
                         /\ game' \in SUBSET Entries /\ game' \cap Software = game \cap Software
      /\ mods' \in SUBSET Mods
      /\ UNCHANGED <<snapshots, manifest, override, lock, pc, request, progress, outcome, held,
                     owes, misnamed, strays, mixed, begun, faults>>
  BY DEF GameWrites, UploadMod, late, history, IInv, TypeOK, Entries
<1>8. TypeOK'
  BY <1>1 DEF IInv, TypeOK, Labels
<1>9. Exclusive'
  BY <1>1 DEF IInv, Exclusive, UnderLock
<1>10. InstalledIsWhole' /\ \A u \in Threads : PlaceInv(u)'
  BY <1>1 DEF IInv, InstalledIsWhole, PlaceInv, Holds, UnderLock
<1>11. SnapshotHoldsWhatIsWiped' /\ \A u \in Threads : SnapshotInv(u)'
  BY <1>1 DEF IInv, SnapshotHoldsWhatIsWiped, SnapshotInv, UnderLock
<1>. QED  BY <1>8, <1>9, <1>10, <1>11 DEF IInv

\* What a stray brings is known as mixed; what it leaves alone is the rest.
LEMMA StraysInvariant ==
  ASSUME IInv, StrayWrites \/ StraysEnd PROVE IInv'
<1>1. /\ (game' = game /\ mixed' = mixed) \/ (game \subseteq game' /\ mixed')
      /\ game' \in SUBSET Entries /\ strays' \in SUBSET Software /\ mixed' \in BOOLEAN
      /\ UNCHANGED <<mods, snapshots, manifest, override, lock, pc, request, progress, outcome,
                     held, owes, misnamed, begun, faults>>
  BY DEF StrayWrites, StraysEnd, disk, history, IInv, TypeOK, Entries
<1>8. TypeOK'
  BY <1>1 DEF IInv, TypeOK, Labels
<1>9. Exclusive'
  BY <1>1 DEF IInv, Exclusive, UnderLock
<1>10. InstalledIsWhole' /\ \A u \in Threads : PlaceInv(u)'
  BY <1>1 DEF IInv, InstalledIsWhole, PlaceInv, Holds, UnderLock
<1>11. SnapshotHoldsWhatIsWiped' /\ \A u \in Threads : SnapshotInv(u)'
  BY <1>1 DEF IInv, SnapshotHoldsWhatIsWiped, SnapshotInv, UnderLock
<1>. QED  BY <1>8, <1>9, <1>10, <1>11 DEF IInv

\* A restart changes at most the newest snapshot, and says so.
LEMMA RestartCuts ==
  ASSUME IInv, DashboardRestarts
  PROVE  /\ snapshots' \in Seq(Snapshots)
         /\ \/ Cut
            \/ snapshots' = snapshots /\ \A t \in Threads : pc[t] \notin {"copying", "rb_move"}
<1>1. snapshots \in Seq(Snapshots) /\ snapshots' \in CutShort /\ game \in SUBSET Entries
  BY DEF IInv, TypeOK, DashboardRestarts
<1>2. CASE \E t \in Threads : pc[t] = "copying"
  <2>1. snapshots # <<>>
    BY <1>2 DEF IInv, SnapshotInv
  <2>2. PICK h \in SUBSET game :
          snapshots' = Renewed([Last(snapshots) EXCEPT !.has = h, !.cut = TRUE])
    BY <1>1, <1>2 DEF CutShort
  <2>3. h \in SUBSET Entries
    BY <1>1
  <2>. QED  BY <1>1, <2>1, <2>2, <2>3, CutIsSet
<1>3. CASE (\A t \in Threads : pc[t] # "copying") /\ \E t \in Threads : pc[t] = "rb_move"
  <2>1. snapshots # <<>>
    BY <1>3 DEF IInv, SnapshotInv
  <2>2. snapshots' = Renewed([Last(snapshots) EXCEPT !.cut = TRUE])
    BY <1>1, <1>3 DEF CutShort
  <2>. QED  BY <1>1, <2>1, <2>2, CutIsSet
<1>4. CASE \A t \in Threads : pc[t] \notin {"copying", "rb_move"}
  BY <1>1, <1>4 DEF CutShort
<1>. QED  BY <1>2, <1>3, <1>4

\* A restart of the dashboard under the lock leaves game/ marked as failed.
LEMMA RestartInvariant == ASSUME IInv, DashboardRestarts PROVE IInv'
<1>1. /\ pc' = [t \in Threads |-> "idle"] /\ lock' = None /\ progress' = "idle"
      /\ outcome' = IF lock = None THEN outcome ELSE "failed"
      /\ faults' = faults + 1
      /\ owes' = None /\ misnamed' = (misnamed \/ owes # None)
      /\ UNCHANGED <<mods, override, request, held, mixed, begun>>
  BY DEF DashboardRestarts, Fault
<1>6. strays' \in SUBSET Software
  BY DEF DashboardRestarts, IInv, TypeOK, Requests
<1>2. game' \in SUBSET Entries
  BY DEF DashboardRestarts, IInv, TypeOK
<1>3. manifest' \in Manifests
  BY DEF DashboardRestarts, IInv, TypeOK, Unparsable, Manifests
<1>5. snapshots' \in Seq(Snapshots)
  BY RestartCuts
<1>4. lock = None => game' = game /\ manifest' = manifest
  <2>. SUFFICES ASSUME lock = None PROVE game' = game /\ manifest' = manifest  OBVIOUS
  <2>1. \A t \in Threads : pc[t] \notin {"wipe", "rb_clear", "manifest", "rb_manifest"}
    BY DEF IInv, Exclusive, UnderLock
  <2>. QED  BY <2>1 DEF DashboardRestarts
<1>8. TypeOK'
  BY <1>1, <1>2, <1>3, <1>5, <1>6 DEF IInv, TypeOK, Labels
<1>9. Exclusive'
  BY <1>1, <1>2, <1>3, <1>4 DEF IInv, Exclusive, UnderLock
<1>10. InstalledIsWhole' /\ \A u \in Threads : PlaceInv(u)'
  BY <1>1, <1>2, <1>3, <1>4 DEF IInv, InstalledIsWhole, PlaceInv, Holds, UnderLock, BeforeLock
<1>11. SnapshotHoldsWhatIsWiped' /\ \A u \in Threads : SnapshotInv(u)'
  BY <1>1, <1>2, <1>3, <1>4 DEF IInv, SnapshotHoldsWhatIsWiped, SnapshotInv, UnderLock
<1>. QED  BY <1>8, <1>9, <1>10, <1>11 DEF IInv

-----------------------------------------------------------------------------
\* IInv holds of every reachable state.
THEOREM Invariance == Spec => []IInv
<1>1. Init => IInv
  <2>. SUFFICES ASSUME Init PROVE IInv  OBVIOUS
  <2>1. manifest \in Manifests
    BY LaunchModeType DEF Init, Manifests
  <2>2. snapshots \in Seq(Snapshots)
    BY DEF Init
  <2>3. /\ pc = [t \in Threads |-> "idle"] /\ lock = None
        /\ game \in SUBSET Entries /\ Holds(Initial)
        /\ manifest.sw = Initial /\ manifest.mode = LaunchMode(Initial)
    BY DEF Init, Entries, Holds
  <2>4. TypeOK
    BY <2>1, <2>2, <2>3 DEF Init, TypeOK, Requests
  <2>5. Exclusive
    BY <2>3 DEF Exclusive, UnderLock
  <2>6. InstalledIsWhole /\ \A t \in Threads : PlaceInv(t)
    BY <2>3 DEF InstalledIsWhole, PlaceInv, Holds
  <2>7. SnapshotHoldsWhatIsWiped /\ \A t \in Threads : SnapshotInv(t)
    BY <2>3 DEF SnapshotHoldsWhatIsWiped, SnapshotInv
  <2>. QED  BY <2>4, <2>5, <2>6, <2>7 DEF IInv
<1>2. IInv /\ [Next]_vars => IInv'
  <2>. SUFFICES ASSUME IInv, [Next]_vars PROVE IInv'  OBVIOUS
  <2>1. ASSUME NEW t \in Threads, BeginInstall(t) \/ BeginRollback(t) PROVE IInv'
    BY <2>1, BeginInvariant
  <2>2. ASSUME NEW t \in Threads, Install(t) PROVE IInv'
    <3>1. CASE OutsideStep(t)  BY <3>1, OutsideInvariant
    <3>2. CASE AdvanceStep(t)  BY <3>2, AdvanceInvariant
    <3>3. CASE AbortStep(t)  BY <3>3, AbortStepInvariant
    <3>4. CASE Acquire(t) \/ BeginSnapshot(t) \/ EndSnapshot(t) \/ Wipe(t)
      BY <3>4, AcquireInvariant, BeginSnapshotInvariant, EndSnapshotInvariant, WipeInvariant
    <3>5. CASE PlaceJar(t) \/ PlaceZip(t) \/ InstallerWrites(t) \/ WriteManifest(t)
      BY <3>5, PlaceInvariant, InstallerWritesInvariant, WriteManifestInvariant
    <3>. QED  BY <2>2, <3>1, <3>2, <3>3, <3>4, <3>5 DEF Install, OutsideStep, AdvanceStep, AbortStep
  <2>3. ASSUME NEW t \in Threads, Rollback(t) PROVE IInv'
    <3>1. CASE PickSnapshot(t)  BY <3>1, AdvanceInvariant DEF AdvanceStep
    <3>. QED
      BY <2>3, <3>1, NoSnapshotInvariant, ClearBeforeRollbackInvariant, MoveEntryInvariant,
         MoveFailsInvariant, RemoveSnapshotInvariant, FinishRollbackInvariant DEF Rollback
  <2>4. CASE GameWrites \/ UploadMod \/ StrayWrites \/ StraysEnd
    BY <2>4, SurroundingsInvariant, StraysInvariant
  <2>5. CASE DashboardRestarts  BY <2>5, RestartInvariant
  <2>6. CASE UNCHANGED vars
    BY <2>6 DEF vars, disk, late, history, IInv, TypeOK, Exclusive, InstalledIsWhole, PlaceInv, Holds,
                SnapshotHoldsWhatIsWiped, SnapshotInv
  <2>. QED  BY <2>1, <2>2, <2>3, <2>4, <2>5, <2>6 DEF Next
<1>. QED  BY <1>1, <1>2, PTL DEF Spec

\* Every variable of the installer keeps its type.
THEOREM TypeCorrect == Spec => []TypeOK
<1>1. IInv => TypeOK  BY DEF IInv
<1>. QED  BY <1>1, Invariance, PTL

\* However many threads install and revert at once, one of them at a time is in
\* game/, and it is the holder of the lock.
THEOREM MutualExclusion == Spec => []Exclusive
<1>1. IInv => Exclusive  BY DEF IInv
<1>. QED  BY <1>1, Invariance, PTL

\* Past any failures and restarts, a successful install leaves in game/ the
\* software of the manifest and no other, unless and until an installer that has
\* outlived its request writes there, or a zip has met leftovers of the wipe.
THEOREM InstallIsWhole == Spec => []InstalledIsWhole
<1>1. IInv => InstalledIsWhole  BY DEF IInv
<1>. QED  BY <1>1, Invariance, PTL

\* An install with a backup deletes nothing that is not in the newest snapshot, but
\* for what the copying has said it could not copy.
THEOREM WipedIsSaved == Spec => []SnapshotHoldsWhatIsWiped
<1>1. IInv => SnapshotHoldsWhatIsWiped  BY DEF IInv
<1>. QED  BY <1>1, Invariance, PTL

-----------------------------------------------------------------------------
(* What rollbacks restore and what is launched.                            *)

\* What a snapshot was taken of, but for what its warnings name.
Wanted(s) == s.of \ s.lost

\* Nothing that was wanted is missing from the snapshot, or it was cut short.
Complete(s) == s.cut \/ Wanted(s) \subseteq s.has

\* A snapshot that is being copied or moved back is the newest one, and is
\* missing only what is in game/; all others are complete, or were cut short.
RestorableInv ==
  /\ \A i \in 1 .. Len(snapshots) :
       \/ Complete(snapshots[i])
       \/ i = Len(snapshots) /\ \E t \in Threads : pc[t] \in {"copying", "rb_move"}
  /\ \A t \in Threads :
       /\ pc[t] = "copying" => Last(snapshots).of \subseteq game
       /\ pc[t] = "rb_move" =>
            Last(snapshots).cut \/ Wanted(Last(snapshots)) \subseteq Last(snapshots).has \cup game

\* The property of RollbackRestoresSnapshot for one step.
Restores ==
  Len(snapshots') < Len(snapshots) /\ ~Last(snapshots).cut => Wanted(Last(snapshots)) \subseteq game

\* A step that leaves the snapshots alone, and takes nothing from game/ while one is
\* worked on.
LEMMA RestorableFrame ==
  ASSUME IInv, RestorableInv, snapshots' = snapshots,
         \A t \in Threads : pc'[t] \in {"copying", "rb_move"} => pc'[t] = pc[t],
         \A t \in Threads : pc[t] \in {"copying", "rb_move"} =>
           pc'[t] = pc[t] /\ game \subseteq game'
  PROVE  RestorableInv' /\ Restores
<1>1. Len(snapshots) \in Nat
  BY DEF IInv, TypeOK
<1>2. Last(snapshots)' = Last(snapshots)
  BY DEF Last
<1>3. Restores
  BY <1>1 DEF Restores
<1>. QED  BY <1>2, <1>3 DEF RestorableInv, Complete, Wanted

\* A new snapshot comes after complete ones.
LEMMA RestorableBegin ==
  ASSUME IInv, RestorableInv, NEW t \in Threads, BeginSnapshot(t)
  PROVE  RestorableInv' /\ Restores
<1>1. pc[t] = "snapshot" /\ lock = t /\ \A u \in Threads : u # t => pc[u] \notin UnderLock
  BY Alone DEF BeginSnapshot, UnderLock
<1>2. /\ pc'[t] = "copying" /\ \A u \in Threads : u # t => pc'[u] = pc[u]
      /\ snapshots' = Append(snapshots, Fresh) /\ game' = game
  BY DEF BeginSnapshot, Fresh, Goto, IInv, TypeOK
<1>3. snapshots \in Seq(Snapshots) /\ Fresh \in Snapshots
  BY DEF IInv, TypeOK, Fresh, Snapshots
<1>4. /\ Len(snapshots') = Len(snapshots) + 1 /\ Len(snapshots) \in Nat
      /\ \A i \in 1 .. Len(snapshots) : snapshots'[i] = snapshots[i]
      /\ snapshots'[Len(snapshots')] = Fresh
  BY <1>2, <1>3
<1>5. \A i \in 1 .. Len(snapshots) : Complete(snapshots[i])
  BY <1>1 DEF RestorableInv, UnderLock
<1>6. \A i \in 1 .. Len(snapshots') :
        Complete(snapshots'[i]) \/ i = Len(snapshots')
  BY <1>4, <1>5
<1>7. Last(snapshots').of = game
  BY <1>4 DEF Last, Fresh
<1>8. \A u \in Threads : pc'[u] # "rb_move" /\ (pc'[u] = "copying" => u = t)
  BY <1>1, <1>2 DEF UnderLock
<1>9. Restores
  BY <1>4 DEF Restores
<1>. QED  BY <1>2, <1>4, <1>6, <1>7, <1>8, <1>9 DEF RestorableInv

\* The copy is complete but for what it has missed.
LEMMA RestorableEnd ==
  ASSUME IInv, RestorableInv, NEW t \in Threads, EndSnapshot(t)
  PROVE  RestorableInv' /\ Restores
<1>1. pc[t] = "copying" /\ lock = t /\ \A u \in Threads : u # t => pc[u] \notin UnderLock
  BY Alone DEF EndSnapshot, UnderLock
<1>2. pc'[t] = "wipe" /\ \A u \in Threads : u # t => pc'[u] = pc[u]
  BY DEF EndSnapshot, Goto, IInv, TypeOK
<1>3. PICK missed : Copied(t, missed)
  BY DEF EndSnapshot, Copied
<1>4. /\ Len(snapshots') = Len(snapshots) /\ Len(snapshots) \in Nat \ {0}
      /\ \A i \in 1 .. Len(snapshots) : i # Len(snapshots) => snapshots'[i] = snapshots[i]
      /\ Last(snapshots').has = game \ missed /\ Last(snapshots').lost = missed
      /\ Last(snapshots').of \subseteq game
  BY <1>1, <1>3, CopyIs DEF RestorableInv
<1>5. Complete(snapshots'[Len(snapshots)])
  BY <1>4 DEF Last, Complete, Wanted
<1>6. \A i \in 1 .. Len(snapshots) : i # Len(snapshots) => Complete(snapshots[i])
  BY DEF RestorableInv
<1>7. \A i \in 1 .. Len(snapshots') : Complete(snapshots'[i])
  BY <1>4, <1>5, <1>6
<1>8. \A u \in Threads : pc'[u] \notin {"copying", "rb_move"}
  BY <1>1, <1>2 DEF UnderLock
<1>9. Restores
  BY <1>4 DEF Restores
<1>. QED  BY <1>7, <1>8, <1>9 DEF RestorableInv

\* A rollback begins with a complete snapshot.
LEMMA RestorableClear ==
  ASSUME IInv, RestorableInv, NEW t \in Threads, ClearBeforeRollback(t)
  PROVE  RestorableInv' /\ Restores
<1>1. pc[t] = "rb_clear" /\ lock = t /\ \A u \in Threads : u # t => pc[u] \notin UnderLock
  BY Alone DEF ClearBeforeRollback, UnderLock
<1>2. /\ pc'[t] = "rb_move" /\ \A u \in Threads : u # t => pc'[u] = pc[u]
      /\ snapshots' = snapshots
  BY DEF ClearBeforeRollback, Goto, IInv, TypeOK
<1>3. snapshots # <<>> /\ snapshots \in Seq(Snapshots)
  BY <1>1 DEF IInv, TypeOK, SnapshotInv
<1>4. Len(snapshots) \in 1 .. Len(snapshots) /\ Len(snapshots) \in Nat
  BY <1>3
<1>5. \A i \in 1 .. Len(snapshots) : Complete(snapshots[i])
  BY <1>1 DEF RestorableInv, UnderLock
<1>6. Complete(Last(snapshots))
  BY <1>4, <1>5 DEF Last
<1>7. \A u \in Threads : pc'[u] # "copying"
  BY <1>1, <1>2 DEF UnderLock
<1>8. Restores
  BY <1>2, <1>4 DEF Restores
<1>. QED  BY <1>2, <1>5, <1>6, <1>7, <1>8 DEF RestorableInv, Complete, Wanted

\* What leaves the snapshot arrives in game/, or is named as lost.
LEMMA RestorableMove ==
  ASSUME IInv, RestorableInv, NEW t \in Threads, MoveEntry(t)
  PROVE  RestorableInv' /\ Restores
<1>1. pc[t] = "rb_move" /\ lock = t /\ \A u \in Threads : u # t => pc[u] \notin UnderLock
  BY Alone DEF MoveEntry, UnderLock
<1>2. /\ Len(snapshots') = Len(snapshots) /\ Len(snapshots) \in Nat \ {0}
      /\ \A i \in 1 .. Len(snapshots) : i # Len(snapshots) => snapshots'[i] = snapshots[i]
      /\ Last(snapshots').of = Last(snapshots).of /\ Last(snapshots').cut = Last(snapshots).cut
      /\ game \subseteq game'
  BY MovedEntry
<1>3. PICK e \in Last(snapshots).has :
         /\ Last(snapshots').has = Last(snapshots).has \ {e}
         /\ \/ e \in game' /\ Last(snapshots').lost = Last(snapshots).lost
            \/ Last(snapshots').lost = Last(snapshots).lost \cup {e}
  BY MovedEntry
<1>6. Wanted(Last(snapshots)) \subseteq Last(snapshots).has \cup game \/ Last(snapshots).cut
  BY <1>1 DEF RestorableInv
<1>7. Wanted(Last(snapshots')) \subseteq Last(snapshots').has \cup game' \/ Last(snapshots').cut
  BY <1>2, <1>3, <1>6 DEF Wanted
<1>8. \A i \in 1 .. Len(snapshots) : i # Len(snapshots) => Complete(snapshots[i])
  BY DEF RestorableInv
<1>9. \A i \in 1 .. Len(snapshots') :
        i # Len(snapshots') => Complete(snapshots'[i])
  BY <1>2, <1>8
<1>10. pc' = pc /\ \A u \in Threads : pc[u] # "copying"
  BY <1>1 DEF MoveEntry, UnderLock
<1>11. Restores
  BY <1>2 DEF Restores
<1>. QED  BY <1>1, <1>7, <1>9, <1>10, <1>11 DEF RestorableInv

\* All but the last of a sequence is as it was.
LEMMA FrontKeeps ==
  ASSUME NEW S, NEW s \in Seq(S), s # <<>>
  PROVE  /\ Len(Front(s)) = Len(s) - 1
         /\ \A i \in 1 .. Len(s) - 1 : Front(s)[i] = s[i]
<1> DEFINE n == Len(s) - 1
           f == SubSeq(s, 1, n)
<1>1. n \in Nat /\ n \in Int /\ 1 \in Int
  OBVIOUS
<1>2. \A i \in 1 .. n : s[i] \in S
  OBVIOUS
<1>3. Front(s) = f
  BY DEF Front
<1> HIDE DEF n
<1>4. /\ Len(f) = IF 1 <= n THEN n - 1 + 1 ELSE 0
      /\ \A i \in 1 .. n - 1 + 1 : f[i] = s[1 + i - 1]
  BY <1>1, <1>2, SubSeqProperties
<1> HIDE DEF f
<1>5. Len(f) = n /\ \A i \in 1 .. n : f[i] = s[i]
  BY <1>1, <1>4
<1>. QED  BY <1>3, <1>5 DEF n

\* The snapshot goes when nothing of it is missing from game/.
LEMMA RestorableRemove ==
  ASSUME IInv, RestorableInv, NEW t \in Threads, RemoveSnapshot(t)
  PROVE  RestorableInv' /\ Restores
<1>1. pc[t] = "rb_move" /\ lock = t /\ \A u \in Threads : u # t => pc[u] \notin UnderLock
  BY Alone DEF RemoveSnapshot, UnderLock
<1>2. /\ pc'[t] = "rb_manifest" /\ \A u \in Threads : u # t => pc'[u] = pc[u]
      /\ snapshots' = Front(snapshots) /\ Last(snapshots).has = {}
  BY DEF RemoveSnapshot, Goto, IInv, TypeOK
<1>3. snapshots # <<>> /\ snapshots \in Seq(Snapshots)
  BY <1>1 DEF IInv, TypeOK, SnapshotInv
<1>4. Len(snapshots) \in Nat \ {0}
  BY <1>3
<1>5. /\ Len(snapshots') = Len(snapshots) - 1
      /\ \A i \in 1 .. Len(snapshots') : snapshots'[i] = snapshots[i]
  BY <1>2, <1>3, <1>4, FrontKeeps
<1>6. \A i \in 1 .. Len(snapshots) : i # Len(snapshots) => Complete(snapshots[i])
  BY DEF RestorableInv
<1>7. \A i \in 1 .. Len(snapshots') : Complete(snapshots'[i])
  BY <1>4, <1>5, <1>6
<1>8. \A u \in Threads : pc'[u] \notin {"copying", "rb_move"}
  BY <1>1, <1>2 DEF UnderLock
<1>9. Restores
  BY <1>1, <1>2 DEF Restores, RestorableInv
<1>. QED  BY <1>7, <1>8, <1>9 DEF RestorableInv

\* A copy or a rollback that is cut short is the newest snapshot's, which says so.
LEMMA RestorableCut ==
  ASSUME IInv, RestorableInv, Cut, \A t \in Threads : pc'[t] \notin {"copying", "rb_move"}
  PROVE  RestorableInv' /\ Restores
<1>1. \A i \in 1 .. Len(snapshots) : i # Len(snapshots) => Complete(snapshots[i])
  BY DEF RestorableInv
<1>2. Len(snapshots) \in Nat
  BY DEF IInv, TypeOK
<1>3. \A i \in 1 .. Len(snapshots') : Complete(snapshots'[i])
  BY <1>1 DEF Cut, Complete
<1>4. Restores
  BY <1>2 DEF Cut, Restores
<1>. QED  BY <1>3, <1>4 DEF RestorableInv

\* A move, or a removal, that fails cuts its snapshot short.
LEMMA RestorableFails ==
  ASSUME IInv, RestorableInv, NEW t \in Threads, MoveFails(t) \/ LeaveSnapshot(t)
  PROVE  RestorableInv' /\ Restores
<1>1. pc[t] = "rb_move" /\ lock = t /\ \A u \in Threads : u # t => pc[u] \notin UnderLock
  BY Alone DEF MoveFails, LeaveSnapshot, UnderLock
<1>2. pc'[t] \in {"idle", "rb_manifest"} /\ \A u \in Threads : u # t => pc'[u] = pc[u]
  BY DEF MoveFails, LeaveSnapshot, Goto, IInv, TypeOK
<1>3. /\ snapshots # <<>> /\ snapshots \in Seq(Snapshots)
      /\ snapshots' = Renewed([Last(snapshots) EXCEPT !.cut = TRUE])
  BY <1>1 DEF MoveFails, LeaveSnapshot, IInv, TypeOK, SnapshotInv
<1>4. Cut
  BY <1>3, CutIsSet
<1>. QED  BY <1>1, <1>2, <1>4, RestorableCut DEF UnderLock

\* A restart leaves nobody at work on a snapshot.
LEMMA RestorableRestart ==
  ASSUME IInv, RestorableInv, DashboardRestarts
  PROVE  RestorableInv' /\ Restores
<1>1. \A t \in Threads : pc'[t] = "idle"
  BY DEF DashboardRestarts
<1>2. CASE Cut  BY <1>1, <1>2, RestorableCut
<1>3. CASE snapshots' = snapshots /\ \A t \in Threads : pc[t] \notin {"copying", "rb_move"}
  BY <1>1, <1>3, RestorableFrame
<1>. QED  BY <1>2, <1>3, RestartCuts

\* No step breaks it.
LEMMA RestorableStep ==
  ASSUME IInv, RestorableInv, [Next]_vars
  PROVE  RestorableInv' /\ Restores
<1>2. ASSUME NEW t \in Threads, BeginInstall(t) \/ BeginRollback(t) PROVE RestorableInv' /\ Restores
  <2>1. /\ snapshots' = snapshots /\ game' = game /\ pc[t] = "idle"
        /\ pc'[t] \in {"idle", "stop", "categories", "rb_pick"}
        /\ \A u \in Threads : u # t => pc'[u] = pc[u]
    BY <1>2 DEF BeginInstall, BeginRollback, Refuse, Goto, disk, IInv, TypeOK
  <2>. QED  BY <2>1, RestorableFrame
<1>3. ASSUME NEW t \in Threads, Install(t) PROVE RestorableInv' /\ Restores
  <2>1. CASE BeginSnapshot(t)  BY <2>1, RestorableBegin
  <2>2. CASE EndSnapshot(t)  BY <2>2, RestorableEnd
  <2>3. CASE ~BeginSnapshot(t) /\ ~EndSnapshot(t)
    <3>1. PICK from \in Labels \ {"copying", "rb_move"}, to \in Labels \ {"copying", "rb_move"} :
            pc[t] = from /\ (Goto(t, to) \/ (to = from /\ pc' = pc))
      BY <1>3, <2>3
         DEF Install, StopInstance, StopInstanceFails, ClearCategories, Acquire, Busy, Resolve,
             ResolveFails, RuntimeStatus, RuntimeHealth, RuntimeStarted, RuntimeStopped,
             RuntimeFails, NothingToClean, SkipSnapshot, SnapshotFails, Wipe, PlaceJar, PlaceZip,
             DownloadInstaller, PlaceFails, InstallerWrites, InstallerRan, InstallerFails,
             WriteManifest, WriteManifestFails, WriteOverride, WriteOverrideFails, FinishInstall,
             Advance, Refuse, Abort, Fail, Labels, BeforeLock, UnderLock, AfterLock
    <3>2. pc'[t] = to /\ \A u \in Threads : u # t => pc'[u] = pc[u]
      BY <3>1 DEF Goto, IInv, TypeOK
    <3>3. /\ snapshots' = snapshots
          /\ game' = game \/ pc[t] \in {"wipe", "place", "run_installer"}
      BY <1>3, <2>3
         DEF Install, StopInstance, StopInstanceFails, ClearCategories, Acquire, Busy, Resolve,
             ResolveFails, RuntimeStatus, RuntimeHealth, RuntimeStarted, RuntimeStopped,
             RuntimeFails, NothingToClean, SkipSnapshot, SnapshotFails, Wipe, PlaceJar, PlaceZip,
             DownloadInstaller, PlaceFails, InstallerWrites, InstallerRan, InstallerFails,
             WriteManifest, WriteManifestFails, WriteOverride, WriteOverrideFails, FinishInstall,
             Advance, Refuse, Abort, Fail, disk
    <3>4. game' = game \/ \A u \in Threads : pc[u] \notin {"copying", "rb_move"}
      BY <3>1, <3>3, Alone DEF UnderLock
    <3>. QED  BY <3>1, <3>2, <3>3, <3>4, RestorableFrame
  <2>. QED  BY <2>1, <2>2, <2>3
<1>4. ASSUME NEW t \in Threads, Rollback(t) PROVE RestorableInv' /\ Restores
  <2>1. CASE \/ NoSnapshot(t) \/ PickSnapshot(t)
             \/ FinishRollback(t) \/ FinishRollbackFails(t)
    <3>1. /\ snapshots' = snapshots /\ game' = game /\ pc[t] \in {"rb_pick", "rb_manifest"}
          /\ pc'[t] \in {"idle", "rb_clear"} /\ \A u \in Threads : u # t => pc'[u] = pc[u]
      BY <2>1
         DEF NoSnapshot, PickSnapshot, FinishRollback, FinishRollbackFails, Advance, Refuse, Goto, disk, IInv, TypeOK
    <3>. QED  BY <3>1, RestorableFrame
  <2>2. CASE ClearBeforeRollback(t)  BY <2>2, RestorableClear
  <2>3. CASE MoveEntry(t)  BY <2>3, RestorableMove
  <2>4. CASE RemoveSnapshot(t)  BY <2>4, RestorableRemove
  <2>5. CASE MoveFails(t) \/ LeaveSnapshot(t)  BY <2>5, RestorableFails
  <2>. QED  BY <1>4, <2>1, <2>2, <2>3, <2>4, <2>5 DEF Rollback
<1>5. ASSUME GameWrites \/ UploadMod \/ StrayWrites \/ StraysEnd \/ UNCHANGED vars
      PROVE  RestorableInv' /\ Restores
  <2>1. /\ snapshots' = snapshots /\ pc' = pc
        /\ game \subseteq game'
    BY <1>5 DEF GameWrites, UploadMod, StrayWrites, StraysEnd, vars, disk
  <2>. QED  BY <2>1, RestorableFrame
<1>6. CASE DashboardRestarts  BY <1>6, RestorableRestart
<1>. QED  BY <1>2, <1>3, <1>4, <1>5, <1>6 DEF Next

\* rollback() removes a snapshot when all that was saved in it is back, whatever fails
\* or is restarted, unless that cut short the copying or the moving back of this one:
\* but for what its copying has warned of, and what went inside a leftover.
THEOREM RollbackRestores == Spec => RollbackRestoresSnapshot
<1>1. Init => RestorableInv
  BY DEF Init, RestorableInv
<1>2. IInv /\ RestorableInv /\ [Next]_vars => RestorableInv'
  BY RestorableStep
<1>3. IInv /\ RestorableInv /\ [Next]_vars =>
        [Len(snapshots') < Len(snapshots) /\ ~Last(snapshots).cut =>
           Last(snapshots).of \ Last(snapshots).lost \subseteq game]_vars
  BY RestorableStep DEF Restores, Wanted
<1>. QED  BY <1>1, <1>2, <1>3, Invariance, PTL DEF Spec, RollbackRestoresSnapshot

\* The thread that is yet to name the installed software is about to; once it
\* has, the override and the manifest agree, unless misnamed.
NamedInv ==
  /\ owes # None => /\ pc[owes] = "config"
                    /\ outcome = "installed" => request[owes].sw = manifest.sw
  /\ outcome = "installed" /\ owes = None /\ ~misnamed => override = manifest.sw

\* Steps that neither release an installed game/ nor write the override.
LEMMA NamedFrame ==
  ASSUME TypeOK, NamedInv, UNCHANGED <<owes, misnamed, override>>,
         outcome' = "installed" => outcome = "installed" /\ manifest'.sw = manifest.sw,
         \A u \in Threads : pc[u] = "config" => pc'[u] = "config" /\ request'[u] = request[u]
  PROVE  NamedInv'
<1>1. owes # None => owes \in Threads
  BY DEF TypeOK
<1>. QED  BY <1>1 DEF NamedInv

\* Every other step of the installer and of rollbacks.
LEMMA NamedOther ==
  ASSUME IInv, NEW t \in Threads, Install(t) \/ Rollback(t), pc[t] # "config", ~WriteManifest(t)
  PROVE  /\ UNCHANGED <<owes, misnamed, override, request>>
         /\ outcome' = "installed" => outcome = "installed" /\ manifest'.sw = manifest.sw
         /\ \A u \in Threads : pc[u] = "config" => pc'[u] = "config"
<1>1. \E label \in Labels : Goto(t, label) \/ pc' = pc
  BY DEF Install, StopInstance, StopInstanceFails, ClearCategories, Acquire, Busy, Resolve,
         ResolveFails, RuntimeStatus, RuntimeHealth, RuntimeStarted, RuntimeStopped,
         RuntimeFails, NothingToClean, SkipSnapshot, BeginSnapshot, EndSnapshot, SnapshotFails,
         Wipe, PlaceJar, PlaceZip, DownloadInstaller, PlaceFails, InstallerWrites, InstallerRan,
         InstallerFails, WriteManifestFails, FinishInstall, WriteOverride, WriteOverrideFails,
         Rollback, NoSnapshot, PickSnapshot, ClearBeforeRollback, MoveEntry, MoveFails,
         RemoveSnapshot, LeaveSnapshot, FinishRollback, FinishRollbackFails, Advance, Refuse,
         Abort, Fail, Labels, BeforeLock, UnderLock, AfterLock
<1>2. \A u \in Threads : pc[u] = "config" => pc'[u] = "config"
  BY <1>1 DEF Goto, IInv, TypeOK
<1>3. UNCHANGED <<owes, misnamed, override, request>>
  BY DEF Install, StopInstance, StopInstanceFails, ClearCategories, Acquire, Busy, Resolve,
         ResolveFails, RuntimeStatus, RuntimeHealth, RuntimeStarted, RuntimeStopped,
         RuntimeFails, NothingToClean, SkipSnapshot, BeginSnapshot, EndSnapshot, SnapshotFails,
         Wipe, PlaceJar, PlaceZip, DownloadInstaller, PlaceFails, InstallerWrites, InstallerRan,
         InstallerFails, WriteManifestFails, FinishInstall, WriteOverride, WriteOverrideFails,
         Rollback, NoSnapshot, PickSnapshot, ClearBeforeRollback, MoveEntry, MoveFails,
         RemoveSnapshot, LeaveSnapshot, FinishRollback, FinishRollbackFails, Advance, Refuse,
         Abort, Fail, disk, late, history
<1>4. /\ \/ manifest' = manifest \/ manifest' = [manifest EXCEPT !.result = "rolled_back"]
         \/ manifest' = Unparsable /\ outcome' = "failed"
      /\ outcome' \in {outcome, "failed", "rolled_back"}
  BY DEF Install, StopInstance, StopInstanceFails, ClearCategories, Acquire, Busy, Resolve,
         ResolveFails, RuntimeStatus, RuntimeHealth, RuntimeStarted, RuntimeStopped,
         RuntimeFails, NothingToClean, SkipSnapshot, BeginSnapshot, EndSnapshot, SnapshotFails,
         Wipe, PlaceJar, PlaceZip, DownloadInstaller, PlaceFails, InstallerWrites, InstallerRan,
         InstallerFails, WriteManifestFails, FinishInstall, WriteOverride, WriteOverrideFails,
         Rollback, NoSnapshot, PickSnapshot, ClearBeforeRollback, MoveEntry, MoveFails,
         RemoveSnapshot, LeaveSnapshot, FinishRollback, FinishRollbackFails, Advance, Refuse,
         Abort, Fail, disk, late, history
<1>5. manifest \in Manifests
  BY DEF IInv, TypeOK
<1>6. outcome' = "installed" => manifest'.sw = manifest.sw
  BY <1>4, <1>5 DEF Manifests
<1>. QED  BY <1>2, <1>3, <1>4, <1>6

\* No step breaks it: only the end of an install under the lock changes what is to be
\* named, and the thread that brings it there is the one that owes the override.
LEMMA NamedStep == ASSUME IInv, NamedInv, [Next]_vars PROVE NamedInv'
<1>0. TypeOK
  BY DEF IInv
<1>1. ASSUME NEW t \in Threads, BeginInstall(t) \/ BeginRollback(t) PROVE NamedInv'
  <2>1. /\ UNCHANGED <<owes, misnamed, override, manifest, outcome>> /\ pc[t] = "idle"
        /\ \A u \in Threads : u # t => pc'[u] = pc[u] /\ request'[u] = request[u]
    BY <1>0, <1>1 DEF BeginInstall, BeginRollback, Refuse, Goto, disk, TypeOK
  <2>. QED  BY <1>0, <2>1, NamedFrame
<1>2. ASSUME NEW t \in Threads, WriteManifest(t) PROVE NamedInv'
  <2>1. /\ owes' = t /\ pc'[t] = "config" /\ manifest'.sw = request[t].sw /\ request' = request
        /\ t # None
    BY <1>0, <1>2 DEF WriteManifest, Goto, TypeOK
  <2>. QED  BY <2>1 DEF NamedInv
<1>3. ASSUME NEW t \in Threads, WriteOverride(t) \/ WriteOverrideFails(t) PROVE NamedInv'
  <2>1. /\ pc[t] = "config" /\ \A u \in Threads : u # t => pc'[u] = pc[u]
        /\ UNCHANGED <<manifest, outcome, request>>
        /\ owes' = IF owes = t THEN None ELSE owes
        /\ \/ override' = request[t].sw /\ misnamed' = (owes # t)
           \/ override' = override /\ misnamed' = (misnamed \/ owes = t)
    BY <1>0, <1>3 DEF WriteOverride, WriteOverrideFails, Named, Goto, disk, TypeOK
  <2>2. owes # None => owes \in Threads
    BY <1>0 DEF TypeOK
  <2>3. CASE owes = t  BY <2>1, <2>3 DEF NamedInv
  <2>4. CASE owes # t  BY <2>1, <2>2, <2>4 DEF NamedInv
  <2>. QED  BY <2>3, <2>4
<1>4. ASSUME NEW t \in Threads, Install(t) \/ Rollback(t) PROVE NamedInv'
  <2>1. CASE WriteManifest(t)  BY <2>1, <1>2
  <2>2. CASE WriteOverride(t) \/ WriteOverrideFails(t)  BY <2>2, <1>3
  <2>3. CASE ~WriteManifest(t) /\ ~WriteOverride(t) /\ ~WriteOverrideFails(t)
    <3>1. pc[t] # "config"
      BY <1>4, <2>3
         DEF Install, StopInstance, StopInstanceFails, ClearCategories, Acquire, Busy, Resolve,
             ResolveFails, RuntimeStatus, RuntimeHealth, RuntimeStarted, RuntimeStopped,
             RuntimeFails, NothingToClean, SkipSnapshot, BeginSnapshot, EndSnapshot, SnapshotFails,
             Wipe, PlaceJar, PlaceZip, DownloadInstaller, PlaceFails, InstallerWrites,
             InstallerRan, InstallerFails, WriteManifestFails, FinishInstall, Rollback,
             NoSnapshot, PickSnapshot, ClearBeforeRollback, MoveEntry, MoveFails,
             RemoveSnapshot, LeaveSnapshot, FinishRollback, FinishRollbackFails, Advance
    <3>. QED  BY <1>0, <1>4, <2>3, <3>1, NamedOther, NamedFrame
  <2>. QED  BY <2>1, <2>2, <2>3
<1>5. CASE GameWrites \/ UploadMod \/ StrayWrites \/ StraysEnd \/ UNCHANGED vars
  <2>1. UNCHANGED <<owes, misnamed, override, manifest, outcome, pc, request>>
    BY <1>5 DEF GameWrites, UploadMod, StrayWrites, StraysEnd, vars, disk, late, history
  <2>. QED  BY <1>0, <2>1, NamedFrame
<1>6. CASE DashboardRestarts
  <2>1. /\ owes' = None /\ misnamed' = (misnamed \/ owes # None) /\ override' = override
        /\ outcome' = IF lock = None THEN outcome ELSE "failed"
    BY <1>6 DEF DashboardRestarts
  <2>2. lock = None => manifest' = manifest
    BY <1>6 DEF DashboardRestarts, IInv, Exclusive, UnderLock
  <2>. QED  BY <2>1, <2>2 DEF NamedInv
<1>. QED  BY <1>1, <1>4, <1>5, <1>6 DEF Next

\* The adapter finds what game/ holds alone, by the launch mode of its kind.
LEMMA WholeIsLaunched ==
  ASSUME NEW s \in Software, game \cap Software = {s}, manifest.mode = LaunchMode(s)
  PROVE  LaunchTarget(s) = s
<1> DEFINE wanted == IF Kind[s] = "zip" THEN {s}
                     ELSE CASE manifest.mode = "script" -> ManagedSoftware
                            [] manifest.mode = "binary" -> {manifest.sw}
                            [] OTHER                    -> JarSoftware
<1>1. Kind[s] \in Kinds
  OBVIOUS
<1>2. wanted \subseteq Software /\ s \in wanted
  <2>1. CASE Kind[s] = "zip"
    BY <2>1
  <2>2. CASE Kind[s] = "installer"
    <3>1. manifest.mode = "script" /\ s \in ManagedSoftware /\ ManagedSoftware \subseteq Software
      BY <2>2 DEF LaunchMode, ManagedSoftware, Managed
    <3>. QED  BY <2>2, <3>1
  <2>3. CASE Kind[s] \in {"jar", "buildtools"}
    <3>1. manifest.mode = "jar" /\ s \in JarSoftware /\ JarSoftware \subseteq Software
      BY <2>3 DEF LaunchMode, JarSoftware
    <3>. QED  BY <2>3, <3>1
  <2>. QED  BY <1>1, <2>1, <2>2, <2>3 DEF Kinds
<1>3. wanted \cap game = {s}
  BY <1>2
<1>4. (CHOOSE x \in wanted : x \in game) = s
  BY <1>3
<1>. QED  BY <1>3, <1>4 DEF LaunchTarget

\* Whatever installs overlap and whatever fails: once an install has written the
\* override, the next start launches it, unless another's late write of the override,
\* or a stray installer's into game/, came after.
THEOREM InstallLaunched == Spec => []InstallIsLaunched
<1>1. Init => NamedInv
  BY DEF Init, NamedInv
<1>2. IInv /\ NamedInv /\ [Next]_vars => NamedInv'
  BY NamedStep
<1>3. IInv /\ NamedInv => InstallIsLaunched
  <2>. SUFFICES ASSUME IInv, NamedInv, lock = None, outcome = "installed", owes = None,
                       ~misnamed, ~mixed
                PROVE  LaunchTarget(override) = manifest.sw
    BY DEF InstallIsLaunched
  <2>1. game \cap Software = {manifest.sw} /\ manifest.mode = LaunchMode(manifest.sw)
    BY DEF IInv, InstalledIsWhole
  <2>2. override = manifest.sw /\ manifest.sw \in Software
    BY <2>1 DEF NamedInv
  <2>. QED  BY <2>1, <2>2, WholeIsLaunched
<1>. QED  BY <1>1, <1>2, <1>3, Invariance, PTL DEF Spec

=============================================================================
