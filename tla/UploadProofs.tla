---------------------------- MODULE UploadProofs ----------------------------
(***************************************************************************)
(* Proofs about the uploads to Club Log, eQSL and QRZ, for every set of    *)
(* QSOs, every number of edits and every batch size: what the handlers, the*)
(* scheduler and the life of a job do to the rows (SyncHost); that a row   *)
(* which says 'uploaded' tells the truth (UploadedWasSent of BatchUpload,  *)
(* UploadedAtQRZ of QRZUpload); and that what is deleted leaves Club Log   *)
(* (DeletedLeavesClubLog).                                                 *)
(***************************************************************************)
EXTENDS BatchUpload, QRZUpload, TLAPS

\* Every statement of the sync code turns a row into a row of the schema.
LEMMA RowsStayRows ==
    ASSUME NEW r \in AnyRow, NEW id \in BOOLEAN
    PROVE  /\ InsertPending(r) \in AnyRow
           /\ InsertConfirmed(r) \in AnyRow
           /\ MarkUploaded(r, id) \in AnyRow
           /\ MarkSyncError(r) \in AnyRow
           /\ MarkPendingFailed(r) \in AnyRow
           /\ CancelPending(r) \in AnyRow
           /\ MarkConfirmed(r) \in AnyRow
           /\ MarkDirty(r) \in AnyRow
           /\ Reset(r) \in AnyRow
           /\ RetryFailed(r) \in AnyRow
           /\ BulkRequeue(r) \in AnyRow
           /\ BackoffOver(r) \in AnyRow
  <1> USE DEF AnyRow, Rows, Statuses, NoRow, PendingRow
  <1>1. InsertPending(r) \in AnyRow /\ Reset(r) \in AnyRow
    BY DEF InsertPending, Reset
  <1>2. MarkUploaded(r, id) \in AnyRow /\ MarkSyncError(r) \in AnyRow
    BY DEF MarkUploaded, MarkSyncError
  <1>3. MarkPendingFailed(r) \in AnyRow /\ CancelPending(r) \in AnyRow
    BY DEF MarkPendingFailed, CancelPending
  <1>4. MarkConfirmed(r) \in AnyRow /\ MarkDirty(r) \in AnyRow
    BY DEF MarkConfirmed, MarkDirty
  <1>5. RetryFailed(r) \in AnyRow /\ BulkRequeue(r) \in AnyRow
    BY DEF RetryFailed, BulkRequeue
  <1>6. BackoffOver(r) \in AnyRow
    BY DEF BackoffOver
  <1>7. InsertConfirmed(r) \in AnyRow
    BY DEF InsertConfirmed
  <1> QED BY <1>1, <1>2, <1>3, <1>4, <1>5, <1>6, <1>7

\* No statement but markUploaded makes a row say uploaded or changes the
\* remote id of one that does, and an edit leaves no row that says so.
KeepsUploaded(r, s) ==
    s.status = "uploaded" => r.status = "uploaded" /\ s.hasId = r.hasId

LEMMA OnlyMarkUploaded ==
    ASSUME NEW r \in AnyRow
    PROVE  /\ KeepsUploaded(r, InsertPending(r))
           /\ KeepsUploaded(r, InsertConfirmed(r))
           /\ KeepsUploaded(r, MarkPendingFailed(r))
           /\ KeepsUploaded(r, CancelPending(r))
           /\ KeepsUploaded(r, RetryFailed(r))
           /\ KeepsUploaded(r, BulkRequeue(r))
           /\ KeepsUploaded(r, BackoffOver(r))
           /\ MarkSyncError(r).status # "uploaded"
           /\ MarkConfirmed(r).status # "uploaded"
           /\ MarkDirty(r).status # "uploaded"
           /\ Reset(r).status # "uploaded"
  <1> USE DEF AnyRow, Rows, Statuses, NoRow, PendingRow, KeepsUploaded
  <1>1. KeepsUploaded(r, InsertPending(r)) /\ Reset(r).status # "uploaded"
    <2>1. r # NoRow => InsertPending(r) = r
      BY Zenon DEF InsertPending
    <2>2. r = NoRow => InsertPending(r).status = "pending"
      BY DEF InsertPending
    <2>3. KeepsUploaded(r, InsertPending(r))
      BY <2>1, <2>2
    <2> QED BY <2>3 DEF Reset
  <1>2. MarkSyncError(r).status # "uploaded"
    BY DEF MarkSyncError
  <1>3. KeepsUploaded(r, MarkPendingFailed(r)) /\ KeepsUploaded(r, CancelPending(r))
    BY DEF MarkPendingFailed, CancelPending
  <1>4. MarkConfirmed(r).status # "uploaded" /\ MarkDirty(r).status # "uploaded"
    BY DEF MarkConfirmed, MarkDirty
  <1>5. KeepsUploaded(r, RetryFailed(r)) /\ KeepsUploaded(r, BulkRequeue(r))
    BY DEF RetryFailed, BulkRequeue
  <1>6. KeepsUploaded(r, BackoffOver(r))
    BY DEF BackoffOver
  <1>7. KeepsUploaded(r, InsertConfirmed(r))
    BY DEF InsertConfirmed
  <1> QED BY <1>1, <1>2, <1>3, <1>4, <1>5, <1>6, <1>7

LEMMA HostInitType == HostInit => HostTypeOK
  <1> SUFFICES ASSUME HostInit PROVE HostTypeOK
    OBVIOUS
  <1>1. NoRow \in AnyRow /\ 0 \in 0..MaxVersion
    BY MaxVersionAssumption DEF AnyRow
  <1>2. row \in [QSOs -> AnyRow]
    BY <1>1, Zenon DEF HostInit
  <1>3. {ver, remote, snap} \subseteq [QSOs -> 0..MaxVersion]
    BY <1>1, Zenon DEF HostInit
  <1>4. queued \in BOOLEAN
    BY Zenon DEF HostInit
  <1>5. pc \in Steps
    BY DEF HostInit, Steps
  <1>6. \A s \in {deleted, trigger, todo, batch, delJobs, raced} : s \subseteq QSOs
    BY Zenon DEF HostInit
  <1> QED BY <1>2, <1>3, <1>4, <1>5, <1>6 DEF HostTypeOK

LEMMA EnqueueType == Enqueue /\ queued \in BOOLEAN => queued' \in BOOLEAN
  BY DEF Enqueue

LEMMA FinishType == Finish => /\ pc' \in Steps /\ todo' \subseteq QSOs /\ batch' \subseteq QSOs
                              /\ snap' \in [QSOs -> 0..MaxVersion]
  BY MaxVersionAssumption DEF Finish, Steps

LEMMA HostNextType == HostTypeOK /\ (HostNext \/ Fetch) => HostTypeOK'
  <1> SUFFICES ASSUME HostTypeOK, HostNext \/ Fetch PROVE HostTypeOK'
    OBVIOUS
  <1> USE MaxVersionAssumption DEF HostTypeOK
  <1>1. ASSUME NEW q \in QSOs, Create(q) PROVE HostTypeOK'
    BY <1>1 DEF Create, jobVars
  <1>2. ASSUME NEW q \in QSOs, TriggerAutoSync(q) PROVE HostTypeOK'
    BY <1>2, RowsStayRows, EnqueueType DEF TriggerAutoSync, jobVars
  <1>3. ASSUME NEW q \in QSOs, LoseTrigger(q) PROVE HostTypeOK'
    BY <1>3, EnqueueType DEF LoseTrigger, jobVars
  <1>4. ASSUME NEW q \in QSOs, Edit(q) PROVE HostTypeOK'
    <2>1. row' \in [QSOs -> AnyRow]
      BY <1>4, RowsStayRows DEF Edit
    <2>2. ver' \in [QSOs -> 0..MaxVersion] /\ raced' \subseteq QSOs
      BY <1>4 DEF Edit
    <2>3. queued' \in BOOLEAN
      BY <1>4, EnqueueType DEF Edit
    <2> QED BY <1>4, <2>1, <2>2, <2>3 DEF Edit, jobVars
  <1>5. ASSUME NEW q \in QSOs, Enrich(q) PROVE HostTypeOK'
    <2>1. row' \in [QSOs -> AnyRow]
      BY <1>5, RowsStayRows DEF Enrich
    <2>2. ver' \in [QSOs -> 0..MaxVersion] /\ raced' \subseteq QSOs
      BY <1>5 DEF Enrich
    <2> QED BY <1>5, <2>1, <2>2 DEF Enrich, jobVars
  <1>6. ASSUME NEW q \in QSOs, Delete(q) PROVE HostTypeOK'
    BY <1>6 DEF Delete, jobVars, AnyRow
  <1>7. CASE Cancel
    BY <1>7, RowsStayRows DEF Cancel, OnLiveRows, qsoVars, jobVars
  <1>8. ASSUME NEW sel, Retry(sel) PROVE HostTypeOK'
    BY <1>8, RowsStayRows, EnqueueType DEF Retry, qsoVars, jobVars
  <1>9. CASE BulkUpload
    BY <1>9, RowsStayRows, EnqueueType DEF BulkUpload, OnLiveRows, qsoVars, jobVars
  <1>10. ASSUME NEW received, Backfill(received) PROVE HostTypeOK'
    <2>1. row' \in [QSOs -> AnyRow]
      BY <1>10, RowsStayRows DEF Backfill
    <2> QED BY <1>10, <2>1 DEF Backfill, qsoVars, jobVars
  <1>11. CASE Sweep \/ TriggerSync
    BY <1>11, EnqueueType DEF Sweep, TriggerSync, qsoVars, jobVars
  <1>12. ASSUME NEW q \in QSOs, RetryDue(q) PROVE HostTypeOK'
    BY <1>12, RowsStayRows DEF RetryDue, qsoVars, jobVars
  <1>13. CASE Start
    BY <1>13 DEF Start, qsoVars, Steps
  <1>14. CASE PermanentFailure
    BY <1>14, RowsStayRows, FinishType DEF PermanentFailure, qsoVars
  <1>15. CASE Fetch
    <2>1. FetchPending \subseteq QSOs
      BY DEF FetchPending
    <2> QED BY <1>15, <2>1, FinishType DEF Fetch, qsoVars, Steps
  <1>16. CASE RateLimited
    BY <1>16, FinishType DEF RateLimited, qsoVars
  <1>17. CASE QueryFails
    BY <1>17, FinishType DEF QueryFails, qsoVars
  <1>18. CASE Done
    BY <1>18, FinishType DEF Done, qsoVars
  <1>19. CASE Die
    BY <1>19 DEF Die, qsoVars, Steps
  <1>20. CASE Rescue
    BY <1>20 DEF Rescue, qsoVars, Steps
  <1> QED
    BY <1>1, <1>2, <1>3, <1>4, <1>5, <1>6, <1>7, <1>8, <1>9, <1>10, <1>11, <1>12, <1>13,
       <1>14, <1>15, <1>16, <1>17, <1>18, <1>19, <1>20
    DEF HostNext, User, JobLife, Background
-----------------------------------------------------------------------------
(***************************************************************************)
(* The invariant of the host.  The snapshot of a row in the job's hand is  *)
(* current unless the QSO is raced; a QSO that is not logged has left no   *)
(* trace yet; and only deleted QSOs are deleted from the service.          *)
(***************************************************************************)
SnapshotCurrent ==
    \A q \in Held : snap[q] > 0 /\ (q \notin raced => snap[q] = ver[q])

UnloggedUntouched ==
    \A q \in QSOs : ver[q] = 0 => q \notin Held /\ q \notin trigger /\ row[q] = NoRow

OnlyDeletedLeave == delJobs \subseteq deleted

HostInv == HostTypeOK /\ SnapshotCurrent /\ UnloggedUntouched /\ OnlyDeletedLeave

\* The outcome of a call is about to be recorded.
Recording == pc \in {"sent", "duplicate"}

(***************************************************************************)
(* What a step of the host means for the service's side: nothing is sent;  *)
(* a row that says uploaded is one that said so before, of a QSO that has  *)
(* not been edited since; and an edit of a QSO in the job's hand is noted. *)
(***************************************************************************)
HostEffect ==
    /\ remote' = remote
    /\ Recording' => Recording /\ pc' = pc /\ batch' = batch
    /\ \A q \in QSOs : Live(q)' /\ row'[q].status = "uploaded" =>
          /\ Live(q) /\ KeepsUploaded(row[q], row'[q])
          /\ ver'[q] = ver[q] /\ (q \in raced => q \in raced')
    /\ Recording' => \A q \in batch' : Live(q)' =>
          Live(q) /\ (ver'[q] = ver[q] \/ q \in raced') /\ (q \in raced => q \in raced')

LEMMA HostInitInv == HostInit => HostInv
  <1> SUFFICES ASSUME HostInit PROVE HostInv
    OBVIOUS
  <1>1. HostTypeOK
    BY HostInitType
  <1>2. SnapshotCurrent /\ OnlyDeletedLeave
    BY DEF HostInit, SnapshotCurrent, OnlyDeletedLeave, Held
  <1>3. UnloggedUntouched
    BY Zenon DEF HostInit, UnloggedUntouched, Held
  <1> QED BY <1>1, <1>2, <1>3 DEF HostInv

\* A step that edits, sends and deletes nothing.
Harmless ==
    /\ UNCHANGED <<ver, deleted, remote, raced>>
    /\ trigger' \subseteq trigger
    /\ delJobs' \subseteq delJobs
    /\ Held' \subseteq Held
    /\ \A q \in Held' : snap'[q] = snap[q]
    /\ Recording' => Recording /\ pc' = pc /\ batch' = batch
    /\ \A q \in QSOs : KeepsUploaded(row[q], row'[q])
    /\ \A q \in QSOs : ver[q] = 0 => row'[q] = NoRow

LEMMA HarmlessKeeps ==
    HostInv /\ HostTypeOK' /\ Harmless => HostInv' /\ HostEffect
  <1> SUFFICES ASSUME HostInv, HostTypeOK', Harmless PROVE HostInv' /\ HostEffect
    OBVIOUS
  <1>1. SnapshotCurrent'
    BY DEF HostInv, SnapshotCurrent, Harmless
  <1>2. UnloggedUntouched'
    BY DEF HostInv, UnloggedUntouched, Harmless
  <1>3. OnlyDeletedLeave'
    BY DEF HostInv, OnlyDeletedLeave, Harmless
  <1>4. HostEffect
    BY DEF Harmless, HostEffect, Live
  <1> QED BY <1>1, <1>2, <1>3, <1>4 DEF HostInv

\* The end of a job leaves nothing in hand.
LEMMA FinishHarmless == Finish => Held' = {} /\ ~Recording'
  BY DEF Finish, Held, Recording

LEMMA StatusSteps ==
    ASSUME HostInv, HostTypeOK'
    PROVE  /\ \A q \in QSOs : TriggerAutoSync(q) \/ LoseTrigger(q) \/ RetryDue(q) => Harmless
           /\ \A sel : Retry(sel) => Harmless
           /\ \A received : Backfill(received) => Harmless
           /\ Cancel \/ TriggerSync \/ BulkUpload \/ Sweep => Harmless
           /\ JobLife => Harmless
  <1> USE DEF HostInv
  <1>1. \A q \in QSOs : row[q] \in AnyRow
    BY DEF HostTypeOK
  <1>2. \A q \in QSOs : ver[q] = 0 => row[q] = NoRow
    BY DEF UnloggedUntouched
  <1>3. \A q \in QSOs : KeepsUploaded(row[q], row[q])
    BY DEF KeepsUploaded
  <1>4. ASSUME NEW q \in QSOs, TriggerAutoSync(q) PROVE Harmless
    <2>1. ver[q] # 0
      BY <1>4 DEF TriggerAutoSync, UnloggedUntouched
    <2>2. row' = [row EXCEPT ![q] = InsertPending(row[q])]
      BY <1>4 DEF TriggerAutoSync
    <2>3. KeepsUploaded(row[q], InsertPending(row[q]))
      BY <1>1, OnlyMarkUploaded
    <2>4. \A p \in QSOs : KeepsUploaded(row[p], row'[p])
      BY <1>3, <2>2, <2>3 DEF HostTypeOK
    <2> QED BY <1>2, <1>4, <2>1, <2>2, <2>4
            DEF TriggerAutoSync, Harmless, Held, Recording, jobVars, HostTypeOK
  <1>5. ASSUME NEW q \in QSOs, LoseTrigger(q) PROVE Harmless
    BY <1>2, <1>3, <1>5 DEF LoseTrigger, Harmless, Held, Recording, jobVars
  <1>6. ASSUME NEW q \in QSOs, RetryDue(q) PROVE Harmless
    <2>1. row' = [row EXCEPT ![q] = BackoffOver(row[q])]
      BY <1>6 DEF RetryDue
    <2>2. KeepsUploaded(row[q], BackoffOver(row[q]))
      BY <1>1, OnlyMarkUploaded
    <2>3. row[q] = NoRow => BackoffOver(row[q]) = NoRow
      BY DEF BackoffOver
    <2>4. \A p \in QSOs : KeepsUploaded(row[p], row'[p])
      BY <1>3, <2>1, <2>2 DEF HostTypeOK
    <2> QED BY <1>2, <1>6, <2>1, <2>3, <2>4
            DEF RetryDue, Harmless, Held, Recording, qsoVars, jobVars, HostTypeOK
  <1>7. CASE Cancel
    <2>1. \A q \in QSOs : KeepsUploaded(row[q], CancelPending(row[q]))
      BY <1>1, OnlyMarkUploaded
    <2> QED BY <1>2, <1>3, <1>7, <2>1
            DEF Cancel, OnLiveRows, Live, Harmless, Held, Recording, qsoVars, jobVars
  <1>8. ASSUME NEW sel, Retry(sel) PROVE Harmless
    <2>1. \A q \in QSOs : KeepsUploaded(row[q], RetryFailed(row[q]))
      BY <1>1, OnlyMarkUploaded
    <2> QED BY <1>2, <1>3, <1>8, <2>1
            DEF Retry, Live, Harmless, Held, Recording, qsoVars, jobVars
  <1>9. CASE BulkUpload
    <2>1. \A q \in QSOs : KeepsUploaded(row[q], BulkRequeue(row[q]))
      BY <1>1, OnlyMarkUploaded
    <2> QED BY <1>2, <1>3, <1>9, <2>1
            DEF BulkUpload, OnLiveRows, Live, Harmless, Held, Recording, qsoVars, jobVars
  <1>10. ASSUME NEW received, Backfill(received) PROVE Harmless
    <2>1. \A q \in QSOs : /\ KeepsUploaded(row[q], InsertConfirmed(row[q]))
                          /\ KeepsUploaded(row[q], InsertPending(row[q]))
      BY <1>1, OnlyMarkUploaded
    <2>2. \A q \in QSOs : KeepsUploaded(row[q], row'[q])
      BY <1>3, <1>10, <2>1 DEF Backfill
    <2>3. \A q \in QSOs : ver[q] = 0 => row'[q] = NoRow
      BY <1>2, <1>10 DEF Backfill, Live
    <2> QED BY <1>10, <2>2, <2>3 DEF Backfill, Harmless, Held, Recording, qsoVars, jobVars
  <1>11. CASE Sweep \/ TriggerSync
    BY <1>2, <1>3, <1>11 DEF Sweep, TriggerSync, Harmless, Held, Recording, qsoVars, jobVars
  <1>12. CASE Start
    BY <1>2, <1>3, <1>12 DEF Start, Harmless, Held, Recording, qsoVars
  <1>13. CASE PermanentFailure
    <2>1. \A q \in QSOs : KeepsUploaded(row[q], MarkPendingFailed(row[q]))
      BY <1>1, OnlyMarkUploaded
    <2>2. \A q \in QSOs : row[q] = NoRow => MarkPendingFailed(row[q]) = NoRow
      BY DEF MarkPendingFailed, NoRow
    <2> QED BY <1>2, <1>13, <2>1, <2>2, FinishHarmless DEF PermanentFailure, Harmless, qsoVars
  <1>14. CASE RateLimited \/ QueryFails \/ Done
    BY <1>2, <1>3, <1>14, FinishHarmless DEF RateLimited, QueryFails, Done, Harmless, qsoVars
  <1>15. CASE Die
    BY <1>2, <1>3, <1>15 DEF Die, Harmless, Held, Recording, qsoVars
  <1>16. CASE Rescue
    BY <1>2, <1>3, <1>16 DEF Rescue, Harmless, Held, Recording, qsoVars
  <1> QED BY <1>4, <1>5, <1>6, <1>7, <1>8, <1>9, <1>10, <1>11, <1>12, <1>13, <1>14, <1>15, <1>16
          DEF JobLife

LEMMA CreateKeeps ==
    ASSUME HostInv, HostTypeOK', NEW q \in QSOs, Create(q)
    PROVE  HostInv' /\ HostEffect
  <1> USE DEF HostInv, Create, jobVars
  <1>1. q \notin Held /\ row[q] = NoRow
    BY DEF UnloggedUntouched
  <1>2. ver'[q] = 1 /\ \A p \in QSOs \ {q} : ver'[p] = ver[p]
    BY DEF HostTypeOK
  <1>3. SnapshotCurrent'
    BY <1>1, <1>2 DEF SnapshotCurrent, Held, HostTypeOK
  <1>4. UnloggedUntouched'
    BY <1>2 DEF UnloggedUntouched, Held
  <1>5. OnlyDeletedLeave'
    BY DEF OnlyDeletedLeave
  <1>6. HostEffect
    BY <1>1, <1>2 DEF HostEffect, Recording, KeepsUploaded, Held, Live, NoRow, HostTypeOK
  <1> QED BY <1>3, <1>4, <1>5, <1>6

\* An edit, by a handler or by the enrichment, of a QSO that a job holds makes
\* it raced; an edit of any other leaves no row that says uploaded.
LEMMA EditKeeps ==
    ASSUME HostInv, HostTypeOK', NEW q \in QSOs, Edit(q) \/ Enrich(q)
    PROVE  HostInv' /\ HostEffect
  <1> USE DEF HostInv
  <1>1. /\ ver[q] > 0 /\ ver' = [ver EXCEPT ![q] = ver[q] + 1]
        /\ raced' = IF q \in Held THEN raced \cup {q} ELSE raced
        /\ UNCHANGED <<deleted, trigger, remote, delJobs, pc, todo, batch, snap>>
    BY DEF Edit, Enrich, Live, jobVars
  <1>2. row'[q].status # "uploaded" /\ \A p \in QSOs \ {q} : row'[p] = row[p]
    <2>1. row[q] \in AnyRow /\ MarkDirty(row[q]) \in AnyRow
      BY RowsStayRows DEF HostTypeOK
    <2>2. MarkDirty(row[q]).status # "uploaded" /\ Reset(MarkDirty(row[q])).status # "uploaded"
      BY <2>1, OnlyMarkUploaded
    <2> QED BY <2>2 DEF Edit, Enrich, HostTypeOK
  <1>3. ver'[q] > 0 /\ \A p \in QSOs \ {q} : ver'[p] = ver[p]
    BY <1>1 DEF HostTypeOK
  <1>4. SnapshotCurrent'
    BY <1>1, <1>3 DEF SnapshotCurrent, Held, HostTypeOK
  <1>5. UnloggedUntouched'
    BY <1>1, <1>2, <1>3 DEF UnloggedUntouched, Held
  <1>6. OnlyDeletedLeave'
    BY <1>1 DEF OnlyDeletedLeave
  <1>7. HostEffect
    BY <1>1, <1>2, <1>3 DEF HostEffect, Recording, KeepsUploaded, Held, Live, HostTypeOK
  <1> QED BY <1>4, <1>5, <1>6, <1>7

LEMMA DeleteKeeps ==
    ASSUME HostInv, HostTypeOK', NEW q \in QSOs, Delete(q)
    PROVE  HostInv' /\ HostEffect
  <1> USE DEF HostInv, Delete, jobVars
  <1>1. row'[q] = NoRow /\ \A p \in QSOs \ {q} : row'[p] = row[p]
    BY DEF HostTypeOK
  <1>2. SnapshotCurrent'
    BY DEF SnapshotCurrent, Held
  <1>3. UnloggedUntouched'
    BY <1>1 DEF UnloggedUntouched, Held
  <1>4. OnlyDeletedLeave'
    BY DEF OnlyDeletedLeave
  <1>5. HostEffect
    BY <1>1 DEF HostEffect, Recording, KeepsUploaded, Live
  <1> QED BY <1>2, <1>3, <1>4, <1>5

LEMMA FetchKeeps ==
    ASSUME HostInv, HostTypeOK', Fetch
    PROVE  HostInv' /\ HostEffect
  <1> USE DEF HostInv
  <1>1. CASE FetchPending = {}
    <2>1. Harmless
      BY <1>1, FinishHarmless DEF Fetch, Harmless, qsoVars, UnloggedUntouched, KeepsUploaded
    <2> QED BY <2>1, HarmlessKeeps
  <1>2. CASE FetchPending # {}
    <2>1. /\ UNCHANGED <<ver, deleted, trigger, row, remote, delJobs, batch>>
          /\ pc' = "loop" /\ todo' = FetchPending /\ raced' = raced \ FetchPending
          /\ snap' = [q \in QSOs |-> IF q \in FetchPending THEN ver[q] ELSE snap[q]]
      BY <1>2 DEF Fetch, qsoVars
    <2>2. \A q \in FetchPending : q \in QSOs /\ ver[q] > 0 /\ row[q].status # "uploaded"
      BY DEF FetchPending, Live, Fetchable
    <2>3. SnapshotCurrent'
      BY <2>1, <2>2 DEF SnapshotCurrent, Held, HostTypeOK
    <2>4. UnloggedUntouched'
      BY <2>1, <2>2 DEF UnloggedUntouched, Held, HostTypeOK
    <2>5. OnlyDeletedLeave'
      BY <2>1 DEF OnlyDeletedLeave
    <2>6. HostEffect
      BY <2>1, <2>2 DEF HostEffect, Recording, KeepsUploaded, Live
    <2> QED BY <2>3, <2>4, <2>5, <2>6
  <1> QED BY <1>1, <1>2

\* The host's steps keep its invariant, and have no other effect on the
\* service's side than HostEffect.
LEMMA HostKeeps == HostInv /\ (HostNext \/ Fetch) => HostInv' /\ HostEffect
  <1> SUFFICES ASSUME HostInv, HostNext \/ Fetch PROVE HostInv' /\ HostEffect
    OBVIOUS
  <1>1. HostTypeOK'
    BY HostNextType DEF HostInv
  <1> QED BY <1>1, StatusSteps, HarmlessKeeps, CreateKeeps, EditKeeps, DeleteKeeps, FetchKeeps
          DEF HostNext, User, Background

\* The bookkeeping after a call changes the row of a QSO that is logged.
LEMMA RecordKeeps ==
    ASSUME HostInv, NEW q \in QSOs, NEW r \in AnyRow, Record(q, r)
    PROVE  HostInv'
  <1> USE DEF HostInv, Record, qsoVars
  <1>1. ver[q] # 0
    BY DEF UnloggedUntouched, Held
  <1>2. row' \in [QSOs -> AnyRow] /\ \A p \in QSOs \ {q} : row'[p] = row[p]
    BY DEF HostTypeOK
  <1>3. HostTypeOK'
    BY <1>2 DEF HostTypeOK, Steps
  <1>4. SnapshotCurrent' /\ OnlyDeletedLeave'
    BY DEF SnapshotCurrent, OnlyDeletedLeave, Held
  <1>5. UnloggedUntouched'
    BY <1>1, <1>2 DEF UnloggedUntouched, Held
  <1> QED BY <1>3, <1>4, <1>5

\* So does a call: it takes nothing new in hand.
LEMMA CallKeeps ==
    ASSUME HostInv, HostTypeOK', UNCHANGED <<ver, deleted, trigger, row, delJobs, raced>>,
           Held' \subseteq Held, \A q \in Held' : snap'[q] = snap[q]
    PROVE  HostInv'
  BY DEF HostInv, SnapshotCurrent, UnloggedUntouched, OnlyDeletedLeave
-----------------------------------------------------------------------------
(***************************************************************************)
(* Club Log and eQSL: BatchUpload.                                         *)
(***************************************************************************)

LEMMA InitTypeOK == Init => TypeOK
  <1>1. Init => HostTypeOK
    BY HostInitType DEF Init
  <1>2. Init => unaccepted \subseteq QSOs
    BY DEF Init
  <1> QED BY <1>1, <1>2 DEF TypeOK

LEMMA NextTypeOK == TypeOK /\ [Next]_vars => TypeOK'
  <1> SUFFICES ASSUME TypeOK, [Next]_vars PROVE TypeOK'
    OBVIOUS
  <1> USE DEF TypeOK
  <1>1. CASE Host(HostNext) \/ Host(Fetch)
    BY <1>1, HostNextType DEF Host
  <1>2. ASSUME NEW b \in Batches, NEW accepted \in Accepted(b), UploadOk(b, accepted)
        PROVE  TypeOK'
    BY <1>2 DEF UploadOk, Batches, qsoVars, Steps, HostTypeOK
  <1>3. ASSUME NEW b \in Batches, UploadTransient(b) PROVE TypeOK'
    BY <1>3, FinishType DEF UploadTransient, MaybeDelivered, qsoVars, HostTypeOK
  <1>4. ASSUME NEW b \in Batches, UploadRefused(b) PROVE TypeOK'
    BY <1>4 DEF UploadRefused, MaybeDelivered, Batches, qsoVars, Steps, HostTypeOK
  <1>5. ASSUME NEW q \in QSOs, MarkRow(q) PROVE TypeOK'
    <2>1. row[q] \in AnyRow /\ FALSE \in BOOLEAN
      BY DEF HostTypeOK
    <2>2. MarkUploaded(row[q], FALSE) \in AnyRow /\ MarkSyncError(row[q]) \in AnyRow
      BY <2>1, RowsStayRows, Zenon
    <2>3. row' \in [QSOs -> AnyRow]
      BY <1>5, <2>2 DEF MarkRow, Record, HostTypeOK
    <2> QED BY <1>5, <2>3 DEF MarkRow, Record, qsoVars, Steps, HostTypeOK
  <1>6. ASSUME NEW entity \in SUBSET QSOs, ClubLogPoll(entity) PROVE TypeOK'
    BY <1>6, RowsStayRows DEF ClubLogPoll, qsoVars, jobVars, HostTypeOK
  <1>7. ASSUME NEW q \in QSOs, EQSLDownload(q) PROVE TypeOK'
    BY <1>7, RowsStayRows DEF EQSLDownload, qsoVars, jobVars, HostTypeOK
  <1>8. ASSUME NEW q \in QSOs, ClubLogDelete(q) PROVE TypeOK'
    BY <1>8, MaxVersionAssumption DEF ClubLogDelete, qsoVars, jobVars, HostTypeOK
  <1>9. CASE UNCHANGED vars
    BY <1>9 DEF vars, hostVars, HostTypeOK
  <1> QED BY <1>1, <1>2, <1>3, <1>4, <1>5, <1>6, <1>7, <1>8, <1>9 DEF Next, Upload, Inbound

\* The rows of sync_status, the job's memory and the queue keep their types
\* under every interleaving of handlers, workers, scheduler and pollers.
THEOREM TypeCorrect == Spec => []TypeOK
  BY InitTypeOK, NextTypeOK, PTL DEF Spec
-----------------------------------------------------------------------------
(***************************************************************************)
(* UploadedWasSent is not inductive: it has to be known what markUploaded  *)
(* will find.  So the job's snapshot is current unless the QSO is raced    *)
(* (SnapshotCurrent, in HostInv), and what was sent is there before its    *)
(* rows are marked (SentIsThere).                                          *)
(***************************************************************************)

\* What the service holds of q is a version, and the current one if q not raced.
Delivered(q) == remote[q] > 0 /\ (q \notin raced => remote[q] = ver[q])

SentIsThere ==
    pc = "sent" => \A q \in batch \ unaccepted : Live(q) => Delivered(q)

UploadedDelivered ==
    \A q \in QSOs \ unaccepted : Live(q) /\ row[q].status = "uploaded" => Delivered(q)

UploadInv == HostInv /\ unaccepted \subseteq QSOs /\ SentIsThere /\ UploadedDelivered

LEMMA InitUploadInv == Init => UploadInv
  <1> SUFFICES ASSUME Init PROVE UploadInv
    OBVIOUS
  <1>1. HostInv
    BY HostInitInv DEF Init
  <1>2. unaccepted \subseteq QSOs /\ SentIsThere
    BY DEF Init, HostInit, SentIsThere
  <1>3. UploadedDelivered
    BY DEF Init, HostInit, UploadedDelivered, Live
  <1> QED BY <1>1, <1>2, <1>3 DEF UploadInv

\* A step whose only effect on the service's side is HostEffect.
LEMMA EffectKeeps ==
    ASSUME UploadInv, HostInv', HostEffect, UNCHANGED unaccepted
    PROVE  UploadInv'
  <1> USE DEF UploadInv
  <1>1. SentIsThere'
    <2> SUFFICES ASSUME pc' = "sent", NEW q \in batch' \ unaccepted', Live(q)'
                 PROVE  Delivered(q)'
      BY DEF SentIsThere
    <2>1. pc = "sent" /\ q \in batch \ unaccepted /\ Live(q)
      BY DEF HostEffect, Recording
    <2>2. Delivered(q)
      BY <2>1 DEF SentIsThere
    <2>3. remote'[q] = remote[q] /\ (ver'[q] = ver[q] \/ q \in raced')
      BY DEF HostEffect, Recording
    <2>4. q \in raced => q \in raced'
      BY DEF HostEffect, Recording
    <2> QED BY <2>2, <2>3, <2>4 DEF Delivered
  <1>2. UploadedDelivered'
    <2> SUFFICES ASSUME NEW q \in QSOs \ unaccepted', Live(q)', row'[q].status = "uploaded"
                 PROVE  Delivered(q)'
      BY DEF UploadedDelivered
    <2>1. Live(q) /\ row[q].status = "uploaded"
      BY DEF HostEffect, KeepsUploaded
    <2>2. Delivered(q)
      BY <2>1 DEF UploadedDelivered
    <2>3. remote'[q] = remote[q] /\ ver'[q] = ver[q] /\ (q \in raced => q \in raced')
      BY DEF HostEffect
    <2> QED BY <2>2, <2>3 DEF Delivered
  <1> QED BY <1>1, <1>2

\* The pollers confirm rows, and do nothing else.
LEMMA PollKeeps ==
    ASSUME UploadInv, TypeOK', NEW entity \in SUBSET QSOs, NEW q \in QSOs,
           ClubLogPoll(entity) \/ EQSLDownload(q)
    PROVE  UploadInv'
  <1> USE DEF UploadInv, HostInv
  <1>1. UNCHANGED <<ver, deleted, trigger, remote, queued, delJobs, raced, pc, todo, batch, snap, unaccepted>>
    BY DEF ClubLogPoll, EQSLDownload, qsoVars, jobVars
  <1>2. \A p \in QSOs : row[p] \in AnyRow /\ (ver[p] = 0 => row[p] = NoRow)
    BY DEF HostTypeOK, UnloggedUntouched
  <1>3. \A p \in QSOs : MarkConfirmed(row[p]).status # "uploaded"
    BY <1>2, OnlyMarkUploaded
  <1>4. \A p \in QSOs : row'[p] = row[p] \/ (ver[p] # 0 /\ row'[p] = MarkConfirmed(row[p]))
    BY DEF ClubLogPoll, EQSLDownload, Live, HostTypeOK
  <1>5. Harmless
    <2>1. \A p \in QSOs : KeepsUploaded(row[p], row'[p])
      BY <1>3, <1>4 DEF KeepsUploaded
    <2> QED BY <1>1, <1>2, <1>4, <2>1 DEF Harmless, Held, Recording
  <1> QED BY <1>1, <1>5, HarmlessKeeps, EffectKeeps DEF TypeOK

LEMMA ClubLogDeleteKeeps ==
    ASSUME UploadInv, TypeOK', NEW q \in QSOs, ClubLogDelete(q)
    PROVE  UploadInv'
  <1> USE DEF UploadInv, HostInv, ClubLogDelete, qsoVars, jobVars
  <1>1. \A p \in QSOs : Live(p) => remote'[p] = remote[p]
    BY DEF Live, OnlyDeletedLeave, HostTypeOK
  <1>2. HostInv'
    BY DEF SnapshotCurrent, UnloggedUntouched, OnlyDeletedLeave, Held, TypeOK
  <1>3. SentIsThere'
    BY <1>1 DEF SentIsThere, Delivered, Live, HostTypeOK
  <1>4. UploadedDelivered'
    BY <1>1 DEF UploadedDelivered, Delivered, Live
  <1> QED BY <1>2, <1>3, <1>4

LEMMA MarkRowKeeps ==
    ASSUME UploadInv, TypeOK', NEW q \in QSOs, MarkRow(q)
    PROVE  UploadInv'
  <1> USE DEF UploadInv
  <1>1. PICK r \in AnyRow : /\ Record(q, r)
                            /\ r.status = "uploaded" => pc = "sent"
    <2>1. row[q] \in AnyRow /\ FALSE \in BOOLEAN
      BY DEF HostInv, HostTypeOK
    <2>2. MarkUploaded(row[q], FALSE) \in AnyRow /\ MarkSyncError(row[q]) \in AnyRow
      BY <2>1, RowsStayRows, Zenon
    <2>3. MarkSyncError(row[q]).status # "uploaded"
      BY <2>1, OnlyMarkUploaded
    <2> QED BY <2>2, <2>3 DEF MarkRow
  <1>2. HostInv'
    BY <1>1, RecordKeeps
  <1>3. /\ UNCHANGED <<ver, deleted, remote, raced, unaccepted>>
        /\ q \in batch /\ batch' = batch \ {q} /\ pc' \in {pc, "loop"}
        /\ \A p \in QSOs : row'[p] = row[p] \/ (p = q /\ row'[p] = r)
    BY <1>1 DEF MarkRow, Record, qsoVars, HostInv, HostTypeOK
  <1>4. SentIsThere'
    BY <1>3 DEF SentIsThere, Delivered, Live
  <1>5. UploadedDelivered'
    BY <1>1, <1>3 DEF UploadedDelivered, SentIsThere, Delivered, Live
  <1> QED BY <1>2, <1>3, <1>4, <1>5

\* A call delivers the job's snapshot, which SnapshotCurrent speaks of.
LEMMA UploadKeeps ==
    ASSUME UploadInv, TypeOK', NEW b \in Batches, NEW accepted \in Accepted(b),
           UploadOk(b, accepted) \/ UploadTransient(b) \/ UploadRefused(b)
    PROVE  UploadInv'
  <1> USE DEF UploadInv
  <1>1. b \subseteq todo /\ accepted \subseteq b
    BY DEF Batches, Accepted
  <1>2. \A q \in b : q \in QSOs /\ snap[q] > 0 /\ (q \notin raced => snap[q] = ver[q])
    BY <1>1 DEF HostInv, SnapshotCurrent, Held, HostTypeOK
  <1>3. /\ UNCHANGED <<ver, deleted, trigger, row, delJobs, raced>>
        /\ Held' \subseteq Held
        /\ \A q \in Held' : snap'[q] = snap[q]
    <2>1. CASE UploadOk(b, accepted)
      BY <1>1, <2>1 DEF UploadOk, qsoVars, Held
    <2>2. CASE UploadTransient(b)
      BY <2>2, FinishHarmless DEF UploadTransient, qsoVars
    <2>3. CASE UploadRefused(b)
      BY <1>1, <2>3 DEF UploadRefused, qsoVars, Held
    <2> QED BY <2>1, <2>2, <2>3
  <1>4. HostInv'
    BY <1>3, CallKeeps DEF TypeOK
  <1>5. CASE UploadOk(b, accepted)
    <2>1. /\ pc' = "sent" /\ batch' = b /\ unaccepted' = (unaccepted \cup b) \ accepted
          /\ \A q \in QSOs : remote'[q] = IF q \in accepted THEN snap[q] ELSE remote[q]
      BY <1>5 DEF UploadOk
    <2>2. SentIsThere'
      BY <1>2, <1>3, <2>1 DEF SentIsThere, Delivered
    <2>3. UploadedDelivered'
      BY <1>1, <1>2, <1>3, <2>1 DEF UploadedDelivered, Delivered, Live
    <2> QED BY <1>4, <2>2, <2>3 DEF TypeOK
  <1>6. CASE UploadTransient(b) \/ UploadRefused(b)
    <2>1. pc' # "sent" /\ unaccepted' = unaccepted
      BY <1>6, FinishHarmless DEF UploadTransient, UploadRefused, Recording
    <2>2. \A q \in QSOs : remote'[q] = remote[q] \/ (q \in b /\ remote'[q] = snap[q])
      BY <1>6 DEF UploadTransient, UploadRefused, MaybeDelivered
    <2>3. SentIsThere'
      BY <2>1 DEF SentIsThere
    <2>4. UploadedDelivered'
      BY <1>2, <1>3, <2>1, <2>2 DEF UploadedDelivered, Delivered, Live
    <2> QED BY <1>4, <2>1, <2>3, <2>4
  <1> QED BY <1>5, <1>6

LEMMA NextUploadInv == UploadInv /\ [Next]_vars => UploadInv'
  <1> SUFFICES ASSUME UploadInv, [Next]_vars PROVE UploadInv'
    OBVIOUS
  <1>1. TypeOK'
    BY NextTypeOK DEF UploadInv, HostInv, TypeOK
  <1>2. CASE UNCHANGED vars
    BY <1>2 DEF vars, hostVars, UploadInv, HostInv, HostTypeOK, SnapshotCurrent, Held, Live,
                UnloggedUntouched, OnlyDeletedLeave, SentIsThere, UploadedDelivered, Delivered
  <1>3. CASE Host(HostNext) \/ Host(Fetch)
    BY <1>3, HostKeeps, EffectKeeps DEF Host, UploadInv
  <1>4. CASE Upload
    <2>1. PICK b \in Batches : \/ \E accepted \in Accepted(b) : UploadOk(b, accepted)
                               \/ UploadTransient(b) \/ UploadRefused(b)
      BY <1>4 DEF Upload
    <2>2. b \in Accepted(b)
      BY DEF Accepted
    <2> QED BY <1>1, <2>1, <2>2, UploadKeeps
  <1>5. CASE \E q \in QSOs : MarkRow(q)
    BY <1>1, <1>5, MarkRowKeeps
  <1>6. CASE Inbound
    <2>1. ASSUME NEW entity \in SUBSET QSOs, ClubLogPoll(entity) PROVE UploadInv'
      <3>1. CASE QSOs = {}
        BY <1>1, <2>1, <3>1 DEF UploadInv, HostInv, TypeOK, HostTypeOK, SnapshotCurrent, Held,
             UnloggedUntouched, OnlyDeletedLeave, SentIsThere, UploadedDelivered, ClubLogPoll,
             qsoVars, jobVars
      <3>2. CASE QSOs # {}
        BY <1>1, <2>1, <3>2, PollKeeps
      <3> QED BY <3>1, <3>2
    <2>2. ASSUME NEW q \in QSOs, EQSLDownload(q) PROVE UploadInv'
      BY <1>1, <2>2, PollKeeps
    <2> QED BY <1>1, <1>6, <2>1, <2>2, ClubLogDeleteKeeps DEF Inbound
  <1> QED BY <1>2, <1>3, <1>4, <1>5, <1>6 DEF Next

\* A QSO whose row says uploaded is at the service, and in its current version
\* unless it was edited between the fetch of the rows and markUploaded or the
\* service passed over it: that window is the only way to lose an edit.
THEOREM UploadedSent == Spec => []UploadedWasSent
  <1>1. UploadInv => UploadedWasSent
    BY DEF UploadInv, UploadedDelivered, UploadedWasSent, Delivered
  <1> QED BY <1>1, InitUploadInv, NextUploadInv, PTL DEF Spec
-----------------------------------------------------------------------------
(***************************************************************************)
(* DeletedLeavesClubLog speaks of states in which nothing runs.  Before    *)
(* that, a deleted QSO that Club Log still has is the business of a delete *)
(* job, and no upload job can put it back: either the QSO is raced, or no  *)
(* job has it in hand, because a fetch passes over deleted QSOs.           *)
(***************************************************************************)
DeletedInv ==
    \A q \in deleted \ raced : q \notin Held /\ (remote[q] = 0 \/ q \in delJobs)

\* The delete job is enqueued by a goroutine whose error is only logged, and
\* a delete job without credentials ends without the call: what is deleted
\* then stays at Club Log.
DeletesArrive == Service = "clublog" /\ ~BestEffort /\ ~CredsFail

\* A step that neither edits nor deletes, and takes nothing new in hand.
LEMMA HarmlessKeepsDeleted ==
    ASSUME DeletedInv, Harmless, UNCHANGED delJobs
    PROVE  DeletedInv'
  BY DEF DeletedInv, Harmless

LEMMA HostKeepsDeleted ==
    ASSUME DeletesArrive, HostInv, DeletedInv, HostNext \/ Fetch
    PROVE  DeletedInv'
  <1>1. HostTypeOK'
    BY HostNextType DEF HostInv
  <1>2. ASSUME NEW q \in QSOs, Create(q) \/ Edit(q) \/ Enrich(q) PROVE DeletedInv'
    BY <1>2 DEF Create, Edit, Enrich, jobVars, DeletedInv, Held
  <1>3. ASSUME NEW q \in QSOs, Delete(q) PROVE DeletedInv'
    <2>1. /\ deleted' = deleted \cup {q} /\ delJobs' = delJobs \cup {q}
          /\ Held' = Held /\ remote' = remote
          /\ raced' = IF q \in Held THEN raced \cup {q} ELSE raced
      BY <1>3 DEF Delete, DeletesArrive, jobVars, Held
    <2> QED BY <2>1 DEF DeletedInv
  <1>4. CASE Fetch
    <2>1. CASE FetchPending = {}
      BY <1>4, <2>1, FinishHarmless DEF Fetch, qsoVars, DeletedInv
    <2>2. CASE FetchPending # {}
      <3>1. /\ UNCHANGED <<deleted, remote, delJobs, batch>>
            /\ todo' = FetchPending /\ raced' = raced \ FetchPending
        BY <1>4, <2>2 DEF Fetch, qsoVars
      <3>2. \A q \in FetchPending : q \notin deleted
        BY DEF FetchPending, Live
      <3> QED BY <3>1, <3>2 DEF DeletedInv, Held
    <2> QED BY <2>1, <2>2
  <1>5. ASSUME \/ \E q \in QSOs : TriggerAutoSync(q) \/ LoseTrigger(q) \/ RetryDue(q)
               \/ \E sel : Retry(sel)
               \/ \E received : Backfill(received)
               \/ Cancel \/ TriggerSync \/ BulkUpload \/ Sweep
               \/ JobLife
        PROVE  DeletedInv'
    <2>1. Harmless
      BY <1>1, <1>5, StatusSteps
    <2>2. UNCHANGED delJobs
      BY <1>5 DEF TriggerAutoSync, LoseTrigger, RetryDue, Retry, Backfill, Cancel, TriggerSync,
           BulkUpload, Sweep, JobLife, Start, PermanentFailure, RateLimited, QueryFails, Done,
           Die, Rescue
    <2> QED BY <2>1, <2>2, HarmlessKeepsDeleted
  <1> QED BY <1>2, <1>3, <1>4, <1>5 DEF HostNext, User, Background

\* What a call sends was in hand, so it is raced or not deleted.
LEMMA UploadKeepsDeleted ==
    ASSUME TypeOK, DeletedInv, NEW b \in Batches, NEW accepted \in Accepted(b),
           UploadOk(b, accepted) \/ UploadTransient(b) \/ UploadRefused(b)
    PROVE  DeletedInv'
  <1>1. b \subseteq todo /\ accepted \subseteq b
    BY DEF Batches, Accepted
  <1>2. UNCHANGED <<deleted, delJobs, raced>> /\ Held' \subseteq Held
    <2>1. CASE UploadOk(b, accepted) \/ UploadRefused(b)
      BY <1>1, <2>1 DEF UploadOk, UploadRefused, qsoVars, Held
    <2>2. CASE UploadTransient(b)
      BY <2>2, FinishHarmless DEF UploadTransient, qsoVars
    <2> QED BY <2>1, <2>2
  <1>3. \A q \in QSOs : remote'[q] = remote[q] \/ q \in Held
    BY <1>1 DEF UploadOk, UploadTransient, UploadRefused, MaybeDelivered, Held
  <1> QED BY <1>2, <1>3 DEF DeletedInv, TypeOK, HostTypeOK

LEMMA NextDeletedInv ==
    ASSUME DeletesArrive
    PROVE  UploadInv /\ DeletedInv /\ [Next]_vars => DeletedInv'
  <1> SUFFICES ASSUME UploadInv, DeletedInv, [Next]_vars PROVE DeletedInv'
    OBVIOUS
  <1>1. TypeOK
    BY DEF UploadInv, HostInv, TypeOK
  <1>2. CASE UNCHANGED vars
    BY <1>2 DEF vars, hostVars, DeletedInv, Held
  <1>3. CASE Host(HostNext) \/ Host(Fetch)
    BY <1>3, HostKeepsDeleted DEF Host, UploadInv
  <1>4. CASE Upload
    <2>1. PICK b \in Batches : \/ \E accepted \in Accepted(b) : UploadOk(b, accepted)
                               \/ UploadTransient(b) \/ UploadRefused(b)
      BY <1>4 DEF Upload
    <2>2. b \in Accepted(b)
      BY DEF Accepted
    <2> QED BY <1>1, <2>1, <2>2, UploadKeepsDeleted
  <1>5. CASE \E q \in QSOs : MarkRow(q)
    BY <1>5 DEF MarkRow, Record, qsoVars, DeletedInv, Held
  <1>6. CASE \/ \E entity \in SUBSET QSOs : ClubLogPoll(entity)
             \/ \E q \in QSOs : EQSLDownload(q)
    BY <1>6 DEF ClubLogPoll, EQSLDownload, qsoVars, jobVars, DeletedInv, Held
  <1>7. ASSUME NEW q \in QSOs, ClubLogDelete(q) PROVE DeletedInv'
    <2>1. /\ UNCHANGED <<deleted, raced, todo, batch>> /\ delJobs' = delJobs \ {q}
          /\ remote' = [remote EXCEPT ![q] = 0]
      BY <1>7 DEF ClubLogDelete, DeletesArrive, qsoVars, jobVars
    <2> QED BY <1>1, <2>1 DEF DeletedInv, Held, TypeOK, HostTypeOK
  <1> QED BY <1>2, <1>3, <1>4, <1>5, <1>6, <1>7 DEF Next, Inbound

\* Where delete jobs are enqueued and carried out, a deleted QSO does not stay
\* at Club Log, whatever else ran meanwhile, unless an upload job had it in
\* hand when it was deleted.
THEOREM DeletedLeaves ==
    ASSUME DeletesArrive
    PROVE  Spec => []DeletedLeavesClubLog
  <1>1. Init => DeletedInv
    BY DEF Init, HostInit, DeletedInv
  <1>2. DeletedInv => DeletedLeavesClubLog
    BY DEF DeletedInv, DeletedLeavesClubLog, Quiet
  <1>3. UploadInv /\ DeletedInv /\ [Next]_vars => DeletedInv'
    BY NextDeletedInv
  <1> QED BY <1>1, <1>2, <1>3, InitUploadInv, NextUploadInv, PTL DEF Spec
-----------------------------------------------------------------------------
(***************************************************************************)
(* QRZ: QRZUpload.                                                         *)
(***************************************************************************)

\* The row that RecordOutcome writes.
LEMMA OutcomeRow ==
    ASSUME HostTypeOK, NEW q \in QSOs, RecordOutcome(q)
    PROVE  \E r \in AnyRow : /\ Record(q, r)
                             /\ r.status = "uploaded" => Recording
                             /\ r.status = "uploaded" /\ r.hasId => pc = "sent"
  <1>1. row[q] \in AnyRow /\ {TRUE, FALSE} \subseteq BOOLEAN
    BY DEF HostTypeOK
  <1>2. /\ MarkUploaded(row[q], TRUE) \in AnyRow
        /\ MarkUploaded(row[q], FALSE) \in AnyRow
        /\ MarkSyncError(row[q]) \in AnyRow
    BY <1>1, RowsStayRows, Zenon
  <1>3. MarkSyncError(row[q]).status # "uploaded"
    BY <1>1, OnlyMarkUploaded
  <1>4. ~MarkUploaded(row[q], FALSE).hasId
    BY DEF MarkUploaded, NoRow
  <1> QED BY <1>2, <1>3, <1>4 DEF RecordOutcome, Recording

LEMMA QRZInitTypeOK == QRZInit => QRZTypeOK
  <1>1. QRZInit => HostTypeOK
    BY HostInitType DEF QRZInit
  <1>2. QRZInit => replace \subseteq QSOs
    BY DEF QRZInit
  <1> QED BY <1>1, <1>2 DEF QRZTypeOK

LEMMA QRZNextTypeOK == QRZTypeOK /\ [QRZNext]_qrzVars => QRZTypeOK'
  <1> SUFFICES ASSUME QRZTypeOK, [QRZNext]_qrzVars PROVE QRZTypeOK'
    OBVIOUS
  <1> USE DEF QRZTypeOK
  <1>1. CASE QRZHost(HostNext)
    BY <1>1, HostNextType DEF QRZHost
  <1>2. CASE QRZFetch
    BY <1>2, HostNextType DEF QRZFetch, FetchPending
  <1>3. ASSUME NEW q \in QSOs, CallOk(q) \/ CallDuplicate(q) \/ CallRefused(q) PROVE QRZTypeOK'
    <2>1. remote' \in [QSOs -> 0..MaxVersion]
      BY <1>3 DEF CallOk, CallDuplicate, CallRefused, MaybeTaken, HostTypeOK
    <2>2. PICK next \in {"sent", "duplicate", "refused"} : Call(q, next)
      BY <1>3 DEF CallOk, CallDuplicate, CallRefused
    <2> QED BY <2>1, <2>2 DEF Call, qsoVars, Steps, HostTypeOK
  <1>4. ASSUME NEW q \in QSOs, CallTransient(q) PROVE QRZTypeOK'
    <2>1. remote' \in [QSOs -> 0..MaxVersion]
      BY <1>4 DEF CallTransient, MaybeTaken, HostTypeOK
    <2> QED BY <1>4, <2>1, FinishType DEF CallTransient, qsoVars, HostTypeOK
  <1>5. ASSUME NEW q \in QSOs, RecordOutcome(q) PROVE QRZTypeOK'
    <2>1. PICK r \in AnyRow : Record(q, r)
      BY <1>5, OutcomeRow
    <2>2. row' \in [QSOs -> AnyRow]
      BY <2>1 DEF Record, HostTypeOK
    <2> QED BY <1>5, <2>1, <2>2 DEF RecordOutcome, Record, qsoVars, Steps, HostTypeOK
  <1>6. ASSUME NEW q \in QSOs, QRZPoll(q) PROVE QRZTypeOK'
    BY <1>6, RowsStayRows DEF QRZPoll, qsoVars, jobVars, HostTypeOK
  <1>7. CASE UNCHANGED qrzVars
    BY <1>7 DEF qrzVars, hostVars, HostTypeOK
  <1> QED BY <1>1, <1>2, <1>3, <1>4, <1>5, <1>6, <1>7 DEF QRZNext

\* The rows of sync_status, the worker's memory and the queue keep their types.
THEOREM QRZTypeCorrect == QRZSpec => []QRZTypeOK
  BY QRZInitTypeOK, QRZNextTypeOK, PTL DEF QRZSpec
-----------------------------------------------------------------------------
(***************************************************************************)
(* The strengthening of UploadedAtQRZ: what markUploaded will find for the *)
(* QSO of the last call, after an answer with a LOGID and after a          *)
(* duplicate.                                                              *)
(***************************************************************************)
Current(q) == q \notin raced => remote[q] = ver[q]

OutcomeThere ==
    Recording => \A q \in batch : Live(q) => remote[q] > 0 /\ (pc = "sent" => Current(q))

QRZInv == HostInv /\ replace \subseteq QSOs /\ OutcomeThere /\ UploadedAtQRZ

LEMMA InitQRZInv == QRZInit => QRZInv
  <1> SUFFICES ASSUME QRZInit PROVE QRZInv
    OBVIOUS
  <1>1. HostInv
    BY HostInitInv DEF QRZInit
  <1>2. replace \subseteq QSOs /\ OutcomeThere
    BY DEF QRZInit, HostInit, OutcomeThere, Recording
  <1>3. UploadedAtQRZ
    BY DEF QRZInit, HostInit, UploadedAtQRZ, Live
  <1> QED BY <1>1, <1>2, <1>3 DEF QRZInv

\* A step whose only effect on QRZ's side is HostEffect.
LEMMA QRZEffectKeeps ==
    ASSUME QRZInv, HostInv', HostEffect, replace' \subseteq QSOs
    PROVE  QRZInv'
  <1> USE DEF QRZInv
  <1>1. OutcomeThere'
    <2> SUFFICES ASSUME Recording', NEW q \in batch', Live(q)'
                 PROVE  remote'[q] > 0 /\ (pc' = "sent" => Current(q)')
      BY DEF OutcomeThere
    <2>1. Recording /\ pc' = pc /\ q \in batch /\ Live(q)
      BY DEF HostEffect
    <2>2. remote[q] > 0 /\ (pc = "sent" => Current(q))
      BY <2>1 DEF OutcomeThere
    <2>3. remote' = remote /\ (ver'[q] = ver[q] \/ q \in raced') /\ (q \in raced => q \in raced')
      BY DEF HostEffect
    <2> QED BY <2>1, <2>2, <2>3 DEF Current
  <1>2. UploadedAtQRZ'
    <2> SUFFICES ASSUME NEW q \in QSOs, Live(q)', row'[q].status = "uploaded"
                 PROVE  remote'[q] > 0 /\ (row'[q].hasId /\ q \notin raced' => remote'[q] = ver'[q])
      BY DEF UploadedAtQRZ
    <2>1. Live(q) /\ row[q].status = "uploaded" /\ row'[q].hasId = row[q].hasId
      BY DEF HostEffect, KeepsUploaded
    <2>2. remote[q] > 0 /\ (row[q].hasId /\ q \notin raced => remote[q] = ver[q])
      BY <2>1 DEF UploadedAtQRZ
    <2>3. remote' = remote /\ ver'[q] = ver[q] /\ (q \in raced => q \in raced')
      BY DEF HostEffect
    <2> QED BY <2>1, <2>2, <2>3
  <1> QED BY <1>1, <1>2

\* A call leaves QRZ as it is or gives it the job's snapshot of q.
LEMMA CallsKeep ==
    ASSUME QRZInv, QRZTypeOK', NEW q \in QSOs,
           CallOk(q) \/ CallDuplicate(q) \/ CallRefused(q) \/ CallTransient(q)
    PROVE  QRZInv'
  <1> USE DEF QRZInv
  <1>1. q \in todo /\ snap[q] > 0 /\ (q \notin raced => snap[q] = ver[q])
    BY DEF HostInv, SnapshotCurrent, Held, CallOk, CallDuplicate, CallRefused, CallTransient, Call
  <1>2. /\ UNCHANGED <<ver, deleted, trigger, row, delJobs, raced, replace>>
        /\ Held' \subseteq Held
        /\ \A p \in Held' : snap'[p] = snap[p]
    <2>1. CASE CallTransient(q)
      BY <2>1, FinishHarmless DEF CallTransient, qsoVars
    <2>2. CASE CallOk(q) \/ CallDuplicate(q) \/ CallRefused(q)
      BY <2>2 DEF CallOk, CallDuplicate, CallRefused, Call, qsoVars, Held
    <2> QED BY <2>1, <2>2
  <1>3. HostInv'
    BY <1>2, CallKeeps DEF QRZTypeOK
  <1>4. \A p \in QSOs : remote'[p] = remote[p] \/ (p = q /\ remote'[p] = snap[p])
    BY DEF CallOk, CallDuplicate, CallRefused, CallTransient, MaybeTaken, HostInv, HostTypeOK
  <1>5. UploadedAtQRZ'
    BY <1>1, <1>2, <1>4 DEF UploadedAtQRZ, Live
  <1>6. OutcomeThere'
    <2>1. CASE CallOk(q)
      <3>1. remote'[q] = snap[q] /\ batch' = {q} /\ pc' = "sent"
        BY <2>1 DEF CallOk, Call, HostInv, HostTypeOK
      <3> QED BY <1>1, <1>2, <3>1 DEF OutcomeThere, Current
    <2>2. CASE CallDuplicate(q)
      <3>1. remote'[q] > 0 /\ batch' = {q} /\ pc' = "duplicate"
        BY <2>2 DEF CallDuplicate, Call
      <3> QED BY <3>1 DEF OutcomeThere
    <2>3. CASE CallRefused(q)
      BY <2>3 DEF CallRefused, Call, OutcomeThere, Recording
    <2>4. CASE CallTransient(q)
      BY <2>4, FinishHarmless DEF CallTransient, OutcomeThere
    <2> QED BY <2>1, <2>2, <2>3, <2>4
  <1> QED BY <1>2, <1>3, <1>5, <1>6

LEMMA OutcomeKeeps ==
    ASSUME QRZInv, NEW q \in QSOs, RecordOutcome(q)
    PROVE  QRZInv'
  <1> USE DEF QRZInv
  <1>1. PICK r \in AnyRow : /\ Record(q, r)
                            /\ r.status = "uploaded" => Recording
                            /\ r.status = "uploaded" /\ r.hasId => pc = "sent"
    BY OutcomeRow DEF HostInv
  <1>2. HostInv'
    BY <1>1, RecordKeeps
  <1>3. /\ UNCHANGED <<ver, deleted, remote, raced, replace>>
        /\ q \in batch /\ batch' = batch \ {q} /\ pc' \in {pc, "loop"}
        /\ \A p \in QSOs : row'[p] = row[p] \/ (p = q /\ row'[p] = r)
    BY <1>1 DEF RecordOutcome, Record, qsoVars, HostInv, HostTypeOK
  <1>4. OutcomeThere'
    BY <1>3 DEF OutcomeThere, Recording, Current, Live
  <1>5. UploadedAtQRZ'
    BY <1>1, <1>3 DEF UploadedAtQRZ, OutcomeThere, Current, Live
  <1> QED BY <1>2, <1>3, <1>4, <1>5

\* The poll confirms a row, and does nothing else.
LEMMA QRZPollKeeps ==
    ASSUME QRZInv, QRZTypeOK', NEW q \in QSOs, QRZPoll(q)
    PROVE  QRZInv'
  <1> USE DEF QRZInv, HostInv, QRZPoll, qsoVars, jobVars
  <1>1. \A p \in QSOs : row[p] \in AnyRow /\ (ver[p] = 0 => row[p] = NoRow)
    BY DEF HostTypeOK, UnloggedUntouched
  <1>2. MarkConfirmed(row[q]).status # "uploaded"
    BY <1>1, OnlyMarkUploaded
  <1>3. \A p \in QSOs : row'[p] = row[p] \/ (p = q /\ ver[p] # 0 /\ row'[p] = MarkConfirmed(row[p]))
    BY DEF Live, HostTypeOK
  <1>4. \A p \in QSOs : KeepsUploaded(row[p], row'[p])
    BY <1>2, <1>3 DEF KeepsUploaded
  <1>5. Harmless
    BY <1>1, <1>3, <1>4 DEF Harmless, Held, Recording
  <1> QED BY <1>5, HarmlessKeeps, QRZEffectKeeps DEF QRZTypeOK

LEMMA NextQRZInv == QRZInv /\ [QRZNext]_qrzVars => QRZInv'
  <1> SUFFICES ASSUME QRZInv, [QRZNext]_qrzVars PROVE QRZInv'
    OBVIOUS
  <1>1. QRZTypeOK'
    BY QRZNextTypeOK DEF QRZInv, HostInv, QRZTypeOK
  <1>2. CASE UNCHANGED qrzVars
    BY <1>2 DEF qrzVars, hostVars, QRZInv, HostInv, HostTypeOK, SnapshotCurrent, Held, Live,
                UnloggedUntouched, OnlyDeletedLeave, OutcomeThere, Recording, Current, UploadedAtQRZ
  <1>3. CASE QRZHost(HostNext) \/ QRZFetch
    <2>1. HostInv' /\ HostEffect
      BY <1>3, HostKeeps DEF QRZHost, QRZFetch, QRZInv
    <2> QED BY <1>1, <2>1, QRZEffectKeeps DEF QRZTypeOK
  <1>4. ASSUME NEW q \in QSOs,
               CallOk(q) \/ CallDuplicate(q) \/ CallRefused(q) \/ CallTransient(q)
        PROVE  QRZInv'
    BY <1>1, <1>4, CallsKeep
  <1>5. ASSUME NEW q \in QSOs, RecordOutcome(q) \/ QRZPoll(q) PROVE QRZInv'
    BY <1>1, <1>5, OutcomeKeeps, QRZPollKeeps
  <1> QED BY <1>2, <1>3, <1>4, <1>5 DEF QRZNext

\* A row that says uploaded is at QRZ, and a LOGID is stored only for the
\* version that QRZ took, unless the QSO was edited while the job had it.
THEOREM UploadedHeld == QRZSpec => []UploadedAtQRZ
  <1>1. QRZInv => UploadedAtQRZ
    BY DEF QRZInv
  <1> QED BY <1>1, InitQRZInv, NextQRZInv, PTL DEF QRZSpec
=============================================================================
