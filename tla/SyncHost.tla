------------------------------ MODULE SyncHost -------------------------------
(***************************************************************************)
(* What the upload of one user's QSOs to one service (Club Log, eQSL, QRZ) *)
(* has in common whatever the service: the handlers that create, edit and  *)
(* delete the QSOs, the dashboard commands, the auto-sync scheduler, the   *)
(* job queue and the life of an upload job.  The calls to the service are  *)
(* in BatchUpload and QRZUpload.                                           *)
(*                                                                         *)
(* Every SQL statement, and every transaction, is one step; the worker's   *)
(* steps interleave with everybody else's.  A QSO's uploaded fields are a  *)
(* version number that every edit of them increments.                      *)
(*                                                                         *)
(* River (external): at most one upload job of the user is in one of the   *)
(* states named by userUniqueOpts; an insert that finds one is dropped.    *)
(* While a job runs an insert is therefore lost.  A job that returned an   *)
(* error, was snoozed or was rescued after its process died runs again,    *)
(* unless it used up its attempts and was discarded.                       *)
(***************************************************************************)
EXTENDS SyncStatus, FiniteSets

CONSTANTS
    QSOs,          \* the QSOs of the user
    MaxVersion,    \* bound: versions of one QSO (1 when logged, +1 per edit)
    Service,       \* "clublog", "eqsl" or "qrz"
    BestEffort,    \* TRUE: a write whose error the code ignores or returns may fail
    CredsFail      \* TRUE: credentials may be missing, bad or refused

ASSUME MaxVersionAssumption == MaxVersion \in Nat \ {0}
ASSUME ServiceAssumption == Service \in {"clublog", "eqsl", "qrz"}
ASSUME FlagAssumption == {BestEffort, CredsFail} \subseteq BOOLEAN

VARIABLES
    ver,       \* ver[q]: version of q's uploaded fields; 0: not logged yet
    deleted,   \* QSOs with deleted_at set
    row,       \* row[q]: q's row of sync_status for the service
    trigger,   \* QSOs committed by Create whose triggerAutoSync is to come
    remote,    \* remote[q]: version the service holds; 0: none
    queued,    \* an upload job of the user waits in River
    pc,        \* where the running upload job is; "idle": none runs
    todo,      \* rows the job fetched and has not tried
    batch,     \* rows of the call whose outcome is being recorded
    snap,      \* snap[q]: version of q that the job fetched
    delJobs,   \* QSOs with a clublog_delete job in River
    raced      \* history: QSOs edited or deleted while the job held them

hostVars == <<ver, deleted, row, trigger, remote, queued, pc, todo, batch, snap,
              delJobs, raced>>

qsoVars == <<ver, deleted, trigger>>
jobVars == <<pc, todo, batch, snap>>

\* "duplicate" is an answer of QRZ only.
Steps == {"idle", "admitted", "loop", "sent", "duplicate", "refused", "dead"}

HostTypeOK ==
    /\ ver \in [QSOs -> 0..MaxVersion]
    /\ deleted \subseteq QSOs
    /\ row \in [QSOs -> AnyRow]
    /\ trigger \subseteq QSOs
    /\ remote \in [QSOs -> 0..MaxVersion]
    /\ queued \in BOOLEAN
    /\ pc \in Steps
    /\ todo \subseteq QSOs
    /\ batch \subseteq QSOs
    /\ snap \in [QSOs -> 0..MaxVersion]
    /\ delJobs \subseteq QSOs
    /\ raced \subseteq QSOs

HostInit ==
    /\ ver = [q \in QSOs |-> 0]
    /\ deleted = {}
    /\ row = [q \in QSOs |-> NoRow]
    /\ trigger = {}
    /\ remote = [q \in QSOs |-> 0]
    /\ queued = FALSE
    /\ pc = "idle"
    /\ todo = {}
    /\ batch = {}
    /\ snap = [q \in QSOs |-> 0]
    /\ delJobs = {}
    /\ raced = {}

Live(q) == ver[q] > 0 /\ q \notin deleted

\* Rows the running job still has in hand.
Held == todo \cup batch

OnLiveRows(F(_)) == [q \in QSOs |-> IF Live(q) THEN F(row[q]) ELSE row[q]]

(***************************************************************************)
(* Inserting an upload job: dropped while one runs, lost when it fails.    *)
(***************************************************************************)
Enqueue ==
    \/ queued' = (queued \/ pc = "idle")
    \/ BestEffort /\ UNCHANGED queued

-----------------------------------------------------------------------------
(* The handlers and the scheduler                                          *)

\* QSOHandler.Create commits the QSO; triggerAutoSync follows.
Create(q) ==
    /\ ver[q] = 0
    /\ ver' = [ver EXCEPT ![q] = 1]
    /\ trigger' = trigger \cup {q}
    /\ UNCHANGED <<deleted, row, remote, queued, delJobs, raced, jobVars>>

\* triggerAutoSync: the pending row in a transaction of its own, then the job.
\* InsertPendingSyncForQSO does not look at deleted_at for these services.
TriggerAutoSync(q) ==
    /\ q \in trigger
    /\ trigger' = trigger \ {q}
    /\ row' = [row EXCEPT ![q] = InsertPending(@)]
    /\ Enqueue
    /\ UNCHANGED <<ver, deleted, remote, delJobs, raced, jobVars>>

\* The process ends between the commit of Create and triggerAutoSync, or one
\* of the errors triggerAutoSync ignores keeps the row from being inserted; the
\* job may be enqueued all the same.
LoseTrigger(q) ==
    /\ BestEffort
    /\ q \in trigger
    /\ trigger' = trigger \ {q}
    /\ Enqueue
    /\ UNCHANGED <<ver, deleted, row, remote, delJobs, raced, jobVars>>

\* QSOHandler.Update and Patch: UpdateQSO fires the dirty trigger, then
\* resetQSOSyncStatus makes the row pending, in one transaction; then the job
\* is enqueued if there was a row.
Edit(q) ==
    /\ Live(q)
    /\ ver[q] < MaxVersion
    /\ ver' = [ver EXCEPT ![q] = @ + 1]
    /\ row' = [row EXCEPT ![q] = Reset(MarkDirty(@))]
    /\ raced' = IF q \in Held THEN raced \cup {q} ELSE raced
    /\ IF row[q] = NoRow THEN UNCHANGED queued ELSE Enqueue
    /\ UNCHANGED <<deleted, trigger, remote, delJobs, jobVars>>

\* The callsign backfill fills in an empty grid square or name: the trigger
\* alone reacts, and no job is enqueued.
Enrich(q) ==
    /\ Live(q)
    /\ ver[q] < MaxVersion
    /\ ver' = [ver EXCEPT ![q] = @ + 1]
    /\ row' = [row EXCEPT ![q] = MarkDirty(@)]
    /\ raced' = IF q \in Held THEN raced \cup {q} ELSE raced
    /\ UNCHANGED <<deleted, trigger, remote, queued, delJobs, jobVars>>

\* QSOHandler.Delete: soft delete and removal of the row in one transaction,
\* then a goroutine enqueues the Club Log delete job.
Delete(q) ==
    /\ Live(q)
    /\ deleted' = deleted \cup {q}
    /\ row' = [row EXCEPT ![q] = NoRow]
    /\ \/ delJobs' = IF Service = "clublog" THEN delJobs \cup {q} ELSE delJobs
       \/ BestEffort /\ UNCHANGED delJobs
    /\ raced' = IF q \in Held THEN raced \cup {q} ELSE raced
    /\ UNCHANGED <<ver, trigger, remote, queued, jobVars>>

\* SyncHandler.Cancel -> CancelPendingSync
Cancel ==
    /\ row' = OnLiveRows(CancelPending)
    /\ UNCHANGED <<qsoVars, remote, queued, delJobs, raced, jobVars>>

\* SyncHandler.TriggerSync: the service's job alone.
TriggerSync ==
    /\ Enqueue
    /\ UNCHANGED <<qsoVars, row, remote, delJobs, raced, jobVars>>

\* SyncHandler.Retry -> RetryFailedSyncs for one QSO or for all (sel), then the
\* job of the services that had failed rows.
Retry(sel) ==
    /\ \E q \in sel : Live(q) /\ row[q].status = "error"
    /\ row' = [q \in QSOs |-> IF q \in sel /\ Live(q) THEN RetryFailed(row[q]) ELSE row[q]]
    /\ Enqueue
    /\ UNCHANGED <<qsoVars, remote, delJobs, raced, jobVars>>

\* SyncHandler.BulkUpload -> BulkUploadUnsynced, then the service's job.
BulkUpload ==
    /\ row' = OnLiveRows(BulkRequeue)
    /\ Enqueue
    /\ UNCHANGED <<qsoVars, remote, delJobs, raced, jobVars>>

\* Saving credentials backfills the rows that are missing; no job.  The QSOs in
\* received have eqsl_qsl_rcvd or qrz_qsl_rcvd = 'Y' (from an import, say); for
\* Club Log there is no such field.
Backfill(received) ==
    /\ Service = "clublog" => received = {}
    /\ row' = [q \in QSOs |-> IF ~Live(q) THEN row[q]
                              ELSE IF q \in received THEN InsertConfirmed(row[q])
                              ELSE InsertPending(row[q])]
    /\ UNCHANGED <<qsoVars, remote, queued, delJobs, raced, jobVars>>

\* Mutant: the scheduler looks for failed rows only.
SweepEnqueuesRetries == \E q \in QSOs : Live(q) /\ row[q].status = "error"

\* AutoSyncSchedulerWorker: a Club Log or QRZ upload always, an eQSL upload only if
\* CountPendingEQSLQSOs finds a pending or dirty row.
SweepEnqueues ==
    \/ Service # "eqsl"
    \/ \E q \in QSOs : Live(q) /\ row[q].status \in {"pending", "dirty"}

Sweep ==
    /\ SweepEnqueues
    /\ Enqueue
    /\ UNCHANGED <<qsoVars, row, remote, delJobs, raced, jobVars>>

\* Time passes next_retry_at of q.
RetryDue(q) ==
    /\ row' = [row EXCEPT ![q] = BackoffOver(@)]
    /\ UNCHANGED <<qsoVars, remote, queued, delJobs, raced, jobVars>>

-----------------------------------------------------------------------------
(* The upload worker                                                       *)

\* AllowCircuit admits the job; a job it does not admit is snoozed.
Start ==
    /\ pc = "idle"
    /\ queued
    /\ queued' = FALSE
    /\ pc' = "admitted"
    /\ UNCHANGED <<qsoVars, row, remote, delJobs, raced, todo, batch, snap>>

\* The job ends: nothing is in hand any more.
Finish ==
    /\ pc' = "idle"
    /\ todo' = {}
    /\ batch' = {}
    /\ snap' = [q \in QSOs |-> 0]

\* Credentials missing, undecryptable or malformed; no API key; or the service
\* answers with an authentication error: markAllPendingFailed and return nil.
PermanentFailure ==
    /\ CredsFail
    /\ pc \in {"admitted", "loop"}
    /\ row' = [q \in QSOs |-> MarkPendingFailed(row[q])]
    /\ Finish
    /\ UNCHANGED <<qsoVars, remote, queued, delJobs, raced>>

\* Mutant: deleted_at is not looked at.
FetchPendingDeleted == {q \in QSOs : ver[q] > 0 /\ Fetchable(row[q])}

\* fetchPendingSQL
FetchPending == {q \in QSOs : Live(q) /\ Fetchable(row[q])}

\* fetchPendingQSOs; nothing pending ends the job.
Fetch ==
    /\ pc = "admitted"
    /\ IF FetchPending = {}
         THEN /\ Finish
              /\ UNCHANGED raced
         ELSE /\ pc' = "loop"
              /\ todo' = FetchPending
              /\ snap' = [q \in QSOs |-> IF q \in FetchPending THEN ver[q] ELSE snap[q]]
              /\ raced' = raced \ FetchPending
              /\ UNCHANGED batch
    /\ UNCHANGED <<qsoVars, row, remote, queued, delJobs>>

\* ConsumeRateLimit refuses before a call: the job is snoozed.
RateLimited ==
    /\ pc = "loop"
    /\ todo # {}
    /\ queued' = TRUE
    /\ Finish
    /\ UNCHANGED <<qsoVars, row, remote, delJobs, raced>>

\* A query of the job fails and Work returns the error: River runs the job
\* again, or discards it when it has used up its attempts.
QueryFails ==
    /\ BestEffort
    /\ pc \in {"admitted", "loop"}
    /\ queued' \in {TRUE, queued}
    /\ Finish
    /\ UNCHANGED <<qsoVars, row, remote, delJobs, raced>>

\* The next statement of the worker's bookkeeping: it turns the row of q into r,
\* found by row id.  The row of a QSO deleted in the meantime is gone, and with
\* it its id; a statement that fails is passed over.
Record(q, r) ==
    /\ q \in batch
    /\ batch' = batch \ {q}
    /\ \/ row' = [row EXCEPT ![q] = IF q \in deleted THEN @ ELSE r]
       \/ BestEffort /\ UNCHANGED row
    /\ pc' = IF batch = {q} THEN "loop" ELSE pc
    /\ UNCHANGED <<qsoVars, remote, queued, delJobs, raced, todo, snap>>

\* The loop over the fetched rows is over: return nil.
Done ==
    /\ pc = "loop"
    /\ todo = {}
    /\ Finish
    /\ UNCHANGED <<qsoVars, row, remote, queued, delJobs, raced>>

\* The process is killed, or the job's context ends and no further statement
\* succeeds.  River still counts the job as running ...
Die ==
    /\ pc \in {"admitted", "loop", "sent", "duplicate", "refused"}
    /\ pc' = "dead"
    /\ todo' = {}
    /\ batch' = {}
    /\ snap' = [q \in QSOs |-> 0]
    /\ UNCHANGED <<qsoVars, row, remote, queued, delJobs, raced>>

\* ... until it is found and made to run again, or is discarded.
Rescue ==
    /\ pc = "dead"
    /\ pc' = "idle"
    /\ queued' \in {TRUE, queued}
    /\ UNCHANGED <<qsoVars, row, remote, delJobs, raced, todo, batch, snap>>

-----------------------------------------------------------------------------
User == \/ \E q \in QSOs : Create(q) \/ Edit(q) \/ Enrich(q) \/ Delete(q)
        \/ \E sel \in {QSOs} \cup {{q} : q \in QSOs} : Retry(sel)
        \/ \E received \in SUBSET QSOs : Backfill(received)
        \/ Cancel \/ TriggerSync \/ BulkUpload

JobLife == Start \/ PermanentFailure \/ RateLimited \/ QueryFails \/ Done \/ Die \/ Rescue

Background == \/ \E q \in QSOs : TriggerAutoSync(q) \/ LoseTrigger(q) \/ RetryDue(q)
              \/ Sweep

\* Every step but Fetch and the calls to the service.
HostNext == User \/ JobLife \/ Background
=============================================================================
