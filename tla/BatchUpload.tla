----------------------------- MODULE BatchUpload -----------------------------
(***************************************************************************)
(* The upload of one user's QSOs to a service that takes ADIF in batches:  *)
(* Club Log (ClubLogUploadWorker, ClubLogDeleteWorker, ClubLogPollWorker)  *)
(* or eQSL (EQSLUploadWorker, EQSLDownloadWorker).  A call has up to       *)
(* BatchSize rows, and its outcome is then recorded row by row.            *)
(***************************************************************************)
EXTENDS SyncHost

CONSTANTS
    BatchSize,     \* QSOs per upload call (100)
    PartialAccept  \* TRUE: the service may pass over records of a batch

ASSUME PartialAssumption == PartialAccept \in BOOLEAN

VARIABLE
    unaccepted \* history: QSOs passed over by the last call that took them along

vars == <<hostVars, unaccepted>>

TypeOK == HostTypeOK /\ unaccepted \subseteq QSOs

Init == HostInit /\ unaccepted = {}

\* ClubLogPollWorker: Club Log reports a DXCC entity as confirmed, and
\* markClubLogDXCCConfirmed updates the rows of all the QSOs with the entity.
ClubLogPoll(entity) ==
    /\ Service = "clublog"
    /\ row' = [q \in QSOs |-> IF q \in entity /\ Live(q) THEN MarkConfirmed(row[q]) ELSE row[q]]
    /\ UNCHANGED <<qsoVars, remote, queued, delJobs, raced, jobVars, unaccepted>>

\* EQSLDownloadWorker: the inbox holds the other station's card for q.
EQSLDownload(q) ==
    /\ Service = "eqsl"
    /\ Live(q)
    /\ row' = [row EXCEPT ![q] = MarkConfirmed(@)]
    /\ UNCHANGED <<qsoVars, remote, queued, delJobs, raced, jobVars, unaccepted>>

\* ClubLogDeleteWorker: the delete call succeeds, or the job ends without it
\* (no credentials, no API key, attempts used up).
ClubLogDelete(q) ==
    /\ q \in delJobs
    /\ delJobs' = delJobs \ {q}
    /\ \/ remote' = [remote EXCEPT ![q] = 0]
       \/ CredsFail /\ UNCHANGED remote
    /\ UNCHANGED <<qsoVars, row, queued, raced, jobVars, unaccepted>>

\* The next slice of the fetched rows.
Batches == {b \in SUBSET todo :
               Cardinality(b) = BatchSize \/ (b = todo /\ Cardinality(b) < BatchSize)}

\* UploadADIF returns without error: the service holds the records it
\* accepted.  Only the count of those is in the answer, and the worker logs it.
UploadOk(b, accepted) ==
    /\ pc = "loop"
    /\ b # {}
    /\ remote' = [q \in QSOs |-> IF q \in accepted THEN snap[q] ELSE remote[q]]
    /\ unaccepted' = (unaccepted \cup b) \ accepted
    /\ pc' = "sent"
    /\ batch' = b
    /\ todo' = todo \ b
    /\ UNCHANGED <<qsoVars, row, queued, delJobs, raced, snap>>

\* What the service may accept of a batch without an error.
Accepted(b) == IF PartialAccept THEN SUBSET b ELSE {b}

\* The call failed, but the service may hold the batch all the same.
MaybeDelivered(b) ==
    \/ remote' = [q \in QSOs |-> IF q \in b THEN snap[q] ELSE remote[q]]
    \/ UNCHANGED remote

\* A transient error (a timeout): the job returns an error, and River runs it again or discards it.
UploadTransient(b) ==
    /\ pc = "loop"
    /\ b # {}
    /\ MaybeDelivered(b)
    /\ queued' \in {TRUE, queued}
    /\ Finish
    /\ UNCHANGED <<qsoVars, row, delJobs, raced, unaccepted>>

\* Any other error: the rows of the batch are marked one by one.
UploadRefused(b) ==
    /\ pc = "loop"
    /\ b # {}
    /\ MaybeDelivered(b)
    /\ pc' = "refused"
    /\ batch' = b
    /\ todo' = todo \ b
    /\ UNCHANGED <<qsoVars, row, queued, delJobs, raced, snap, unaccepted>>

\* The loop over the batch: markUploaded after a success, markSyncError after
\* a failure.
MarkRow(q) ==
    /\ \/ pc = "sent" /\ Record(q, MarkUploaded(row[q], FALSE))
       \/ pc = "refused" /\ Record(q, MarkSyncError(row[q]))
    /\ UNCHANGED unaccepted

-----------------------------------------------------------------------------
Upload == \E b \in Batches : \/ \E accepted \in Accepted(b) : UploadOk(b, accepted)
                            \/ UploadTransient(b) \/ UploadRefused(b)

Inbound == \/ \E entity \in SUBSET QSOs : ClubLogPoll(entity)
           \/ \E q \in QSOs : EQSLDownload(q) \/ ClubLogDelete(q)

\* A step of SyncHost.
Host(A) == A /\ UNCHANGED unaccepted

Next == \/ Host(HostNext)
        \/ Host(Fetch)
        \/ Upload
        \/ \E q \in QSOs : MarkRow(q)
        \/ Inbound

Spec == Init /\ [][Next]_vars

\* The call that takes q along gets a definite answer.
Answered(q) == \E b \in Batches :
    q \in b /\ (UploadRefused(b) \/ \E accepted \in Accepted(b) : UploadOk(b, accepted))

(***************************************************************************)
(* The scheduler is a periodic River job; River runs what waits (the       *)
(* breaker admits again and again: CircuitBreaker!NeverStuck) and finds    *)
(* the jobs of dead processes; a job does not die, and a call does not     *)
(* time out, at the same place for ever; backoffs end.                     *)
(***************************************************************************)
Fairness ==
    /\ WF_vars(Host(Sweep)) /\ SF_vars(Host(Start)) /\ SF_vars(Host(Fetch))
    /\ WF_vars(Host(Done)) /\ WF_vars(Host(Rescue))
    /\ \A q \in QSOs :
          SF_vars(MarkRow(q)) /\ SF_vars(Answered(q)) /\ WF_vars(Host(RetryDue(q)))

FairSpec == Spec /\ Fairness
-----------------------------------------------------------------------------
(***************************************************************************)
(* Properties                                                              *)
(***************************************************************************)

\* What a row that says 'uploaded' means, if the service passed over no record.
\* It holds some version of the QSO; and it holds the current one, unless the
\* QSO was edited after the job had fetched it: only then does markUploaded,
\* which goes by row id alone, overwrite the reset of an edit it has not seen.
UploadedWasSent ==
    \A q \in QSOs \ unaccepted :
       Live(q) /\ row[q].status = "uploaded"
         => remote[q] > 0 /\ (q \notin raced => remote[q] = ver[q])

\* A row waiting for upload does not wait for ever: whatever jobs are lost,
\* dropped as duplicates, snoozed or die, the scheduler brings another.
PendingServed ==
    \A q \in QSOs :
       Live(q) /\ row[q].status \in {"pending", "dirty"}
         ~> ~(Live(q) /\ row[q].status \in {"pending", "dirty"})

\* "Exponential backoff: Failed uploads retry with increasing delays"
\* (docs/sync/index.md:56): a row that failed is in time fetched again.
ErrorRetried ==
    \A q \in QSOs :
       Live(q) /\ row[q].status = "error"
         ~> q \in todo \/ ~(Live(q) /\ row[q].status = "error")

\* No job of the user runs or waits.
Quiet == pc = "idle" /\ ~queued /\ delJobs = {} /\ trigger = {}

\* ClubLogDeleteWorker "deletes a QSO from Club Log when it's deleted locally"
\* (orchestrator.go:532): once all jobs are done, no deleted QSO is left there.
\* The exception is a QSO deleted while an upload job held it: that job may send
\* it after the delete job has run.
DeletedLeavesClubLog ==
    Quiet => \A q \in deleted \ raced : remote[q] = 0
=============================================================================
