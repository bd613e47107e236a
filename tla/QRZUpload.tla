------------------------------ MODULE QRZUpload ------------------------------
(***************************************************************************)
(* The upload of one user's QSOs to the QRZ logbook (QRZUploadWorker) and  *)
(* the poll for confirmations (QRZPollWorker).  One call per QSO: REPLACE  *)
(* for a dirty row with a remote id (QRZ's LOGID), INSERT for any other.   *)
(*                                                                         *)
(* QRZ (external): an INSERT of a QSO it holds is answered by "duplicate"  *)
(* and changes nothing; edits that make QRZ see another QSO (call, band,   *)
(* time) are left out.                                                     *)
(***************************************************************************)
EXTENDS SyncHost

VARIABLE
    replace    \* fetched rows that were dirty and had a remote id

qrzVars == <<hostVars, replace>>

QRZTypeOK == HostTypeOK /\ replace \subseteq QSOs

QRZInit == HostInit /\ replace = {}

\* A step of SyncHost.
QRZHost(A) == A /\ UNCHANGED replace

\* fetchPendingQSOs also reads status and remote_id.
QRZFetch ==
    /\ Fetch
    /\ replace' = {q \in FetchPending : row[q].status = "dirty" /\ row[q].hasId}

\* One turn of the loop: the call for q ends, and what follows is recorded.
\* The loop also passes over a record that cannot be formatted, but
\* qsoRowToSingleADIF returns no error for any row.
Call(q, next) ==
    /\ pc = "loop"
    /\ q \in todo
    /\ todo' = todo \ {q}
    /\ batch' = {q}
    /\ pc' = next
    /\ UNCHANGED <<qsoVars, row, queued, delJobs, raced, snap, replace>>

\* The call is carried out: REPLACE, or INSERT of a QSO that QRZ does not hold.
CallOk(q) ==
    /\ Call(q, "sent")
    /\ q \in replace \/ remote[q] = 0
    /\ remote' = [remote EXCEPT ![q] = snap[q]]

\* INSERT of a QSO that QRZ holds.
CallDuplicate(q) ==
    /\ Call(q, "duplicate")
    /\ q \notin replace /\ remote[q] > 0
    /\ UNCHANGED remote

\* What a call that ended in an error may have done.
MaybeTaken(q) ==
    \/ UNCHANGED remote
    \/ /\ q \in replace \/ remote[q] = 0
       /\ remote' = [remote EXCEPT ![q] = snap[q]]

\* An error that is neither transient nor about the API key; an answer without
\* a LOGID is one, too.
CallRefused(q) == Call(q, "refused") /\ MaybeTaken(q)

\* A transient error: the job returns it, and River runs the job again or
\* discards it.
CallTransient(q) ==
    /\ pc = "loop"
    /\ q \in todo
    /\ MaybeTaken(q)
    /\ queued' \in {TRUE, queued}
    /\ Finish
    /\ UNCHANGED <<qsoVars, row, delJobs, raced, replace>>

\* Mutant: the LOGID of the row is kept when QRZ says duplicate.
RecordOutcomeKeepId(q) ==
    /\ \/ pc = "sent" /\ Record(q, MarkUploaded(row[q], TRUE))
       \/ pc = "duplicate" /\ Record(q, MarkUploaded(row[q], TRUE))
       \/ pc = "refused" /\ Record(q, MarkSyncError(row[q]))
    /\ UNCHANGED replace

\* markUploaded with the LOGID of the answer, markUploaded without one after a
\* duplicate, or markSyncError.
RecordOutcome(q) ==
    /\ \/ pc = "sent" /\ Record(q, MarkUploaded(row[q], TRUE))
       \/ pc = "duplicate" /\ Record(q, MarkUploaded(row[q], FALSE))
       \/ pc = "refused" /\ Record(q, MarkSyncError(row[q]))
    /\ UNCHANGED replace

\* QRZPollWorker: a record of the user's QRZ logbook is confirmed, and q is the
\* QSO that findMatchingQSOForConfirmation takes for it.
QRZPoll(q) ==
    /\ \E p \in QSOs : remote[p] > 0
    /\ Live(q)
    /\ row' = [row EXCEPT ![q] = MarkConfirmed(@)]
    /\ UNCHANGED <<qsoVars, remote, queued, delJobs, raced, jobVars, replace>>

-----------------------------------------------------------------------------
QRZNext == \/ QRZHost(HostNext)
        \/ QRZFetch
        \/ \E q \in QSOs : \/ CallOk(q) \/ CallDuplicate(q) \/ CallRefused(q) \/ CallTransient(q)
                           \/ RecordOutcome(q) \/ QRZPoll(q)

QRZSpec == QRZInit /\ [][QRZNext]_qrzVars
-----------------------------------------------------------------------------
(***************************************************************************)
(* Properties                                                              *)
(***************************************************************************)

\* What a row that says 'uploaded' means: QRZ holds the QSO; and if the row has
\* a LOGID, QRZ holds the current version, unless the QSO was edited after the
\* job fetched it.  So a LOGID is never kept for a version QRZ did not take.
UploadedAtQRZ ==
    \A q \in QSOs :
       Live(q) /\ row[q].status = "uploaded"
         => remote[q] > 0 /\ (row[q].hasId /\ q \notin raced => remote[q] = ver[q])
=============================================================================
