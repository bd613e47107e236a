----------------------------- MODULE SyncStatus ------------------------------
(***************************************************************************)
(* Rows of the sync_status table: one per QSO and service.  Each operator  *)
(* is what one UPDATE of the sync code does to one row; an UPDATE that     *)
(* names a status in its WHERE clause leaves other rows as they are.       *)
(*                                                                         *)
(* next_retry_at is kept as the flag due (NULL or not in the future): the  *)
(* length of the backoff is the business of Infra.RetryDelay.  remote_id   *)
(* is kept as the flag hasId (a non-empty identifier is stored).           *)
(***************************************************************************)
EXTENDS Integers

\* The statuses that the code writes; 'rejected' and 'not_applicable' are
\* admitted by the schema and written by nobody.
Statuses == {"pending", "dirty", "uploaded", "confirmed", "error", "skipped"}

\* There is no row for the QSO and service.
NoRow == [status |-> "none", due |-> FALSE, hasId |-> FALSE]

Rows == [status : Statuses, due : BOOLEAN, hasId : BOOLEAN]

AnyRow == Rows \cup {NoRow}

\* INSERT ... VALUES (qso, service, 'pending')
PendingRow == [status |-> "pending", due |-> TRUE, hasId |-> FALSE]

\* InsertPendingSyncForQSO, BackfillSyncStatusForService: ON CONFLICT DO NOTHING.
InsertPending(r) == IF r = NoRow THEN PendingRow ELSE r

\* BackfillSyncStatusForService, for a QSO marked as received from the service.
InsertConfirmed(r) ==
    IF r = NoRow THEN [status |-> "confirmed", due |-> TRUE, hasId |-> FALSE] ELSE r

\* Mutant: only rows that have never been sent.
FetchableNew(r) == r.status = "pending" /\ r.due

\* The WHERE clause of fetchPendingSQL, but for the join with qsos.
Fetchable(r) == r.status \in {"pending", "dirty", "error"} /\ r.due

\* markUploaded
MarkUploaded(r, id) ==
    IF r = NoRow THEN r ELSE [status |-> "uploaded", due |-> TRUE, hasId |-> id]

\* markSyncError: next_retry_at lies in the future, retries exhausted or not.
MarkSyncError(r) ==
    IF r = NoRow THEN r ELSE [status |-> "error", due |-> FALSE, hasId |-> r.hasId]

\* markAllPendingFailed: next_retry_at = NULL
MarkPendingFailed(r) ==
    IF r.status \in {"pending", "dirty"}
      THEN [status |-> "error", due |-> TRUE, hasId |-> r.hasId]
      ELSE r

\* CancelPendingSync
CancelPending(r) ==
    IF r.status \in {"pending", "dirty"}
      THEN [status |-> "skipped", due |-> TRUE, hasId |-> r.hasId]
      ELSE r

\* markSyncConfirmed, markClubLogDXCCConfirmed: whatever the status was.
MarkConfirmed(r) ==
    IF r = NoRow THEN r ELSE [status |-> "confirmed", due |-> r.due, hasId |-> r.hasId]

\* Mutant: the trigger forgets the rows that say uploaded.
MarkDirtyConfirmed(r) ==
    IF r.status = "confirmed"
      THEN [status |-> "dirty", due |-> r.due, hasId |-> r.hasId]
      ELSE r

\* trg_qso_edit_mark_dirty, fired by every UPDATE of an uploaded field.
MarkDirty(r) ==
    IF r.status \in {"uploaded", "confirmed"}
      THEN [status |-> "dirty", due |-> r.due, hasId |-> r.hasId]
      ELSE r

\* resetQSOSyncStatus, in the transaction of the edit.
Reset(r) == IF r = NoRow THEN r ELSE PendingRow

\* RetryFailedSyncs
RetryFailed(r) ==
    IF r.status = "error"
      THEN [status |-> "pending", due |-> TRUE, hasId |-> r.hasId]
      ELSE r

\* BulkUploadUnsynced: missing rows are inserted, failed ones queued again.
BulkRequeue(r) ==
    IF r = NoRow THEN PendingRow
    ELSE IF r.status \in {"error", "skipped"}
      THEN [status |-> "pending", due |-> TRUE, hasId |-> r.hasId]
      ELSE r

\* next_retry_at has passed.
BackoffOver(r) ==
    IF r = NoRow THEN r ELSE [status |-> r.status, due |-> TRUE, hasId |-> r.hasId]
=============================================================================
