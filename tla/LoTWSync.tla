------------------------------ MODULE LoTWSync -------------------------------
(***************************************************************************)
(* The upload of one user's QSOs to LoTW (LoTWSyncWorker) and the pull of  *)
(* its confirmations (LoTWConfirmationPullWorker).                         *)
(*                                                                         *)
(* What is still to be sent is told by qsos.lotw_sent_at, not by the row   *)
(* of sync_status, which only the dashboard reads.  A request or a sweep   *)
(* of the scheduler makes a row of lotw_sync_jobs with the ids to send and *)
(* a River job without uniqueness, so that several jobs with overlapping   *)
(* ids run at the same time.                                               *)
(*                                                                         *)
(* The rows of lotw_sync_jobs are Jobs slots: a slot whose job is over may *)
(* be taken for the next one.  A request names ids without any check, so   *)
(* that a job of another user (an operator of a shared logbook, say) may   *)
(* carry ids of this user's QSOs: it signs and sends only QSOs of its own  *)
(* user, but marks all its ids.  The status of the row decides nothing and *)
(* is left out: failJob and updateJobStatus name columns that the table    *)
(* does not have, so that it stays pending or running when the job is over.*)
(***************************************************************************)
EXTENDS Integers, FiniteSets

CONSTANTS
    QSOs,        \* the QSOs of the user
    Jobs,        \* bound: rows of lotw_sync_jobs that are in use at one time
    MaxVersion   \* bound: versions of one QSO (1 when logged, +1 per edit)

ASSUME MaxVersionAssumption == MaxVersion \in Nat \ {0}

VARIABLES
    ver,         \* ver[q]: version of q's uploaded fields; 0: not logged yet
    deleted,     \* QSOs with deleted_at set
    sentAt,      \* QSOs with lotw_sent_at set
    row,         \* row[q]: status of q's row of sync_status for lotw
    arrl,        \* arrl[q]: version LoTW has accepted; 0: none
    ids,         \* ids[j]: lotw_sync_jobs.qso_ids; {} once no worker will read it
    others,      \* jobs of another user; not told apart once no worker reads them
    pc,          \* pc[j]: where the River job is
    file,        \* file[j][q]: version of q in the file being signed; 0: not in it
    raced,       \* history: QSOs edited while a job had them in its file
    claimed      \* history: QSOs that another user's job has marked

vars == <<ver, deleted, sentAt, row, arrl, ids, others, pc, file, raced, claimed>>
logVars == <<ver, deleted, row, raced, claimed>>

RowStatuses == {"none", "pending", "dirty", "uploaded", "confirmed"}
Steps == {"none", "queued", "running", "fetched", "accepted", "marked", "upserted", "done"}

Empty == [q \in QSOs |-> 0]

TypeOK ==
    /\ ver \in [QSOs -> 0..MaxVersion]
    /\ deleted \subseteq QSOs
    /\ sentAt \subseteq QSOs
    /\ row \in [QSOs -> RowStatuses]
    /\ arrl \in [QSOs -> 0..MaxVersion]
    /\ ids \in [Jobs -> SUBSET QSOs]
    /\ others \subseteq Jobs
    /\ pc \in [Jobs -> Steps]
    /\ file \in [Jobs -> [QSOs -> 0..MaxVersion]]
    /\ raced \subseteq QSOs
    /\ claimed \subseteq QSOs

Init ==
    /\ ver = Empty
    /\ deleted = {}
    /\ sentAt = {}
    /\ row = [q \in QSOs |-> "none"]
    /\ arrl = Empty
    /\ ids = [j \in Jobs |-> {}]
    /\ others = {}
    /\ pc = [j \in Jobs |-> "none"]
    /\ file = [j \in Jobs |-> Empty]
    /\ raced = {}
    /\ claimed = {}

Live(q) == ver[q] > 0 /\ q \notin deleted

InFile(q) == \E j \in Jobs : file[j][q] > 0

-----------------------------------------------------------------------------
(* The log                                                                 *)

\* QSOHandler.Create; triggerAutoSync inserts the row, if nothing fails.
Create(q) ==
    /\ ver[q] = 0
    /\ ver' = [ver EXCEPT ![q] = 1]
    /\ row' \in {row, [row EXCEPT ![q] = "pending"]}
    /\ UNCHANGED <<deleted, sentAt, arrl, ids, others, pc, file, raced, claimed>>

NewVersion(q) ==
    /\ Live(q)
    /\ ver[q] < MaxVersion
    /\ ver' = [ver EXCEPT ![q] = @ + 1]
    /\ raced' = IF InFile(q) THEN raced \cup {q} ELSE raced
    /\ UNCHANGED <<deleted, sentAt, arrl, ids, others, pc, file, claimed>>

\* Mutant: the edit leaves the row alone.
EditKeepsRow(q) == NewVersion(q) /\ UNCHANGED row

\* QSOHandler.Update, Patch: resetQSOSyncStatus; lotw_sent_at stays.
Edit(q) ==
    /\ NewVersion(q)
    /\ row' = IF row[q] = "none" THEN row ELSE [row EXCEPT ![q] = "pending"]

\* The enrichment changes a field: trg_qso_edit_mark_dirty alone.
Enrich(q) ==
    /\ NewVersion(q)
    /\ row' = IF row[q] \in {"uploaded", "confirmed"} THEN [row EXCEPT ![q] = "dirty"] ELSE row

\* QSOHandler.Delete
Delete(q) ==
    /\ Live(q)
    /\ deleted' = deleted \cup {q}
    /\ row' = [row EXCEPT ![q] = "none"]
    /\ UNCHANGED <<ver, sentAt, arrl, ids, others, pc, file, raced, claimed>>

\* BackfillSyncStatusForService: what was sent, or is marked as received (by
\* an import, say), counts as confirmed.
Backfill(received) ==
    /\ row' = [q \in QSOs |->
                 IF Live(q) /\ row[q] = "none"
                   THEN IF q \in sentAt \cup received THEN "confirmed" ELSE "pending"
                   ELSE row[q]]
    /\ UNCHANGED <<ver, deleted, sentAt, arrl, ids, others, pc, file, raced, claimed>>

\* LoTWConfirmationPullWorker: a record of the report matches q, which may have been
\* deleted between findBestMatch and applyConfirmation.
Confirm(q) ==
    /\ ver[q] > 0
    /\ row' = [row EXCEPT ![q] = "confirmed"]
    /\ UNCHANGED <<ver, deleted, sentAt, arrl, ids, others, pc, file, raced, claimed>>

-----------------------------------------------------------------------------
(* Making jobs                                                             *)

\* Mutant: the row of sync_status tells what is to be sent.
FetchPendingByRow == {q \in QSOs : Live(q) /\ row[q] \notin {"uploaded", "confirmed"}}

\* fetchPendingLoTWQSOIDs; its limit of 5000 is left out.
FetchPendingLoTWQSOIDs == {q \in QSOs : Live(q) /\ q \notin sentAt}

\* INSERT INTO lotw_sync_jobs, then EnqueueLoTWSync, which may fail.
NewJob(j, chosen, other) ==
    /\ pc[j] \in {"none", "done"}
    /\ chosen # {}
    /\ \/ /\ pc' = [pc EXCEPT ![j] = "queued"] /\ ids' = [ids EXCEPT ![j] = chosen]
          /\ others' = IF other THEN others \cup {j} ELSE others
       \/ pc' = [pc EXCEPT ![j] = "done"] /\ UNCHANGED <<ids, others>>
    /\ UNCHANGED <<logVars, sentAt, arrl, file>>

\* LoTWHandler.TriggerSync with QSO ids, of whatever QSOs, by this user or
\* another.
TriggerSync(j) ==
    \E chosen \in SUBSET {q \in QSOs : ver[q] > 0}, other \in BOOLEAN : NewJob(j, chosen, other)

\* EnqueueLoTWSyncForPendingQSOs: the scheduler, and TriggerSync without ids.
SyncPending(j) == NewJob(j, FetchPendingLoTWQSOIDs, FALSE)

-----------------------------------------------------------------------------
(* The worker                                                              *)

\* An attempt ends here: River runs the job again (next = "queued"), or it is
\* over because Work returned nil or the attempts are used up ("done").
AttemptEnds(j, next) ==
    /\ pc' = [pc EXCEPT ![j] = next]
    /\ ids' = IF next = "done" THEN [ids EXCEPT ![j] = {}] ELSE ids
    /\ others' = IF next = "done" THEN others \ {j} ELSE others
    /\ file' = [file EXCEPT ![j] = Empty]

\* fetchJobQSOIDs, the vault password, updateJobStarted (whose failure is a
\* warning).
Start(j) ==
    /\ pc[j] = "queued"
    /\ pc' = [pc EXCEPT ![j] = "running"]
    /\ UNCHANGED <<logVars, sentAt, arrl, ids, others, file>>

\* No vault password: failJob and return nil.  Or the ids or the password could
\* not be loaded: return the error.
NoPassword(j) ==
    /\ pc[j] = "queued"
    /\ \E next \in {"queued", "done"} : AttemptEnds(j, next)
    /\ UNCHANGED <<logVars, sentAt, arrl>>

\* fetchQSOsForIDs: the ids of the job's user that are not deleted, sent or not.
Fetched(j) == {q \in ids[j] : j \notin others /\ Live(q)}

\* Nothing to send: failJob and return nil.  A job of another user may have QSOs
\* of that user to send.
FetchQSOs(j) ==
    /\ pc[j] = "running"
    /\ \/ /\ Fetched(j) # {} \/ j \in others
          /\ pc' = [pc EXCEPT ![j] = "fetched"]
          /\ file' = [file EXCEPT ![j] = [q \in QSOs |-> IF q \in Fetched(j) THEN ver[q] ELSE 0]]
          /\ UNCHANGED <<ids, others>>
       \/ /\ Fetched(j) = {}
          /\ AttemptEnds(j, "done")
    /\ UNCHANGED <<logVars, sentAt, arrl>>

\* BuildADIF, GetCertInfo or Sign fails, for good or not.
SignFails(j) ==
    /\ pc[j] = "fetched"
    /\ \E next \in {"queued", "done"} : AttemptEnds(j, next)
    /\ UNCHANGED <<logVars, sentAt, arrl>>

Sent(j) == [q \in QSOs |-> IF file[j][q] > 0 THEN file[j][q] ELSE arrl[q]]

\* The file is signed, uploaded and accepted.
UploadAccepted(j) ==
    /\ pc[j] = "fetched"
    /\ arrl' = Sent(j)
    /\ pc' = [pc EXCEPT ![j] = "accepted"]
    /\ UNCHANGED <<logVars, sentAt, ids, others, file>>

\* UploadToARRL fails, or its answer does not say that the file was accepted
\* (LoTW may have taken it all the same): Work returns an error.
UploadFails(j) ==
    /\ pc[j] = "fetched"
    /\ arrl' \in {arrl, Sent(j)}
    /\ \E next \in {"queued", "done"} : AttemptEnds(j, next)
    /\ UNCHANGED <<logVars, sentAt>>

Claim(j) == claimed' = IF j \in others THEN claimed \cup ids[j] ELSE claimed

\* markQSOsSent: the job's ids, whether in the file or not, whoever's they are.
MarkQSOsSent(j) ==
    /\ pc[j] = "accepted"
    /\ Claim(j)
    /\ sentAt' = sentAt \cup (ids[j] \ deleted)
    /\ pc' = [pc EXCEPT ![j] = "marked"]
    /\ UNCHANGED <<ver, deleted, row, raced, arrl, ids, others, file>>

\* upsertSyncStatusRows: the job's ids, deleted or not.
UpsertSyncStatusRows(j) ==
    /\ pc[j] = "marked"
    /\ Claim(j)
    /\ row' = [q \in QSOs |-> IF q \in ids[j] THEN "uploaded" ELSE row[q]]
    /\ pc' = [pc EXCEPT ![j] = "upserted"]
    /\ UNCHANGED <<ver, deleted, raced, sentAt, arrl, ids, others, file>>

\* One of these two statements fails: a warning, and on with the next.
StatementFails(j) ==
    /\ \/ pc[j] = "accepted" /\ pc' = [pc EXCEPT ![j] = "marked"]
       \/ pc[j] = "marked" /\ pc' = [pc EXCEPT ![j] = "upserted"]
    /\ UNCHANGED <<logVars, sentAt, arrl, ids, others, file>>

\* updateJobStatus, updateJobCompleted (completed_at), upsertSyncStatus (the
\* user's totals): return nil.
Complete(j) ==
    /\ pc[j] = "upserted"
    /\ AttemptEnds(j, "done")
    /\ UNCHANGED <<logVars, sentAt, arrl>>

\* A query fails and Work returns the error, or the process dies and the job is
\* rescued; in both cases River runs it again unless it was the last attempt.
Die(j) ==
    /\ pc[j] \in {"running", "fetched", "accepted", "marked", "upserted"}
    /\ \E next \in {"queued", "done"} : AttemptEnds(j, next)
    /\ UNCHANGED <<logVars, sentAt, arrl>>

-----------------------------------------------------------------------------
Log == \/ \E q \in QSOs : Create(q) \/ Edit(q) \/ Enrich(q) \/ Delete(q) \/ Confirm(q)
       \/ \E received \in SUBSET QSOs : Backfill(received)

Work(j) == \/ Start(j) \/ NoPassword(j) \/ FetchQSOs(j) \/ SignFails(j)
           \/ UploadAccepted(j) \/ UploadFails(j)
           \/ MarkQSOsSent(j) \/ UpsertSyncStatusRows(j) \/ StatementFails(j)
           \/ Complete(j) \/ Die(j)

Next == Log \/ \E j \in Jobs : TriggerSync(j) \/ SyncPending(j) \/ Work(j)

Spec == Init /\ [][Next]_vars

\* A step of a job of the user that carries q.
Carries(q, A(_)) == \E j \in Jobs \ others : q \in ids[j] /\ A(j)

(***************************************************************************)
(* The scheduler is a periodic job and finds a free slot; a job does not   *)
(* hang (its calls have timeouts, and River rescues it) and is not tried   *)
(* for ever (River discards it after its last attempt); and no step of the *)
(* jobs that carry a QSO fails for ever: the vault, LoTW and the database  *)
(* answer in the end.                                                      *)
(***************************************************************************)
Fairness ==
    /\ \A j \in Jobs :
          /\ SF_vars(SyncPending(j) /\ pc'[j] = "queued")
          /\ SF_vars(Work(j) /\ pc'[j] = "done")
    /\ \A q \in QSOs :
          /\ SF_vars(Carries(q, Start)) /\ SF_vars(Carries(q, FetchQSOs))
          /\ SF_vars(Carries(q, UploadAccepted)) /\ SF_vars(Carries(q, MarkQSOsSent))

FairSpec == Spec /\ Fairness
-----------------------------------------------------------------------------
(***************************************************************************)
(* Properties                                                              *)
(***************************************************************************)

\* A QSO with lotw_sent_at is one LoTW took; and a row that says uploaded
\* stands for the version LoTW took last, unless the QSO was edited while a
\* job had it in its file.  markQSOsSent and upsertSyncStatusRows write for the
\* ids of the job, fetchQSOsForIDs read only some of them, and jobs overlap.
\* The exception is a QSO that a job of another user has marked: nobody need
\* have signed or sent that one.
SentWasAccepted ==
    \A q \in QSOs : Live(q) /\ q \notin claimed =>
       /\ q \in sentAt => arrl[q] > 0
       /\ row[q] = "uploaded" => arrl[q] > 0 /\ (q \notin raced => arrl[q] = ver[q])

\* A QSO without lotw_sent_at gets it in time, from a job that sent it or from
\* another user's that marks it: whatever attempts fail, jobs are discarded or
\* their rows left behind as 'pending' or 'running'.
UnsentIsSent == \A q \in QSOs : Live(q) /\ q \notin sentAt ~> ~Live(q) \/ q \in sentAt
=============================================================================
