----------------------------- MODULE SyncProofs -----------------------------
(***************************************************************************)
(* Proofs about three parts of the synchronisation: what lotw_sent_at and  *)
(* the LoTW row of a QSO mean, for every set of QSOs, every number of jobs *)
(* that run at the same time and every number of edits; the rate limiter,  *)
(* for every number of callers, limit and lock wait; and the circuit       *)
(* breaker, for every set of workers, threshold, recovery timeout and lock *)
(* wait.                                                                   *)
(***************************************************************************)
EXTENDS LoTWSync, CircuitBreaker, RateLimiter, FiniteSetTheorems, TLAPS

-----------------------------------------------------------------------------
(* The upload to LoTW. *)

\* What a job has in its file is current, unless the QSO is raced.
FileCurrent ==
    \A j \in Jobs, q \in QSOs : file[j][q] > 0 /\ q \notin raced => file[j][q] = ver[q]

\* fetchQSOsForIDs left out only ids of deleted QSOs: what the job will mark is in
\* its file, or is deleted; a job of another user marks without that.
FileCoversIds ==
    \A j \in Jobs \ others : pc[j] \in {"fetched", "accepted", "marked"} =>
       \A q \in ids[j] : Live(q) => file[j][q] > 0

\* LoTW has what is in the file of a job that got its acceptance; other jobs
\* may have sent the same QSO since, in the same version.
FileAccepted ==
    \A j \in Jobs : pc[j] \in {"accepted", "marked"} =>
       \A q \in QSOs : file[j][q] > 0 => arrl[q] > 0 /\ (q \notin raced => arrl[q] = ver[q])

\* A QSO that is not logged yet has left no trace.
UnloggedUntouched ==
    \A q \in QSOs : ver[q] = 0 =>
       row[q] = "none" /\ q \notin sentAt /\ \A j \in Jobs : q \notin ids[j] /\ file[j][q] = 0

IInv == TypeOK /\ FileCurrent /\ FileCoversIds /\ FileAccepted /\ UnloggedUntouched
               /\ SentWasAccepted
-----------------------------------------------------------------------------
LEMMA AttemptEndsType ==
    ASSUME TypeOK, NEW j \in Jobs, NEW next \in {"queued", "done"}, AttemptEnds(j, next)
    PROVE  /\ pc' \in [Jobs -> Steps]
           /\ ids' \in [Jobs -> SUBSET QSOs]
           /\ others' \subseteq Jobs
           /\ file' \in [Jobs -> [QSOs -> 0..MaxVersion]]
  <1> USE DEF TypeOK, AttemptEnds
  <1>1. Empty \in [QSOs -> 0..MaxVersion]
    BY MaxVersionAssumption DEF Empty
  <1>2. file' \in [Jobs -> [QSOs -> 0..MaxVersion]]
    BY <1>1
  <1>3. ids' \in [Jobs -> SUBSET QSOs] /\ others' \subseteq Jobs
    OBVIOUS
  <1>4. pc' \in [Jobs -> Steps]
    BY DEF Steps
  <1> QED BY <1>2, <1>3, <1>4

LEMMA InitType == Init => TypeOK
  <1> SUFFICES ASSUME Init PROVE TypeOK
    OBVIOUS
  <1>1. Empty \in [QSOs -> 0..MaxVersion]
    BY MaxVersionAssumption DEF Empty
  <1>2. file \in [Jobs -> [QSOs -> 0..MaxVersion]]
    BY <1>1 DEF Init
  <1> QED BY <1>1, <1>2 DEF Init, TypeOK, RowStatuses, Steps

LEMMA SentType ==
    ASSUME TypeOK, NEW j \in Jobs
    PROVE  Sent(j) \in [QSOs -> 0..MaxVersion]
  BY DEF TypeOK, Sent

LEMMA LogType == TypeOK /\ Log => TypeOK'
  <1> SUFFICES ASSUME TypeOK, Log PROVE TypeOK'
    OBVIOUS
  <1> USE MaxVersionAssumption DEF TypeOK, RowStatuses
  <1>1. ASSUME NEW q \in QSOs, Create(q) PROVE TypeOK'
    <2>1. ver' \in [QSOs -> 0..MaxVersion]
      BY <1>1 DEF Create
    <2>2. row' \in [QSOs -> RowStatuses]
      BY <1>1 DEF Create
    <2> QED BY <1>1, <2>1, <2>2 DEF Create
  <1>2. ASSUME NEW q \in QSOs, Edit(q) \/ Enrich(q) PROVE TypeOK'
    <2>1. NewVersion(q)
      BY <1>2, Zenon DEF Edit, Enrich
    <2>2. ver' \in [QSOs -> 0..MaxVersion] /\ raced' \subseteq QSOs
      BY <2>1 DEF NewVersion
    <2>3. row' \in [QSOs -> RowStatuses]
      BY <1>2 DEF Edit, Enrich
    <2> QED BY <2>1, <2>2, <2>3 DEF NewVersion
  <1>3. ASSUME NEW q \in QSOs, Delete(q) PROVE TypeOK'
    BY <1>3 DEF Delete
  <1>4. ASSUME NEW q \in QSOs, Confirm(q) PROVE TypeOK'
    BY <1>4 DEF Confirm
  <1>5. ASSUME NEW received, Backfill(received) PROVE TypeOK'
    BY <1>5 DEF Backfill
  <1> QED BY <1>1, <1>2, <1>3, <1>4, <1>5 DEF Log

LEMMA NewJobType ==
    ASSUME TypeOK, NEW j \in Jobs, NEW chosen \in SUBSET QSOs,
           NEW other \in BOOLEAN, NewJob(j, chosen, other)
    PROVE  TypeOK'
  BY DEF TypeOK, NewJob, logVars, Steps

LEMMA WorkType ==
    ASSUME TypeOK, NEW j \in Jobs, Work(j)
    PROVE  TypeOK'
  <1>1. CASE Start(j)
    BY <1>1 DEF Start, logVars, TypeOK, Steps
  <1>2. CASE NoPassword(j)
    BY <1>2, AttemptEndsType DEF NoPassword, logVars, TypeOK
  <1>3. CASE FetchQSOs(j)
    <2>1. CASE pc' = [pc EXCEPT ![j] = "fetched"] /\ UNCHANGED <<ids, others>>
               /\ file' = [file EXCEPT ![j] = [q \in QSOs |-> IF q \in Fetched(j) THEN ver[q] ELSE 0]]
      <3>1. [q \in QSOs |-> IF q \in Fetched(j) THEN ver[q] ELSE 0] \in [QSOs -> 0..MaxVersion]
        BY MaxVersionAssumption DEF TypeOK
      <3>2. file' \in [Jobs -> [QSOs -> 0..MaxVersion]]
        BY <2>1, <3>1, Zenon DEF TypeOK
      <3>3. pc' \in [Jobs -> Steps]
        BY <2>1 DEF TypeOK, Steps
      <3> QED BY <1>3, <2>1, <3>2, <3>3 DEF FetchQSOs, logVars, TypeOK
    <2>2. CASE AttemptEnds(j, "done")
      BY <1>3, <2>2, AttemptEndsType DEF FetchQSOs, logVars, TypeOK
    <2> QED BY <1>3, <2>1, <2>2 DEF FetchQSOs
  <1>4. CASE SignFails(j)
    BY <1>4, AttemptEndsType DEF SignFails, logVars, TypeOK
  <1>5. CASE UploadAccepted(j)
    BY <1>5, SentType DEF UploadAccepted, logVars, TypeOK, Steps
  <1>6. CASE UploadFails(j)
    BY <1>6, AttemptEndsType, SentType DEF UploadFails, logVars, TypeOK
  <1>7. CASE MarkQSOsSent(j)
    BY <1>7 DEF MarkQSOsSent, Claim, TypeOK, Steps
  <1>8. CASE UpsertSyncStatusRows(j)
    BY <1>8 DEF UpsertSyncStatusRows, Claim, TypeOK, Steps, RowStatuses
  <1>9. CASE StatementFails(j)
    BY <1>9 DEF StatementFails, logVars, TypeOK, Steps
  <1>10. CASE Complete(j)
    BY <1>10, AttemptEndsType DEF Complete, logVars, TypeOK
  <1>11. CASE Die(j)
    BY <1>11, AttemptEndsType DEF Die, logVars, TypeOK
  <1> QED BY <1>1, <1>2, <1>3, <1>4, <1>5, <1>6, <1>7, <1>8, <1>9, <1>10, <1>11 DEF Work

LEMMA NextType == TypeOK /\ [Next]_vars => TypeOK'
  <1> SUFFICES ASSUME TypeOK, [Next]_vars PROVE TypeOK'
    OBVIOUS
  <1>1. CASE Log
    BY <1>1, LogType
  <1>2. ASSUME NEW j \in Jobs, TriggerSync(j) PROVE TypeOK'
    BY <1>2, NewJobType DEF TriggerSync
  <1>3. ASSUME NEW j \in Jobs, SyncPending(j) PROVE TypeOK'
    BY <1>3, NewJobType DEF SyncPending, FetchPendingLoTWQSOIDs
  <1>4. ASSUME NEW j \in Jobs, Work(j) PROVE TypeOK'
    BY <1>4, WorkType
  <1>5. CASE UNCHANGED vars
    BY <1>5 DEF vars, TypeOK
  <1> QED BY <1>1, <1>2, <1>3, <1>4, <1>5 DEF Next

\* The LoTW upload keeps its state well formed: the statuses written are those of
\* the schema of sync_status.
THEOREM TypeCorrect == Spec => []TypeOK
  BY InitType, NextType, PTL DEF Spec
-----------------------------------------------------------------------------
LEMMA InitInv == Init => IInv
  <1> SUFFICES ASSUME Init PROVE IInv
    OBVIOUS
  <1>1. \A j \in Jobs, q \in QSOs : file[j][q] = 0 /\ pc[j] = "none" /\ q \notin ids[j]
    BY DEF Init, Empty
  <1>2. \A q \in QSOs : ver[q] = 0 /\ row[q] = "none" /\ q \notin sentAt
    BY DEF Init, Empty
  <1>3. TypeOK
    BY InitType
  <1>4. FileCurrent /\ FileCoversIds /\ FileAccepted
    BY <1>1, <1>2, <1>3 DEF FileCurrent, FileCoversIds, FileAccepted, TypeOK
  <1>5. UnloggedUntouched /\ SentWasAccepted
    BY <1>1, <1>2 DEF UnloggedUntouched, SentWasAccepted, Live
  <1> QED BY <1>3, <1>4, <1>5 DEF IInv

\* The job steps that neither fetch, nor get an acceptance, nor write to the log:
\* they make no claim on the QSOs, but may leave a file with LoTW.
Retreats(j) ==
    /\ UNCHANGED <<logVars, sentAt>>
    /\ arrl' \in {arrl, Sent(j)}
    /\ pc'[j] \notin {"fetched", "accepted", "marked"}
    /\ ids'[j] \subseteq ids[j]
    /\ others' \in {others, others \ {j}}
    /\ \A q \in QSOs : file'[j][q] \in {0, file[j][q]}
    /\ \A k \in Jobs \ {j} : pc'[k] = pc[k] /\ ids'[k] = ids[k] /\ file'[k] = file[k]

LEMMA AttemptEndsRetreats ==
    ASSUME TypeOK, NEW j \in Jobs, NEW next \in {"queued", "done"}, AttemptEnds(j, next),
           UNCHANGED <<logVars, sentAt>>, arrl' \in {arrl, Sent(j)}
    PROVE  Retreats(j)
  <1>1. /\ pc'[j] = next /\ file'[j] = Empty /\ ids'[j] \subseteq ids[j]
        /\ others' \in {others, others \ {j}}
    BY DEF AttemptEnds, TypeOK
  <1>2. \A k \in Jobs \ {j} : pc'[k] = pc[k] /\ ids'[k] = ids[k] /\ file'[k] = file[k]
    BY DEF AttemptEnds, TypeOK
  <1>3. \A q \in QSOs : file'[j][q] \in {0, file[j][q]}
    BY <1>1 DEF Empty
  <1> QED BY <1>1, <1>2, <1>3 DEF Retreats

\* What a job sends is what LoTW has from then on: a QSO in it that was not raced
\* has its current version there.
LEMMA SentCurrent ==
    ASSUME IInv, NEW j \in Jobs
    PROVE  \A q \in QSOs :
              /\ arrl[q] > 0 => Sent(j)[q] > 0
              /\ arrl[q] = ver[q] /\ q \notin raced => Sent(j)[q] = ver[q]
              /\ file[j][q] > 0 => Sent(j)[q] = file[j][q]
  BY DEF IInv, TypeOK, FileCurrent, Sent

LEMMA RetreatsKeeps ==
    ASSUME IInv, TypeOK', NEW j \in Jobs, Retreats(j)
    PROVE  IInv'
  <1> USE DEF IInv
  <1>1. \A q \in QSOs : /\ arrl[q] > 0 => arrl'[q] > 0
                        /\ arrl[q] = ver[q] /\ q \notin raced => arrl'[q] = ver[q]
    BY SentCurrent DEF Retreats
  <1>2. FileCurrent'
    <2>1. ver' = ver /\ raced' = raced
      BY DEF Retreats, logVars
    <2>2. \A k \in Jobs, q \in QSOs : file'[k][q] > 0 => file'[k][q] = file[k][q]
      BY DEF Retreats
    <2> QED BY <2>1, <2>2 DEF FileCurrent
  <1>3. FileCoversIds'
    BY DEF FileCoversIds, Retreats, logVars, Live
  <1>4. FileAccepted'
    BY <1>1 DEF FileAccepted, Retreats, logVars
  <1>5. UnloggedUntouched'
    BY DEF UnloggedUntouched, Retreats, logVars
  <1>6. SentWasAccepted'
    BY <1>1 DEF SentWasAccepted, Retreats, logVars, Live
  <1> QED BY <1>2, <1>3, <1>4, <1>5, <1>6

\* The steps of Work that are retreats.
LEMMA WorkRetreats ==
    ASSUME TypeOK, NEW j \in Jobs,
           \/ Start(j) \/ NoPassword(j) \/ SignFails(j) \/ UploadFails(j) \/ Complete(j) \/ Die(j)
           \/ FetchQSOs(j) /\ AttemptEnds(j, "done")
    PROVE  Retreats(j)
  <1>1. CASE Start(j)
    BY <1>1 DEF Start, Retreats, logVars, TypeOK
  <1>2. CASE NoPassword(j) \/ SignFails(j) \/ Die(j)
    BY <1>2, AttemptEndsRetreats DEF NoPassword, SignFails, Die
  <1>3. CASE UploadFails(j)
    BY <1>3, AttemptEndsRetreats DEF UploadFails
  <1>4. CASE Complete(j)
    BY <1>4, AttemptEndsRetreats DEF Complete
  <1>5. CASE FetchQSOs(j) /\ AttemptEnds(j, "done")
    BY <1>5, AttemptEndsRetreats DEF FetchQSOs
  <1> QED BY <1>1, <1>2, <1>3, <1>4, <1>5

LEMMA FetchKeeps ==
    ASSUME IInv, TypeOK', NEW j \in Jobs, FetchQSOs(j), ~AttemptEnds(j, "done")
    PROVE  IInv'
  <1> USE DEF IInv
  <1>1. /\ UNCHANGED <<ver, deleted, row, raced, claimed, sentAt, arrl, ids, others>>
        /\ pc' = [pc EXCEPT ![j] = "fetched"]
        /\ file' = [file EXCEPT ![j] = 
                           [q \in QSOs |-> IF q \in Fetched(j) THEN ver[q] ELSE 0]]
    BY DEF FetchQSOs, logVars
  <1>2. pc'[j] = "fetched" /\ \A k \in Jobs \ {j} : pc'[k] = pc[k] /\ file'[k] = file[k]
    BY <1>1 DEF TypeOK
  <1>3. \A q \in QSOs : file'[j][q] = IF q \in Fetched(j) THEN ver[q] ELSE 0
    BY <1>1 DEF TypeOK
  <1>4. FileCurrent'
    BY <1>1, <1>2, <1>3 DEF FileCurrent
  <1>5. FileCoversIds'
    BY <1>1, <1>2, <1>3 DEF FileCoversIds, Fetched, Live, TypeOK
  <1>6. FileAccepted'
    BY <1>1, <1>2 DEF FileAccepted
  <1>7. UnloggedUntouched'
    BY <1>1, <1>2, <1>3 DEF UnloggedUntouched, Fetched
  <1>8. SentWasAccepted'
    BY <1>1 DEF SentWasAccepted, Live
  <1> QED BY <1>4, <1>5, <1>6, <1>7, <1>8

LEMMA AcceptedKeeps ==
    ASSUME IInv, TypeOK', NEW j \in Jobs, UploadAccepted(j)
    PROVE  IInv'
  <1> USE DEF IInv
  <1>1. /\ UNCHANGED <<ver, deleted, row, raced, claimed, sentAt, ids, others, file>>
        /\ arrl' = Sent(j) /\ pc[j] = "fetched" /\ pc' = [pc EXCEPT ![j] = "accepted"]
    BY DEF UploadAccepted, logVars
  <1>2. \A q \in QSOs : /\ arrl[q] > 0 => arrl'[q] > 0
                        /\ arrl[q] = ver[q] /\ q \notin raced => arrl'[q] = ver[q]
                        /\ file[j][q] > 0 => arrl'[q] = file[j][q]
    BY <1>1, SentCurrent
  <1>3. FileCurrent' /\ UnloggedUntouched'
    BY <1>1 DEF FileCurrent, UnloggedUntouched
  <1>4. FileCoversIds'
    BY <1>1 DEF FileCoversIds, Live, TypeOK
  <1>5. FileAccepted'
    BY <1>1, <1>2 DEF FileAccepted, FileCurrent, TypeOK
  <1>6. SentWasAccepted'
    BY <1>1, <1>2 DEF SentWasAccepted, Live
  <1> QED BY <1>3, <1>4, <1>5, <1>6

\* The bookkeeping after the acceptance writes for the ids of the job, which are
\* in its file or deleted, or claimed by it.
LEMMA BookkeepingKeeps ==
    ASSUME IInv, TypeOK', NEW j \in Jobs,
           MarkQSOsSent(j) \/ UpsertSyncStatusRows(j) \/ StatementFails(j)
    PROVE  IInv'
  <1> USE DEF IInv
  <1>1. /\ UNCHANGED <<ver, deleted, raced, arrl, ids, others, file>>
        /\ pc[j] \in {"accepted", "marked"}
        /\ pc'[j] \in {"marked", "upserted"} /\ \A k \in Jobs \ {j} : pc'[k] = pc[k]
    BY DEF MarkQSOsSent, UpsertSyncStatusRows, StatementFails, logVars, TypeOK
  <1>2. /\ sentAt' \subseteq sentAt \cup ids[j]
        /\ \A q \in QSOs \ ids[j] : row'[q] = row[q]
        /\ claimed \subseteq claimed'
        /\ (sentAt' = sentAt /\ row' = row) \/ (j \in others => ids[j] \subseteq claimed')
    <2>1. CASE MarkQSOsSent(j)
      BY <2>1 DEF MarkQSOsSent, Claim
    <2>2. CASE UpsertSyncStatusRows(j)
      BY <2>2 DEF UpsertSyncStatusRows, Claim
    <2>3. CASE StatementFails(j)
      BY <2>3 DEF StatementFails, logVars
    <2> QED BY <2>1, <2>2, <2>3
  <1>3. j \notin others => \A q \in ids[j] : Live(q) => arrl[q] > 0 /\ (q \notin raced => arrl[q] = ver[q])
    BY <1>1 DEF FileCoversIds, FileAccepted, TypeOK
  <1>4. FileCurrent'
    BY <1>1 DEF FileCurrent
  <1>5. FileCoversIds'
    BY <1>1 DEF FileCoversIds, Live
  <1>6. FileAccepted'
    BY <1>1 DEF FileAccepted
  <1>7. UnloggedUntouched'
    BY <1>1, <1>2 DEF UnloggedUntouched
  <1>8. SentWasAccepted'
    BY <1>1, <1>2, <1>3 DEF SentWasAccepted, Live
  <1> QED BY <1>4, <1>5, <1>6, <1>7, <1>8

LEMMA NewJobKeeps ==
    ASSUME IInv, TypeOK', NEW j \in Jobs, NEW chosen, \A q \in chosen : ver[q] > 0,
           NEW other \in BOOLEAN, NewJob(j, chosen, other)
    PROVE  IInv'
  <1> USE DEF IInv
  <1>1. /\ UNCHANGED <<ver, deleted, row, raced, claimed, sentAt, arrl, file>>
        /\ pc'[j] \in {"queued", "done"} /\ \A q \in ids'[j] : q \in ids[j] \/ ver[q] > 0
        /\ \A k \in Jobs \ {j} : pc'[k] = pc[k] /\ ids'[k] = ids[k] /\ (k \in others' <=> k \in others)
    BY DEF NewJob, logVars, TypeOK
  <1>2. FileCurrent' /\ SentWasAccepted'
    BY <1>1 DEF FileCurrent, SentWasAccepted, Live
  <1>3. FileCoversIds' /\ FileAccepted'
    BY <1>1 DEF FileCoversIds, FileAccepted, Live
  <1>4. UnloggedUntouched'
    BY <1>1 DEF UnloggedUntouched
  <1> QED BY <1>2, <1>3, <1>4

LEMMA CreateKeeps ==
    ASSUME IInv, TypeOK', NEW q \in QSOs, Create(q)
    PROVE  IInv'
  <1> USE DEF IInv
  <1>1. /\ UNCHANGED <<deleted, raced, claimed, sentAt, arrl, ids, others, pc, file>>
        /\ ver[q] = 0 /\ ver'[q] = 1 /\ row'[q] # "uploaded"
        /\ \A p \in QSOs \ {q} : ver'[p] = ver[p] /\ row'[p] = row[p]
    BY DEF Create, TypeOK, UnloggedUntouched
  <1>2. q \notin sentAt /\ \A j \in Jobs : q \notin ids[j] /\ file[j][q] = 0
    BY <1>1 DEF UnloggedUntouched
  <1>3. FileCurrent'
    BY <1>1, <1>2 DEF FileCurrent
  <1>4. FileCoversIds'
    BY <1>1, <1>2 DEF FileCoversIds, Live, TypeOK
  <1>5. FileAccepted'
    BY <1>1, <1>2 DEF FileAccepted
  <1>6. UnloggedUntouched'
    BY <1>1 DEF UnloggedUntouched
  <1>7. SentWasAccepted'
    BY <1>1, <1>2 DEF SentWasAccepted, Live
  <1> QED BY <1>3, <1>4, <1>5, <1>6, <1>7

\* An edit of a QSO in a file makes it raced; no edit leaves a row that says
\* uploaded.
LEMMA EditKeeps ==
    ASSUME IInv, TypeOK', NEW q \in QSOs, Edit(q) \/ Enrich(q)
    PROVE  IInv'
  <1> USE DEF IInv
  <1>1. /\ UNCHANGED <<deleted, claimed, sentAt, arrl, ids, others, pc, file>>
        /\ ver[q] > 0 /\ ver'[q] > 0 /\ row'[q] # "uploaded"
        /\ \A p \in QSOs \ {q} : ver'[p] = ver[p] /\ row'[p] = row[p]
        /\ raced \subseteq raced' /\ (InFile(q) => q \in raced')
    BY DEF Edit, Enrich, NewVersion, Live, TypeOK
  <1>2. \A j \in Jobs : file[j][q] > 0 => q \in raced'
    BY <1>1 DEF InFile
  <1>3. FileCurrent'
    BY <1>1, <1>2 DEF FileCurrent
  <1>4. FileCoversIds'
    BY <1>1 DEF FileCoversIds, Live, TypeOK
  <1>5. FileAccepted'
    BY <1>1, <1>2 DEF FileAccepted
  <1>6. UnloggedUntouched'
    BY <1>1 DEF UnloggedUntouched
  <1>7. SentWasAccepted'
    BY <1>1 DEF SentWasAccepted, Live
  <1> QED BY <1>3, <1>4, <1>5, <1>6, <1>7

\* A delete, a confirmation, a backfill make no row say uploaded.
LEMMA RowStepsKeep ==
    ASSUME IInv, TypeOK', \/ \E q \in QSOs : Delete(q) \/ Confirm(q)
                          \/ \E received : Backfill(received)
    PROVE  IInv'
  <1> USE DEF IInv
  <1>1. /\ UNCHANGED <<ver, raced, claimed, sentAt, arrl, ids, others, pc, file>> /\ deleted \subseteq deleted'
        /\ \A q \in QSOs : row'[q] = "uploaded" => row[q] = "uploaded"
        /\ \A q \in QSOs : ver[q] = 0 => row'[q] = row[q]
    BY DEF Delete, Confirm, Backfill, Live, TypeOK
  <1>2. FileCurrent' /\ FileAccepted'
    BY <1>1 DEF FileCurrent, FileAccepted
  <1>3. FileCoversIds'
    BY <1>1 DEF FileCoversIds, Live
  <1>4. UnloggedUntouched'
    BY <1>1 DEF UnloggedUntouched
  <1>5. SentWasAccepted'
    BY <1>1 DEF SentWasAccepted, Live
  <1> QED BY <1>2, <1>3, <1>4, <1>5

LEMMA NextInv == IInv /\ [Next]_vars => IInv'
  <1> SUFFICES ASSUME IInv, [Next]_vars PROVE IInv'
    OBVIOUS
  <1>1. TypeOK /\ TypeOK'
    BY NextType DEF IInv
  <1>2. CASE Log
    BY <1>1, <1>2, CreateKeeps, EditKeeps, RowStepsKeep DEF Log
  <1>3. ASSUME NEW j \in Jobs, TriggerSync(j) \/ SyncPending(j) PROVE IInv'
    <2>1. PICK chosen \in SUBSET QSOs, other \in BOOLEAN :
               NewJob(j, chosen, other) /\ \A q \in chosen : ver[q] > 0
      <3>1. CASE TriggerSync(j)
        BY <3>1 DEF TriggerSync
      <3>2. CASE SyncPending(j)
        <4>1. /\ NewJob(j, FetchPendingLoTWQSOIDs, FALSE) /\ FetchPendingLoTWQSOIDs \in SUBSET QSOs
              /\ \A q \in FetchPendingLoTWQSOIDs : ver[q] > 0
          BY <3>2 DEF SyncPending, FetchPendingLoTWQSOIDs, Live
        <4> QED BY <4>1
      <3> QED BY <1>3, <3>1, <3>2
    <2> QED BY <1>1, <2>1, NewJobKeeps
  <1>4. ASSUME NEW j \in Jobs, Work(j) PROVE IInv'
    <2>1. CASE FetchQSOs(j) /\ ~AttemptEnds(j, "done")
      BY <1>1, <2>1, FetchKeeps
    <2>2. CASE UploadAccepted(j)
      BY <1>1, <2>2, AcceptedKeeps
    <2>3. CASE MarkQSOsSent(j) \/ UpsertSyncStatusRows(j) \/ StatementFails(j)
      BY <1>1, <2>3, BookkeepingKeeps
    <2>4. CASE \/ Start(j) \/ NoPassword(j) \/ SignFails(j) \/ UploadFails(j) \/ Complete(j) \/ Die(j)
               \/ FetchQSOs(j) /\ AttemptEnds(j, "done")
      BY <1>1, <2>4, WorkRetreats, RetreatsKeeps
    <2> QED BY <1>4, <2>1, <2>2, <2>3, <2>4 DEF Work
  <1>5. CASE UNCHANGED vars
    BY <1>1, <1>5 DEF vars, IInv, FileCurrent, FileCoversIds, FileAccepted, UnloggedUntouched,
                      SentWasAccepted, Live
  <1> QED BY <1>2, <1>3, <1>4, <1>5 DEF Next

\* Whatever jobs overlap, fail half way or run again: a QSO with lotw_sent_at that
\* no job of another user has marked is one LoTW took, and a row that says uploaded stands for the current version of the
\* QSO unless it was edited while a job had it in its file.
THEOREM SentAccepted == Spec => []SentWasAccepted
  <1>1. IInv => SentWasAccepted
    BY DEF IInv
  <1> QED BY <1>1, InitInv, NextInv, PTL DEF Spec

-----------------------------------------------------------------------------
(* The rate limiter. *)

Permits == [id : Nat, bucket : Seconds, n : Nat, at : Seconds]

LimiterTypeOK ==
    /\ second \in Seconds
    /\ count \in [Seconds -> Nat]
    /\ began \in [Callers -> Seconds \cup {Idling}]
    /\ permits \subseteq Permits
    /\ asked \in Nat

\* A transaction under way began at most Patience seconds ago.
WaitsBounded ==
    \A c \in Callers : began[c] # Idling => began[c] <= second /\ second <= began[c] + Patience

\* What is known of a permit; as long as its bucket may be counted in, the row
\* is there and has counted it.
PermitOK(p) ==
    /\ 1 <= p.n /\ p.n <= RPS
    /\ p.bucket <= p.at /\ p.at <= p.bucket + Patience /\ p.at <= second
    /\ second <= p.bucket + Retained => p.n <= count[p.bucket]

\* A number of a bucket is given once.
NumbersUnique == \A p, q \in permits : p.bucket = q.bucket /\ p.n = q.n => p = q

LimiterInv ==
    LimiterTypeOK /\ WaitsBounded /\ (\A p \in permits : PermitOK(p)) /\ NumbersUnique

LEMMA LimiterBounds ==
    /\ RPS \in Nat /\ Retained \in Nat /\ Patience \in Nat /\ MaxSeconds \in Nat
    /\ Patience <= Retained /\ \A s \in Seconds : s \in Nat
  BY LimiterAssumption DEF Seconds

LEMMA LimiterInitInv == LimiterInit => LimiterInv
  BY LimiterBounds DEF LimiterInit, LimiterInv, LimiterTypeOK, WaitsBounded, NumbersUnique, Seconds

\* Counting a caller: its bucket goes up by one, and no bucket that a
\* transaction under way may still use is dropped.
LEMMA CountingEffect ==
    ASSUME LimiterInv, NEW c \in Callers, began[c] # Idling
    PROVE  /\ began[c] \in Seconds /\ second <= began[c] + Patience /\ began[c] <= second
           /\ Counting(began[c]) \in [Seconds -> Nat]
           /\ Counting(began[c])[began[c]] = count[began[c]] + 1
           /\ \A b \in Seconds : second <= b + Retained => count[b] <= Counting(began[c])[b]
  <1>1. began[c] \in Seconds /\ second <= began[c] + Patience /\ began[c] <= second
    BY DEF LimiterInv, LimiterTypeOK, WaitsBounded
  <1>2. PICK t \in Seconds : t = began[c]
    BY <1>1
  <1>3. t \in Nat /\ second \in Nat /\ count \in [Seconds -> Nat] /\ t <= second
    BY <1>1, <1>2, LimiterBounds DEF LimiterInv, LimiterTypeOK
  <1>4. PICK d : d = Purged(t)
    OBVIOUS
  <1>5. d \in [Seconds -> Nat] /\ d[t] = count[t]
    BY <1>2, <1>3, <1>4, LimiterBounds DEF Purged
  <1>6. \A b \in Seconds : second <= b + Retained => d[b] = count[b]
    BY <1>2, <1>3, <1>4, LimiterBounds DEF Purged
  <1>7. PICK e : e = [d EXCEPT ![t] = @ + 1]
    OBVIOUS
  <1>8. e \in [Seconds -> Nat] /\ e[t] = count[t] + 1 /\ \A b \in Seconds : d[b] <= e[b]
    BY <1>2, <1>3, <1>5, <1>7
  <1>9. e = Counting(began[c])
    BY <1>2, <1>4, <1>7 DEF Counting
  <1>10. \A b \in Seconds : second <= b + Retained => count[b] <= e[b]
    BY <1>6, <1>8
  <1> QED BY <1>1, <1>2, <1>8, <1>9, <1>10

\* A caller that is counted and gets no permit.
LEMMA CountedOnly ==
    ASSUME LimiterInv, NEW c \in Callers, began[c] # Idling,
           count' = count \/ count' = Counting(began[c]),
           began' = [began EXCEPT ![c] = Idling], asked' = asked + 1, second' = second,
           permits' = permits
    PROVE  LimiterInv'
  <1>1. LimiterTypeOK /\ WaitsBounded
    BY DEF LimiterInv
  <1>2. count' \in [Seconds -> Nat] /\ \A b \in Seconds : second <= b + Retained => count[b] <= count'[b]
    BY <1>1, CountingEffect DEF LimiterTypeOK
  <1>3. LimiterTypeOK' /\ WaitsBounded'
    BY <1>1, <1>2 DEF LimiterTypeOK, WaitsBounded
  <1>4. ASSUME NEW p \in permits PROVE PermitOK(p)'
    <2>1. p \in Permits /\ PermitOK(p)
      BY DEF LimiterInv, LimiterTypeOK
    <2>2. p.bucket \in Seconds /\ p.n \in Nat
      BY <2>1 DEF Permits
    <2>3. count[p.bucket] \in Nat /\ count'[p.bucket] \in Nat
      BY <1>1, <1>2, <2>2 DEF LimiterTypeOK
    <2> QED BY <1>2, <2>1, <2>2, <2>3 DEF PermitOK
  <1> QED BY <1>3, <1>4 DEF LimiterInv, NumbersUnique

LEMMA ConsumeInv ==
    ASSUME LimiterInv, NEW c \in Callers, ConsumeRateLimit(c)
    PROVE  LimiterInv'
  <1>1. LimiterTypeOK /\ WaitsBounded /\ began[c] # Idling
    BY DEF LimiterInv, ConsumeRateLimit
  <1>2. PICK t \in Seconds : t = began[c]
    BY <1>1 DEF LimiterTypeOK
  <1>3. PICK n \in Nat : n = count[t] + 1
    BY <1>1, <1>2 DEF LimiterTypeOK
  <1>4. /\ second <= t + Patience /\ t <= second /\ count' \in [Seconds -> Nat] /\ count'[t] = n
        /\ \A b \in Seconds : second <= b + Retained => count[b] <= count'[b]
    BY <1>1, <1>2, <1>3, CountingEffect DEF ConsumeRateLimit
  <1>5. /\ began' = [began EXCEPT ![c] = Idling] /\ asked' = asked + 1 /\ second' = second
        /\ count' = Counting(began[c])
    BY DEF ConsumeRateLimit
  <1>6. permits' = IF AllowedBy(n)
                   THEN permits \cup {[id |-> asked, bucket |-> t, n |-> n, at |-> second]}
                   ELSE permits
    BY <1>2, <1>4 DEF ConsumeRateLimit
  <1>7. CASE ~AllowedBy(n)
    BY <1>1, <1>5, <1>6, <1>7, CountedOnly
  <1>8. CASE AllowedBy(n)
    <2>1. PICK r : r = [id |-> asked, bucket |-> t, n |-> n, at |-> second]
      OBVIOUS
    <2>2. r \in Permits /\ r.bucket = t /\ r.n = n /\ r.at = second /\ permits' = permits \cup {r}
      BY <1>1, <1>6, <1>8, <2>1 DEF Permits, LimiterTypeOK
    <2>3. LimiterTypeOK' /\ WaitsBounded'
      BY <1>1, <1>4, <1>5, <2>2 DEF LimiterTypeOK, WaitsBounded
    <2>4. second \in Nat /\ t \in Nat /\ count[t] \in Nat
      BY <1>1, <1>2, LimiterBounds DEF LimiterTypeOK
    <2>5. PermitOK(r)'
      <3>1. 1 <= n /\ n <= RPS
        BY <1>3, <1>8, <2>4 DEF AllowedBy
      <3> QED BY <1>4, <1>5, <2>2, <2>4, <3>1, LimiterBounds DEF PermitOK
    <2>6. ASSUME NEW p \in permits
          PROVE  PermitOK(p)' /\ (p.bucket = t => p.n < n)
      <3>1. p \in Permits /\ PermitOK(p)
        BY DEF LimiterInv, LimiterTypeOK
      <3>2. p.bucket \in Seconds /\ p.n \in Nat
        BY <3>1 DEF Permits
      <3>3. count[p.bucket] \in Nat /\ count'[p.bucket] \in Nat
        BY <1>1, <1>4, <3>2 DEF LimiterTypeOK
      <3>4. PermitOK(p)'
        BY <1>4, <1>5, <3>1, <3>2, <3>3 DEF PermitOK
      <3>5. ASSUME p.bucket = t PROVE p.n < n
        <4>1. second <= t + Retained
          BY <1>4, <2>4, LimiterBounds
        <4>2. p.n <= count[t]
          BY <3>1, <3>5, <4>1 DEF PermitOK
        <4> QED BY <1>3, <2>4, <3>2, <4>2
      <3> QED BY <3>4, <3>5
    <2>7. \A p \in permits : p.n \in Nat
      BY <1>1 DEF LimiterTypeOK, Permits
    <2>8. NumbersUnique'
      BY <1>3, <2>2, <2>6, <2>7 DEF LimiterInv, NumbersUnique
    <2> QED BY <2>2, <2>3, <2>5, <2>6, <2>8 DEF LimiterInv
  <1> QED BY <1>7, <1>8

LEMMA SecondInv ==
    ASSUME LimiterInv, NextSecond
    PROVE  LimiterInv'
  <1>1. LimiterTypeOK /\ WaitsBounded
    BY DEF LimiterInv
  <1>2. second \in Nat /\ second' = second + 1 /\ second' \in Seconds
    BY <1>1, LimiterBounds DEF LimiterTypeOK, NextSecond, Seconds
  <1>3. UNCHANGED <<count, began, permits, asked>>
    BY DEF NextSecond
  <1>4. LimiterTypeOK'
    BY <1>1, <1>2, <1>3 DEF LimiterTypeOK
  <1>5. WaitsBounded'
    <2> SUFFICES ASSUME NEW c \in Callers, began[c] # Idling
                 PROVE  began[c] <= second + 1 /\ second + 1 <= began[c] + Patience
      BY <1>2, <1>3 DEF WaitsBounded
    <2>1. began[c] \in Nat /\ began[c] <= second /\ second < began[c] + Patience
      BY <1>1, LimiterBounds DEF NextSecond, WaitsBounded, LimiterTypeOK
    <2> QED BY <1>2, <2>1, LimiterBounds
  <1>6. ASSUME NEW p \in permits PROVE PermitOK(p)'
    <2>1. p \in Permits /\ PermitOK(p)
      BY DEF LimiterInv, LimiterTypeOK
    <2>2. p.bucket \in Nat /\ p.at \in Nat
      BY <2>1, LimiterBounds DEF Permits
    <2> QED BY <1>2, <1>3, <2>1, <2>2, LimiterBounds DEF PermitOK
  <1> QED BY <1>3, <1>4, <1>5, <1>6 DEF LimiterInv, NumbersUnique

LEMMA LimiterNextInv == LimiterInv /\ [LimiterNext]_limiterVars => LimiterInv'
  <1> SUFFICES ASSUME LimiterInv, [LimiterNext]_limiterVars PROVE LimiterInv'
    OBVIOUS
  <1>1. CASE UNCHANGED limiterVars
    BY <1>1 DEF limiterVars, LimiterInv, LimiterTypeOK, WaitsBounded, PermitOK, NumbersUnique
  <1>2. ASSUME NEW c \in Callers, BeginConsume(c) PROVE LimiterInv'
    <2>1. LimiterTypeOK /\ WaitsBounded /\ second \in Nat
      BY LimiterBounds DEF LimiterInv, LimiterTypeOK
    <2>2. began' = [began EXCEPT ![c] = second] /\ UNCHANGED <<second, count, permits, asked>>
      BY <1>2 DEF BeginConsume
    <2>3. LimiterTypeOK'
      BY <2>1, <2>2 DEF LimiterTypeOK
    <2>4. second <= second + Patience
      BY <2>1, LimiterBounds
    <2>5. WaitsBounded'
      BY <2>1, <2>2, <2>4 DEF WaitsBounded, LimiterTypeOK
    <2> QED BY <2>2, <2>3, <2>5 DEF LimiterInv, PermitOK, NumbersUnique
  <1>3. ASSUME NEW c \in Callers, ConsumeRateLimit(c) PROVE LimiterInv'
    BY <1>3, ConsumeInv
  <1>4. ASSUME NEW c \in Callers, ConsumeFails(c) PROVE LimiterInv'
    BY <1>4, CountedOnly DEF ConsumeFails
  <1>5. CASE NextSecond
    BY <1>5, SecondInv
  <1> QED BY <1>1, <1>2, <1>3, <1>4, <1>5 DEF LimiterNext

\* Permits of the buckets from a to b are told apart by bucket and number.
LEMMA PermitsCounted ==
    ASSUME LimiterInv, NEW a \in Int, NEW b \in Int, a <= b, NEW S,
           S \subseteq permits, \A p \in S : p.bucket \in a..b
    PROVE  Cardinality(S) \in Nat /\ Cardinality(S) <= RPS * (b - a + 1)
  <1>1. PICK T : T = (a..b) \X (1..RPS)
    OBVIOUS
  <1>2. IsFiniteSet(a..b) /\ Cardinality(a..b) = b - a + 1
    BY FS_Interval
  <1>3. IsFiniteSet(1..RPS) /\ Cardinality(1..RPS) = RPS
    <2>1. RPS \in Nat /\ RPS \in Int /\ 1 \in Int
      BY LimiterBounds
    <2>2. IsFiniteSet(1..RPS) /\ Cardinality(1..RPS) = IF 1 > RPS THEN 0 ELSE RPS - 1 + 1
      BY <2>1, FS_Interval
    <2> QED BY <2>1, <2>2
  <1>4. IsFiniteSet(T) /\ Cardinality(T) = (b - a + 1) * RPS
    <2>1. IsFiniteSet(T) /\ Cardinality(T) = Cardinality(a..b) * Cardinality(1..RPS)
      BY <1>1, <1>2, <1>3, FS_Product, Zenon
    <2> QED BY <1>2, <1>3, <2>1
  <1>5. PICK f : f = [p \in S |-> <<p.bucket, p.n>>]
    OBVIOUS
  <1>6. f \in [S -> T]
    <2>1. \A p \in S : p.bucket \in a..b /\ p.n \in 1..RPS
      <3> SUFFICES ASSUME NEW p \in S PROVE p.n \in 1..RPS
        OBVIOUS
      <3>1. p \in Permits /\ PermitOK(p)
        BY DEF LimiterInv, LimiterTypeOK
      <3> QED BY <3>1, LimiterBounds DEF Permits, PermitOK
    <2>2. \A p \in S : <<p.bucket, p.n>> \in T
      BY <1>1, <2>1
    <2> QED BY <1>5, <2>2
  <1>7. \A p, q \in S : f[p] = f[q] => p = q
    BY <1>5 DEF LimiterInv, NumbersUnique
  <1>8. f \in Injection(S, T)
    BY <1>6, <1>7 DEF Injection, IsInjective
  <1>9. IsFiniteSet(S) /\ Cardinality(S) <= Cardinality(T)
    BY <1>4, <1>8, FS_Injection
  <1>10. Cardinality(S) \in Nat
    BY <1>9, FS_CardinalityType
  <1>11. (b - a + 1) * RPS = RPS * (b - a + 1)
    BY LimiterBounds
  <1> QED BY <1>4, <1>9, <1>10, <1>11

\* Types of the limiter, for every number of callers.
THEOREM LimiterTypeCorrect == LimiterSpec => []LimiterTypeOK
  <1>1. LimiterInv => LimiterTypeOK
    BY DEF LimiterInv
  <1> QED BY <1>1, LimiterInitInv, LimiterNextInv, PTL DEF LimiterSpec

\* No more than RPS of the callers of one second are allowed, in whatever order
\* they get the lock and whichever buckets are deleted meanwhile.
THEOREM BucketsKept == LimiterSpec => []BucketKept
  <1>1. LimiterInv => BucketKept
    <2> SUFFICES ASSUME LimiterInv, NEW b \in 0..second
                 PROVE  Cardinality({p \in permits : p.bucket = b}) <= RPS
      BY DEF BucketKept
    <2>1. PICK S : S = {p \in permits : p.bucket = b}
      OBVIOUS
    <2>2. b \in Int /\ b <= b /\ \A p \in S : p.bucket \in b..b
      BY <2>1 DEF LimiterInv, LimiterTypeOK
    <2>3. S \subseteq permits
      BY <2>1
    <2>4. Cardinality(S) \in Nat /\ Cardinality(S) <= RPS * (b - b + 1)
      BY <2>2, <2>3, PermitsCounted
    <2>5. RPS * (b - b + 1) = RPS
      BY <2>2, LimiterBounds
    <2> QED BY <2>1, <2>4, <2>5
  <1> QED BY <1>1, LimiterInitInv, LimiterNextInv, PTL DEF LimiterSpec

\* In any stretch of seconds no more calls are allowed than the limit for its
\* seconds and for the longest wait for the lock before it.
THEOREM RateBounded == LimiterSpec => []RateKept
  <1>1. LimiterInv => RateKept
    <2> SUFFICES ASSUME LimiterInv, NEW s \in 0..second, NEW t \in s..second
                 PROVE  Cardinality({p \in permits : p.at \in s..t}) <= RPS * (t - s + 1 + Patience)
      BY DEF RateKept
    <2>1. PICK S : S = {p \in permits : p.at \in s..t}
      OBVIOUS
    <2>2. second \in Nat /\ s \in Int /\ t \in Int /\ s <= t
      BY LimiterBounds DEF LimiterInv, LimiterTypeOK
    <2>3. PICK a \in Int : a = s - Patience
      BY <2>2, LimiterBounds
    <2>4. a <= t /\ (t - a + 1) = (t - s + 1 + Patience)
      BY <2>2, <2>3, LimiterBounds
    <2>5. ASSUME NEW p \in S PROVE p.bucket \in a..t
      <3>1. p \in Permits /\ PermitOK(p) /\ p.at \in s..t
        BY <2>1 DEF LimiterInv, LimiterTypeOK
      <3>2. p.bucket \in Nat /\ p.at \in Nat
        BY <3>1, LimiterBounds DEF Permits
      <3> QED BY <2>2, <2>3, <3>1, <3>2, LimiterBounds DEF PermitOK
    <2>6. S \subseteq permits
      BY <2>1
    <2>7. Cardinality(S) <= RPS * (t - a + 1)
      BY <2>2, <2>4, <2>5, <2>6, PermitsCounted
    <2> QED BY <2>1, <2>4, <2>7
  <1> QED BY <1>1, LimiterInitInv, LimiterNextInv, PTL DEF LimiterSpec

-----------------------------------------------------------------------------
(* The circuit breaker. *)

\* The history variables follow the row: probes exist in half_open only, and
\* updated_at and opened_at are never older, by more than the lock wait, than
\* the admission and the trip they stamp.
HistoryFollows ==
    /\ \A w \in Workers : probe[w] => cb.state = CircuitHalfOpen
    /\ \A w \in Workers : probe[w] => cb.updatedAge <= probeAge[w] + LockWait
    /\ cb.state = CircuitOpen => cb.openedAge <= sinceTrip + LockWait

CircuitInv == CircuitTypeOK /\ RowConsistent /\ HistoryFollows /\ SingleProbe

USE ThresholdAssumption, RecoveryAssumption, LockWaitAssumption, MaxCallsAssumption
    DEF CircuitState, CircuitClosed, CircuitOpen, CircuitHalfOpen, Never

\* A saturated age or count stays within its bound.
LEMMA AtMostBound ==
    ASSUME NEW n \in Nat, NEW bound \in Nat
    PROVE  AtMost(n, bound) \in 0..bound /\ AtMost(n, bound) <= n
  BY DEF AtMost

\* A row is the record of its five columns.
LEMMA RowFields ==
    ASSUME NEW cr \in CircuitRow
    PROVE  /\ cr.state \in CircuitState
           /\ cr.failures \in 0..Threshold
           /\ cr.openedAge \in {Never} \cup (0..Recovery)
           /\ cr.inFlight \in BOOLEAN
           /\ cr.updatedAge \in 0..StaleAge
  BY DEF CircuitRow

\* The rows that AllowCircuit, RecordSuccess, RecordFailure and the passing
\* of time leave are rows of the table.
LEMMA RowTypes ==
    ASSUME NEW cr \in CircuitRow, NEW lag \in 0..LockWait
    PROVE  /\ AfterAllow(cr, lag) \in CircuitRow
           /\ AfterSuccess(cr, lag) \in CircuitRow
           /\ AfterFailure(cr, lag) \in CircuitRow
           /\ Aged(cr) \in CircuitRow
  <1>0. StaleAge \in Nat
    BY DEF StaleAge
  <1>f. /\ cr.state \in CircuitState
        /\ cr.failures \in 0..Threshold
        /\ cr.openedAge \in {Never} \cup (0..Recovery)
        /\ cr.inFlight \in BOOLEAN
        /\ cr.updatedAge \in 0..StaleAge
    BY RowFields
  <1>s. AtMost(lag, StaleAge) \in 0..StaleAge
    BY <1>0, AtMostBound
  <1>r. AtMost(lag, Recovery) \in 0..Recovery
    BY AtMostBound
  <1>2. AfterAllow(cr, lag) \in CircuitRow
    BY <1>s, <1>f DEF AfterAllow, CircuitRow
  <1>3. AfterSuccess(cr, lag) \in CircuitRow
    BY <1>s DEF AfterSuccess, CircuitRow
  <1>4. AfterFailure(cr, lag) \in CircuitRow
    <2>1. AtMost(cr.failures + 1, Threshold) \in 0..Threshold
      BY <1>f DEF AtMost
    <2> QED
      BY <1>s, <1>r, <1>f, <2>1 DEF AfterFailure, CircuitRow
  <1>5. Aged(cr) \in CircuitRow
    <2>1. AtMost(cr.updatedAge + 1, StaleAge) \in 0..StaleAge
      BY <1>0, <1>f DEF AtMost
    <2>2. cr.openedAge # Never => AtMost(cr.openedAge + 1, Recovery) \in 0..Recovery
      BY <1>f DEF AtMost
    <2> QED
      BY <1>f, <2>1, <2>2 DEF Aged, CircuitRow
  <1> QED
    BY <1>2, <1>3, <1>4, <1>5

\* The type invariant of the breaker.
THEOREM CircuitTypeCorrect == CircuitSpec => []CircuitTypeOK
  <1>1. CircuitInit => CircuitTypeOK
    BY DEF CircuitInit, CircuitTypeOK, NewCircuitRow, CircuitRow, StaleAge
  <1>2. CircuitTypeOK /\ [CircuitNext]_circuitVars => CircuitTypeOK'
    <2> SUFFICES ASSUME CircuitTypeOK, [CircuitNext]_circuitVars PROVE CircuitTypeOK'
      OBVIOUS
    <2> USE DEF CircuitTypeOK
    <2>s. StaleAge \in Nat
      BY DEF StaleAge
    <2>1. ASSUME NEW w \in Workers, NEW lag \in 0..LockWait, AllowCircuit(w, lag)
          PROVE  CircuitTypeOK'
      BY <2>1, <2>s, RowTypes DEF AllowCircuit
    <2>2. ASSUME NEW w \in Workers, NEW lag \in 0..LockWait, RecordSuccess(w, lag)
          PROVE  CircuitTypeOK'
      <3>1. cb' \in CircuitRow
        BY <2>2, RowTypes DEF RecordSuccess
      <3>2. calls' \in [Workers -> 0..MaxCalls]
        BY <2>2 DEF RecordSuccess, Running
      <3> QED
        BY <2>2, <3>1, <3>2 DEF RecordSuccess
    <2>3. ASSUME NEW w \in Workers, NEW lag \in 0..LockWait, RecordFailure(w, lag)
          PROVE  CircuitTypeOK'
      BY <2>3, RowTypes DEF RecordFailure, Running
    <2>4. ASSUME NEW w \in Workers, Leave(w)
          PROVE  CircuitTypeOK'
      BY <2>4 DEF Leave
    <2>5. ASSUME Tick
          PROVE  CircuitTypeOK'
      <3>1. cb' \in CircuitRow
        BY <2>5, RowTypes DEF Tick
      <3>2. sinceTrip' \in 0..Recovery
        BY <2>5, AtMostBound DEF Tick
      <3>3. probeAge' \in [Workers -> 0..StaleAge]
        BY <2>5, <2>s, AtMostBound DEF Tick
      <3> QED
        BY <2>5, <3>1, <3>2, <3>3 DEF Tick
    <2>6. CASE UNCHANGED circuitVars
      BY <2>6 DEF circuitVars
    <2> QED
      BY <2>1, <2>2, <2>3, <2>4, <2>5, <2>6 DEF CircuitNext
  <1> QED
    BY <1>1, <1>2, PTL DEF CircuitSpec

\* What each operation of infra.go does to the columns the invariant relates.
LEMMA RowSteps ==
    ASSUME NEW cr \in CircuitRow, NEW lag \in 0..LockWait
    PROVE  /\ AfterSuccess(cr, lag).state = CircuitClosed
           /\ AfterSuccess(cr, lag).failures = 0
           /\ AfterSuccess(cr, lag).openedAge = Never
           /\ AfterSuccess(cr, lag).inFlight = FALSE
           /\ AfterFailure(cr, lag).inFlight = FALSE
           /\ ShouldOpen(cr) =>
                /\ AfterFailure(cr, lag).state = CircuitOpen
                /\ AfterFailure(cr, lag).openedAge \in 0..LockWait
           /\ ~ShouldOpen(cr) =>
                /\ AfterFailure(cr, lag).state = CircuitClosed
                /\ AfterFailure(cr, lag).openedAge = cr.openedAge
           /\ AfterFailure(cr, lag).failures = AtMost(cr.failures + 1, Threshold)
           /\ cr.state # CircuitClosed /\ Allowed(cr) =>
                /\ AfterAllow(cr, lag).state = CircuitHalfOpen
                /\ AfterAllow(cr, lag).failures = cr.failures
                /\ AfterAllow(cr, lag).openedAge = cr.openedAge
                /\ AfterAllow(cr, lag).inFlight = TRUE
                /\ AfterAllow(cr, lag).updatedAge \in 0..LockWait
  <1>0. StaleAge \in Nat
    BY DEF StaleAge
  <1>1. cr.failures \in 0..Threshold
    BY RowFields
  <1>2. AtMost(lag, StaleAge) \in 0..LockWait /\ AtMost(lag, Recovery) \in 0..LockWait
    BY <1>0 DEF AtMost
  <1> QED
    BY <1>1, <1>2 DEF AfterSuccess, AfterFailure, AfterAllow

\* The invariant is inductive.
LEMMA Inductive == CircuitInv /\ [CircuitNext]_circuitVars /\ CircuitTypeOK' => CircuitInv'
  <1> SUFFICES ASSUME CircuitInv, [CircuitNext]_circuitVars, CircuitTypeOK' PROVE CircuitInv'
    OBVIOUS
  <1>t. CircuitTypeOK /\ RowConsistent /\ HistoryFollows /\ SingleProbe
    BY DEF CircuitInv
  <1>c. /\ cb.state \in CircuitState
        /\ cb.failures \in 0..Threshold
        /\ cb.openedAge \in {Never} \cup (0..Recovery)
        /\ cb.inFlight \in BOOLEAN
        /\ cb.updatedAge \in 0..StaleAge
        /\ sinceTrip \in 0..Recovery
        /\ probe \in [Workers -> BOOLEAN]
        /\ probeAge \in [Workers -> 0..StaleAge]
        /\ StaleAge \in Nat
    BY <1>t, RowFields DEF CircuitTypeOK, StaleAge
  <1>1. ASSUME NEW w \in Workers, NEW lag \in 0..LockWait, AllowCircuit(w, lag)
        PROVE  CircuitInv'
    <2>1. CASE cb.state = CircuitClosed
      <3>1. cb' = cb /\ sinceTrip' = sinceTrip
        BY <1>1, <2>1 DEF AllowCircuit, AfterAllow
      <3>2. \A v \in Workers : ~probe'[v]
        BY <1>1, <1>t, <1>c, <2>1 DEF AllowCircuit, HistoryFollows
      <3> QED
        BY <1>t, <2>1, <3>1, <3>2 DEF CircuitInv, RowConsistent, HistoryFollows, SingleProbe
    <2>2. CASE cb.state # CircuitClosed
      <3>1. /\ cb'.state = CircuitHalfOpen
            /\ cb'.failures = cb.failures
            /\ cb'.openedAge = cb.openedAge
            /\ cb'.inFlight = TRUE
            /\ cb'.updatedAge \in 0..LockWait
        <4>1. cb \in CircuitRow /\ Allowed(cb) /\ cb' = AfterAllow(cb, lag)
          BY <1>1, <1>t DEF AllowCircuit, CircuitTypeOK
        <4> QED
          BY <4>1, <2>2, RowSteps, Zenon
      <3>2. /\ probe' = [probe EXCEPT ![w] = TRUE]
            /\ probeAge' = [probeAge EXCEPT ![w] = 0]
            /\ sinceTrip' = sinceTrip
        BY <1>1, <2>2 DEF AllowCircuit
      <3>3. RowConsistent'
        BY <1>t, <1>c, <2>2, <3>1 DEF RowConsistent
      <3>4. HistoryFollows'
        <4>1. ASSUME NEW v \in Workers, probe'[v]
              PROVE  cb'.updatedAge <= probeAge'[v] + LockWait
          <5>1. probeAge'[v] \in Nat
            BY <1>c, <3>2
          <5> QED
            BY <3>1, <5>1
        <4> QED
          BY <3>1, <4>1 DEF HistoryFollows
      <3>5. \A v \in Workers : v # w /\ probe[v] => probeAge[v] > 2 * Recovery - LockWait
        <4> SUFFICES ASSUME NEW v \in Workers, v # w, probe[v]
                     PROVE  probeAge[v] > 2 * Recovery - LockWait
          OBVIOUS
        <4>1. cb.state = CircuitHalfOpen /\ cb.updatedAge <= probeAge[v] + LockWait
          BY <1>t DEF HistoryFollows
        <4>2. cb.updatedAge >= StaleAge
          BY <1>1, <1>t, <4>1 DEF AllowCircuit, Allowed, ProbeStale, RowConsistent
        <4> QED
          BY <1>c, <4>1, <4>2 DEF StaleAge
      <3>6. SingleProbe'
        <4> SUFFICES ASSUME NEW u \in Workers, NEW v \in Workers,
                            u # v, probe'[u], probe'[v]
                     PROVE  \/ probeAge'[u] > 2 * Recovery - LockWait
                            \/ probeAge'[v] > 2 * Recovery - LockWait
          BY DEF SingleProbe
        <4>1. CASE u = w
          BY <1>c, <3>2, <3>5, <4>1
        <4>2. CASE v = w
          BY <1>c, <3>2, <3>5, <4>2
        <4>3. CASE u # w /\ v # w
          BY <1>c, <1>t, <3>2, <4>3 DEF SingleProbe
        <4> QED
          BY <4>1, <4>2, <4>3
      <3> QED
        BY <3>3, <3>4, <3>6 DEF CircuitInv
    <2> QED
      BY <2>1, <2>2
  <1>2. ASSUME NEW w \in Workers, NEW lag \in 0..LockWait, RecordSuccess(w, lag)
        PROVE  CircuitInv'
    <2>1. /\ cb'.state = CircuitClosed
          /\ cb'.failures = 0
          /\ cb'.openedAge = Never
          /\ cb'.inFlight = FALSE
      BY <1>2, <1>t, RowSteps DEF RecordSuccess, CircuitTypeOK
    <2>2. \A v \in Workers : ~probe'[v]
      BY <1>2 DEF RecordSuccess
    <2> QED
      BY <2>1, <2>2 DEF CircuitInv, RowConsistent, HistoryFollows, SingleProbe
  <1>3. ASSUME NEW w \in Workers, NEW lag \in 0..LockWait, RecordFailure(w, lag)
        PROVE  CircuitInv'
    <2>1. \A v \in Workers : ~probe'[v]
      BY <1>3 DEF RecordFailure
    <2>2. cb'.inFlight = FALSE /\ cb'.failures = AtMost(cb.failures + 1, Threshold)
      BY <1>3, <1>t, RowSteps DEF RecordFailure, CircuitTypeOK
    <2>3. CASE ShouldOpen(cb)
      <3>1. cb'.state = CircuitOpen /\ cb'.openedAge \in 0..LockWait /\ sinceTrip' = 0
        BY <1>3, <1>t, <2>3, RowSteps DEF RecordFailure, CircuitTypeOK
      <3>2. cb'.failures = Threshold
        BY <1>c, <1>t, <2>2, <2>3 DEF ShouldOpen, AtMost, RowConsistent
      <3> QED
        BY <2>1, <2>2, <3>1, <3>2 DEF CircuitInv, RowConsistent, HistoryFollows, SingleProbe
    <2>4. CASE ~ShouldOpen(cb)
      <3>1. cb'.state = CircuitClosed /\ cb'.openedAge = cb.openedAge
        BY <1>3, <1>t, <2>4, RowSteps DEF RecordFailure, CircuitTypeOK
      <3>2. cb.state = CircuitClosed /\ cb'.failures < Threshold
        BY <1>c, <1>t, <2>2, <2>4 DEF ShouldOpen, AtMost, RowConsistent
      <3> QED
        BY <1>t, <2>1, <2>2, <3>1, <3>2 DEF CircuitInv, RowConsistent, HistoryFollows, SingleProbe
    <2> QED
      BY <2>3, <2>4
  <1>4. ASSUME NEW w \in Workers, Leave(w)
        PROVE  CircuitInv'
    BY <1>4, <1>t DEF Leave, CircuitInv, RowConsistent, HistoryFollows, SingleProbe
  <1>5. ASSUME Tick
        PROVE  CircuitInv'
    <2>1. /\ cb'.state = cb.state
          /\ cb'.failures = cb.failures
          /\ cb'.inFlight = cb.inFlight
          /\ cb'.updatedAge = AtMost(cb.updatedAge + 1, StaleAge)
          /\ cb.openedAge = Never => cb'.openedAge = Never
          /\ cb.openedAge # Never => cb'.openedAge = AtMost(cb.openedAge + 1, Recovery)
          /\ sinceTrip' = AtMost(sinceTrip + 1, Recovery)
          /\ probe' = probe
      BY <1>5 DEF Tick, Aged
    <2>2. \A v \in Workers : probeAge'[v] = AtMost(probeAge[v] + 1, StaleAge)
      BY <1>5 DEF Tick
    <2>3. RowConsistent'
      BY <1>c, <1>t, <2>1 DEF RowConsistent, AtMost
    <2>4. HistoryFollows'
      <3>1. cb'.state = CircuitOpen => cb'.openedAge <= sinceTrip' + LockWait
        BY <1>c, <1>t, <2>1 DEF HistoryFollows, RowConsistent, AtMost
      <3>2. ASSUME NEW v \in Workers, probe'[v]
            PROVE  cb'.state = CircuitHalfOpen /\ cb'.updatedAge <= probeAge'[v] + LockWait
        <4>1. probeAge[v] \in 0..StaleAge
          BY <1>c
        <4>2. cb.state = CircuitHalfOpen /\ cb.updatedAge <= probeAge[v] + LockWait
          BY <1>t, <2>1, <3>2 DEF HistoryFollows
        <4> QED
          BY <1>c, <2>1, <2>2, <4>1, <4>2 DEF AtMost
      <3> QED
        BY <3>1, <3>2 DEF HistoryFollows
    <2>5. SingleProbe'
      <3> SUFFICES ASSUME NEW u \in Workers, NEW v \in Workers,
                          u # v, probe'[u], probe'[v]
                   PROVE  \/ probeAge'[u] > 2 * Recovery - LockWait
                          \/ probeAge'[v] > 2 * Recovery - LockWait
        BY DEF SingleProbe
      <3>1. probeAge[u] \in 0..StaleAge /\ probeAge[v] \in 0..StaleAge
        BY <1>c
      <3>2. \/ probeAge[u] > 2 * Recovery - LockWait
            \/ probeAge[v] > 2 * Recovery - LockWait
        BY <1>t, <2>1 DEF SingleProbe
      <3> QED
        BY <2>2, <3>1, <3>2 DEF AtMost, StaleAge
    <2> QED
      BY <2>3, <2>4, <2>5 DEF CircuitInv
  <1>6. CASE UNCHANGED circuitVars
    BY <1>6, <1>t DEF circuitVars, CircuitInv, CircuitTypeOK, RowConsistent, HistoryFollows, SingleProbe
  <1> QED
    BY <1>1, <1>2, <1>3, <1>4, <1>5, <1>6 DEF CircuitNext

\* The columns of sync_circuit_state agree and a half-open circuit has a
\* single probe, whatever the workers do and in whatever order.
THEOREM CircuitInvariant == CircuitSpec => [](CircuitInv)
  <1>1. CircuitInit => CircuitInv
    BY DEF CircuitInit, CircuitInv, CircuitTypeOK, RowConsistent, HistoryFollows, SingleProbe,
           NewCircuitRow, CircuitRow, StaleAge
  <1>2. CircuitSpec => []CircuitTypeOK
    BY CircuitTypeCorrect
  <1> QED
    BY <1>1, <1>2, Inductive, PTL DEF CircuitSpec

\* RowConsistent for every instance.
THEOREM RowsConsistent == CircuitSpec => []RowConsistent
  BY CircuitInvariant, PTL DEF CircuitInv

\* SingleProbe for every instance.
THEOREM OneProbe == CircuitSpec => []SingleProbe
  BY CircuitInvariant, PTL DEF CircuitInv

\* RecoveryKept for every instance: no step takes an open circuit to half_open
\* before the recovery timeout (less the lock wait) has passed since the trip.
THEOREM Recovers == CircuitSpec => RecoveryKept
  <1>1. CircuitInv /\ [CircuitNext]_circuitVars =>
          [cb.state = CircuitOpen /\ cb'.state = CircuitHalfOpen
             => sinceTrip >= Recovery - LockWait]_circuitVars
    <2> SUFFICES ASSUME CircuitInv, CircuitNext, cb.state = CircuitOpen,
                        cb'.state = CircuitHalfOpen
                 PROVE  sinceTrip >= Recovery - LockWait
      BY DEF circuitVars
    <2>1. /\ cb \in CircuitRow
          /\ sinceTrip \in 0..Recovery
          /\ cb.openedAge <= sinceTrip + LockWait
      BY DEF CircuitInv, CircuitTypeOK, HistoryFollows
    <2>2. cb.openedAge \in {Never} \cup (0..Recovery)
      BY <2>1, RowFields
    <2>3. ASSUME NEW w \in Workers, NEW lag \in 0..LockWait, AllowCircuit(w, lag)
          PROVE  sinceTrip >= Recovery - LockWait
      BY <2>1, <2>2, <2>3 DEF AllowCircuit, Allowed, RecoveryElapsed
    <2>4. ASSUME NEW w \in Workers, NEW lag \in 0..LockWait,
                 RecordSuccess(w, lag) \/ RecordFailure(w, lag)
          PROVE  FALSE
      BY <2>1, <2>4 DEF RecordSuccess, RecordFailure, AfterSuccess, AfterFailure
    <2>5. ASSUME (\E w \in Workers : Leave(w)) \/ Tick
          PROVE  FALSE
      BY <2>5 DEF Leave, Tick, Aged
    <2> QED
      BY <2>3, <2>4, <2>5 DEF CircuitNext
  <1> QED
    BY <1>1, CircuitInvariant, PTL DEF CircuitSpec, RecoveryKept
=============================================================================
