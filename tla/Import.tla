------------------------------- MODULE Import -------------------------------
(***************************************************************************)
(* The ADIF and QRZ imports: the upload handlers, the River job that runs  *)
(* an import, the parse-map-dedup-insert pipeline both sources share, and  *)
(* the import_jobs row the user polls.                                     *)
(*                                                                         *)
(* An upload is one import: its file, its import_jobs row and its River    *)
(* job.  All uploads go to one logbook, so they meet in the qsos table.    *)
(* The dedup key (callsign, band, mode, second) is abstracted to a pair    *)
(* <<call, band>>: mode and time take part in the code exactly as band.    *)
(* A row under way is the position of its record in the file, so that a    *)
(* batch is a set of positions, in the order of the file.                  *)
(***************************************************************************)
EXTENDS Naturals, Sequences, FiniteSets, FiniteSetsExt

CONSTANTS
    Uploads,       \* the imports
    QRZUploads,    \* those of them that fetch the user's QRZ logbook
    Contents,      \* Contents[u]: the records of the import's ADIF text
    Calls,         \* callsigns
    Bands,         \* bands of the reference table
    BatchSize,     \* batchSize (500) of importRecords
    ProgressEvery, \* progressFlushInterval (200)
    MaxRecords,    \* MaxRecords (500000) of the ADIF parser
    MaxAttempts,   \* River's attempts of a job
    Slots          \* MaxWorkers (4) of River's default queue

\* The fields of a record that decide its fate: "" when it lacks the field,
\* "bad" when the text does not parse; "garbage" is what the parser refuses.
Records == [call : Calls \cup {"", "garbage"}, date : {"", "bad", "d"},
            band : Bands \cup {"", "nosuchband"}, freq : Bands \cup {"", "bad"},
            mode : {"", "bad", "cw"}]

ASSUME ImportAssumption ==
    /\ QRZUploads \subseteq Uploads
    /\ Contents \in [Uploads -> Seq(Records)]
    /\ BatchSize \in Nat \ {0}
    /\ ProgressEvery \in Nat \ {0}
    /\ MaxAttempts \in Nat \ {0}
    /\ Slots \in Nat \ {0}

VARIABLES
    job,     \* import_jobs rows
    queue,   \* River's state of the upload's job
    att,     \* attempts River has started
    file,    \* TRUE while the uploaded temp file is on disk
    wk,      \* the worker running the job: program counter and locals
    live,    \* live[u][k]: live qsos rows with key k that import u inserted
    note,    \* the notification the user got
    stuck,   \* slots held by attempts that River gave up and that still spin
    runs,    \* history: how often the records of u were read
    blind,   \* history: a dedup query of u failed
    before,  \* history: imports that were over when u began to read
    lost     \* history: an attempt of u died or never came back

jobVars == <<job, queue, att, file>>
ghosts == <<runs, blind, before, lost>>
importVars == <<job, queue, att, file, wk, live, note, stuck, runs, blind, before,
                lost>>

---------------------------------------------------------------------------
(* Mapping a record. *)

\* FREQ determines a band; "bad" and out-of-band text determine none.
InferBandFromFreq(r) == IF r.freq \in Bands THEN r.freq ELSE ""

BandOf(r) == IF r.band = "" THEN InferBandFromFreq(r) ELSE r.band

\* A date needs eight digits that name a day; a missing time is midnight.
DateParses(r) == r.date # "bad"

\* NormalizeModePair knows the ADIF modes and submodes and nothing else.
ModeKnown(r) == r.mode # "bad"

\* The first reason, in the order the fields are looked at, that a record
\* cannot become a QSO.
MapError(r) ==
    IF r.call = "" THEN "MISSING_CALLSIGN"
    ELSE IF r.date = "" THEN "MISSING_DATE"
    ELSE IF ~DateParses(r) THEN "INVALID_DATE"
    ELSE IF BandOf(r) = "" THEN "MISSING_BAND"
    ELSE IF r.mode = "" THEN "MISSING_MODE"
    ELSE IF ~ModeKnown(r) THEN "INVALID_MODE"
    ELSE "none"

\* Warnings of a record that is kept; the other optional fields are copied
\* when they parse and dropped without a warning when they do not.
Warnings(r) ==
    (IF r.band = "" THEN {"BAND_INFERRED"} ELSE {})
    \cup (IF r.freq = "bad" THEN {"INVALID_FREQ"} ELSE {})

KeyOf(r) == <<r.call, BandOf(r)>>
Keys == Calls \X (Bands \cup {"nosuchband"})

\* The key of the i-th record of import u.
KeyAt(u, i) == KeyOf(Contents[u][i])

\* The band and mode columns are foreign keys: COPY and INSERT refuse others.
Insertable(k) == k[2] \in Bands

---------------------------------------------------------------------------
NoCount == [total |-> 0, imported |-> 0, duplicate |-> 0, skipped |-> 0,
            errors |-> 0, warnings |-> 0]
NoJob == [status |-> "none", total |-> 0, cnt |-> NoCount]
Idle == [pc |-> "idle", pos |-> 0, batch |-> {}, cnt |-> NoCount]

\* The parser's view of a file: garbage raises a parse error, and only
\* records that it returns count against MaxRecords.
Garbage(r) == r.call = "garbage"
Returned(u) == {i \in DOMAIN Contents[u] : ~Garbage(Contents[u][i])}

\* A QRZ import writes its own file, an ADIF import opens the upload.
HasFile(u) == u \in QRZUploads \/ file[u]

\* Next answers ErrTooManyRecords, without reading on, once MaxRecords
\* records were returned.
TooMany(u) == Cardinality(Returned(u)) >= MaxRecords

Over(u) == wk[u].pc \in {"idle", "dead", "spin"}

\* Attempts that hold a slot of the worker process.
Busy == {v \in Uploads : wk[v].pc \notin {"idle", "dead"}}

ImportInit ==
    /\ job = [u \in Uploads |-> NoJob]
    /\ queue = [u \in Uploads |-> "none"]
    /\ att = [u \in Uploads |-> 0]
    /\ file = [u \in Uploads |-> FALSE]
    /\ wk = [u \in Uploads |-> Idle]
    /\ live = [u \in Uploads |-> [k \in Keys |-> 0]]
    /\ note = [u \in Uploads |-> "none"]
    /\ stuck = 0
    /\ runs = [u \in Uploads |-> 0]
    /\ blind = [u \in Uploads |-> FALSE]
    /\ before = [u \in Uploads |-> {}]
    /\ lost = [u \in Uploads |-> FALSE]

---------------------------------------------------------------------------
(* The handlers. *)

\* The upload is written to the shared directory before the transaction.
SaveUpload(u) ==
    /\ u \notin QRZUploads
    /\ queue[u] = "none" /\ ~file[u]
    /\ file' = [file EXCEPT ![u] = TRUE]
    /\ UNCHANGED <<job, queue, att, wk, live, note, ghosts, stuck>>

\* One transaction inserts the import_jobs row and the River job.
UploadADIF(u) ==
    /\ queue[u] = "none" /\ file[u]
    /\ job' = [job EXCEPT ![u] = [@ EXCEPT !.status = "pending"]]
    /\ queue' = [queue EXCEPT ![u] = "available"]
    /\ UNCHANGED <<att, file, wk, live, note, ghosts, stuck>>

\* Every failure after the file was written removes it again.
UploadFails(u) ==
    /\ queue[u] = "none" /\ file[u]
    /\ file' = [file EXCEPT ![u] = FALSE]
    /\ UNCHANGED <<job, queue, att, wk, live, note, ghosts, stuck>>

UploadQRZ(u) ==
    /\ u \in QRZUploads
    /\ queue[u] = "none"
    /\ job' = [job EXCEPT ![u] = [@ EXCEPT !.status = "pending"]]
    /\ queue' = [queue EXCEPT ![u] = "available"]
    /\ UNCHANGED <<att, file, wk, live, note, ghosts, stuck>>

---------------------------------------------------------------------------
(* The worker. *)

\* River hands the job to a worker when one of its slots is free.
Begin(u) ==
    /\ queue[u] = "available"
    /\ Cardinality(Busy) + stuck < Slots
    /\ queue' = [queue EXCEPT ![u] = "running"]
    /\ att' = [att EXCEPT ![u] = @ + 1]
    /\ wk' = [wk EXCEPT ![u] = [Idle EXCEPT !.pc = "load"]]
    /\ UNCHANGED <<job, file, live, note, ghosts, stuck>>

\* Mutant: a failed attempt keeps the file for the next one.
ReturnKeepsFile(u, err) ==
    /\ wk' = [wk EXCEPT ![u] = Idle]
    /\ file' = [file EXCEPT ![u] = @ /\ err]
    /\ queue' = [queue EXCEPT ![u] =
                    IF ~err THEN "completed"
                    ELSE IF att[u] < MaxAttempts THEN "available" ELSE "discarded"]
    /\ UNCHANGED att

\* Work returned; the deferred function removes the uploaded file whatever
\* was returned.  An error is retried until the attempts are used up.
Return(u, err) ==
    /\ wk' = [wk EXCEPT ![u] = Idle]
    /\ file' = [file EXCEPT ![u] = FALSE]
    /\ queue' = [queue EXCEPT ![u] =
                    IF ~err THEN "completed"
                    ELSE IF att[u] < MaxAttempts THEN "available" ELSE "discarded"]
    /\ UNCHANGED att

\* No connection, no role, or the row cannot be read.
LoadFails(u) ==
    /\ wk[u].pc = "load"
    /\ Return(u, TRUE)
    /\ UNCHANGED <<job, live, note, ghosts, stuck>>

\* An import that is not pending any more is not run again.
Skip(u) ==
    /\ wk[u].pc = "load"
    /\ job[u].status # "pending"
    /\ Return(u, FALSE)
    /\ UNCHANGED <<job, live, note, ghosts, stuck>>

Load(u) ==
    /\ wk[u].pc = "load"
    /\ job[u].status = "pending"
    /\ wk' = [wk EXCEPT ![u].pc = "count"]
    /\ UNCHANGED <<jobVars, live, note, ghosts, stuck>>

\* Without a usable API key, or when QRZ does not answer after four tries,
\* the row is closed (saved says whether that statement worked) and the
\* error is returned to River all the same.
QRZFetchFails(u) ==
    /\ u \in QRZUploads
    /\ wk[u].pc = "count"
    /\ \E saved \in BOOLEAN :
          job' = IF saved
                 THEN [job EXCEPT ![u] = [status |-> "error", total |-> 0,
                                          cnt |-> [NoCount EXCEPT !.errors = 1]]]
                 ELSE job
    /\ Return(u, TRUE)
    /\ UNCHANGED <<live, note, ghosts, stuck>>

\* countADIFRecords skips every error Next returns, also the ones it goes on
\* returning: too many records, or a context that River cancelled.
CountSpins(u) ==
    /\ wk[u].pc = "count"
    /\ HasFile(u)
    /\ wk' = [wk EXCEPT ![u].pc = "spin"]
    /\ lost' = [lost EXCEPT ![u] = TRUE]
    /\ UNCHANGED <<jobVars, live, note, runs, blind, before, stuck>>

\* A file that cannot be opened, or whose header cannot be read, counts zero
\* records.
CountADIFRecords(u, readable) ==
    IF readable THEN Cardinality(Returned(u)) ELSE 0

\* Mutant: the status is not moved on.
StartImportJobStaysPending(u, readable) ==
    /\ job[u].status = "pending"
    /\ job' = [job EXCEPT ![u].total = CountADIFRecords(u, readable)]

\* StartImportJob moves the row out of pending, and only from there.
StartImportJob(u, readable) ==
    /\ job[u].status = "pending"
    /\ job' = [job EXCEPT ![u].status = "processing",
                          ![u].total = CountADIFRecords(u, readable)]

\* importRecords opens the file and reads its header again, and fails with
\* them (readable); the row is out of pending by then.
Start(u) ==
    /\ wk[u].pc = "count"
    /\ \E readable \in {HasFile(u), FALSE} :
          /\ readable => ~TooMany(u)
          /\ StartImportJob(u, readable)
          /\ wk' = [wk EXCEPT ![u].pc = IF readable THEN "read" ELSE "failed"]
    /\ runs' = [runs EXCEPT ![u] = @ + 1]
    /\ before' = [before EXCEPT ![u] = {v \in Uploads \ {u} : runs[v] > 0 /\ Over(v)}]
    /\ UNCHANGED <<queue, att, file, live, note, blind, lost, stuck>>

StartFails(u) ==
    /\ wk[u].pc = "count"
    /\ Return(u, TRUE)
    /\ UNCHANGED <<job, live, note, ghosts, stuck>>

\* The loop of importRecords up to a full batch or the end of the file.
More(u) ==
    /\ wk[u].pc = "read"
    /\ wk[u].pos < Len(Contents[u])
    /\ Cardinality(wk[u].batch) < BatchSize

\* Mutant: a record that cannot be mapped is skipped but not counted as error.
CountedSkipOnly(c, r) ==
    IF Garbage(r) THEN [c EXCEPT !.errors = @ + 1]
    ELSE IF MapError(r) # "none"
         THEN [c EXCEPT !.total = @ + 1, !.skipped = @ + 1]
         ELSE [c EXCEPT !.total = @ + 1,
                        !.warnings = @ + Cardinality(Warnings(r))]

Counted(c, r) ==
    IF Garbage(r) THEN [c EXCEPT !.errors = @ + 1]
    ELSE IF MapError(r) # "none"
         THEN [c EXCEPT !.total = @ + 1, !.errors = @ + 1, !.skipped = @ + 1]
         ELSE [c EXCEPT !.total = @ + 1,
                        !.warnings = @ + Cardinality(Warnings(r))]

ReadRecord(u) ==
    /\ More(u)
    /\ LET i == wk[u].pos + 1
           r == Contents[u][i]
           keep == ~Garbage(r) /\ MapError(r) = "none"
       IN  wk' = [wk EXCEPT ![u].pos = i,
                            ![u].cnt = Counted(@, r),
                            ![u].batch = IF keep THEN @ \cup {i} ELSE @]
    /\ UNCHANGED <<jobVars, live, note, ghosts, stuck>>

\* Keys with a live row in the logbook, whoever logged it.
Existing == {k \in Keys : \E u \in Uploads : live[u][k] > 0}

\* Mutant: only the batch itself is consulted.
DeduplicateBatchOnly(u, batch, existing) ==
    {i \in batch : \A j \in batch : j < i => KeyAt(u, j) # KeyAt(u, i)}

\* The rows of the batch that are neither in the logbook nor earlier in the
\* batch.
Deduplicate(u, batch, existing) ==
    {i \in batch : /\ KeyAt(u, i) \notin existing
                   /\ \A j \in batch : j < i => KeyAt(u, j) # KeyAt(u, i)}

\* The dedup query; when it fails the whole batch is kept.
DeduplicateBatch(u, fails) ==
    /\ wk[u].pc = "read" /\ ~More(u) /\ wk[u].batch # {}
    /\ LET kept == IF fails THEN wk[u].batch
                   ELSE Deduplicate(u, wk[u].batch, Existing)
       IN  wk' = [wk EXCEPT ![u].batch = kept,
                            ![u].cnt.duplicate = @ + Cardinality(wk[u].batch \ kept),
                            ![u].pc = "copy"]
    /\ blind' = [blind EXCEPT ![u] = @ \/ fails]
    /\ UNCHANGED <<jobVars, live, note, runs, before, lost, stuck>>

\* The batch was flushed: its counters are added, and written to the row
\* when the total happens to be a multiple of the interval.
Flushed(u, cnt) ==
    /\ wk' = [wk EXCEPT ![u].batch = {}, ![u].cnt = cnt, ![u].pc = "read"]
    /\ job' = IF cnt.total % ProgressEvery = 0
              THEN [job EXCEPT ![u].cnt = [cnt EXCEPT !.total = 0]] ELSE job

\* One COPY inserts all rows of the batch or none.
CopyFrom(u) ==
    /\ wk[u].pc = "copy"
    /\ \A i \in wk[u].batch : Insertable(KeyAt(u, i))
    /\ live' = [live EXCEPT ![u] = [k \in Keys |->
                   @[k] + Cardinality({i \in wk[u].batch : KeyAt(u, i) = k})]]
    /\ Flushed(u, [wk[u].cnt EXCEPT !.imported = @ + Cardinality(wk[u].batch)])
    /\ UNCHANGED <<queue, att, file, note, ghosts, stuck>>

\* Whatever COPY fails with (a row that breaks a foreign key, a lost
\* connection), the rows are tried one by one.
CopyFails(u) ==
    /\ wk[u].pc = "copy"
    /\ wk[u].batch # {}
    /\ wk' = [wk EXCEPT ![u].pc = "rows"]
    /\ UNCHANGED <<jobVars, live, note, ghosts, stuck>>

\* Row by row, each insert its own statement, which may fail as well.
InsertSingleQSO(u) ==
    /\ wk[u].pc = "rows" /\ wk[u].batch # {}
    /\ \E inserted \in BOOLEAN :
       LET i == Min(wk[u].batch)
           k == KeyAt(u, i)
           cnt == IF inserted THEN [wk[u].cnt EXCEPT !.imported = @ + 1]
                              ELSE [wk[u].cnt EXCEPT !.errors = @ + 1]
       IN  /\ inserted => Insertable(k)
           /\ live' = IF inserted THEN [live EXCEPT ![u][k] = @ + 1] ELSE live
           /\ IF wk[u].batch = {i}
              THEN Flushed(u, cnt)
              ELSE /\ wk' = [wk EXCEPT ![u].batch = @ \ {i}, ![u].cnt = cnt]
                   /\ UNCHANGED job
    /\ UNCHANGED <<queue, att, file, note, ghosts, stuck>>

\* Mutant: the end of the file is expected one record late.
ReadAllLate(u) ==
    /\ wk[u].pc = "read" /\ wk[u].pos > Len(Contents[u]) /\ wk[u].batch = {}
    /\ wk' = [wk EXCEPT ![u].pc = "ok"]
    /\ UNCHANGED <<jobVars, live, note, ghosts, stuck>>

\* End of file: EnrichLogbook (it only fills empty columns of the logbook's
\* QSOs and its errors are logged) and then the outcome.
ReadAll(u) ==
    /\ wk[u].pc = "read" /\ ~More(u) /\ wk[u].batch = {}
    /\ wk' = [wk EXCEPT ![u].pc = "ok"]
    /\ UNCHANGED <<jobVars, live, note, ghosts, stuck>>

Outcome(u) == IF wk[u].pc = "ok" THEN "complete" ELSE "error"

CompleteImportJob(u) ==
    job' = [job EXCEPT ![u] = [status |-> Outcome(u), total |-> wk[u].cnt.total,
                               cnt |-> [wk[u].cnt EXCEPT !.total = 0]]]

\* createImportNotification; a failure is only logged.
CreateImportNotification(u) ==
    \E sent \in BOOLEAN :
        note' = IF sent THEN [note EXCEPT ![u] = Outcome(u)] ELSE note

\* The ADIF worker logs a failing CompleteImportJob and goes on to notify;
\* the QRZ worker returns it.
Finish(u) ==
    /\ wk[u].pc \in {"ok", "failed"}
    /\ \/ /\ CompleteImportJob(u)
          /\ CreateImportNotification(u)
          /\ Return(u, wk[u].pc = "failed")
       \/ /\ u \notin QRZUploads
          /\ UNCHANGED job
          /\ CreateImportNotification(u)
          /\ Return(u, wk[u].pc = "failed")
       \/ /\ u \in QRZUploads
          /\ UNCHANGED <<job, note>>
          /\ Return(u, TRUE)
    /\ UNCHANGED <<live, ghosts, stuck>>

\* River cancels the context of a job after its timeout (a minute: neither
\* worker declares its own).  The import loop returns, and with a cancelled
\* context neither the row nor the notification can be written.
Timeout(u) ==
    /\ wk[u].pc \in {"read", "copy", "rows", "ok", "failed"}
    /\ lost' = [lost EXCEPT ![u] = TRUE]
    /\ Return(u, TRUE)
    /\ UNCHANGED <<job, live, note, runs, blind, before, stuck>>

\* The worker process dies at any point, with all its attempts; statements
\* already run stay.  The one that takes its place has all its slots.
Die ==
    /\ Busy # {} \/ stuck > 0
    /\ wk' = [u \in Uploads |-> IF u \in Busy THEN [wk[u] EXCEPT !.pc = "dead"] ELSE wk[u]]
    /\ lost' = [u \in Uploads |-> lost[u] \/ u \in Busy]
    /\ stuck' = 0
    /\ UNCHANGED <<jobVars, live, note, runs, blind, before>>

\* River rescues a job that has been running for too long.  It cannot stop an
\* attempt whose count spins: that one goes on holding its slot.
Rescue(u) ==
    /\ queue[u] = "running" /\ wk[u].pc \in {"dead", "spin"}
    /\ stuck' = IF wk[u].pc = "spin" THEN stuck + 1 ELSE stuck
    /\ wk' = [wk EXCEPT ![u] = Idle]
    /\ queue' = [queue EXCEPT ![u] =
                    IF att[u] < MaxAttempts THEN "available" ELSE "discarded"]
    /\ UNCHANGED <<job, att, file, live, note, ghosts>>

\* The user deletes an imported QSO (a soft delete: the row is not live).
DeleteQSO(u, k) ==
    /\ live[u][k] > 0
    /\ live' = [live EXCEPT ![u][k] = @ - 1]
    /\ UNCHANGED <<jobVars, wk, note, ghosts, stuck>>

Step(u) ==
    \/ LoadFails(u) \/ Skip(u) \/ Load(u)
    \/ QRZFetchFails(u) \/ CountSpins(u) \/ Start(u) \/ StartFails(u)
    \/ ReadRecord(u)
    \/ \E fails \in BOOLEAN : DeduplicateBatch(u, fails)
    \/ CopyFrom(u) \/ CopyFails(u) \/ InsertSingleQSO(u)
    \/ ReadAll(u) \/ Finish(u)

ImportNext ==
    \/ Die
    \/ \E u \in Uploads :
        \/ SaveUpload(u) \/ UploadADIF(u) \/ UploadFails(u) \/ UploadQRZ(u)
        \/ Begin(u) \/ Step(u) \/ Timeout(u) \/ Rescue(u)
        \/ \E k \in Keys : DeleteQSO(u, k)

\* Workers run, River starts what is available and rescues what is stuck.
Fairness ==
    \A u \in Uploads : WF_importVars(Begin(u)) /\ WF_importVars(Step(u)) /\ WF_importVars(Rescue(u))

ImportSpec == ImportInit /\ [][ImportNext]_importVars /\ Fairness

---------------------------------------------------------------------------
(* Properties. *)

\* However often River retries or rescues an import, its records are read
\* once: the check of the status before the work, and the guard of
\* StartImportJob, leave a second attempt nothing to do.
RunsOnce == \A u \in Uploads : runs[u] <= 1

\* Every record of a completed import is counted exactly once, as imported,
\* as duplicate or as error, over all batches and also when a COPY fell back
\* to single inserts.
Accounted ==
    \A u \in Uploads : job[u].status = "complete" =>
        job[u].cnt.imported + job[u].cnt.duplicate + job[u].cnt.errors = Len(Contents[u])

\* An import adds no second copy of a QSO, neither of one its own file repeats,
\* wherever the batches are cut, nor of one that an import that is over has
\* left in the logbook, unless a dedup query failed.  (Two imports that overlap
\* may: the dedup query and the COPY are two statements.)
NoSecondCopy ==
    \A u \in Uploads : ~blind[u] => \A k \in Keys :
        /\ live[u][k] <= 1
        /\ \A v \in before[u] : ~(live[u][k] > 0 /\ live[v][k] > 0)

\* A finished River job leaves an uploaded file behind only when an attempt
\* died or never came back.
LeakOnlyByLoss ==
    \A u \in Uploads : queue[u] \in {"completed", "discarded"} /\ file[u] => lost[u]

\* Every slot of the worker process is held by a count that spins.
Stalled == stuck + Cardinality({v \in Uploads : wk[v].pc = "spin"}) >= Slots

\* An accepted import ends in River's books, whatever dies on the way, unless
\* counts that spin hold all the slots: then no job of any kind runs again
\* until the process is restarted.
Settles ==
    \A u \in Uploads :
        queue[u] = "available" ~> queue[u] \in {"completed", "discarded"} \/ Stalled
=============================================================================
