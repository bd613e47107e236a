# RadioLedger: a TLA+ model

RadioLedger is a logbook for radio amateurs: a Go API over PostgreSQL with River
background jobs, a signing vault for LoTW certificates, a Tauri desktop client with
an offline queue, and a web client. Its logic, and its risk, is in keeping a user's
contacts (QSOs) in step with services it does not control, and in requests and jobs
that overlap on the same rows. This project models those parts, checks them with TLC
on small instances and proves with TLAPS, for every instance, every safety property that
the runs check: of the synchronisation core, of imports, of confirmations and awards, of
the credential store, of accounts, of an operator's locations, contests and activations,
of alerts and warnings, and of the desktop's queue.

Paths below are relative to the repository; `sync/` stands for
`api/internal/services/sync/`, `handler/` and `jobs/` for those under `api/internal/`.

## 1. Inventory

| Component | State | Operations | Hard part | Module |
|---|---|---|---|---|
| Circuit breaker `sync/infra.go`, `worker_base.go` | a `sync_circuit_state` row per service | AllowCircuit, RecordSuccess, RecordFailure | jobs admitted at different times report in any order or never; `NOW()` is older than the lock | `CircuitBreaker` |
| Rate limiter `sync/infra.go` | a `sync_rate_limit_window` row per service and second | ConsumeRateLimit | callers are counted in the second they began to wait for the lock, others delete old buckets meanwhile | `RateLimiter` |
| `sync_status` rows `sync/orchestrator.go`, `dashboard.go` | a row per QSO and service | a dozen statements and a trigger | writers with different WHERE clauses | `SyncStatus` |
| QSO handler, sync handler, dashboard, scheduler | `qsos`, River jobs | create, edit, delete, retry, cancel, bulk, sweep | they act on rows a worker has in hand | `SyncHost` |
| Club Log and eQSL workers | River jobs | upload in batches, poll, delete | read, call, then write row by row; partial acceptance | `BatchUpload` |
| QRZ worker `sync/qrz_worker.go` | River jobs, LOGID | INSERT / REPLACE, poll | duplicates, lost answers | `QRZUpload` |
| LoTW upload `sync/lotw_worker.go`, `handler/lotw.go` | `lotw_sync_jobs`, `lotw_sent_at` | trigger, sweep, sign, upload, mark | overlapping jobs, errors that are passed over | `LoTWSync` |
| Imports `jobs/adif_import.go`, `qrz_import.go` | `import_jobs`, file | upload, two passes, dedup, COPY, progress | retried and rescued jobs, attempts that never return, fallbacks, overlapping imports | `Import` |
| Confirmations `services/confirmation/`, the two pulls | `qso_confirmations`, checkpoints | match, confirm, reject, pull | both sides match at once; a checkpoint may pass a card | `Confirmations` |
| Awards `jobs/award_*`, `handler/awards.go` | `award_progress`, dirty flags | refresh, milestones, pages | delete, query and rewrite in autocommit | `Awards` |
| Credential store `sync/postgres_store.go`, rotation tool | encrypted rows, keyrings | save, verify, delete, rotate | a row changes between read and write | `Credentials` |
| LoTW vault `lotw-vault/`, `handler/lotw.go` | certificates, passwords | import, rotate, delete, sign | three stores written one after the other | `Vault` |
| Accounts `handler/auth.go`, `members.go`, `invites.go`, `logbook.go` | users, invites, logbooks, keys, tokens | register, log in, provision, invite | checks outside the transaction that relies on them | `Accounts` |
| Locations, callsigns, contests, activations | rows with a default, sessions, activations | requests of one account | READ COMMITTED races | `Operations` |
| Spots, notifications, certificate warnings | spots, rules, notifications | poll, check, requests | overlapping polls, one statement dooms all | `Alerts` |
| Desktop queue `desktop/src-tauri/src/` | SQLite queue and cache, state lock | enqueue, push, pull, immediate post | overlapping cycles, lost answers, bodies that are refused | `DesktopQueue` |
| Retry delay, service health, callsign registers, statistics, parsers, user interfaces | - | - | see section 6 | - |

The server's components interact through the database and the job queue only: handlers
write rows and insert jobs; workers read rows, call a service, and write rows back; the
scheduler inserts jobs again. Nothing holds a lock across a service call, so every
worker acts on a snapshot. `PROJECT.json` lists every component with its status, and
under `hazards` the places where this goes wrong in ways that are hard to test.

What makes each part correct: a tripped circuit rests, one probe at a time, and never
stays shut; the rate of calls is bounded; `uploaded` is the truth about the service and nothing that waits is
forgotten; `lotw_sent_at` says what LoTW accepted; an import counts every record once
and adds no QSO twice; a confirmation has a ground and is not lost, a card is not
passed over, an award row that is not dirty is right; the table of secrets behaves like
a plain store while keys rotate, and the stored password opens the stored certificate;
an invite is one account and the lockout holds; one default, serial numbers without
gaps, and an export that says it is ready has the stations for it; no spot is listed
whose watchers were to be told and were not; a contact of the desktop is never lost and
reaches the server.

## 2. Modules

| Module | Models |
|---|---|
| `SyncInfra`, `CircuitBreaker` | the breaker's row and its transactions; any number of jobs sharing it |
| `RateLimiter` | the limiter's transactions, from `BEGIN` to the answer, and its buckets |
| `SyncStatus`, `SyncHost` | a `sync_status` row, one operator per statement; one user and one service: handlers, dashboard, scheduler, River, an upload job up to its calls |
| `BatchUpload`, `QRZUpload` | extend `SyncHost` with the calls, polls and deletions of Club Log and eQSL, and of QRZ |
| `LoTWSync` | LoTW: job rows, jobs of other users that name this user's QSOs, the worker's statements, sweep, confirmations |
| `Import` | both imports, from the upload to the notification, and the slots of River's queue they run in |
| `Confirmations`, `Awards` | matching and pulls; `Awards` extends it with progress rows and their refresh, so that cards and edits arrive in the middle of one |
| `SecretStore`, `Credentials`, `Vault` | the abstract store; the encrypted table with its handlers and the rotation tool; `Vault` extends it with the certificate and is shown to implement `SecretStore` |
| `Accounts`, `Operations`, `Alerts` | requests and jobs of accounts, of an operator's other data, and of notifications |
| `DesktopQueue` | the desktop's queue with the API's side of a push |
| `MC*`, `*Proofs` | instances for TLC; theorems and proofs |

**How state corresponds to code.** A QSO's uploaded fields are a version number,
incremented by every edit; elsewhere a `slot` stands for the fields that tell contacts
apart. `row[q]` is the row of `sync_status` with its status, `due` (`next_retry_at`
NULL or past) and `hasId` (`remote_id` set); `remote[q]` is the version the service
holds; `pc`, `todo`, `batch` and `snap` are the locals of the running job. In
`LoTWSync`, `sentAt` is `lotw_sent_at`, `arrl[q]` what LoTW accepted. In the modules of
requests a variable is a table (or a map in memory), and `req[p]` the locals of the
request that `p` serves. A secret is the number of the request that brought it, a
ciphertext a pair of a key and a secret. A body of the desktop is the set of its field
names; with the values the table's CHECKs refuse (`chk_qso`) it decides whether the server
takes it. In `LoTWSync` the status of a job's row is left out: nothing reads it. In
`Confirmations` the cards of a report or an inbox beyond `ReportLimit` or `InboxLimit` are cut
off, which stands for the byte limits of the readers. In `Operations` a slot is a callsign on
a band, `CallOf` its callsign, and `padded` says that it was typed with blanks.

**Granularity.** A statement outside a transaction is a step; so is a service call,
which fixes both what the service holds and what the caller was told (a lost answer).
A transaction is a step where nothing can be noticed between its statements;
`Operations` and `Alerts` split transactions where READ COMMITTED lets another one come
in between, and keep the rows a transaction has written in its record until it commits.
In `CircuitBreaker` a transaction takes at most `LockWait` ticks from its start
(`NOW()`) to its lock. On the desktop, a SQLite statement or a request with its answer
is a step, and the application may die between any two.

**External parts**, modelled from their use. River: a unique insert that finds a
waiting or running job is dropped; a job that dies is run again or discarded; timed out
attempts may still be writing. LoTW jobs have no uniqueness. The services are what the
clients read of their answers; QRZ is taken to keep what it has on a duplicate
INSERT. PostgreSQL: row locks, unique indexes, row level security, a failed statement
that dooms its transaction. Clocks, the user, and processes that stop.

**History variables** state the exceptions the code really has as narrowly as possible.
No action's effect on the program's own state depends on them. `raced`, `unaccepted`
(uploads), `raced`, `claimed` (LoTW), `probe`, `probeAge`, `sinceTrip` (breaker), `permits` (limiter), `lost`, `blind`, `before`,
`runs` (imports), `said`, `applied`, `excused`, `missed`, `raced` (cards and awards), `suspect`,
`vouched`, `torn`, `rekeyed` (credentials), `guesses`, `raced` (accounts), `given`, `seen`
(operations), `watchers` of a spot (alerts), `twice`, `latest` (desktop). Where one of
them stands for what a hazard is about, the hazard's note in `PROJECT.json` says so: the
property then claims that nothing else breaks the promise, not that the code keeps it there.

**Left out on purpose.** `ResolveSyncConflict` (nothing inserts `sync_conflicts`); the
LIMITs of the upload fetches; edits of the fields by which a service tells QSOs apart;
`CascadeConfirmation` (never enqueued); bands beside modes in the watch rules; pages
of lists; River's uniqueness of a pull by its arguments, which include the date it asks
from (a service has one pull at a time here); the order of two rows of the desktop's queue with one
`created_at` text (ids stand for it); plan limits of an account (a refused create, and
assumed not to last); the desktop's LoTW bridge, and what its cached rows hold. The QRZ
loop's `continue` for a record that cannot be formatted (`sync/qrz_worker.go:128`) is never
taken: `qsoRowToSingleADIF` returns no error.

## 3. Runs

| Run | Instance | Shows |
|---|---|---|
| `Infra` | 3 jobs x 2 calls, threshold 2, recovery 2, lock wait 1, fair clock; or 3 callers, 1 call a second, lock wait 1, buckets kept 1, 4 seconds, 4 transactions before the last begin | `RowConsistent`, `SingleProbe`, `RecoveryKept`, `NeverStuck`, `RateKept` |
| `EQSLUpload` | 2 QSOs, 2 versions, batch of 2, every failure on | `UploadedWasSent` |
| `ClubLogLive` | 2 QSOs in batches of 1, fair | `PendingServed`, `ErrorRetried`, `DeletedLeavesClubLog` |
| `QRZUpload` | 2 QSOs, 2 versions, every failure on | `UploadedAtQRZ` |
| `LoTWLive` | 1 QSO, 2 versions, 2 overlapping jobs of this or another user, fair | `SentWasAccepted`, `UnsentIsSent` |
| `Import` | an ADIF and a QRZ import, batches of 2, 2 attempts, 2 slots, fair | `RunsOnce`, `Accounted`, `NoSecondCopy`, `LeakOnlyByLoss`, `Settles` |
| `Accounts` | 2 requests at a time, 4 in all, 3 user ids, 2 addresses, 2 wrong passwords lock | `InviteSpent`, `GuessesBounded`, `CallsignsCollideOnlyInRace` |
| `Awards` | 2 users, 3 QSOs, 2 workers, 2 to 4 requests, cards and failures, files cut after 1 card; 5 setups | `ConfirmedHasGround`, `CardsAccounted`, `ConfirmedStays`, `CleanIsCurrent`, `MilestoneOnce` |
| `Credentials` | 2 requests, 1 restart, rotation in batches of 1 | `VerifiedHonest`, `CertOpens`, `ImplementsStore` |
| `Operations` | 2 requests at a time, 5 in all, 3 QSOs of 3 slots, 3 rows a table, 1 park | `OneDefault`, `SerialsGapless`, `CabrilloScoresOnce`, `ExportHonest` |
| `Alerts` | 2 polls that overlap, feed of 2, 3 jobs, 2 requests, clock to 2 | `WatchersTold`, `WarningsSpaced` |
| `DesktopQueue` | a typed contact, one the table refuses and a WSJT-X contact, the loop and "Sync Now", cycles of 2 rows, 1 event, fair | `NothingLost`, `TwiceOnlyByLoss`, `EditWaits`, `WaitingIsPushed` |

Each property's comment states it in words, with its exceptions. In `Infra` a behaviour is
one of the breaker or one of the limiter: they keep two tables under two locks, and no
transaction touches both. `BucketKept` of the limiter is in no run; it is proved.

**Bounds.** Two QSOs are the least for which a call has rows that are marked one after
the other; two versions the least for which a snapshot is stale. Three jobs are a
straggler, a stale probe and its successor; threshold 2 separates "one failure" from
"trips", recovery 2 with lock wait 1 keeps "too early by the lock wait" apart from "too
early". For the limiter a wait of one second and a third caller suffice for a caller of a later
second to come first and delete buckets. Two LoTW jobs are the least that overlap, and a slot is used again. The ADIF
file repeats a QSO inside a batch and across two, and holds a record that cannot be
mapped; the QRZ log repeats it again; two slots for two imports let one or both be held by
attempts that spin. Two requests at a time make every race of two
handlers; four or five in all let a third party build on its outcome. The setups of
`Awards` divide the budget: matching, pulls, refreshes of two types beside edits, of
one type beside a pull, and of all nine types; a limit of one card makes two cards a file
that is cut. In `Credentials` a batch of 1 makes the
rotation take several rounds. Retention and window of `Alerts` lie on both sides of the clock's range, and its rules have no
mode: with one the run does not end in time, and the proofs cover them. On the desktop a
cycle takes two rows, so that a refused row may come before one the server takes, and two
refused rows fill the cycle; the event is an edit, a logout, a "Sync Now", a restart, a
lost answer or mark, or an expiry. The theorems of section 4 remove the bounds for
every safety property of the runs. In the live uploads `BestEffort`, `CredsFail` and `PartialAccept` are FALSE:
with a failing insert or bad credentials the rows are rightly not served; jobs still
die, are snoozed, dropped and discarded. Deadlock is not checked where the number of
requests or events is bounded: there a behaviour ends because nobody asks any more.

**Fairness.** Breaker: only that time passes. Uploads: the sweep is a periodic River
job (WF); a waiting job starts (SF, since the breaker may refuse it for a while, and
`NeverStuck` says not for ever); dead jobs are rescued (WF, River's rescuer); back-offs
end (WF, a clock); a job gets past each place and a call that carries a QSO is answered
in the end (SF: processes die and calls time out, not for ever at the same place).
LoTW: the same with a free slot for the sweep's job. Imports: a job that is available
begins when one of the slots is free, goes on or dies, and is rescued (WF); nothing is assumed of
an attempt that spins, which keeps its slot until the process ends, so that `Settles` promises an end
only while a slot is left (`Stalled`). Desktop: the loop's cycles go on (WF) and
nothing fails for ever: local files are read, the logbook is found, the server is reached, a token
is refreshed, and the server takes a contact whose fields and values it does not refuse (`Welcome`), the
account's plan not being at its limit for good (SF on each). No fairness is assumed of users, edits, polls or deletions.

**Mutants.** Each property has a mutated definition in a module (marked `Mutant:`), a
plausible bug of that code, under which TLC finds it violated.

**Refinement.** `SecretStore` knows neither keys nor tools: a service has a secret,
which changes only when a request that asked for it commits, once, with the value it
brought. The instance `Abstract` of `Vault` maps each encrypted row to the secret that a
holder of both keys reads from it, and `ImplementsStore` says that every step of handlers,
rotation tool and vault is a step of that store or leaves it alone: re-encryption never
brings back a secret that was replaced, nor a row that was deleted.

## 4. Proofs

| Theorem | States |
|---|---|
| `SyncProofs!CircuitTypeCorrect`, `RowsConsistent`, `OneProbe`, `Recovers` | the types and the three safety properties, for every set of jobs, threshold, recovery timeout and lock wait |
| `SyncProofs!LimiterTypeCorrect`, `BucketsKept`, `RateBounded` | the types, `BucketKept`, `RateKept` for every number of callers, limit, lock wait and number of seconds |
| `UploadProofs!TypeCorrect`, `UploadedSent` | `UploadedWasSent` for every set of QSOs, number of versions, batch size and failure assumption |
| `UploadProofs!DeletedLeaves` | `DeletedLeavesClubLog`, for Club Log where delete jobs are enqueued and have credentials |
| `UploadProofs!QRZTypeCorrect`, `UploadedHeld` | `UploadedAtQRZ`, likewise for every set of QSOs and failure assumption |
| `SyncProofs!TypeCorrect`, `SentAccepted` | `SentWasAccepted` for every set of QSOs and every number of overlapping jobs of any users |
| `AwardsProofs!ConfirmedWithGround`, `NoCardPassed`, `ConfirmationsStay` | `ConfirmedHasGround`, `CardsAccounted`, `ConfirmedStays` for every set of users, QSOs, workers and setups |
| `AwardsProofs!CleanRowsCurrent`, `MilestonesOnce` | `CleanIsCurrent`, `MilestoneOnce`, likewise |
| `VaultProofs!StoreImplemented` | `ImplementsStore`: `Vault` implements `SecretStore`, for every set of inputs, number of requests and restarts, and batch size |
| `VaultProofs!TypeCorrect`, `StampsHonest`, `CertificateOpens` | the types, `VerifiedHonest`, `CertOpens`, likewise |
| `AccountsProofs!TypeCorrect`, `InvitesSpent`, `GuessesLimited`, `CallsignsApart` | the types, `InviteSpent`, `GuessesBounded`, `CallsignsCollideOnlyInRace` for every set of users, addresses, codes and callsigns and every number of requests at a time |
| `OperationsProofs!TypeCorrect`, `DefaultUnique`, `NumbersGapless`, `StationScoresOnce`, `ExportsHonest` | the types, `OneDefault`, `SerialsGapless`, `CabrilloScoresOnce`, `ExportHonest` for every set of rows, QSOs and requests at a time |
| `JobsProofs!TypeCorrect`, `WatchersAreTold`, `WarningsApart` | the types, `WatchersTold`, `WarningsSpaced` for every number of overlapping polls, feed, set of rules and modes, retention and window |
| `JobsProofs!ImportTypeCorrect`, `RecordsReadOnce`, `RecordsAccounted`, `NoCopiesAdded`, `FilesLeaveWithTheJob` | the types, `RunsOnce`, `Accounted`, `NoSecondCopy`, `LeakOnlyByLoss` for every set of uploads, every file, batch size, number of attempts and of slots |
| `DesktopQueueProofs!TypeCorrect`, `ContactsKept`, `CopiesExplained`, `EditsKept` | the types, `NothingLost`, `TwiceOnlyByLoss`, `EditWaits` for every set of contacts, cycle size and number of events |

Assumptions are the named ASSUMEs on the constants (numbers are naturals, positive where
the code has them so, flags Boolean, the service one of three, an owner for every QSO, NULL not a number);
TLC evaluates them in the runs. `AwardsAssumption` says that every setup refreshes `dxcc`:
the worker's loop always runs over all types, and `dxcc` is the first of them.
`DeletedLeaves` alone has a hypothesis, `DeletesArrive`: without it the goroutine that
enqueues the delete job may fail with a log line, or the job may end without its call, and
the QSO stays.

*Breaker.* `RowConsistent` is inductive with the types alone. `SingleProbe` is not:
`HistoryFollows` ties the history to the row (probes exist in half_open only, and
`updated_at` and `opened_at` are older than the admission and the trip they stamp by at
most the lock wait), from which "the flag is stale" yields "the earlier probe is old".

*Limiter.* A permit is known by its bucket and its number there. `LimiterInv` says that no
number is given twice (`NumbersUnique`), which holds because a bucket that a transaction
under way may still count in is not deleted: the row has counted every permit of it
(`PermitOK`). This needs that no transaction outlasts a bucket (`Patience <= Retained`: River
cancels a job after a minute, and a bucket is kept for one). The permits of some buckets are
then mapped one to one into buckets x numbers (`PermitsCounted`), which bounds how many
there are; a permit given in a second is of a bucket at most the lock wait older.

*Uploads.* `UploadProofs` proves once, for both kinds of upload, what every step outside the calls preserves:
`HostInv` (a held QSO that was not raced still has the version in `snap`; a QSO not
logged has no row and is in no job's hand; delete jobs are for deleted QSOs) and
`HostEffect`, an abstraction of all those steps: `remote` stays, a row that says
`uploaded` said so before and its QSO was not edited, and the batch being recorded stays
what it is. `UploadInv` adds `SentIsThere` (while a success is recorded, the batch's
QSOs are at the service at the version read), which is what makes `markUploaded`
truthful; `QRZInv` adds the same for the answers `sent` and `duplicate`. Without these
the invariant is not inductive: the truth of the mark depends on a call some steps
earlier. `DeletedInv` says of every moment what `DeletedLeavesClubLog` says of the quiet
ones: a deleted QSO not raced is in no job's hand, and absent or due for a delete job.

*LoTW.* `IInv` adds to `SentWasAccepted`: a file entry of a QSO not raced is its
current version; a job of this user past its fetch has every id of its row that is not deleted in its
file (`FileCoversIds`, which is why marking by ids is right although the file may hold
fewer), while what a job of another user marks is in `claimed`; after acceptance what is in the file is at LoTW, at the current version unless
raced; a QSO not logged has left no trace.

*Confirmations.* `ConfInv`: a match job remembers a contact of somebody else, which is why
two verified operators stand behind a match made from a stale read, and that their rows once said
the same (`said`), which an edit since does not undo. For the cards the
invariant follows a pull through its steps: what is older than the date it asked from is
accounted for, what is older than the mark it will write is among the records at hand, and
of those the ones already gone through are applied or excused, as are those that were cut off. Only then may the checkpoint
move; eQSL's, the clock, is covered by `excused`.

*Awards.* A refresh is a chain of statements per type, so `CacheInv` says how far it has
come: a refresh to be relied upon is the only one of its user (`OkIsAlone`), the types before
its own are current, and of its own type the keys written so far are right. `NoteInv` does
the same for announcements: a refresh not raced has not yet sent what it is about to send, and
the notes there are, with the refreshes that found none and are about to send one, are no more
than the workers (`Counted`), since a refresh that finds one sends none.

*Vault.* The refinement maps each row to the secret a holder of both keys reads from it,
and a request in flight to one that asked and has not committed. `TableInv` makes the
steps map: a cipher is of one of the three keys, so that re-encrypting keeps what is read;
the tool's copy of a row is the row as it is, because the row is locked; a request is at a
stage of its kind and a save brings its own secret. The proof has one step per action of
handlers, tool and vault, each a step of `SecretStore` or a stutter. `StampInv` says what
the requests that are about to stamp a row will find there while nothing is suspect,
`CertInv` what an import or a removal that runs alone has done to the three stores so far.
`KeyFits` says that a row stored since the last change of keys is under the server's key.

*Accounts.* `InviteSpent` needs that a row not yet used has no invite and a code not yet
issued no use (`NewIsUnused`), and that where the server asks for a code every request
about to spend one has it; the account and its use then come in one step. `GuessesBounded`
is not inductive: `LockInv` counts the logins under way. Without a lock the tracker's count
is the number of guesses; under one, even one that is over but not forgotten, guesses and
logins under way together stay below the bound, since a new login is admitted only after the
lock is forgotten. For the callsigns `CheckStands` says that what a request found when it
looked still holds, and `PairsRaced` that two requests with one callsign have been noted.

*Operations.* `SoleFlag` is `OneDefault` of the committed rows, since clearing and setting
commit together and the cleared rows are locked. For the numbers `NumberInv` follows a
`LogQSO` from the counter it has raised to the row it inserts: only one request at a time
is between the two (the session is locked), the number it carries is the next one, and
below it there is no gap. `ScoreInv` follows the dupe check: what a request saw there are
contacts in use, and one that found no dupe has none among them, unless it was edited
since or typed with blanks; the insert carries this over to the log. For `ExportHonest` the invariant `ReadyCounted`
keeps what the first query of an export counted: live contacts of the activation's reference with the
stations a ready answer needs, which the second query lists as long as they do not change.

*Alerts.* `watchers` of a spot are the rules whose owners were to be told when it was
stored. `PollsOK` says that in a poll that may still commit they are those of matches not
gone through yet; a match whose owner is to be told dooms the poll instead of being gone
through, so that a poll with no match left stores spots without watchers only, and a doomed
one nothing. `WarningsSpaced` is inductive once ids are known to be given in order
(`NotesOK`).

*Imports.* `ImportInv` is a conjunction for each import. `StatusOK`: a row that is pending
was not read, and an attempt that reads has found it pending and moved it on, so that
`runs` is 1 and stays so. `CountOK`: while an attempt works, the records read are those
counted plus those in the batch, a set of positions in the file; a step moves rows from the
batch to one of the counters (`CountedOnce`, `Moved`). `NoSecondCopy` needs the moment
between the dedup query and the inserts (`DedupOK`): the rows at hand have keys that are
neither in the logbook from this import nor from an earlier one, and no two share a key; it
stays so because an import in `before` does not insert any more (`BeforeOK`), which in turn
follows from its row. `StepOfOne` reduces a step of one import to what it means for the
others. `LeakOK`: the attempts that ended without their deferred removal are lost.

*Desktop.* A contact stops waiting only by a mark, and the mark follows an answer:
`StoredIsThere` says that a cycle about to mark a row as synced has its contact on the
server. For the copies `WaitingIsNew` says that a waiting contact is not on the server but
for the step between answer and mark, which needs that cycles share only rows of contacts
in `twice` (`SharedNoted`) and that what a cycle has in hand waits (`InHandWaits`). For the
edits the proof shows more than `EditWaits`: the server refuses the body of every edit, so
that the last one waits for good (`EditIsQueued`).

Only model-checked: the liveness properties (`NeverStuck`, `PendingServed`,
`ErrorRetried`, `UnsentIsSent`, `Settles`, `WaitingIsPushed`), since liveness under
fairness is out of the prover's reach.

## 5. What the models say about the code

The models follow the code where it differs from what a comment, a document or a reader
would expect; the properties name these cases as exceptions. The main ones:

*Synchronisation.* The limiter lets callers that waited together through together
(`sync/infra.go:183`): more than `RateLimitRPS` calls may start in one second. `RecordSuccess` writes `closed` whatever the state (`sync/infra.go:314`):
a straggler's success closes a circuit just tripped, which the comment below it
excludes. eQSL's sweep counts pending and dirty rows only (`sync/orchestrator.go:863`), so that
failed rows wait for the next new one, although `docs/sync/index.md:56` promises
retries. A QRZ duplicate counts as done (`sync/qrz_worker.go:151`) also after an edit,
when QRZ holds the old version. The UPDATEs of `lotw_sync_jobs` name columns the table
does not have (`sync/lotw_worker.go:320`), and their errors are passed over: no job row
settles. An edited QSO keeps `lotw_sent_at`, so that its pending LoTW row is not served. A sync request may
name any QSO ids (`handler/lotw.go:296`): the worker signs the caller's own, but marks all of
them as sent (`sync/lotw_worker.go:366`), another operator's in a shared logbook too.

*Imports.* `countADIFRecords` does not leave its loop on `ErrTooManyRecords` or a cancelled
context: the attempt spins, and after River has given it up its goroutine still holds one of the
four slots that all jobs share (`handler/import.go:605`), so that four such files stop every job
until a restart; an import stopped by River's timeout stays `processing`; a dedup query that fails lets all
rows of its batch in; some fields counted as mapped are never mapped; `SET ROLE` stays on
a pooled connection.

*Awards and confirmations.* The refresh runs as `radioledger_worker`, whose policies show it
every logbook, and its queries filter by no user: a user is credited with everybody's
contacts, although `jobs/award_refresh_worker.go:3` says "for a single user" (`WorkerSees`). A refresh is not atomic; a new QSO and a pull flag no
row, and nothing enqueues `award_refresh` after an edit as its comment says;
overlapping refreshes announce a milestone twice, and one whose notification was deleted
or is over a year old is announced again. A report over 2 MiB or an inbox over 10 MiB is cut, the cut
reads as its end (`services/lotw/report.go:133`, `inbox.go:205`), and the checkpoint still
moves past the cards cut off. eQSL's checkpoint is the
clock after the pull (`sync/eqsl_confirmation_worker.go:174`).

*Credentials and vault.* The rotation tool writes key version 2, but the server builds its
keyring from `MASTER_KEY` as version 1 (`crypto/crypto.go:80-92`): after the procedure of
`docs/self-hosting/security.md:39` no server reads the rotated rows, before or after its restart
with the new key (`rekeyed` is this exception of `CertOpens`). HamQTH and POTA secrets are stamped as
verified without a test (`sync/postgres_store.go:49`), though `docs/SCHEMA.md:1324` and
`docs/user-guide/settings.md:45` say that verified means tested; `VerifiedHonest` is about the
services that are tested.
`RotateKey` stops at the first short batch. A stamp may be put on a secret saved
meanwhile. `sota` is missing in the CHECK of the services. The certificate is
imported before its password is stored, and `RotatePassword` never stores the new one.

*Accounts.* Row level security hides other users from the member handlers, so that invitations,
role changes and transfers never reach another account; deleting a logbook always fails;
a PUT without `is_default` clears it; a deleted Zitadel user cannot come back, since `zitadel_id` is
unique over deleted rows too; of two owners of a callsign the check may find either; the uniqueness of callsigns and the limit of invites are checked outside the transactions.

*Operations and alerts.* The dupe check precedes the lock of the session, and compares the callsign as
typed while the insert trims it (`handler/contests.go:508`): a station typed with a blank scores
twice. Defaults are
cleared and set by two statements; an activation's update writes back what it read; a contact without
a grid makes the export fail (a NULL scanned into a string). The worker's role has a policy for updates of `spot_watch_rules` but no grant (`001_initial_schema.sql:2499-2509`), so that the
stamp after an alert (`jobs/spot_poller.go:177`) fails, and dooms the poll, which goes on
regardless: no alert is ever committed, though `001_initial_schema.sql:2037` says "Matching
spots generate in-app notifications", and while the feed holds a spot that one user's rule
matches, no spot is stored for anybody. Certificate warnings come again every 25 days, though
`jobs/cert_expiry_check.go` says "once".

*Desktop.* The server refuses unknown fields (`handler/common.go:156`), and its request
type (`handler/qso.go:47`) has no country, zones or continent, which every edit carries
and the callsign lookup adds: edits wait for ever, and so do WSJT-X contacts while the lookup works;
the immediate post is refused always. A power of 0 W, which the form allows, or a long report is refused by the table's CHECKs for ever.
Refused rows are never given up and come first: 50
of them block the queue. There is no back-off (`sync/mod.rs:4` says exponential).
`client_uuid`, "used for server-side deduplication" (`db.rs:32`), is not sent by the
loop: a lost answer or two cycles at a time store a contact twice. When the logbook cannot be
resolved, `sync/mod.rs:645-651` waits for the lock it holds. Only a push refreshes an
expired token; a refresh that ends after a logout stores its token again; the queue
survives a logout and is pushed to the next account.

## 6. Not modelled, and the plan

Without a protocol, or out of reach: text formats (ADIF, Cabrillo), cryptography, OIDC,
statistics, the national callsign importers, HamQTH, POTA and SOTA workers (the QRZ
worker without REPLACE and duplicates), service health, propagation and ZCTA pollers,
the limiter of the API, wiring, radio and UDP parsing, user interfaces. `PROJECT.json`
gives the reason for each component.

Next, in this order:
1. `RetryDelay`: delay bounds and overflow against a reference over all retry counts;
2. an abstract breaker (closed, resting, probing) that `CircuitBreaker` implements, and an
   abstract upload (what is owed, what was delivered) for `BatchUpload` and `QRZUpload`;
3. the scheduler's tiers and intervals; the LIMIT of the upload fetches; the desktop's
   LoTW bridge; a log of several pages in the pull.
