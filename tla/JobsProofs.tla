----------------------------- MODULE JobsProofs -----------------------------
(***************************************************************************)
(* Proofs about the background jobs.                                       *)
(*                                                                         *)
(* Import, for every set of uploads, every file and every batch size: the  *)
(* records of an import are read once however often River retries, every   *)
(* one is accounted for, no second copy of a QSO is added, and an uploaded *)
(* file outlives its job only when an attempt was lost.                    *)
(*                                                                         *)
(* Alerts, for every number of polls that overlap, every set of rules,     *)
(* spots and certificates, and every feed: no spot is stored whose         *)
(* watchers were to be told and were not, and a warning of a certificate   *)
(* is not repeated within its window.                                      *)
(***************************************************************************)
EXTENDS Import, Alerts, FiniteSetTheorems, SequenceTheorems, WellFoundedInduction, TLAPS

-----------------------------------------------------------------------------
(***************************************************************************)
(* Imports: types.                                                         *)
(***************************************************************************)
Counts == [total : Nat, imported : Nat, duplicate : Nat, skipped : Nat, errors : Nat,
           warnings : Nat]
ImportRows == [status : {"none", "pending", "processing", "complete", "error"}, total : Nat,
               cnt : Counts]
Attempts == [pc : {"idle", "load", "count", "spin", "read", "copy", "rows", "ok", "failed", "dead"},
             pos : Nat, batch : SUBSET Nat, cnt : Counts]

ImportTypeOK ==
    /\ job \in [Uploads -> ImportRows]
    /\ queue \in [Uploads -> {"none", "available", "running", "completed", "discarded"}]
    /\ att \in [Uploads -> Nat]
    /\ file \in [Uploads -> BOOLEAN]
    /\ wk \in [Uploads -> Attempts]
    /\ live \in [Uploads -> [Keys -> Nat]]
    /\ note \in [Uploads -> {"none", "complete", "error"}]
    /\ runs \in [Uploads -> Nat]
    /\ blind \in [Uploads -> BOOLEAN]
    /\ before \in [Uploads -> SUBSET Uploads]
    /\ lost \in [Uploads -> BOOLEAN]
StuckOK == stuck \in Nat

-----------------------------------------------------------------------------
(***************************************************************************)
(* Imports: the inductive invariant, for each import.                      *)
(***************************************************************************)

\* An attempt between StartImportJob and its return, and one that may insert.
Inserting == {"read", "copy", "rows"}
Working == Inserting \cup {"ok", "failed"}

\* The row leaves pending when the records begin to be read, and stays
\* processing as long as they are; nobody reads them again.
StatusOK(u) ==
    /\ queue[u] = "none" => job[u].status = "none"
    /\ job[u].status \in {"none", "pending"} => runs[u] = 0
    /\ runs[u] <= 1
    /\ wk[u].pc = "count" => job[u].status = "pending"
    /\ wk[u].pc \in Working => job[u].status = "processing" /\ runs[u] = 1

\* What was read is counted or still in the batch.
Sum(c) == c.imported + c.duplicate + c.errors
CountOK(u) ==
    /\ wk[u].pos <= Len(Contents[u])
    /\ wk[u].batch \subseteq 1..wk[u].pos
    /\ wk[u].pc \in {"load", "count"} => wk[u].pos = 0 /\ wk[u].batch = {} /\ wk[u].cnt = NoCount
    /\ wk[u].pc \in Inserting \cup {"ok"} =>
         Sum(wk[u].cnt) + Cardinality(wk[u].batch) = wk[u].pos
    /\ wk[u].pc = "ok" => wk[u].pos = Len(Contents[u]) /\ wk[u].batch = {}
    /\ job[u].status = "complete" => Sum(job[u].cnt) = Len(Contents[u])

\* Only a lost attempt leaves its file to nobody.
LeakOK(u) ==
    /\ wk[u].pc \in {"dead", "spin"} => lost[u]
    /\ queue[u] \in {"completed", "discarded"} /\ file[u] => lost[u]

\* An import that was over when u began does not insert again.
BeforeOK(u) ==
    \A v \in before[u] : v # u /\ runs[v] > 0 /\ wk[v].pc \notin Inserting

\* The rows about to be inserted are in the logbook neither from this import
\* nor from an earlier one, and no two of them are of one QSO.
Fresh(u, i) ==
    /\ KeyAt(u, i) \in Keys
    /\ live[u][KeyAt(u, i)] = 0
    /\ \A v \in before[u] : live[v][KeyAt(u, i)] = 0
DedupOK(u) ==
    /\ runs[u] = 0 => \A k \in Keys : live[u][k] = 0
    /\ \A i \in wk[u].batch : KeyAt(u, i) \in Keys
    /\ ~blind[u] =>
         /\ \A k \in Keys : live[u][k] <= 1
         /\ \A k \in Keys, v \in before[u] : live[u][k] = 0 \/ live[v][k] = 0
         /\ wk[u].pc \in {"copy", "rows"} =>
              /\ \A i \in wk[u].batch : Fresh(u, i)
              /\ \A i, j \in wk[u].batch : KeyAt(u, i) = KeyAt(u, j) => i = j

OneImport(u) == StatusOK(u) /\ CountOK(u) /\ LeakOK(u) /\ BeforeOK(u) /\ DedupOK(u)
ImportInv == ImportTypeOK /\ \A u \in Uploads : OneImport(u)

-----------------------------------------------------------------------------
(* Imports: lemmas on the operators. *)

LEMMA SmallestIsIn ==
    ASSUME NEW S \in SUBSET Nat, S # {}
    PROVE  Min(S) \in S
  <1>1. PICK x \in S : \A y \in S : ~(<<y, x>> \in OpToRel(<, Nat))
    BY WFMin, NatLessThanWellFounded, Zenon
  <1>2. \A y \in S : ~(y < x)
    BY <1>1, Zenon DEF OpToRel
  <1>3. \A y \in S : x <= y
    BY <1>2
  <1> QED BY <1>3 DEF Min

\* One entry of a function changes.
LEMMA OneAt ==
    ASSUME NEW S, NEW T, NEW f \in [S -> T], NEW u \in S, NEW x \in T, NEW g,
           g = [f EXCEPT ![u] = x]
    PROVE  g \in [S -> T] /\ g[u] = x /\ \A v \in S : v # u => g[v] = f[v]
  OBVIOUS

LEMMA FileType ==
    ASSUME NEW u \in Uploads
    PROVE  /\ Contents[u] \in Seq(Records) /\ Len(Contents[u]) \in Nat
           /\ \A i \in 1..Len(Contents[u]) : Contents[u][i] \in Records
  <1>1. Contents[u] \in Seq(Records)
    BY ImportAssumption
  <1> QED BY <1>1

\* A record that is kept has a key.
Kept(r) == ~Garbage(r) /\ MapError(r) = "none"
LEMMA KeptHasKey ==
    ASSUME NEW r \in Records, Kept(r)
    PROVE  KeyOf(r) \in Keys
  <1>1. r.call # "" /\ r.call # "garbage" /\ BandOf(r) # ""
    BY DEF Kept, Garbage, MapError
  <1>2. r.call \in Calls
    BY <1>1 DEF Records
  <1>3. BandOf(r) \in Bands \cup {"nosuchband"}
    BY <1>1 DEF BandOf, InferBandFromFreq, Records
  <1> QED BY <1>2, <1>3 DEF KeyOf, Keys

LEMMA WarningsFinite ==
    ASSUME NEW r PROVE Cardinality(Warnings(r)) \in Nat
  <1>1. Warnings(r) \subseteq {"BAND_INFERRED", "INVALID_FREQ"}
    BY DEF Warnings
  <1>2. IsFiniteSet({"BAND_INFERRED", "INVALID_FREQ"})
    <2>1. IsFiniteSet({"BAND_INFERRED"})
      BY FS_Singleton
    <2>2. {"BAND_INFERRED", "INVALID_FREQ"} = {"BAND_INFERRED"} \cup {"INVALID_FREQ"}
      OBVIOUS
    <2> QED BY <2>1, <2>2, FS_AddElement
  <1> QED BY <1>1, <1>2, FS_Subset, FS_CardinalityType

LEMMA SumIsNatural ==
    ASSUME NEW c \in Counts PROVE Sum(c) \in Nat
  <1>1. c.imported \in Nat /\ c.duplicate \in Nat /\ c.errors \in Nat
    BY DEF Counts
  <1> QED BY <1>1 DEF Sum

\* Rows that leave the batch (x of them, y stay) for one of the counters.
LEMMA Moved ==
    ASSUME NEW a \in Nat, NEW q \in Nat, NEW e \in Nat, NEW x \in Nat, NEW y \in Nat, NEW m \in Nat,
           NEW n \in Nat, NEW p \in Nat, (a + q + e) + x = p, m = x - y, n = q + m
    PROVE  (a + n + e) + y = p
  OBVIOUS

\* Every record read goes to the errors or to the batch.
LEMMA CountedOnce ==
    ASSUME NEW c \in Counts, NEW r
    PROVE  /\ Counted(c, r) \in Counts
           /\ Sum(Counted(c, r)) = Sum(c) + (IF Kept(r) THEN 0 ELSE 1)
  <1>1. PICK n \in Nat : n = Cardinality(Warnings(r))
    BY WarningsFinite
  <1>2. CASE Garbage(r)
    <2>1. Counted(c, r) = [c EXCEPT !.errors = @ + 1]
      BY <1>2 DEF Counted
    <2> QED BY <1>2, <2>1 DEF Counts, Sum, Kept
  <1>3. CASE ~Garbage(r) /\ MapError(r) # "none"
    <2>1. Counted(c, r) = [c EXCEPT !.total = @ + 1, !.errors = @ + 1, !.skipped = @ + 1]
      BY <1>3 DEF Counted
    <2>2. PICK t \in Nat, e \in Nat, k \in Nat : t = c.total + 1 /\ e = c.errors + 1 /\ k = c.skipped + 1
      BY DEF Counts
    <2>3. Counted(c, r) = [c EXCEPT !.total = t, !.errors = e, !.skipped = k]
      BY <2>1, <2>2
    <2>4. /\ Counted(c, r) \in Counts /\ Counted(c, r).imported = c.imported
          /\ Counted(c, r).duplicate = c.duplicate /\ Counted(c, r).errors = c.errors + 1
      BY <2>2, <2>3 DEF Counts
    <2>5. c.imported \in Nat /\ c.duplicate \in Nat /\ c.errors \in Nat
      BY DEF Counts
    <2>6. ~Kept(r)
      BY <1>3 DEF Kept
    <2> QED BY <2>4, <2>5, <2>6 DEF Sum
  <1>4. CASE ~Garbage(r) /\ MapError(r) = "none"
    <2>1. Counted(c, r) = [c EXCEPT !.total = @ + 1, !.warnings = @ + n]
      BY <1>1, <1>4 DEF Counted
    <2>2. PICK t \in Nat, e \in Nat : t = c.total + 1 /\ e = c.warnings + n
      BY DEF Counts
    <2>3. Counted(c, r) = [c EXCEPT !.total = t, !.warnings = e]
      BY <2>1, <2>2
    <2>4. /\ Counted(c, r) \in Counts /\ Counted(c, r).imported = c.imported
          /\ Counted(c, r).duplicate = c.duplicate /\ Counted(c, r).errors = c.errors
      BY <2>2, <2>3 DEF Counts
    <2>5. c.imported \in Nat /\ c.duplicate \in Nat /\ c.errors \in Nat
      BY DEF Counts
    <2>6. Kept(r)
      BY <1>4 DEF Kept
    <2> QED BY <2>4, <2>5, <2>6 DEF Sum
  <1> QED BY <1>2, <1>3, <1>4

LEMMA BatchFinite ==
    ASSUME NEW n \in Nat, NEW S, S \subseteq 1..n
    PROVE  /\ IsFiniteSet(S) /\ Cardinality(S) \in Nat /\ S \in SUBSET Nat
           /\ \A T : T \subseteq S => /\ IsFiniteSet(T) /\ Cardinality(T) \in Nat
                                      /\ Cardinality(S \ T) = Cardinality(S) - Cardinality(T)
           /\ n + 1 \notin S /\ Cardinality(S \cup {n + 1}) = Cardinality(S) + 1
           /\ \A x \in S : Cardinality(S \ {x}) = Cardinality(S) - 1
  <1>1. IsFiniteSet(1..n)
    BY FS_Interval
  <1>2. IsFiniteSet(S) /\ Cardinality(S) \in Nat
    BY <1>1, FS_Subset, FS_CardinalityType
  <1>3. ASSUME NEW T, T \subseteq S
        PROVE  /\ IsFiniteSet(T) /\ Cardinality(T) \in Nat
               /\ Cardinality(S \ T) = Cardinality(S) - Cardinality(T)
    <2>1. IsFiniteSet(T) /\ Cardinality(T) \in Nat
      BY <1>2, <1>3, FS_Subset, FS_CardinalityType
    <2>2. S \cap T = T
      BY <1>3
    <2>3. Cardinality(S \ T) = Cardinality(S) - Cardinality(S \cap T)
      BY <1>2, FS_Difference
    <2> QED BY <2>1, <2>2, <2>3
  <1>4. n + 1 \notin S
    OBVIOUS
  <1>5. Cardinality(S \cup {n + 1}) = Cardinality(S) + 1
    BY <1>2, <1>4, FS_AddElement
  <1>6. ASSUME NEW x \in S PROVE Cardinality(S \ {x}) = Cardinality(S) - 1
    BY <1>2, FS_RemoveElement
  <1>7. S \in SUBSET Nat
    <2>1. \A x \in S : x \in Nat
      OBVIOUS
    <2> QED BY <2>1
  <1> QED BY <1>2, <1>3, <1>4, <1>5, <1>6, <1>7

LEMMA IdleAttempt ==
    /\ Idle \in Attempts /\ Idle.pc = "idle" /\ Idle.pos = 0 /\ Idle.batch = {} /\ Idle.cnt = NoCount
    /\ NoCount \in Counts /\ Sum(NoCount) = 0
    /\ [Idle EXCEPT !.pc = "load"] \in Attempts /\ [Idle EXCEPT !.pc = "load"].pc = "load"
    /\ [Idle EXCEPT !.pc = "load"].pos = 0 /\ [Idle EXCEPT !.pc = "load"].batch = {}
    /\ [Idle EXCEPT !.pc = "load"].cnt = NoCount
  <1>1. NoCount \in Counts /\ Sum(NoCount) = 0
    BY DEF NoCount, Counts, Sum
  <1> QED BY <1>1 DEF Idle, Attempts

-----------------------------------------------------------------------------
(* Imports: the invariant at the start, and what a step leaves alone. *)

LEMMA ImportInitInv == ImportInit => ImportInv
  <1> SUFFICES ASSUME ImportInit PROVE ImportInv
    OBVIOUS
  <1>1. NoJob \in ImportRows /\ NoJob.status = "none"
    BY IdleAttempt DEF NoJob, ImportRows
  <1>2. ImportTypeOK
    BY <1>1, IdleAttempt DEF ImportInit, ImportTypeOK
  <1>3. ASSUME NEW u \in Uploads PROVE OneImport(u)
    <2>1. /\ job[u].status = "none" /\ wk[u].pc = "idle" /\ wk[u].pos = 0 /\ wk[u].batch = {}
          /\ runs[u] = 0 /\ before[u] = {} /\ queue[u] = "none" /\ \A k \in Keys : live[u][k] = 0
      BY <1>1, IdleAttempt DEF ImportInit
    <2>2. Len(Contents[u]) \in Nat
      BY FileType
    <2> QED BY <2>1, <2>2 DEF OneImport, StatusOK, CountOK, LeakOK, BeforeOK, DedupOK, Working,
                              Inserting
  <1> QED BY <1>2, <1>3 DEF ImportInv

\* Import w has no part in the step.
Apart(w) ==
    /\ job'[w] = job[w] /\ queue'[w] = queue[w] /\ file'[w] = file[w] /\ wk'[w] = wk[w]
    /\ live'[w] = live[w] /\ runs'[w] = runs[w] /\ blind'[w] = blind[w]
    /\ before'[w] = before[w] /\ lost'[w] = lost[w]

\* A step of import u concerns another one only if that began after u was over.
LEMMA StepOfOne ==
    ASSUME ImportInv, ImportTypeOK', NEW u \in Uploads, \A w \in Uploads : w # u => Apart(w),
           runs'[u] >= runs[u],
           runs[u] > 0 /\ wk[u].pc \notin Inserting =>
             wk'[u].pc \notin Inserting /\ \A k \in Keys : live'[u][k] <= live[u][k],
           OneImport(u)'
    PROVE  ImportInv'
  <1> SUFFICES ASSUME NEW w \in Uploads, w # u PROVE OneImport(w)'
    BY DEF ImportInv
  <1>1. Apart(w) /\ OneImport(w) /\ ImportTypeOK
    BY DEF ImportInv
  <1>2. StatusOK(w)' /\ CountOK(w)' /\ LeakOK(w)'
    BY <1>1 DEF Apart, OneImport, StatusOK, CountOK, LeakOK
  <1>3. BeforeOK(w)'
    <2> SUFFICES ASSUME NEW v \in before[w] PROVE v # w /\ runs'[v] > 0 /\ wk'[v].pc \notin Inserting
      BY <1>1 DEF Apart, BeforeOK
    <2>1. v # w /\ runs[v] > 0 /\ wk[v].pc \notin Inserting /\ v \in Uploads
      BY <1>1 DEF OneImport, BeforeOK, ImportTypeOK
    <2>2. CASE v = u
      <3>1. runs[u] \in Nat /\ runs'[u] \in Nat
        BY <1>1 DEF ImportTypeOK
      <3> QED BY <2>1, <2>2, <3>1
    <2>3. CASE v # u
      BY <2>1, <2>3 DEF Apart
    <2> QED BY <2>2, <2>3
  <1>4. \A v \in before[w], k \in Keys : live[v][k] = 0 => live'[v][k] = 0
    <2> SUFFICES ASSUME NEW v \in before[w], NEW k \in Keys, live[v][k] = 0 PROVE live'[v][k] = 0
      OBVIOUS
    <2>1. runs[v] > 0 /\ wk[v].pc \notin Inserting /\ v \in Uploads
      BY <1>1 DEF OneImport, BeforeOK, ImportTypeOK
    <2>2. live'[v][k] \in Nat
      BY <2>1 DEF ImportTypeOK
    <2>3. CASE v = u
      BY <2>1, <2>2, <2>3
    <2>4. CASE v # u
      BY <2>1, <2>4 DEF Apart
    <2> QED BY <2>3, <2>4
  <1>5. DedupOK(w)'
    BY <1>1, <1>4 DEF Apart, OneImport, DedupOK, Fresh
  <1> QED BY <1>2, <1>3, <1>5 DEF OneImport

\* A step that neither reads nor inserts rows.
LEMMA QuietImport ==
    ASSUME ImportInv, ImportTypeOK', NEW u \in Uploads, \A w \in Uploads : w # u => Apart(w),
           runs'[u] = runs[u], blind'[u] = blind[u], before'[u] = before[u],
           \A k \in Keys : live'[u][k] <= live[u][k],
           wk'[u].batch \subseteq wk[u].batch,
           wk'[u].pc \in Inserting => wk[u].pc \in Inserting,
           wk'[u].pc \in {"copy", "rows"} => wk[u].pc \in {"copy", "rows"},
           StatusOK(u)', CountOK(u)', LeakOK(u)'
    PROVE  ImportInv'
  <1>1. OneImport(u) /\ ImportTypeOK
    BY DEF ImportInv
  <1>2. runs'[u] >= runs[u]
    BY <1>1 DEF ImportTypeOK
  <1>3. BeforeOK(u)'
    BY <1>1 DEF OneImport, BeforeOK, Apart, ImportTypeOK
  <1>4. \A k \in Keys : live[u][k] = 0 => live'[u][k] = 0
    BY <1>1 DEF ImportTypeOK
  <1>5. \A k \in Keys : live[u][k] <= 1 => live'[u][k] <= 1
    BY <1>1 DEF ImportTypeOK
  <1>6. \A v \in before[u] : live'[v] = live[v]
    BY <1>1 DEF OneImport, BeforeOK, Apart, ImportTypeOK
  <1>7. \A i \in wk'[u].batch : i \in wk[u].batch
    OBVIOUS
  <1>8. DedupOK(u)'
    <2>1. /\ runs'[u] = 0 => \A k \in Keys : live'[u][k] = 0
          /\ \A i \in wk'[u].batch : KeyAt(u, i) \in Keys
      BY <1>1, <1>4, <1>7 DEF OneImport, DedupOK
    <2>2. ASSUME ~blind[u]
          PROVE  /\ \A k \in Keys : live'[u][k] <= 1
                 /\ \A k \in Keys, v \in before[u] : live'[u][k] = 0 \/ live'[v][k] = 0
      BY <1>1, <1>4, <1>5, <1>6, <2>2 DEF OneImport, DedupOK
    <2>3. ASSUME ~blind[u], wk'[u].pc \in {"copy", "rows"}
          PROVE  /\ \A i \in wk'[u].batch : Fresh(u, i)'
                 /\ \A i, j \in wk'[u].batch : KeyAt(u, i) = KeyAt(u, j) => i = j
      BY <1>1, <1>4, <1>6, <1>7, <2>3 DEF OneImport, DedupOK, Fresh
    <2> QED BY <2>1, <2>2, <2>3 DEF DedupOK
  <1> QED BY <1>1, <1>2, <1>3, <1>8, StepOfOne DEF OneImport

-----------------------------------------------------------------------------
(* Imports: the handlers, and the attempts that begin and end. *)

LEMMA HandlerSteps ==
    ASSUME ImportInv, NEW u \in Uploads,
           SaveUpload(u) \/ UploadADIF(u) \/ UploadFails(u) \/ UploadQRZ(u)
    PROVE  ImportInv'
  <1>1. ImportTypeOK /\ StatusOK(u) /\ CountOK(u) /\ LeakOK(u)
    BY DEF ImportInv, OneImport
  <1>2. /\ UNCHANGED <<att, wk, live, note, runs, blind, before, lost>> /\ queue[u] = "none"
    BY DEF SaveUpload, UploadADIF, UploadFails, UploadQRZ, ghosts
  <1>3. wk[u] \in Attempts /\ live[u] \in [Keys -> Nat] /\ \A k \in Keys : live[u][k] <= live[u][k]
    BY <1>1 DEF ImportTypeOK
  <1>4. CASE SaveUpload(u) \/ UploadFails(u)
    <2>1. PICK f \in BOOLEAN : file' = [file EXCEPT ![u] = f] /\ job' = job /\ queue' = queue
      BY <1>4 DEF SaveUpload, UploadFails
    <2>2. file' \in [Uploads -> BOOLEAN] /\ \A w \in Uploads : w # u => file'[w] = file[w]
      BY <1>1, <2>1, OneAt DEF ImportTypeOK
    <2>3. ImportTypeOK' /\ \A w \in Uploads : w # u => Apart(w)
      BY <1>1, <1>2, <2>1, <2>2 DEF ImportTypeOK, Apart
    <2>4. StatusOK(u)' /\ CountOK(u)' /\ LeakOK(u)'
      BY <1>1, <1>2, <2>1 DEF StatusOK, CountOK, LeakOK
    <2> QED BY <1>2, <1>3, <2>3, <2>4, QuietImport
  <1>5. CASE UploadADIF(u) \/ UploadQRZ(u)
    <2>1. PICK row : row = [job[u] EXCEPT !.status = "pending"]
      OBVIOUS
    <2>2. row \in ImportRows /\ row.status = "pending"
      <3>1. job[u] \in ImportRows
        BY <1>1 DEF ImportTypeOK
      <3> QED BY <2>1, <3>1 DEF ImportRows
    <2>3. job' = [job EXCEPT ![u] = row] /\ queue' = [queue EXCEPT ![u] = "available"] /\ file' = file
      BY <1>5, <2>1 DEF UploadADIF, UploadQRZ
    <2>4. /\ job' \in [Uploads -> ImportRows] /\ job'[u] = row
          /\ \A w \in Uploads : w # u => job'[w] = job[w]
      BY <1>1, <2>2, <2>3, OneAt DEF ImportTypeOK
    <2>5. /\ queue' \in [Uploads -> {"none", "available", "running", "completed", "discarded"}]
          /\ queue'[u] = "available" /\ \A w \in Uploads : w # u => queue'[w] = queue[w]
      BY <1>1, <2>3, OneAt DEF ImportTypeOK
    <2>6. ImportTypeOK' /\ \A w \in Uploads : w # u => Apart(w)
      BY <1>1, <1>2, <2>3, <2>4, <2>5 DEF ImportTypeOK, Apart
    <2>7. StatusOK(u)' /\ CountOK(u)' /\ LeakOK(u)'
      BY <1>1, <1>2, <2>2, <2>3, <2>4, <2>5 DEF StatusOK, CountOK, LeakOK
    <2> QED BY <1>2, <1>3, <2>6, <2>7, QuietImport
  <1> QED BY <1>4, <1>5

LEMMA BeginStep ==
    ASSUME ImportInv, NEW u \in Uploads, Begin(u)
    PROVE  ImportInv'
  <1>1. ImportTypeOK /\ StatusOK(u) /\ CountOK(u) /\ LeakOK(u)
    BY DEF ImportInv, OneImport
  <1>2. PICK w1 : w1 = [Idle EXCEPT !.pc = "load"]
    OBVIOUS
  <1>3. /\ w1 \in Attempts /\ w1.pc = "load" /\ w1.pos = 0 /\ w1.batch = {} /\ w1.cnt = NoCount
    BY <1>2, IdleAttempt
  <1>4. /\ UNCHANGED <<job, file, live, note, runs, blind, before, lost>>
        /\ wk' = [wk EXCEPT ![u] = w1] /\ queue' = [queue EXCEPT ![u] = "running"]
        /\ att' = [att EXCEPT ![u] = @ + 1]
    BY <1>2 DEF Begin, ghosts
  <1>5. /\ wk' \in [Uploads -> Attempts] /\ wk'[u] = w1
        /\ \A w \in Uploads : w # u => wk'[w] = wk[w]
    BY <1>1, <1>3, <1>4, OneAt DEF ImportTypeOK
  <1>6. /\ queue' \in [Uploads -> {"none", "available", "running", "completed", "discarded"}]
        /\ queue'[u] = "running" /\ \A w \in Uploads : w # u => queue'[w] = queue[w]
    BY <1>1, <1>4, OneAt DEF ImportTypeOK
  <1>7. att' \in [Uploads -> Nat]
    BY <1>1, <1>4 DEF ImportTypeOK
  <1>8. ImportTypeOK' /\ \A w \in Uploads : w # u => Apart(w)
    BY <1>1, <1>4, <1>5, <1>6, <1>7 DEF ImportTypeOK, Apart
  <1>9. StatusOK(u)' /\ CountOK(u)' /\ LeakOK(u)'
    <2>1. Len(Contents[u]) \in Nat
      BY FileType
    <2> QED BY <1>1, <1>3, <1>4, <1>5, <1>6, <2>1 DEF StatusOK, CountOK, LeakOK, Working, Inserting
  <1>10. \A k \in Keys : live[u][k] <= live[u][k]
    BY <1>1 DEF ImportTypeOK
  <1> QED BY <1>3, <1>4, <1>5, <1>8, <1>9, <1>10, QuietImport DEF Inserting

\* An attempt ends; its row may be settled and its file removed.
LEMMA EndStep ==
    ASSUME ImportInv, NEW u \in Uploads, NEW q \in {"available", "completed", "discarded"},
           NEW row \in ImportRows, job' = [job EXCEPT ![u] = row],
           row = job[u] \/ row.status \notin {"none", "pending"},
           row.status = "complete" => Sum(row.cnt) = Len(Contents[u]),
           wk' = [wk EXCEPT ![u] = Idle], queue' = [queue EXCEPT ![u] = q],
           file' \in [Uploads -> BOOLEAN], \A w \in Uploads : w # u => file'[w] = file[w],
           lost' \in [Uploads -> BOOLEAN], \A w \in Uploads : w # u => lost'[w] = lost[w],
           file'[u] => lost'[u],
           note' \in [Uploads -> {"none", "complete", "error"}],
           UNCHANGED <<att, live, runs, blind, before>>
    PROVE  ImportInv'
  <1>1. ImportTypeOK /\ StatusOK(u) /\ CountOK(u) /\ LeakOK(u)
    BY DEF ImportInv, OneImport
  <1>2. /\ wk' \in [Uploads -> Attempts] /\ wk'[u] = Idle
        /\ \A w \in Uploads : w # u => wk'[w] = wk[w]
    BY <1>1, IdleAttempt, OneAt DEF ImportTypeOK
  <1>3. /\ queue' \in [Uploads -> {"none", "available", "running", "completed", "discarded"}]
        /\ queue'[u] = q /\ \A w \in Uploads : w # u => queue'[w] = queue[w]
    BY <1>1, OneAt DEF ImportTypeOK
  <1>4. /\ job' \in [Uploads -> ImportRows] /\ job'[u] = row
        /\ \A w \in Uploads : w # u => job'[w] = job[w]
    BY <1>1, OneAt DEF ImportTypeOK
  <1>5. ImportTypeOK' /\ \A w \in Uploads : w # u => Apart(w)
    BY <1>1, <1>2, <1>3, <1>4 DEF ImportTypeOK, Apart
  <1>6. StatusOK(u)'
    BY <1>1, <1>2, <1>3, <1>4, IdleAttempt DEF StatusOK, Working, Inserting
  <1>7. CountOK(u)'
    <2>1. Len(Contents[u]) \in Nat
      BY FileType
    <2> QED BY <1>1, <1>2, <1>4, <2>1, IdleAttempt DEF CountOK, Inserting
  <1>8. LeakOK(u)'
    BY <1>2, IdleAttempt DEF LeakOK
  <1>9. \A k \in Keys : live[u][k] <= live[u][k]
    BY <1>1 DEF ImportTypeOK
  <1> QED BY <1>2, <1>5, <1>6, <1>7, <1>8, <1>9, IdleAttempt, QuietImport DEF Inserting

LEMMA ReturnEffect ==
    ASSUME ImportTypeOK, NEW u \in Uploads, NEW err \in BOOLEAN, Return(u, err)
    PROVE  /\ wk' = [wk EXCEPT ![u] = Idle] /\ att' = att
           /\ \E q \in {"available", "completed", "discarded"} : queue' = [queue EXCEPT ![u] = q]
           /\ file' \in [Uploads -> BOOLEAN] /\ ~file'[u]
           /\ \A w \in Uploads : w # u => file'[w] = file[w]
  <1>1. \E q \in {"available", "completed", "discarded"} : queue' = [queue EXCEPT ![u] = q]
    <2>1. PICK q : q = IF ~err THEN "completed"
                       ELSE IF att[u] < MaxAttempts THEN "available" ELSE "discarded"
      OBVIOUS
    <2>2. q \in {"available", "completed", "discarded"}
      BY <2>1
    <2>3. queue' = [queue EXCEPT ![u] = q]
      BY <2>1 DEF Return
    <2> QED BY <2>2, <2>3
  <1>2. file' \in [Uploads -> BOOLEAN] /\ ~file'[u] /\ \A w \in Uploads : w # u => file'[w] = file[w]
    BY DEF Return, ImportTypeOK
  <1> QED BY <1>1, <1>2 DEF Return

LEMMA ReturnSteps ==
    ASSUME ImportInv, NEW u \in Uploads,
           \/ LoadFails(u) \/ Skip(u) \/ QRZFetchFails(u) \/ StartFails(u) \/ Timeout(u) \/ Finish(u)
    PROVE  ImportInv'
  <1>1. ImportTypeOK /\ StatusOK(u) /\ CountOK(u)
    BY DEF ImportInv, OneImport
  <1>2. \E err \in BOOLEAN : Return(u, err)
    BY DEF LoadFails, Skip, QRZFetchFails, StartFails, Timeout, Finish
  <1>3. /\ wk' = [wk EXCEPT ![u] = Idle] /\ att' = att
        /\ file' \in [Uploads -> BOOLEAN] /\ ~file'[u]
        /\ \A w \in Uploads : w # u => file'[w] = file[w]
    BY <1>1, <1>2, ReturnEffect
  <1>4. PICK q \in {"available", "completed", "discarded"} : queue' = [queue EXCEPT ![u] = q]
    BY <1>1, <1>2, ReturnEffect
  <1>5. UNCHANGED <<live, runs, blind, before>>
    BY DEF LoadFails, Skip, QRZFetchFails, StartFails, Timeout, Finish, ghosts
  <1>6. lost' \in [Uploads -> BOOLEAN] /\ \A w \in Uploads : w # u => lost'[w] = lost[w]
    BY <1>1 DEF LoadFails, Skip, QRZFetchFails, StartFails, Timeout, Finish, ghosts, ImportTypeOK
  <1>7. note' \in [Uploads -> {"none", "complete", "error"}]
    <2>1. CASE note' = note
      BY <1>1, <2>1 DEF ImportTypeOK
    <2>2. CASE note' = [note EXCEPT ![u] = Outcome(u)]
      <3>1. Outcome(u) \in {"none", "complete", "error"}
        BY DEF Outcome
      <3> QED BY <1>1, <2>2, <3>1 DEF ImportTypeOK
    <2> QED BY <2>1, <2>2 DEF LoadFails, Skip, QRZFetchFails, StartFails, Timeout, Finish,
                              CreateImportNotification
  <1>8. PICK row \in ImportRows :
            /\ job' = [job EXCEPT ![u] = row] /\ (row = job[u] \/ row.status \notin {"none", "pending"})
            /\ row.status = "complete" => Sum(row.cnt) = Len(Contents[u])
    <2>1. job[u] \in ImportRows /\ wk[u] \in Attempts
      BY <1>1 DEF ImportTypeOK
    <2>2. CASE job' = job
      <3>1. job' = [job EXCEPT ![u] = job[u]]
        BY <1>1, <2>2 DEF ImportTypeOK
      <3> QED BY <1>1, <2>1, <3>1 DEF CountOK
    <2>3. CASE job' = [job EXCEPT ![u] = [status |-> "error", total |-> 0,
                                          cnt |-> [NoCount EXCEPT !.errors = 1]]]
      <3>1. [NoCount EXCEPT !.errors = 1] \in Counts
        BY DEF NoCount, Counts
      <3>2. [status |-> "error", total |-> 0, cnt |-> [NoCount EXCEPT !.errors = 1]] \in ImportRows
        BY <3>1 DEF ImportRows
      <3> QED BY <2>3, <3>2
    <2>4. CASE Finish(u) /\ CompleteImportJob(u)
      <3>1. PICK c : c = [wk[u].cnt EXCEPT !.total = 0]
        OBVIOUS
      <3>2. wk[u].cnt \in Counts
        BY <2>1 DEF Attempts
      <3>3. c \in Counts /\ Sum(c) = Sum(wk[u].cnt) /\ wk[u].cnt.total \in Nat
        BY <3>1, <3>2 DEF Counts, Sum
      <3>4. PICK row : row = [status |-> Outcome(u), total |-> wk[u].cnt.total, cnt |-> c]
        OBVIOUS
      <3>5. Outcome(u) \in {"complete", "error"} /\ (Outcome(u) = "complete" => wk[u].pc = "ok")
        BY DEF Outcome
      <3>6. /\ row \in ImportRows /\ row.status = Outcome(u) /\ row.cnt = c
            /\ job' = [job EXCEPT ![u] = row]
        BY <2>4, <3>1, <3>3, <3>4, <3>5 DEF ImportRows, CompleteImportJob
      <3>7. wk[u].pc = "ok" => Sum(wk[u].cnt) = Len(Contents[u])
        <4>1. Cardinality({}) = 0
          BY FS_EmptySet
        <4>2. Sum(wk[u].cnt) \in Nat
          BY <3>2 DEF Counts, Sum
        <4>3. ASSUME wk[u].pc = "ok" PROVE Sum(wk[u].cnt) = Len(Contents[u])
          <5>1. /\ Sum(wk[u].cnt) + Cardinality(wk[u].batch) = wk[u].pos
                /\ wk[u].pos = Len(Contents[u]) /\ wk[u].batch = {}
            BY <1>1, <4>3 DEF CountOK
          <5>2. Cardinality(wk[u].batch) = 0
            BY <4>1, <5>1, Zenon
          <5> QED BY <4>2, <5>1, <5>2
        <4> QED BY <4>3
      <3> QED BY <3>3, <3>5, <3>6, <3>7
    <2> QED BY <2>2, <2>3, <2>4 DEF LoadFails, Skip, QRZFetchFails, StartFails, Timeout, Finish
  <1> QED BY <1>3, <1>4, <1>5, <1>6, <1>7, <1>8, EndStep

LEMMA RescueStep ==
    ASSUME ImportInv, NEW u \in Uploads, Rescue(u)
    PROVE  ImportInv'
  <1>1. ImportTypeOK /\ CountOK(u) /\ LeakOK(u) /\ job[u] \in ImportRows
    BY DEF ImportInv, OneImport, ImportTypeOK
  <1>2. job' = [job EXCEPT ![u] = job[u]] /\ wk' = [wk EXCEPT ![u] = Idle]
    BY <1>1 DEF Rescue, ImportTypeOK
  <1>3. PICK q \in {"available", "completed", "discarded"} : queue' = [queue EXCEPT ![u] = q]
    <2>1. PICK q : q = IF att[u] < MaxAttempts THEN "available" ELSE "discarded"
      OBVIOUS
    <2>2. q \in {"available", "completed", "discarded"} /\ queue' = [queue EXCEPT ![u] = q]
      BY <2>1 DEF Rescue
    <2> QED BY <2>2
  <1>4. UNCHANGED <<att, file, live, note, runs, blind, before, lost>> /\ lost[u]
    BY <1>1 DEF Rescue, ghosts, LeakOK
  <1>5. /\ file' \in [Uploads -> BOOLEAN] /\ \A w \in Uploads : w # u => file'[w] = file[w]
        /\ lost' \in [Uploads -> BOOLEAN] /\ \A w \in Uploads : w # u => lost'[w] = lost[w]
        /\ note' \in [Uploads -> {"none", "complete", "error"}]
        /\ file'[u] => lost'[u]
    BY <1>1, <1>4 DEF ImportTypeOK
  <1>6. job[u].status = "complete" => Sum(job[u].cnt) = Len(Contents[u])
    BY <1>1 DEF CountOK
  <1> QED BY <1>1, <1>2, <1>3, <1>4, <1>5, <1>6, EndStep

\* Steps that move an attempt on and leave its batch and counts alone.
LEMMA MoveSteps ==
    ASSUME ImportInv, NEW u \in Uploads,
           Load(u) \/ CountSpins(u) \/ CopyFails(u) \/ ReadAll(u)
    PROVE  ImportInv'
  <1>1. ImportTypeOK /\ StatusOK(u) /\ CountOK(u) /\ LeakOK(u)
    BY DEF ImportInv, OneImport
  <1>2. PICK pc \in {"count", "spin", "rows", "ok"} :
            /\ wk' = [wk EXCEPT ![u].pc = pc]
            /\ pc = "count" => wk[u].pc = "load" /\ job[u].status = "pending"
            /\ pc = "rows" => wk[u].pc = "copy"
            /\ pc = "ok" => wk[u].pc = "read" /\ ~More(u) /\ wk[u].batch = {}
            /\ pc = "spin" => lost' = [lost EXCEPT ![u] = TRUE]
            /\ pc # "spin" => lost' = lost
    BY DEF Load, CountSpins, CopyFails, ReadAll, ghosts
  <1>3. PICK w1 : w1 = [wk[u] EXCEPT !.pc = pc]
    OBVIOUS
  <1>4. wk[u] \in Attempts
    BY <1>1 DEF ImportTypeOK
  <1>5. /\ w1 \in Attempts /\ w1.pc = pc /\ w1.pos = wk[u].pos /\ w1.batch = wk[u].batch
        /\ w1.cnt = wk[u].cnt
    BY <1>3, <1>4 DEF Attempts
  <1>6. wk' = [wk EXCEPT ![u] = w1]
    BY <1>2, <1>3
  <1>7. wk' \in [Uploads -> Attempts] /\ wk'[u] = w1 /\ \A w \in Uploads : w # u => wk'[w] = wk[w]
    BY <1>1, <1>5, <1>6, OneAt DEF ImportTypeOK
  <1>8. UNCHANGED <<job, queue, att, file, live, note, runs, blind, before>>
    BY DEF Load, CountSpins, CopyFails, ReadAll, jobVars, ghosts
  <1>9. /\ lost' \in [Uploads -> BOOLEAN] /\ \A w \in Uploads : w # u => lost'[w] = lost[w]
        /\ lost[u] => lost'[u]
        /\ pc = "spin" => lost'[u]
    BY <1>1, <1>2 DEF ImportTypeOK
  <1>10. ImportTypeOK' /\ \A w \in Uploads : w # u => Apart(w)
    BY <1>1, <1>7, <1>8, <1>9 DEF ImportTypeOK, Apart
  <1>11. StatusOK(u)'
    BY <1>1, <1>2, <1>5, <1>7, <1>8 DEF StatusOK, Working, Inserting
  <1>12. LeakOK(u)'
    BY <1>1, <1>5, <1>7, <1>8, <1>9 DEF LeakOK
  <1>13. CountOK(u)'
    <2>1. pc = "ok" => wk[u].pos = Len(Contents[u])
      <3>1. ASSUME pc = "ok" PROVE wk[u].pos = Len(Contents[u])
        <4>1. wk[u].pos \in Nat /\ Len(Contents[u]) \in Nat /\ wk[u].pos <= Len(Contents[u])
          BY <1>1, <1>4, FileType DEF Attempts, CountOK
        <4>2. BatchSize \in Nat /\ BatchSize > 0
          BY ImportAssumption
        <4>3. Cardinality({}) = 0
          BY FS_EmptySet
        <4>4. wk[u].pc = "read" /\ ~More(u) /\ Cardinality(wk[u].batch) = 0
          BY <1>2, <3>1, <4>3, Zenon
        <4> QED BY <4>1, <4>2, <4>4 DEF More
      <3> QED BY <3>1
    <2> QED BY <1>1, <1>2, <1>5, <1>7, <1>8, <2>1 DEF CountOK, Inserting
  <1>14. \A k \in Keys : live[u][k] <= live[u][k]
    BY <1>1 DEF ImportTypeOK
  <1> QED BY <1>2, <1>5, <1>7, <1>8, <1>10, <1>11, <1>12, <1>13, <1>14, QuietImport DEF Inserting

\* The process dies with all its attempts: none of them reads or inserts.
LEMMA DieStep ==
    ASSUME ImportInv, Die
    PROVE  ImportInv'
  <1>1. ImportTypeOK /\ \A u \in Uploads : OneImport(u)
    BY DEF ImportInv
  <1>2. UNCHANGED <<job, queue, att, file, live, note, runs, blind, before>>
    BY DEF Die, jobVars
  <1>3. ASSUME NEW u \in Uploads
        PROVE  /\ wk'[u] \in Attempts /\ wk'[u].pc \in {"idle", "dead"}
               /\ wk'[u].pos = wk[u].pos /\ wk'[u].batch = wk[u].batch
               /\ lost'[u] \in BOOLEAN /\ (lost[u] => lost'[u]) /\ (wk'[u].pc = "dead" => lost'[u])
    <2>1. wk[u] \in Attempts /\ lost[u] \in BOOLEAN
      BY <1>1 DEF ImportTypeOK
    <2>2. PICK w1 : w1 = [wk[u] EXCEPT !.pc = "dead"]
      OBVIOUS
    <2>3. w1 \in Attempts /\ w1.pc = "dead" /\ w1.pos = wk[u].pos /\ w1.batch = wk[u].batch
      BY <2>1, <2>2 DEF Attempts
    <2>4. wk'[u] = (IF u \in Busy THEN w1 ELSE wk[u]) /\ lost'[u] = (lost[u] \/ u \in Busy)
      BY <2>2 DEF Die
    <2>5. CASE u \in Busy
      BY <2>1, <2>3, <2>4, <2>5
    <2>6. CASE u \notin Busy
      <3>1. wk[u].pc \in {"idle", "dead"} /\ wk'[u] = wk[u] /\ (lost'[u] <=> lost[u])
        BY <2>1, <2>4, <2>6 DEF Busy
      <3>2. wk[u].pc = "dead" => lost[u]
        BY <1>1 DEF OneImport, LeakOK
      <3>3. lost'[u] \in BOOLEAN
        BY <2>4, Zenon
      <3> QED BY <2>1, <3>1, <3>2, <3>3
    <2> QED BY <2>5, <2>6
  <1>4. wk' \in [Uploads -> Attempts] /\ lost' \in [Uploads -> BOOLEAN]
    BY <1>3 DEF Die
  <1>5. ImportTypeOK'
    BY <1>1, <1>2, <1>4 DEF ImportTypeOK
  <1>6. ASSUME NEW u \in Uploads PROVE OneImport(u)'
    <2>1. /\ wk'[u].pc \in {"idle", "dead"} /\ wk'[u].pos = wk[u].pos
          /\ wk'[u].batch = wk[u].batch /\ (lost[u] => lost'[u]) /\ (wk'[u].pc = "dead" => lost'[u])
          /\ StatusOK(u) /\ CountOK(u) /\ LeakOK(u) /\ BeforeOK(u) /\ DedupOK(u)
      BY <1>1, <1>3 DEF OneImport
    <2>2. StatusOK(u)' /\ CountOK(u)' /\ LeakOK(u)'
      BY <1>2, <2>1 DEF StatusOK, CountOK, LeakOK, Working, Inserting
    <2>3. BeforeOK(u)'
      <3>1. \A v \in before[u] : v \in Uploads
        BY <1>1 DEF ImportTypeOK
      <3> QED BY <1>2, <1>3, <2>1, <3>1 DEF BeforeOK, Inserting
    <2>4. DedupOK(u)'
      BY <1>2, <2>1 DEF DedupOK
    <2> QED BY <2>2, <2>3, <2>4 DEF OneImport
  <1> QED BY <1>5, <1>6 DEF ImportInv

LEMMA DeleteStep ==
    ASSUME ImportInv, NEW u \in Uploads, NEW k \in Keys, DeleteQSO(u, k)
    PROVE  ImportInv'
  <1>1. ImportTypeOK /\ StatusOK(u) /\ CountOK(u) /\ LeakOK(u)
    BY DEF ImportInv, OneImport
  <1>2. live[u] \in [Keys -> Nat]
    BY <1>1 DEF ImportTypeOK
  <1>3. PICK l : l = [live[u] EXCEPT ![k] = @ - 1]
    OBVIOUS
  <1>4. l \in [Keys -> Nat] /\ \A j \in Keys : l[j] <= live[u][j]
    BY <1>2, <1>3 DEF DeleteQSO
  <1>5. live' = [live EXCEPT ![u] = l]
    BY <1>3 DEF DeleteQSO
  <1>6. live' \in [Uploads -> [Keys -> Nat]] /\ live'[u] = l /\ \A w \in Uploads : w # u => live'[w] = live[w]
    BY <1>1, <1>4, <1>5, OneAt DEF ImportTypeOK
  <1>7. UNCHANGED <<job, queue, att, file, wk, note, runs, blind, before, lost>>
    BY DEF DeleteQSO, jobVars, ghosts
  <1>8. ImportTypeOK' /\ \A w \in Uploads : w # u => Apart(w)
    BY <1>1, <1>6, <1>7 DEF ImportTypeOK, Apart
  <1>9. StatusOK(u)' /\ CountOK(u)' /\ LeakOK(u)'
    BY <1>1, <1>7 DEF StatusOK, CountOK, LeakOK
  <1> QED BY <1>4, <1>6, <1>7, <1>8, <1>9, QuietImport

-----------------------------------------------------------------------------
(* Imports: the records are read, deduplicated and inserted. *)

\* StartImportJob: the import has inserted nothing yet, and every import that
\* has and is over is among the earlier ones.
LEMMA StartStep ==
    ASSUME ImportInv, NEW u \in Uploads, Start(u)
    PROVE  ImportInv'
  <1>1. ImportTypeOK /\ StatusOK(u) /\ CountOK(u) /\ LeakOK(u) /\ DedupOK(u)
    BY DEF ImportInv, OneImport
  <1>2. job[u].status = "pending" /\ runs[u] = 0 /\ wk[u].pc = "count"
    BY <1>1 DEF Start, StartImportJob, StatusOK
  <1>3. job[u] \in ImportRows /\ wk[u] \in Attempts
    BY <1>1 DEF ImportTypeOK
  <1>4. PICK n \in Nat : job' = [job EXCEPT ![u].status = "processing", ![u].total = n]
    <2>1. Returned(u) \subseteq 1..Len(Contents[u])
      <3>1. Contents[u] \in Seq(Records)
        BY FileType
      <3> QED BY <3>1 DEF Returned
    <2>2. Cardinality(Returned(u)) \in Nat
      <3>1. PICK n \in Nat : n = Len(Contents[u])
        BY FileType
      <3>2. Returned(u) \subseteq 1..n
        BY <2>1, <3>1
      <3> QED BY <3>2, BatchFinite, Zenon
    <2>3. PICK readable \in {HasFile(u), FALSE} : StartImportJob(u, readable)
      BY DEF Start
    <2>4. PICK n \in Nat : n = CountADIFRecords(u, readable)
      BY <2>2 DEF CountADIFRecords
    <2> QED BY <2>3, <2>4 DEF StartImportJob
  <1>5. PICK row : row = [job[u] EXCEPT !.status = "processing", !.total = n]
    OBVIOUS
  <1>6. row \in ImportRows /\ row.status = "processing"
    BY <1>3, <1>5 DEF ImportRows
  <1>7. job' = [job EXCEPT ![u] = row]
    <2>1. job \in [Uploads -> ImportRows]
      BY <1>1 DEF ImportTypeOK
    <2> QED BY <1>3, <1>4, <1>5, <2>1
  <1>8. PICK pc \in {"read", "failed"} : wk' = [wk EXCEPT ![u].pc = pc]
    BY DEF Start
  <1>9. PICK w1 : w1 = [wk[u] EXCEPT !.pc = pc]
    OBVIOUS
  <1>10. /\ w1 \in Attempts /\ w1.pc = pc /\ w1.pos = wk[u].pos /\ w1.batch = wk[u].batch
         /\ w1.cnt = wk[u].cnt /\ wk' = [wk EXCEPT ![u] = w1]
    BY <1>3, <1>8, <1>9 DEF Attempts
  <1>11. wk' \in [Uploads -> Attempts] /\ wk'[u] = w1 /\ \A w \in Uploads : w # u => wk'[w] = wk[w]
    BY <1>1, <1>10, OneAt DEF ImportTypeOK
  <1>12. job' \in [Uploads -> ImportRows] /\ job'[u] = row /\ \A w \in Uploads : w # u => job'[w] = job[w]
    BY <1>1, <1>6, <1>7, OneAt DEF ImportTypeOK
  <1>13. /\ runs' \in [Uploads -> Nat] /\ runs'[u] = 1 /\ \A w \in Uploads : w # u => runs'[w] = runs[w]
    <2>1. runs' = [runs EXCEPT ![u] = 1]
      BY <1>2 DEF Start
    <2> QED BY <1>1, <2>1, OneAt DEF ImportTypeOK
  <1>14. /\ before' \in [Uploads -> SUBSET Uploads] /\ \A w \in Uploads : w # u => before'[w] = before[w]
         /\ \A v \in before'[u] : v \in Uploads /\ v # u /\ runs[v] > 0 /\ wk[v].pc \notin Inserting
    <2>1. PICK earlier : earlier = {v \in Uploads \ {u} : runs[v] > 0 /\ Over(v)}
      OBVIOUS
    <2>2. /\ earlier \in SUBSET Uploads
          /\ \A v \in earlier : v \in Uploads /\ v # u /\ runs[v] > 0 /\ wk[v].pc \notin Inserting
      BY <2>1 DEF Over, Inserting
    <2>3. before' = [before EXCEPT ![u] = earlier]
      BY <2>1 DEF Start
    <2>4. /\ before' \in [Uploads -> SUBSET Uploads] /\ before'[u] = earlier
          /\ \A w \in Uploads : w # u => before'[w] = before[w]
      BY <1>1, <2>2, <2>3, OneAt DEF ImportTypeOK
    <2> QED BY <2>2, <2>4
  <1>15. UNCHANGED <<queue, att, file, live, note, blind, lost>>
    BY DEF Start
  <1>16. ImportTypeOK' /\ \A w \in Uploads : w # u => Apart(w)
    BY <1>1, <1>11, <1>12, <1>13, <1>14, <1>15 DEF ImportTypeOK, Apart
  <1>17. StatusOK(u)'
    BY <1>1, <1>2, <1>6, <1>10, <1>11, <1>12, <1>13, <1>15 DEF StatusOK, Working, Inserting
  <1>18. CountOK(u)'
    <2>1. wk[u].pos = 0 /\ wk[u].batch = {} /\ wk[u].cnt = NoCount
      BY <1>1, <1>2 DEF CountOK
    <2>2. Cardinality(w1.batch) = 0
      BY <1>10, <2>1, FS_EmptySet, Zenon
    <2>3. Sum(w1.cnt) = 0
      BY <1>10, <2>1, IdleAttempt, Zenon
    <2>4. Len(Contents[u]) \in Nat
      BY FileType
    <2>5. /\ w1.pos <= Len(Contents[u]) /\ w1.batch \subseteq 1..w1.pos
          /\ Sum(w1.cnt) + Cardinality(w1.batch) = w1.pos
      BY <1>10, <2>1, <2>2, <2>3, <2>4
    <2> QED BY <1>6, <1>10, <1>11, <1>12, <2>5 DEF CountOK
  <1>19. LeakOK(u)'
    BY <1>1, <1>10, <1>11, <1>15 DEF LeakOK
  <1>20. BeforeOK(u)'
    BY <1>11, <1>13, <1>14 DEF BeforeOK
  <1>21. DedupOK(u)'
    <2>1. \A k \in Keys : live[u][k] = 0
      BY <1>1, <1>2 DEF DedupOK
    <2> QED BY <1>1, <1>10, <1>11, <1>15, <2>1 DEF DedupOK
  <1>22. runs'[u] >= runs[u] /\ ~(runs[u] > 0)
    BY <1>2, <1>13
  <1> QED BY <1>16, <1>17, <1>18, <1>19, <1>20, <1>21, <1>22, StepOfOne DEF OneImport

\* What a step of an attempt that inserts has to show.
LEMMA InsertingStep ==
    ASSUME ImportInv, NEW u \in Uploads, wk[u].pc \in Inserting,
           NEW w1 \in Attempts, wk' = [wk EXCEPT ![u] = w1], w1.pc \in Inserting,
           w1.pos <= Len(Contents[u]), w1.batch \subseteq 1..w1.pos,
           Sum(w1.cnt) + Cardinality(w1.batch) = w1.pos,
           NEW l \in [Keys -> Nat], live' = [live EXCEPT ![u] = l],
           NEW d \in BOOLEAN, blind' = [blind EXCEPT ![u] = d],
           NEW row \in ImportRows, job' = [job EXCEPT ![u] = row], row.status = job[u].status,
           UNCHANGED <<queue, att, file, note, runs, before, lost>>,
           \A i \in w1.batch : KeyAt(u, i) \in Keys,
           ~d => /\ \A k \in Keys : l[k] <= 1
                 /\ \A k \in Keys, v \in before[u] : l[k] = 0 \/ live[v][k] = 0
                 /\ w1.pc \in {"copy", "rows"} =>
                      /\ \A i \in w1.batch : /\ l[KeyAt(u, i)] = 0
                                             /\ \A v \in before[u] : live[v][KeyAt(u, i)] = 0
                      /\ \A i, j \in w1.batch : KeyAt(u, i) = KeyAt(u, j) => i = j
    PROVE  ImportInv'
  <1>1. ImportTypeOK /\ StatusOK(u) /\ CountOK(u) /\ LeakOK(u) /\ BeforeOK(u) /\ DedupOK(u)
    BY DEF ImportInv, OneImport
  <1>2. wk' \in [Uploads -> Attempts] /\ wk'[u] = w1 /\ \A w \in Uploads : w # u => wk'[w] = wk[w]
    BY <1>1, OneAt DEF ImportTypeOK
  <1>3. job' \in [Uploads -> ImportRows] /\ job'[u] = row /\ \A w \in Uploads : w # u => job'[w] = job[w]
    BY <1>1, OneAt DEF ImportTypeOK
  <1>4. /\ live' \in [Uploads -> [Keys -> Nat]] /\ live'[u] = l
        /\ \A w \in Uploads : w # u => live'[w] = live[w]
    BY <1>1, OneAt DEF ImportTypeOK
  <1>5. /\ blind' \in [Uploads -> BOOLEAN] /\ blind'[u] = d
        /\ \A w \in Uploads : w # u => blind'[w] = blind[w]
    BY <1>1, OneAt DEF ImportTypeOK
  <1>6. ImportTypeOK' /\ \A w \in Uploads : w # u => Apart(w)
    BY <1>1, <1>2, <1>3, <1>4, <1>5 DEF ImportTypeOK, Apart
  <1>7. job[u].status = "processing" /\ runs[u] = 1
    BY <1>1 DEF StatusOK, Working
  <1>8. StatusOK(u)' /\ LeakOK(u)'
    BY <1>1, <1>2, <1>3, <1>7 DEF StatusOK, LeakOK, Working, Inserting
  <1>9. CountOK(u)'
    BY <1>2, <1>3, <1>7 DEF CountOK, Inserting
  <1>10. BeforeOK(u)' /\ \A v \in before[u] : live'[v] = live[v]
    BY <1>1, <1>6 DEF BeforeOK, Apart, ImportTypeOK
  <1>11. DedupOK(u)'
    BY <1>2, <1>4, <1>5, <1>7, <1>10 DEF DedupOK, Fresh
  <1>12. runs'[u] >= runs[u]
    BY <1>7
  <1> QED BY <1>6, <1>8, <1>9, <1>10, <1>11, <1>12, StepOfOne DEF OneImport

LEMMA ReadStep ==
    ASSUME ImportInv, NEW u \in Uploads, ReadRecord(u)
    PROVE  ImportInv'
  <1>1. ImportTypeOK /\ CountOK(u) /\ DedupOK(u)
    BY DEF ImportInv, OneImport
  <1>2. /\ wk[u] \in Attempts /\ live[u] \in [Keys -> Nat] /\ blind[u] \in BOOLEAN
        /\ job[u] \in ImportRows
    BY <1>1 DEF ImportTypeOK
  <1>3. wk[u].pc = "read" /\ wk[u].pos < Len(Contents[u])
    BY DEF ReadRecord, More
  <1>4. PICK i, r, b, c :
            /\ i = wk[u].pos + 1 /\ i \in Nat /\ r = Contents[u][i] /\ c = Counted(wk[u].cnt, r)
            /\ b = IF Kept(r) THEN wk[u].batch \cup {i} ELSE wk[u].batch
            /\ wk' = [wk EXCEPT ![u].pos = i, ![u].cnt = c, ![u].batch = b]
    <2>1. wk[u].pos + 1 \in Nat
      BY <1>2 DEF Attempts
    <2> QED BY <2>1 DEF ReadRecord, Kept
  <1>5. wk[u].pos \in Nat /\ Len(Contents[u]) \in Nat /\ wk[u].cnt \in Counts /\ wk[u].batch \in SUBSET Nat
    BY <1>2, FileType DEF Attempts
  <1>6. i \in 1..Len(Contents[u]) /\ r \in Records
    BY <1>3, <1>4, <1>5, FileType
  <1>7. c \in Counts /\ Sum(c) = Sum(wk[u].cnt) + (IF Kept(r) THEN 0 ELSE 1)
    BY <1>4, <1>5, CountedOnce
  <1>8. /\ Cardinality(wk[u].batch) \in Nat /\ wk[u].batch \subseteq 1..wk[u].pos
        /\ Cardinality(wk[u].batch \cup {i}) = Cardinality(wk[u].batch) + 1
        /\ Sum(wk[u].cnt) + Cardinality(wk[u].batch) = wk[u].pos
    <2>1. /\ wk[u].batch \subseteq 1..wk[u].pos
          /\ Sum(wk[u].cnt) + Cardinality(wk[u].batch) = wk[u].pos
      BY <1>1, <1>3 DEF CountOK, Inserting
    <2>2. /\ Cardinality(wk[u].batch) \in Nat
          /\ Cardinality(wk[u].batch \cup {wk[u].pos + 1}) = Cardinality(wk[u].batch) + 1
      <3>1. PICK n \in Nat, S \in SUBSET Nat : n = wk[u].pos /\ S = wk[u].batch
        BY <1>5
      <3>2. S \subseteq 1..n
        BY <2>1, <3>1
      <3>3. Cardinality(S) \in Nat /\ Cardinality(S \cup {n + 1}) = Cardinality(S) + 1
        BY <3>2, BatchFinite, Zenon
      <3> QED BY <3>1, <3>3
    <2> QED BY <1>4, <2>1, <2>2
  <1>9. b \in SUBSET Nat /\ b \subseteq 1..i
    BY <1>4, <1>5, <1>8
  <1>10. Sum(c) + Cardinality(b) = i
    <2>1. Sum(wk[u].cnt) \in Nat
      BY <1>5, SumIsNatural
    <2>2. CASE Kept(r)
      <3>1. Cardinality(b) = Cardinality(wk[u].batch) + 1 /\ Sum(c) = Sum(wk[u].cnt)
        BY <1>4, <1>7, <1>8, <2>1, <2>2
      <3> QED BY <1>4, <1>5, <1>8, <2>1, <3>1
    <2>3. CASE ~Kept(r)
      <3>1. Cardinality(b) = Cardinality(wk[u].batch) /\ Sum(c) = Sum(wk[u].cnt) + 1
        BY <1>4, <1>7, <2>3
      <3> QED BY <1>4, <1>5, <1>8, <2>1, <3>1
    <2> QED BY <2>2, <2>3
  <1>11. \A j \in b : KeyAt(u, j) \in Keys
    <2>1. \A j \in wk[u].batch : KeyAt(u, j) \in Keys
      BY <1>1 DEF DedupOK
    <2>2. Kept(r) => KeyAt(u, i) \in Keys
      BY <1>4, <1>6, KeptHasKey DEF KeyAt
    <2> QED BY <1>4, <2>1, <2>2
  <1>12. PICK w1 : w1 = [wk[u] EXCEPT !.pos = i, !.cnt = c, !.batch = b]
    OBVIOUS
  <1>13. w1 \in Attempts /\ w1.pc = "read" /\ w1.pos = i /\ w1.batch = b /\ w1.cnt = c
    BY <1>2, <1>3, <1>4, <1>7, <1>9, <1>12 DEF Attempts
  <1>14. wk' = [wk EXCEPT ![u] = w1]
    BY <1>1, <1>2, <1>4, <1>12 DEF ImportTypeOK
  <1>15. UNCHANGED <<job, queue, att, file, live, note, runs, blind, before, lost>>
    BY DEF ReadRecord, jobVars, ghosts
  <1>16. /\ live' = [live EXCEPT ![u] = live[u]] /\ blind' = [blind EXCEPT ![u] = blind[u]]
         /\ job' = [job EXCEPT ![u] = job[u]]
    BY <1>1, <1>15 DEF ImportTypeOK
  <1>17. /\ wk[u].pc \in Inserting /\ w1.pc \in Inserting /\ w1.pc \notin {"copy", "rows"}
         /\ w1.pos <= Len(Contents[u]) /\ w1.batch \subseteq 1..w1.pos
         /\ Sum(w1.cnt) + Cardinality(w1.batch) = w1.pos
    BY <1>3, <1>6, <1>9, <1>10, <1>13 DEF Inserting
  <1>18. ~blind[u] => /\ \A k \in Keys : live[u][k] <= 1
                      /\ \A k \in Keys, v \in before[u] : live[u][k] = 0 \/ live[v][k] = 0
    BY <1>1 DEF DedupOK
  <1>19. /\ \A j \in w1.batch : KeyAt(u, j) \in Keys
         /\ UNCHANGED <<queue, att, file, note, runs, before, lost>>
    BY <1>11, <1>13, <1>15
  <1> QED BY <1>2, <1>13, <1>14, <1>16, <1>17, <1>18, <1>19, InsertingStep

\* What the dedup query keeps is new to the logbook, and no two rows of it are
\* of one QSO.
LEMMA DedupStep ==
    ASSUME ImportInv, NEW u \in Uploads, NEW fails \in BOOLEAN, DeduplicateBatch(u, fails)
    PROVE  ImportInv'
  <1>1. ImportTypeOK /\ CountOK(u) /\ DedupOK(u) /\ BeforeOK(u)
    BY DEF ImportInv, OneImport
  <1>2. /\ wk[u] \in Attempts /\ live[u] \in [Keys -> Nat] /\ blind[u] \in BOOLEAN
        /\ job[u] \in ImportRows
    BY <1>1 DEF ImportTypeOK
  <1>3. wk[u].pc = "read"
    BY DEF DeduplicateBatch
  <1>4. PICK b : b = IF fails THEN wk[u].batch ELSE Deduplicate(u, wk[u].batch, Existing)
    OBVIOUS
  <1>5. b \subseteq wk[u].batch
    BY <1>4 DEF Deduplicate
  <1>6. /\ wk[u].pos \in Nat /\ Len(Contents[u]) \in Nat /\ wk[u].cnt \in Counts
        /\ wk[u].batch \in SUBSET Nat /\ wk[u].pos <= Len(Contents[u])
        /\ wk[u].batch \subseteq 1..wk[u].pos
        /\ Sum(wk[u].cnt) + Cardinality(wk[u].batch) = wk[u].pos
    BY <1>1, <1>2, <1>3, FileType DEF Attempts, CountOK, Inserting
  <1>7. /\ Cardinality(b) \in Nat /\ Cardinality(wk[u].batch) \in Nat /\ b \in SUBSET Nat
        /\ Cardinality(wk[u].batch \ b) = Cardinality(wk[u].batch) - Cardinality(b)
        /\ Cardinality(wk[u].batch \ b) \in Nat
    <2>1. wk[u].batch \ b \subseteq wk[u].batch
      OBVIOUS
    <2>2. /\ Cardinality(wk[u].batch) \in Nat
          /\ \A T : T \subseteq wk[u].batch =>
               /\ Cardinality(T) \in Nat
               /\ Cardinality(wk[u].batch \ T) = Cardinality(wk[u].batch) - Cardinality(T)
      <3>1. PICK n \in Nat, S \in SUBSET Nat : n = wk[u].pos /\ S = wk[u].batch
        BY <1>6
      <3>2. S \subseteq 1..n
        BY <1>6, <3>1
      <3>3. /\ Cardinality(S) \in Nat
            /\ \A T : T \subseteq S => /\ Cardinality(T) \in Nat
                                       /\ Cardinality(S \ T) = Cardinality(S) - Cardinality(T)
        BY <3>2, BatchFinite, Zenon
      <3> QED BY <3>1, <3>3
    <2> QED BY <1>5, <1>6, <2>1, <2>2
  <1>8. PICK n \in Nat : n = wk[u].cnt.duplicate + Cardinality(wk[u].batch \ b)
    BY <1>6, <1>7 DEF Counts
  <1>9. PICK c : c = [wk[u].cnt EXCEPT !.duplicate = n]
    OBVIOUS
  <1>10. c \in Counts /\ Sum(c) + Cardinality(b) = wk[u].pos
    <2>1. c \in Counts /\ c.imported = wk[u].cnt.imported /\ c.errors = wk[u].cnt.errors /\ c.duplicate = n
      BY <1>6, <1>9 DEF Counts
    <2>2. wk[u].cnt.imported \in Nat /\ wk[u].cnt.errors \in Nat /\ wk[u].cnt.duplicate \in Nat
      BY <1>6 DEF Counts
    <2>3. PICK m \in Nat, x \in Nat, y \in Nat :
              m = Cardinality(wk[u].batch \ b) /\ x = Cardinality(wk[u].batch) /\ y = Cardinality(b)
      BY <1>7
    <2>4. Sum(wk[u].cnt) + x = wk[u].pos /\ m = x - y /\ n = wk[u].cnt.duplicate + m
      BY <1>6, <1>7, <1>8, <2>3
    <2>5. Sum(c) + y = wk[u].pos
      <3>1. PICK a \in Nat, e \in Nat, q \in Nat :
                a = wk[u].cnt.imported /\ e = wk[u].cnt.errors /\ q = wk[u].cnt.duplicate
        BY <2>2
      <3>2. Sum(wk[u].cnt) = a + q + e /\ Sum(c) = a + n + e
        BY <2>1, <3>1 DEF Sum
      <3>3. (a + q + e) + x = wk[u].pos /\ m = x - y /\ n = q + m
        BY <2>4, <3>1, <3>2
      <3>4. (a + n + e) + y = wk[u].pos
        BY <1>6, <3>3, Moved
      <3> QED BY <3>2, <3>4
    <2> QED BY <2>1, <2>3, <2>5
  <1>11. PICK w1 : w1 = [wk[u] EXCEPT !.batch = b, !.cnt = c, !.pc = "copy"]
    OBVIOUS
  <1>12. w1 \in Attempts /\ w1.pc = "copy" /\ w1.pos = wk[u].pos /\ w1.batch = b /\ w1.cnt = c
    BY <1>2, <1>7, <1>10, <1>11 DEF Attempts
  <1>13. wk' = [wk EXCEPT ![u] = w1]
    <2>1. wk' = [wk EXCEPT ![u].batch = b,
                           ![u].cnt.duplicate = @ + Cardinality(wk[u].batch \ b), ![u].pc = "copy"]
      BY <1>4 DEF DeduplicateBatch
    <2>2. wk \in [Uploads -> Attempts]
      BY <1>1 DEF ImportTypeOK
    <2>3. wk' = [wk EXCEPT ![u] = [wk[u] EXCEPT !.batch = b,
                   !.cnt = [wk[u].cnt EXCEPT !.duplicate = @ + Cardinality(wk[u].batch \ b)], !.pc = "copy"]]
      BY <1>2, <2>1, <2>2 DEF Attempts
    <2> QED BY <1>8, <1>9, <1>11, <2>3
  <1>14. PICK d \in BOOLEAN : d = (blind[u] \/ fails) /\ blind' = [blind EXCEPT ![u] = d]
    BY DEF DeduplicateBatch
  <1>15. UNCHANGED <<job, queue, att, file, live, note, runs, before, lost>>
    BY DEF DeduplicateBatch, jobVars
  <1>16. live' = [live EXCEPT ![u] = live[u]] /\ job' = [job EXCEPT ![u] = job[u]]
    BY <1>1, <1>15 DEF ImportTypeOK
  <1>17. /\ wk[u].pc \in Inserting /\ w1.pc \in Inserting
         /\ w1.pos <= Len(Contents[u]) /\ w1.batch \subseteq 1..w1.pos
         /\ Sum(w1.cnt) + Cardinality(w1.batch) = w1.pos
    BY <1>3, <1>5, <1>6, <1>10, <1>12 DEF Inserting
  <1>18. \A i \in b : KeyAt(u, i) \in Keys
    BY <1>1, <1>5 DEF DedupOK
  <1>19. ASSUME ~d
         PROVE  /\ \A k \in Keys : live[u][k] <= 1
                /\ \A k \in Keys, v \in before[u] : live[u][k] = 0 \/ live[v][k] = 0
                /\ \A i \in b : /\ live[u][KeyAt(u, i)] = 0
                                /\ \A v \in before[u] : live[v][KeyAt(u, i)] = 0
                /\ \A i, j \in b : KeyAt(u, i) = KeyAt(u, j) => i = j
    <2>1. ~blind[u] /\ ~fails
      BY <1>14, <1>19
    <2>2. /\ \A k \in Keys : live[u][k] <= 1
          /\ \A k \in Keys, v \in before[u] : live[u][k] = 0 \/ live[v][k] = 0
      BY <1>1, <2>1 DEF DedupOK
    <2>3. b = Deduplicate(u, wk[u].batch, Existing)
      BY <1>4, <2>1
    <2>4. ASSUME NEW i \in b, NEW v \in Uploads PROVE live[v][KeyAt(u, i)] = 0
      <3>1. KeyAt(u, i) \notin Existing /\ KeyAt(u, i) \in Keys
        BY <1>18, <2>3 DEF Deduplicate
      <3>2. ~(live[v][KeyAt(u, i)] > 0)
        BY <3>1 DEF Existing
      <3>3. live[v][KeyAt(u, i)] \in Nat
        BY <1>1, <3>1 DEF ImportTypeOK
      <3> QED BY <3>2, <3>3
    <2>5. ASSUME NEW i \in b, NEW j \in b, KeyAt(u, i) = KeyAt(u, j) PROVE i = j
      <3>1. i \in Nat /\ j \in Nat /\ i \in wk[u].batch /\ j \in wk[u].batch
        BY <1>5, <1>6
      <3>2. ~(j < i) /\ ~(i < j)
        BY <2>3, <2>5, <3>1 DEF Deduplicate
      <3> QED BY <3>1, <3>2
    <2>6. \A v \in before[u] : v \in Uploads
      BY <1>1 DEF ImportTypeOK
    <2> QED BY <2>2, <2>4, <2>5, <2>6
  <1> QED BY <1>2, <1>12, <1>13, <1>14, <1>15, <1>16, <1>17, <1>18, <1>19, InsertingStep

\* A batch that went in: everything read is counted, and the next one is empty.
LEMMA FlushStep ==
    ASSUME ImportInv, NEW u \in Uploads, wk[u].pc \in Inserting,
           NEW c \in Counts, Flushed(u, c), Sum(c) = wk[u].pos,
           NEW l \in [Keys -> Nat], live' = [live EXCEPT ![u] = l],
           UNCHANGED <<queue, att, file, note, runs, blind, before, lost>>,
           ~blind[u] => /\ \A k \in Keys : l[k] <= 1
                        /\ \A k \in Keys, v \in before[u] : l[k] = 0 \/ live[v][k] = 0
    PROVE  ImportInv'
  <1>1. ImportTypeOK /\ CountOK(u)
    BY DEF ImportInv, OneImport
  <1>2. wk[u] \in Attempts /\ job[u] \in ImportRows /\ blind[u] \in BOOLEAN
    BY <1>1 DEF ImportTypeOK
  <1>3. PICK w1 : w1 = [wk[u] EXCEPT !.batch = {}, !.cnt = c, !.pc = "read"]
    OBVIOUS
  <1>4. w1 \in Attempts /\ w1.pc = "read" /\ w1.pos = wk[u].pos /\ w1.batch = {} /\ w1.cnt = c
    BY <1>2, <1>3 DEF Attempts
  <1>5. wk' = [wk EXCEPT ![u] = w1]
    BY <1>1, <1>2, <1>3 DEF Flushed, ImportTypeOK
  <1>6. PICK row \in ImportRows : job' = [job EXCEPT ![u] = row] /\ row.status = job[u].status
    <2>1. CASE job' = job
      <3>1. job' = [job EXCEPT ![u] = job[u]]
        BY <1>1, <2>1 DEF ImportTypeOK
      <3> QED BY <1>2, <3>1
    <2>2. CASE job' = [job EXCEPT ![u].cnt = [c EXCEPT !.total = 0]]
      <3>1. PICK e : e = [c EXCEPT !.total = 0]
        OBVIOUS
      <3>2. e \in Counts
        BY <3>1 DEF Counts
      <3>3. PICK row : row = [job[u] EXCEPT !.cnt = e]
        OBVIOUS
      <3>4. row \in ImportRows /\ row.status = job[u].status
        BY <1>2, <3>2, <3>3 DEF ImportRows
      <3>5. job' = [job EXCEPT ![u] = row]
        BY <1>1, <1>2, <2>2, <3>1, <3>3 DEF ImportTypeOK
      <3> QED BY <3>4, <3>5
    <2> QED BY <2>1, <2>2 DEF Flushed
  <1>7. wk[u].pos \in Nat /\ wk[u].pos <= Len(Contents[u])
    BY <1>1, <1>2 DEF Attempts, CountOK
  <1>8. Cardinality(w1.batch) = 0
    BY <1>4, FS_EmptySet, Zenon
  <1>9. Sum(w1.cnt) + Cardinality(w1.batch) = w1.pos
    <2>1. Sum(w1.cnt) = w1.pos /\ w1.pos \in Nat
      BY <1>4, <1>7
    <2> QED BY <1>8, <2>1
  <1>10. /\ w1.pc \in Inserting /\ w1.pc \notin {"copy", "rows"} /\ w1.pos <= Len(Contents[u])
         /\ w1.batch \subseteq 1..w1.pos /\ \A i \in w1.batch : KeyAt(u, i) \in Keys
    BY <1>4, <1>7 DEF Inserting
  <1>11. blind' = [blind EXCEPT ![u] = blind[u]]
    BY <1>1 DEF ImportTypeOK
  <1>12. UNCHANGED <<queue, att, file, note, runs, before, lost>>
    OBVIOUS
  <1>13. ~blind[u] => /\ \A k \in Keys : l[k] <= 1
                      /\ \A k \in Keys, v \in before[u] : l[k] = 0 \/ live[v][k] = 0
                      /\ w1.pc \in {"copy", "rows"} =>
                           /\ \A i \in w1.batch : /\ l[KeyAt(u, i)] = 0
                                                  /\ \A v \in before[u] : live[v][KeyAt(u, i)] = 0
                           /\ \A i, j \in w1.batch : KeyAt(u, i) = KeyAt(u, j) => i = j
    BY <1>10
  <1> QED BY <1>2, <1>4, <1>5, <1>6, <1>9, <1>10, <1>11, <1>12, <1>13, InsertingStep

\* One more row counted among the imported, or among the errors.
LEMMA OneMore ==
    ASSUME NEW c \in Counts, NEW n \in Nat
    PROVE  /\ [c EXCEPT !.imported = @ + n] \in Counts
           /\ Sum([c EXCEPT !.imported = @ + n]) = Sum(c) + n
           /\ [c EXCEPT !.errors = @ + n] \in Counts
           /\ Sum([c EXCEPT !.errors = @ + n]) = Sum(c) + n
           /\ Sum(c) \in Nat
  <1>1. c.imported \in Nat /\ c.duplicate \in Nat /\ c.errors \in Nat
    BY DEF Counts
  <1>2. PICK a \in Nat, e \in Nat : a = c.imported + n /\ e = c.errors + n
    BY <1>1
  <1>3. PICK ca, ce : ca = [c EXCEPT !.imported = a] /\ ce = [c EXCEPT !.errors = e]
    OBVIOUS
  <1>4. /\ ca \in Counts /\ ca.imported = a /\ ca.duplicate = c.duplicate /\ ca.errors = c.errors
        /\ ce \in Counts /\ ce.imported = c.imported /\ ce.duplicate = c.duplicate /\ ce.errors = e
    BY <1>3 DEF Counts
  <1>5. Sum(ca) = Sum(c) + n /\ Sum(ce) = Sum(c) + n /\ Sum(c) \in Nat
    BY <1>1, <1>2, <1>4 DEF Sum
  <1> QED BY <1>2, <1>3, <1>4, <1>5

\* The COPY inserts one row of each key of the batch, and those are new.
LEMMA CopyStep ==
    ASSUME ImportInv, NEW u \in Uploads, CopyFrom(u)
    PROVE  ImportInv'
  <1>1. ImportTypeOK /\ CountOK(u) /\ DedupOK(u)
    BY DEF ImportInv, OneImport
  <1>2. wk[u] \in Attempts /\ live[u] \in [Keys -> Nat] /\ wk[u].pc = "copy"
    BY <1>1 DEF ImportTypeOK, CopyFrom
  <1>3. PICK b \in SUBSET Nat, n \in Nat : b = wk[u].batch /\ n = wk[u].pos
    BY <1>2 DEF Attempts
  <1>4. b \subseteq 1..n /\ Sum(wk[u].cnt) + Cardinality(b) = n
    BY <1>1, <1>2, <1>3 DEF CountOK, Inserting
  <1>5. /\ Cardinality(b) \in Nat /\ \A T : T \subseteq b => Cardinality(T) \in Nat
    BY <1>4, BatchFinite, Zenon
  <1>6. PICK c : c = [wk[u].cnt EXCEPT !.imported = @ + Cardinality(b)]
    OBVIOUS
  <1>7. c \in Counts /\ Sum(c) = wk[u].pos
    <2>1. wk[u].cnt \in Counts
      BY <1>2 DEF Attempts
    <2>2. PICK m \in Nat : m = Cardinality(b)
      BY <1>5
    <2>3. c \in Counts /\ Sum(c) = Sum(wk[u].cnt) + m
      BY <1>6, <2>1, <2>2, OneMore
    <2> QED BY <1>3, <1>4, <2>2, <2>3
  <1>8. Flushed(u, c)
    BY <1>3, <1>6 DEF CopyFrom
  <1>9. PICK l : l = [k \in Keys |-> live[u][k] + Cardinality({i \in b : KeyAt(u, i) = k})]
    OBVIOUS
  <1>10. live' = [live EXCEPT ![u] = l]
    <2>1. live' = [live EXCEPT ![u] = [k \in Keys |->
                      live[u][k] + Cardinality({i \in b : KeyAt(u, i) = k})]]
      BY <1>1, <1>3 DEF CopyFrom, ImportTypeOK
    <2> QED BY <1>9, <2>1
  <1>11. \A k \in Keys : Cardinality({i \in b : KeyAt(u, i) = k}) \in Nat
    <2> SUFFICES ASSUME NEW k \in Keys PROVE Cardinality({i \in b : KeyAt(u, i) = k}) \in Nat
      OBVIOUS
    <2>1. {i \in b : KeyAt(u, i) = k} \subseteq b
      OBVIOUS
    <2> QED BY <1>5, <2>1
  <1>12. l \in [Keys -> Nat]
    <2>1. \A k \in Keys : live[u][k] + Cardinality({i \in b : KeyAt(u, i) = k}) \in Nat
      BY <1>2, <1>11
    <2> QED BY <1>9, <2>1
  <1>13. UNCHANGED <<queue, att, file, note, runs, blind, before, lost>>
    BY DEF CopyFrom, ghosts
  <1>14. ASSUME ~blind[u]
         PROVE  /\ \A k \in Keys : l[k] <= 1
                /\ \A k \in Keys, v \in before[u] : l[k] = 0 \/ live[v][k] = 0
    <2>1. /\ \A k \in Keys : live[u][k] <= 1
          /\ \A k \in Keys, v \in before[u] : live[u][k] = 0 \/ live[v][k] = 0
          /\ \A i \in b : Fresh(u, i)
          /\ \A i, j \in b : KeyAt(u, i) = KeyAt(u, j) => i = j
      BY <1>1, <1>2, <1>3, <1>14 DEF DedupOK
    <2>2. ASSUME NEW k \in Keys
          PROVE  l[k] <= 1 /\ \A v \in before[u] : l[k] = 0 \/ live[v][k] = 0
      <3>1. PICK S : S = {i \in b : KeyAt(u, i) = k}
        OBVIOUS
      <3>2. l[k] = live[u][k] + Cardinality(S) /\ live[u][k] \in Nat
        BY <1>2, <1>9, <3>1
      <3>3. CASE S = {}
        <4>1. Cardinality(S) = 0
          BY <3>3, FS_EmptySet, Zenon
        <4>2. l[k] = live[u][k]
          BY <3>2, <4>1
        <4> QED BY <2>1, <4>2
      <3>4. CASE S # {}
        <4>1. PICK i \in b : KeyAt(u, i) = k /\ i \in S
          BY <3>1, <3>4
        <4>2. S = {i}
          BY <2>1, <3>1, <4>1
        <4>3. Cardinality(S) = 1
          BY <4>2, FS_Singleton, Zenon
        <4>4. live[u][k] = 0 /\ \A v \in before[u] : live[v][k] = 0
          BY <2>1, <4>1 DEF Fresh
        <4>5. l[k] = 1
          BY <3>2, <4>3, <4>4
        <4> QED BY <4>4, <4>5
      <3> QED BY <3>3, <3>4
    <2> QED BY <2>2
  <1>15. wk[u].pc \in Inserting
    BY <1>2 DEF Inserting
  <1> QED BY <1>7, <1>8, <1>10, <1>12, <1>13, <1>14, <1>15, FlushStep

\* Row by row: the rows that are left are still new.
LEMMA InsertStep ==
    ASSUME ImportInv, NEW u \in Uploads, InsertSingleQSO(u)
    PROVE  ImportInv'
  <1>1. ImportTypeOK /\ CountOK(u) /\ DedupOK(u)
    BY DEF ImportInv, OneImport
  <1>2. /\ wk[u] \in Attempts /\ live[u] \in [Keys -> Nat] /\ wk[u].pc = "rows"
        /\ job[u] \in ImportRows /\ blind[u] \in BOOLEAN /\ wk[u].batch # {}
    BY <1>1 DEF ImportTypeOK, InsertSingleQSO
  <1>3. PICK b \in SUBSET Nat, n \in Nat : b = wk[u].batch /\ n = wk[u].pos
    BY <1>2 DEF Attempts
  <1>4. b \subseteq 1..n /\ Sum(wk[u].cnt) + Cardinality(b) = n /\ n <= Len(Contents[u])
    BY <1>1, <1>2, <1>3 DEF CountOK, Inserting
  <1>5. Cardinality(b) \in Nat /\ \A x \in b : Cardinality(b \ {x}) = Cardinality(b) - 1
    BY <1>4, BatchFinite, Zenon
  <1>6. PICK i \in b : i = Min(b)
    BY <1>2, <1>3, SmallestIsIn
  <1>7. PICK k \in Keys : k = KeyAt(u, i)
    BY <1>1, <1>3, <1>6 DEF DedupOK
  <1>8. PICK inserted \in BOOLEAN : \E c :
            /\ c = IF inserted THEN [wk[u].cnt EXCEPT !.imported = @ + 1]
                               ELSE [wk[u].cnt EXCEPT !.errors = @ + 1]
            /\ live' = IF inserted THEN [live EXCEPT ![u][k] = @ + 1] ELSE live
            /\ IF b = {i} THEN Flushed(u, c)
               ELSE wk' = [wk EXCEPT ![u].batch = @ \ {i}, ![u].cnt = c] /\ UNCHANGED job
    BY <1>3, <1>6, <1>7 DEF InsertSingleQSO
  <1>8a. PICK c :
            /\ c = IF inserted THEN [wk[u].cnt EXCEPT !.imported = @ + 1]
                               ELSE [wk[u].cnt EXCEPT !.errors = @ + 1]
            /\ live' = IF inserted THEN [live EXCEPT ![u][k] = @ + 1] ELSE live
            /\ IF b = {i} THEN Flushed(u, c)
               ELSE wk' = [wk EXCEPT ![u].batch = @ \ {i}, ![u].cnt = c] /\ UNCHANGED job
    BY <1>8
  <1>9. c \in Counts /\ Sum(c) = Sum(wk[u].cnt) + 1 /\ Sum(wk[u].cnt) \in Nat
    <2>1. wk[u].cnt \in Counts /\ 1 \in Nat
      BY <1>2 DEF Attempts
    <2> QED BY <1>8a, <2>1, OneMore
  <1>10. PICK l : l = IF inserted THEN [live[u] EXCEPT ![k] = @ + 1] ELSE live[u]
    OBVIOUS
  <1>11. /\ l \in [Keys -> Nat] /\ l[k] <= live[u][k] + 1
         /\ \A j \in Keys : j # k => l[j] = live[u][j]
    BY <1>2, <1>10
  <1>12. live' = [live EXCEPT ![u] = l]
    BY <1>1, <1>2, <1>8a, <1>10 DEF ImportTypeOK
  <1>13. IF b = {i} THEN Flushed(u, c)
         ELSE wk' = [wk EXCEPT ![u].batch = @ \ {i}, ![u].cnt = c] /\ UNCHANGED job
    BY <1>8a
  <1>14. UNCHANGED <<queue, att, file, note, runs, blind, before, lost>>
    BY DEF InsertSingleQSO, ghosts
  <1>15. ASSUME ~blind[u]
         PROVE  /\ \A j \in Keys : l[j] <= 1
                /\ \A j \in Keys, v \in before[u] : l[j] = 0 \/ live[v][j] = 0
                /\ \A x \in b \ {i} : /\ l[KeyAt(u, x)] = 0
                                      /\ \A v \in before[u] : live[v][KeyAt(u, x)] = 0
                /\ \A x, y \in b \ {i} : KeyAt(u, x) = KeyAt(u, y) => x = y
    <2>1. /\ \A j \in Keys : live[u][j] <= 1
          /\ \A j \in Keys, v \in before[u] : live[u][j] = 0 \/ live[v][j] = 0
          /\ \A x \in b : Fresh(u, x)
          /\ \A x, y \in b : KeyAt(u, x) = KeyAt(u, y) => x = y
      BY <1>1, <1>2, <1>3, <1>15 DEF DedupOK
    <2>2. live[u][k] = 0 /\ \A v \in before[u] : live[v][k] = 0
      BY <1>7, <2>1 DEF Fresh
    <2>3. l[k] <= 1
      BY <1>11, <2>2
    <2>4. /\ \A j \in Keys : l[j] <= 1
          /\ \A j \in Keys, v \in before[u] : l[j] = 0 \/ live[v][j] = 0
      BY <1>11, <2>1, <2>2, <2>3
    <2>5. \A x \in b \ {i} : /\ l[KeyAt(u, x)] = 0
                             /\ \A v \in before[u] : live[v][KeyAt(u, x)] = 0
      <3> SUFFICES ASSUME NEW x \in b \ {i}
                   PROVE  l[KeyAt(u, x)] = 0 /\ \A v \in before[u] : live[v][KeyAt(u, x)] = 0
        OBVIOUS
      <3>1. KeyAt(u, x) # k /\ Fresh(u, x)
        BY <1>7, <2>1
      <3> QED BY <1>11, <3>1 DEF Fresh
    <2> QED BY <2>1, <2>4, <2>5
  <1>16. CASE b = {i}
    <2>1. Cardinality(b) = 1
      BY <1>16, FS_Singleton, Zenon
    <2>2. Flushed(u, c) /\ Sum(c) = wk[u].pos /\ wk[u].pc \in Inserting
      BY <1>2, <1>3, <1>4, <1>9, <1>13, <1>16, <2>1 DEF Inserting
    <2> QED BY <1>9, <1>11, <1>12, <1>14, <1>15, <2>2, FlushStep
  <1>17. CASE b # {i}
    <2>1. PICK w1 : w1 = [wk[u] EXCEPT !.batch = b \ {i}, !.cnt = c]
      OBVIOUS
    <2>2. w1 \in Attempts /\ w1.pc = "rows" /\ w1.pos = n /\ w1.batch = b \ {i} /\ w1.cnt = c
      BY <1>2, <1>3, <1>9, <2>1 DEF Attempts
    <2>3. wk' = [wk EXCEPT ![u] = w1] /\ job' = [job EXCEPT ![u] = job[u]]
      <3>1. wk' = [wk EXCEPT ![u].batch = @ \ {i}, ![u].cnt = c] /\ job' = job
        BY <1>13, <1>17
      <3> QED BY <1>1, <1>2, <1>3, <2>1, <3>1 DEF ImportTypeOK
    <2>4. blind' = [blind EXCEPT ![u] = blind[u]]
      BY <1>1, <1>14 DEF ImportTypeOK
    <2>5. Sum(w1.cnt) + Cardinality(w1.batch) = w1.pos
      <3>1. Cardinality(w1.batch) = Cardinality(b) - 1
        BY <1>5, <1>6, <2>2
      <3> QED BY <1>4, <1>5, <1>9, <2>2, <3>1
    <2>6. /\ w1.pos <= Len(Contents[u]) /\ w1.batch \subseteq 1..w1.pos
          /\ \A x \in w1.batch : KeyAt(u, x) \in Keys
      BY <1>1, <1>3, <1>4, <2>2 DEF DedupOK
    <2>7. wk[u].pc \in Inserting /\ w1.pc \in Inserting
      BY <1>2, <2>2 DEF Inserting
    <2>8. ~blind[u] => /\ \A j \in Keys : l[j] <= 1
                       /\ \A j \in Keys, v \in before[u] : l[j] = 0 \/ live[v][j] = 0
                       /\ \A x \in w1.batch : /\ l[KeyAt(u, x)] = 0
                                              /\ \A v \in before[u] : live[v][KeyAt(u, x)] = 0
                       /\ \A x, y \in w1.batch : KeyAt(u, x) = KeyAt(u, y) => x = y
      BY <1>15, <2>2
    <2>9. UNCHANGED <<queue, att, file, note, runs, before, lost>>
      BY <1>14
    <2> QED BY <1>2, <1>11, <1>12, <2>2, <2>3, <2>4, <2>5, <2>6, <2>7, <2>8, <2>9, InsertingStep
  <1> QED BY <1>16, <1>17

-----------------------------------------------------------------------------
(* Imports: the invariant, and what follows from it. *)

LEMMA ImportNextInv == ImportInv /\ [ImportNext]_importVars => ImportInv'
  <1> SUFFICES ASSUME ImportInv, [ImportNext]_importVars PROVE ImportInv'
    OBVIOUS
  <1>1. CASE UNCHANGED importVars
    BY <1>1 DEF ImportInv, ImportTypeOK, OneImport, StatusOK, CountOK, LeakOK, BeforeOK, DedupOK,
                Fresh, importVars
  <1>2. ASSUME NEW u \in Uploads,
               SaveUpload(u) \/ UploadADIF(u) \/ UploadFails(u) \/ UploadQRZ(u)
        PROVE  ImportInv'
    BY <1>2, HandlerSteps
  <1>3. ASSUME NEW u \in Uploads, Begin(u) PROVE ImportInv'
    BY <1>3, BeginStep
  <1>4. ASSUME NEW u \in Uploads, Step(u) PROVE ImportInv'
    <2>1. CASE LoadFails(u) \/ Skip(u) \/ QRZFetchFails(u) \/ StartFails(u) \/ Finish(u)
      BY <2>1, ReturnSteps
    <2>2. CASE Load(u) \/ CountSpins(u) \/ CopyFails(u) \/ ReadAll(u)
      BY <2>2, MoveSteps
    <2>3. CASE Start(u)
      BY <2>3, StartStep
    <2>4. CASE ReadRecord(u)
      BY <2>4, ReadStep
    <2>5. ASSUME NEW fails \in BOOLEAN, DeduplicateBatch(u, fails) PROVE ImportInv'
      BY <2>5, DedupStep
    <2>6. CASE CopyFrom(u)
      BY <2>6, CopyStep
    <2>7. CASE InsertSingleQSO(u)
      BY <2>7, InsertStep
    <2> QED BY <1>4, <2>1, <2>2, <2>3, <2>4, <2>5, <2>6, <2>7 DEF Step
  <1>5. ASSUME NEW u \in Uploads, Timeout(u) PROVE ImportInv'
    BY <1>5, ReturnSteps
  <1>6. CASE Die
    BY <1>6, DieStep
  <1>7. ASSUME NEW u \in Uploads, Rescue(u) PROVE ImportInv'
    BY <1>7, RescueStep
  <1>8. ASSUME NEW u \in Uploads, NEW k \in Keys, DeleteQSO(u, k) PROVE ImportInv'
    BY <1>8, DeleteStep
  <1> QED BY <1>1, <1>2, <1>3, <1>4, <1>5, <1>6, <1>7, <1>8 DEF ImportNext

\* The slots held by attempts that were given up are counted up by a rescue
\* and forgotten with the process.
LEMMA StuckCounted == StuckOK /\ [ImportNext]_importVars => StuckOK'
  <1> SUFFICES ASSUME stuck \in Nat, [ImportNext]_importVars PROVE stuck' \in Nat
    BY DEF StuckOK
  <1>1. CASE UNCHANGED importVars
    BY <1>1 DEF importVars
  <1>2. CASE Die
    BY <1>2 DEF Die
  <1>3. ASSUME NEW u \in Uploads, Rescue(u) PROVE stuck' \in Nat
    BY <1>3 DEF Rescue
  <1>4. ASSUME NEW u \in Uploads, Step(u) PROVE stuck' \in Nat
    BY <1>4 DEF Step, LoadFails, Skip, Load, QRZFetchFails, CountSpins, Start, StartFails,
                ReadRecord, DeduplicateBatch, CopyFrom, CopyFails, InsertSingleQSO, ReadAll, Finish
  <1>5. ASSUME NEW u \in Uploads,
               \/ SaveUpload(u) \/ UploadADIF(u) \/ UploadFails(u) \/ UploadQRZ(u)
               \/ Begin(u) \/ Timeout(u) \/ \E k \in Keys : DeleteQSO(u, k)
        PROVE  stuck' \in Nat
    BY <1>5 DEF SaveUpload, UploadADIF, UploadFails, UploadQRZ, Begin, Timeout, DeleteQSO
  <1> QED BY <1>1, <1>2, <1>3, <1>4, <1>5 DEF ImportNext

\* Types: the rows, River's states and the locals of the attempts keep their
\* ranges, and no counter of an import goes below zero.
THEOREM ImportTypeCorrect == ImportSpec => [](ImportTypeOK /\ StuckOK)
  <1>1. ImportInv => ImportTypeOK
    BY DEF ImportInv
  <1>2. ImportSpec => ImportInit /\ [][ImportNext]_importVars
    BY DEF ImportSpec
  <1>3. ImportInit => StuckOK
    BY DEF ImportInit, StuckOK
  <1> QED BY <1>1, <1>2, <1>3, ImportInitInv, ImportNextInv, StuckCounted, PTL

\* However often an import is retried or rescued, its records are read once.
THEOREM RecordsReadOnce == ImportSpec => []RunsOnce
  <1>1. ImportInv => RunsOnce
    BY DEF ImportInv, OneImport, StatusOK, RunsOnce
  <1>2. ImportSpec => ImportInit /\ [][ImportNext]_importVars
    BY DEF ImportSpec
  <1> QED BY <1>1, <1>2, ImportInitInv, ImportNextInv, PTL

\* A completed import counted every record of its file exactly once, whatever
\* the size of the batches and whichever of them fell back to single inserts.
THEOREM RecordsAccounted == ImportSpec => []Accounted
  <1>1. ImportInv => Accounted
    BY DEF ImportInv, OneImport, CountOK, Sum, Accounted
  <1>2. ImportSpec => ImportInit /\ [][ImportNext]_importVars
    BY DEF ImportSpec
  <1> QED BY <1>1, <1>2, ImportInitInv, ImportNextInv, PTL

\* Deduplication: no import whose dedup queries worked adds a second copy of a
\* QSO of its own file or of an import that was over when it began.
THEOREM NoCopiesAdded == ImportSpec => []NoSecondCopy
  <1>1. ImportInv => NoSecondCopy
    <2> SUFFICES ASSUME ImportInv, NEW u \in Uploads, ~blind[u], NEW k \in Keys
                 PROVE  live[u][k] <= 1 /\ \A v \in before[u] : ~(live[u][k] > 0 /\ live[v][k] > 0)
      BY DEF NoSecondCopy
    <2>1. /\ live[u][k] <= 1 /\ \A v \in before[u] : live[u][k] = 0 \/ live[v][k] = 0
      BY DEF ImportInv, OneImport, DedupOK
    <2> QED BY <2>1
  <1>2. ImportSpec => ImportInit /\ [][ImportNext]_importVars
    BY DEF ImportSpec
  <1> QED BY <1>1, <1>2, ImportInitInv, ImportNextInv, PTL

\* A job that River closed has left its upload on disk only if one of its
\* attempts died or never came back.
THEOREM FilesLeaveWithTheJob == ImportSpec => []LeakOnlyByLoss
  <1>1. ImportInv => LeakOnlyByLoss
    BY DEF ImportInv, OneImport, LeakOK, LeakOnlyByLoss
  <1>2. ImportSpec => ImportInit /\ [][ImportNext]_importVars
    BY DEF ImportSpec
  <1> QED BY <1>1, <1>2, ImportInitInv, ImportNextInv, PTL

-----------------------------------------------------------------------------
(***************************************************************************)
(* Alerts: types.                                                          *)
(***************************************************************************)

FeedRows == [ref : Refs, mode : Modes \cup {None}, at : Nat]
SpotRows == [ref : Refs, mode : Modes \cup {None}, at : Nat, watchers : SUBSET Rules]
SpotKeys == Refs \X Nat
RuleRows == [st : {"none", "live", "gone"}, ref : Refs \cup {None}, mode : Modes \cup {None},
             enabled : BOOLEAN]
MatchRows == [rule : Rules, spot : SpotKeys, enabled : BOOLEAN]
WarningKeys == Callsigns \X Dates \X Thresholds
WarningRows == [id : Nat, type : {"cert_expiry"}, key : WarningKeys, at : Nat, gap : Nat,
                read : BOOLEAN]
ClientRows == [id : Nat, type : {"sync_complete"}, key : {None}, at : Nat, gap : Nat,
               read : BOOLEAN]
NoteRows == WarningRows \cup ClientRows
PollRows == [st : {"run", "doomed"}, now : Nat, todo : Seq(FeedRows),
             matches : SUBSET MatchRows, up : SUBSET SpotRows]
Scans == [st : {"run"}, todo : SUBSET WarningKeys]

FeedTypeOK ==
    /\ now \in Nat /\ posted \in Nat /\ jobs \in Nat /\ requests \in Nat
    /\ notes \subseteq NoteRows
    /\ expiry \in [Callsigns -> Dates \cup {None}]
    /\ scan \in Scans \cup {NoScan}
PollTypeOK ==
    /\ pref \in BOOLEAN
    /\ rule \in [Rules -> RuleRows]
    /\ spots \subseteq SpotRows
    /\ poll \in [Polls -> PollRows \cup {NoPoll}]
TypeOK == FeedTypeOK /\ PollTypeOK

-----------------------------------------------------------------------------
(***************************************************************************)
(* Alerts: the inductive invariant, in two halves that share the clock.    *)
(***************************************************************************)

\* Ids are given in order.
NotesOK == \A n \in notes : n.id <= posted
FeedInv == FeedTypeOK /\ NotesOK /\ WarningsSpaced

\* In a poll that may still commit, the watchers of what it has stored are
\* those of the matches it has not gone through yet.
Awaits(w, s) == \A r \in s.watchers : \E m \in w.matches : m.rule = r /\ ~Muted(m)
PollsOK == \A p \in Polls : poll[p].st = "run" => \A s \in poll[p].up : Awaits(poll[p], s)
PollInv == now \in Nat /\ PollTypeOK /\ PollsOK /\ WatchersTold

AlertsInv == FeedInv /\ PollInv

LEMMA InitInv == Init => AlertsInv
  <1> SUFFICES ASSUME Init PROVE AlertsInv
    OBVIOUS
  <1> USE DEF Init
  <1>1. SpotWatchRule \in RuleRows /\ DefaultPreference \in BOOLEAN
    BY DEF SpotWatchRule, RuleRows, DefaultPreference
  <1>2. FeedTypeOK /\ PollTypeOK
    BY <1>1 DEF FeedTypeOK, PollTypeOK
  <1>3. NotesOK /\ WarningsSpaced /\ WatchersTold
    BY DEF NotesOK, WarningsSpaced, WatchersTold
  <1>4. PollsOK
    BY DEF PollsOK, NoPoll
  <1> QED BY <1>2, <1>3, <1>4 DEF AlertsInv, FeedInv, PollInv, FeedTypeOK

-----------------------------------------------------------------------------
(***************************************************************************)
(* The feed of notifications: after a step, a notification is one of       *)
(* before, but for the mark that it was read, or a new one that, if it is  *)
(* a warning, keeps the window.                                            *)
(***************************************************************************)
Alike(n, o) ==
    n.id = o.id /\ n.type = o.type /\ n.key = o.key /\ n.at = o.at /\ n.gap = o.gap
FreshNote(n) ==
    /\ n.id = posted + 1
    /\ n.type = "cert_expiry" =>
         \A o \in notes : o.type = "cert_expiry" /\ o.key = n.key => n.at >= o.at + n.gap

LEMMA NoteTypes ==
    ASSUME FeedTypeOK, NEW n \in notes
    PROVE  n.id \in Nat /\ n.at \in Nat /\ n.gap \in Nat
  BY DEF FeedTypeOK, NoteRows, WarningRows, ClientRows

LEMMA FeedStep ==
    ASSUME FeedInv, FeedTypeOK', posted <= posted',
           \A n \in notes' : (\E o \in notes : Alike(n, o)) \/ (FreshNote(n) /\ posted < posted')
    PROVE  FeedInv'
  <1>0. posted \in Nat /\ posted' \in Nat /\ FeedTypeOK
    BY DEF FeedInv, FeedTypeOK
  <1>1. \A n \in notes : n.id <= posted /\ n.id \in Nat
    BY <1>0, NoteTypes DEF FeedInv, NotesOK
  <1>2. NotesOK'
    <2> SUFFICES ASSUME NEW n \in notes' PROVE n.id <= posted'
      BY DEF NotesOK
    <2> QED BY <1>0, <1>1 DEF Alike, FreshNote
  <1>3. WarningsSpaced'
    <2> SUFFICES ASSUME NEW a \in notes', NEW b \in notes', a.type = "cert_expiry",
                        b.type = "cert_expiry", a.key = b.key, a.id < b.id
                 PROVE  b.at >= a.at + b.gap
      BY DEF WarningsSpaced
    <2>1. ~FreshNote(a)
      BY <1>0, <1>1 DEF FreshNote, Alike
    <2>2. PICK x \in notes : Alike(a, x)
      BY <2>1
    <2>3. ASSUME NEW y \in notes, Alike(b, y) PROVE b.at >= a.at + b.gap
      <3>1. y.at >= x.at + y.gap
        BY <2>2, <2>3 DEF Alike, FeedInv, WarningsSpaced
      <3> QED BY <2>2, <2>3, <3>1 DEF Alike
    <2>4. CASE FreshNote(b)
      <3>1. b.at >= x.at + b.gap
        BY <2>2, <2>4 DEF FreshNote, Alike
      <3> QED BY <2>2, <3>1 DEF Alike
    <2> QED BY <2>3, <2>4
  <1> QED BY <1>2, <1>3 DEF FeedInv

LEMMA NotesUnchanged ==
    ASSUME notes' = notes
    PROVE  \A n \in notes' : \E o \in notes : Alike(n, o)
  BY DEF Alike

\* Steps of the polls, of the rules and of the clock.
LEMMA FeedUntouched ==
    ASSUME FeedInv, UNCHANGED <<notes, posted>>, now' \in Nat, jobs' \in Nat, requests' \in Nat,
           expiry' \in [Callsigns -> Dates \cup {None}], scan' \in Scans \cup {NoScan}
    PROVE  FeedInv'
  <1>1. FeedTypeOK' /\ posted <= posted'
    BY DEF FeedInv, FeedTypeOK
  <1> QED BY <1>1, NotesUnchanged, FeedStep

LEMMA SeenAlike == ASSUME NEW n \in NoteRows PROVE Seen(n) \in NoteRows /\ Alike(Seen(n), n)
  <1>1. CASE n \in WarningRows
    BY <1>1 DEF Seen, Alike, NoteRows, WarningRows
  <1>2. CASE n \in ClientRows
    BY <1>2 DEF Seen, Alike, NoteRows, ClientRows
  <1> QED BY <1>1, <1>2 DEF NoteRows

LEMMA FeedReadKeeps ==
    ASSUME FeedInv, (\E n \in notes : MarkRead(n) \/ Delete(n)) \/ MarkAllRead
    PROVE  FeedInv'
  <1>1. UNCHANGED <<now, posted, expiry, scan, jobs>> /\ Request
    BY DEF MarkRead, Delete, MarkAllRead
  <1>2. \A n \in notes' : n \in notes \/ \E o \in notes : n = Seen(o)
    BY DEF MarkRead, Delete, MarkAllRead, MarkNotificationRead, DeleteNotification,
           MarkAllNotificationsRead, ListNotifications, ListUnreadNotifications
  <1>3. notes \subseteq NoteRows
    BY DEF FeedInv, FeedTypeOK
  <1>4. notes' \subseteq NoteRows
    BY <1>2, <1>3, SeenAlike
  <1>5. \A n \in notes' : \E o \in notes : Alike(n, o)
    <2> SUFFICES ASSUME NEW n \in notes' PROVE \E o \in notes : Alike(n, o)
      OBVIOUS
    <2>1. Alike(n, n)
      BY DEF Alike
    <2> QED BY <1>2, <1>3, <2>1, SeenAlike
  <1>6. FeedTypeOK' /\ posted <= posted'
    BY <1>1, <1>4 DEF FeedInv, FeedTypeOK, Request
  <1> QED BY <1>5, <1>6, FeedStep

LEMMA PostStep ==
    ASSUME FeedInv, NEW n \in NoteRows, FreshNote(n), notes' = notes \cup {n},
           posted' = posted + 1, UNCHANGED <<now, expiry>>,
           scan' \in Scans \cup {NoScan}, jobs' \in Nat, requests' \in Nat
    PROVE  FeedInv'
  <1>1. FeedTypeOK' /\ posted < posted' /\ posted <= posted'
    BY DEF FeedInv, FeedTypeOK
  <1>2. \A x \in notes : Alike(x, x)
    BY DEF Alike
  <1>3. \A x \in notes' : (\E o \in notes : Alike(x, o)) \/ (FreshNote(x) /\ posted < posted')
    BY <1>1, <1>2
  <1> QED BY <1>1, <1>3, FeedStep

LEMMA CreateKeeps == ASSUME FeedInv, Create PROVE FeedInv'
  <1>1. PICK n : n = Notification("sync_complete", None, 0)
    OBVIOUS
  <1>2. n \in NoteRows /\ n.id = posted + 1 /\ n.type = "sync_complete"
    BY <1>1 DEF Notification, ClientRows, NoteRows, FeedInv, FeedTypeOK
  <1>3. FreshNote(n)
    BY <1>2 DEF FreshNote
  <1>4. /\ notes' = notes \cup {n} /\ posted' = posted + 1 /\ UNCHANGED <<now, expiry>>
        /\ scan' \in Scans \cup {NoScan} /\ jobs' \in Nat /\ requests' \in Nat
    BY <1>1 DEF Create, CreateNotification, Request, FeedInv, FeedTypeOK
  <1> QED BY <1>2, <1>3, <1>4, PostStep

LEMMA WarnKeeps == ASSUME FeedInv, ScanWarn PROVE FeedInv'
  <1>1. PICK w \in scan.todo : /\ scan' = [scan EXCEPT !.todo = @ \ {w}]
                               /\ Warn(w) \/ UNCHANGED <<notes, posted>>
    BY DEF ScanWarn
  <1>2. UNCHANGED <<now, expiry, jobs, requests>> /\ scan.st = "run"
    BY DEF ScanWarn
  <1>3. scan \in Scans
    BY <1>2 DEF FeedInv, FeedTypeOK, NoScan
  <1>4. scan' \in Scans \cup {NoScan} /\ w \in WarningKeys
    BY <1>1, <1>3 DEF Scans
  <1>5. now \in Nat /\ posted \in Nat /\ jobs' \in Nat /\ requests' \in Nat /\ Window \in Nat
    BY <1>2, AlertsAssumption DEF FeedInv, FeedTypeOK
  <1>6. CASE UNCHANGED <<notes, posted>>
    BY <1>2, <1>4, <1>5, <1>6, FeedUntouched DEF FeedInv, FeedTypeOK
  <1>7. CASE Warn(w) /\ ~HasRecentCertExpiryNotification(w)
    <2>1. PICK n : n = Notification("cert_expiry", w, Window)
      OBVIOUS
    <2>2. /\ n \in NoteRows /\ n.id = posted + 1 /\ n.type = "cert_expiry" /\ n.key = w
          /\ n.at = now /\ n.gap = Window
      BY <1>4, <1>5, <2>1 DEF Notification, WarningRows, NoteRows
    <2>3. \A o \in notes : o.type = "cert_expiry" /\ o.key = w => now >= o.at + Window
      BY <1>5, <1>7, NoteTypes DEF HasRecentCertExpiryNotification, FeedInv
    <2>4. FreshNote(n)
      BY <2>2, <2>3 DEF FreshNote
    <2>5. notes' = notes \cup {n} /\ posted' = posted + 1
      BY <1>7, <2>1 DEF Warn, CreateWorkerNotification
    <2> QED BY <1>2, <1>4, <1>5, <2>2, <2>4, <2>5, PostStep
  <1> QED BY <1>1, <1>6, <1>7 DEF Warn

LEMMA ScanStarts == ASSUME FeedInv, ScanStart PROVE FeedInv'
  <1>1. scan' \in Scans
    BY DEF ScanStart, Scans, ListAllExpiringCerts, WarningKeys
  <1>2. UNCHANGED <<now, notes, posted, expiry, requests>> /\ jobs' = jobs + 1
    BY DEF ScanStart
  <1> QED BY <1>1, <1>2, FeedUntouched DEF FeedInv, FeedTypeOK

-----------------------------------------------------------------------------
(***************************************************************************)
(* The polls.                                                              *)
(***************************************************************************)

\* Steps that leave the polls and the spots alone.
LEMMA PollsUntouched ==
    ASSUME PollInv, UNCHANGED <<poll, spots>>, now' \in Nat, pref' \in BOOLEAN,
           rule' \in [Rules -> RuleRows]
    PROVE  PollInv'
  <1>1. PollTypeOK' /\ PollsOK' /\ WatchersTold'
    BY DEF PollInv, PollTypeOK, PollsOK, WatchersTold, Awaits, Muted
  <1> QED BY <1>1 DEF PollInv

\* One poll goes on to w; the spots are as before.
LEMMA PollStep ==
    ASSUME PollInv, NEW p \in Polls, NEW w \in PollRows \cup {NoPoll},
           poll' = [poll EXCEPT ![p] = w],
           w.st = "run" => \A s \in w.up : Awaits(w, s),
           UNCHANGED <<now, pref, rule, spots>>
    PROVE  PollInv'
  <1>1. PollTypeOK'
    BY DEF PollInv, PollTypeOK
  <1>2. \A o \in Polls : poll'[o] = IF o = p THEN w ELSE poll[o]
    BY DEF PollInv, PollTypeOK
  <1>3. PollsOK'
    BY <1>2 DEF PollInv, PollsOK, Awaits, Muted
  <1> QED BY <1>1, <1>3 DEF PollInv, WatchersTold

LEMMA FeedType == ASSUME now \in Nat, NEW feed \in Feeds PROVE feed \in Seq(FeedRows)
  <1>1. fetchSpots \subseteq FeedRows
    BY DEF fetchSpots, FeedRows
  <1>2. PICK n \in 1..MaxFeed : feed \in [1..n -> fetchSpots]
    BY DEF Feeds
  <1>3. n \in Nat
    BY AlertsAssumption
  <1>4. feed \in [1..n -> FeedRows]
    BY <1>1, <1>2
  <1> QED BY <1>3, <1>4

LEMMA RunningRow == ASSUME PollInv, NEW p \in Polls, poll[p].st # "idle" PROVE poll[p] \in PollRows
  BY DEF PollInv, PollTypeOK, NoPoll

LEMMA FetchKeeps ==
    ASSUME PollInv, NEW p \in Polls, NEW feed \in Feeds, FetchSpots(p, feed)
    PROVE  PollInv'
  <1> DEFINE w == [st |-> "run", now |-> now, todo |-> feed, matches |-> {}, up |-> {}]
  <1>1. w \in PollRows
    BY FeedType DEF PollInv, PollRows
  <1>2. \A s \in w.up : Awaits(w, s)
    OBVIOUS
  <1>3. poll' = [poll EXCEPT ![p] = w] /\ UNCHANGED <<now, pref, rule, spots>>
    BY DEF FetchSpots
  <1> HIDE DEF w
  <1> QED BY <1>1, <1>2, <1>3, PollStep

LEMMA StoredRows ==
    ASSUME NEW S, NEW new
    PROVE  \A s \in StoreSpots(S, new) : s \in S \/ s \in new
  BY DEF StoreSpots

LEMMA UpsertKeeps ==
    ASSUME PollInv, NEW p \in Polls, UpsertSpot(p) PROVE PollInv'
  <1>1. poll[p] \in PollRows /\ poll[p].matches = {} /\ poll[p].todo # <<>> /\ poll[p].st = "run"
    BY RunningRow DEF UpsertSpot
  <1> DEFINE s == Head(poll[p].todo)
             found == ListMatchingSpotWatchRules(s)
             w == [poll[p] EXCEPT !.todo = Tail(@), !.up = StoreSpots(@, {Row(s, found)}),
                                  !.matches = found]
  <1>2. s \in FeedRows /\ Tail(poll[p].todo) \in Seq(FeedRows)
    <2>1. poll[p].todo \in Seq(FeedRows)
      BY <1>1 DEF PollRows
    <2> QED BY <1>1, <2>1
  <1>3. Key(s) \in SpotKeys /\ pref \in BOOLEAN
    BY <1>2 DEF FeedRows, Key, SpotKeys, PollInv, PollTypeOK
  <1>4. found \in SUBSET MatchRows
    BY <1>3 DEF ListMatchingSpotWatchRules, MatchRows
  <1>5. Row(s, found) \in SpotRows
    <2>1. {m.rule : m \in {m \in found : ~ Muted(m)}} \subseteq Rules
      BY <1>4 DEF MatchRows
    <2> QED BY <1>2, <2>1 DEF Row, SpotRows, FeedRows
  <1>6. StoreSpots(poll[p].up, {Row(s, found)}) \in SUBSET SpotRows
    BY <1>1, <1>5, StoredRows DEF PollRows
  <1>7. w \in PollRows
    <2> HIDE DEF s, found
    <2> QED BY <1>1, <1>2, <1>4, <1>6 DEF PollRows
  <1>8. ASSUME NEW x \in w.up PROVE Awaits(w, x)
    <2>1. w.matches = found /\ w.up = StoreSpots(poll[p].up, {Row(s, found)})
      BY <1>1 DEF PollRows
    <2>2. CASE x = Row(s, found)
      <3>1. x.watchers = {m.rule : m \in {m \in found : ~ Muted(m)}}
        BY <2>2 DEF Row
      <3> HIDE DEF w, found, s
      <3> QED BY <2>1, <3>1 DEF Awaits
    <2>3. CASE x \in poll[p].up
      <3>1. Awaits(poll[p], x)
        BY <1>1, <2>3 DEF PollInv, PollsOK
      <3>2. x.watchers = {}
        BY <1>1, <3>1, <2>3 DEF Awaits, PollRows, SpotRows
      <3> QED BY <3>2 DEF Awaits
    <2> HIDE DEF w, found, s
    <2> QED BY <1>8, <2>1, <2>2, <2>3, StoredRows
  <1>9. poll' = [poll EXCEPT ![p] = w] /\ UNCHANGED <<now, pref, rule, spots>>
    BY DEF UpsertSpot, Goto
  <1> HIDE DEF w
  <1> QED BY <1>7, <1>8, <1>9, PollStep

LEMMA PassKeeps ==
    ASSUME PollInv, NEW p \in Polls, UpsertFails(p) PROVE PollInv'
  <1>1. poll[p] \in PollRows /\ poll[p].todo # <<>> /\ poll[p].st = "run"
    BY RunningRow DEF UpsertFails
  <1> DEFINE w == [poll[p] EXCEPT !.todo = Tail(@)]
  <1>2. Tail(poll[p].todo) \in Seq(FeedRows)
    <2>1. poll[p].todo \in Seq(FeedRows)
      BY <1>1 DEF PollRows
    <2> QED BY <1>1, <2>1
  <1>3. w \in PollRows /\ w.up = poll[p].up /\ w.matches = poll[p].matches
    BY <1>1, <1>2 DEF PollRows
  <1>4. \A s \in w.up : Awaits(w, s)
    BY <1>1, <1>3 DEF PollInv, PollsOK, Awaits
  <1>5. poll' = [poll EXCEPT ![p] = w] /\ UNCHANGED <<now, pref, rule, spots>>
    BY DEF UpsertFails, Goto
  <1> HIDE DEF w
  <1> QED BY <1>3, <1>4, <1>5, PollStep

LEMMA MatchKeeps ==
    ASSUME PollInv, NEW p \in Polls, AlertMatch(p) PROVE PollInv'
  <1>1. poll[p] \in PollRows /\ poll[p].st = "run" /\ UNCHANGED <<now, pref, rule, spots>>
    BY RunningRow DEF AlertMatch
  <1>2. PICK m \in poll[p].matches :
           poll' = [poll EXCEPT ![p] = IF Muted(m) THEN [poll[p] EXCEPT !.matches = @ \ {m}]
                                       ELSE AlertOwner(poll[p], m)]
    BY DEF AlertMatch, Goto
  <1>3. CASE Muted(m)
    <2> DEFINE w == [poll[p] EXCEPT !.matches = @ \ {m}]
    <2>1. w \in PollRows /\ w.up = poll[p].up /\ w.matches = poll[p].matches \ {m}
      BY <1>1 DEF PollRows
    <2>2. \A s \in w.up : Awaits(w, s)
      BY <1>1, <1>3, <2>1 DEF PollInv, PollsOK, Awaits
    <2>3. poll' = [poll EXCEPT ![p] = w]
      BY <1>2, <1>3
    <2> HIDE DEF w
    <2> QED BY <1>1, <2>1, <2>2, <2>3, PollStep
  <1>4. CASE ~Muted(m)
    <2> DEFINE w == [poll[p] EXCEPT !.st = "doomed"]
    <2>1. w \in PollRows /\ w.st = "doomed"
      BY <1>1 DEF PollRows
    <2>2. poll' = [poll EXCEPT ![p] = w]
      BY <1>2, <1>4 DEF AlertOwner
    <2> HIDE DEF w
    <2> QED BY <1>1, <2>1, <2>2, PollStep
  <1> QED BY <1>3, <1>4

LEMMA FailsKeep ==
    ASSUME PollInv, NEW p \in Polls, PollFails(p) PROVE PollInv'
  <1>1. NoPoll.st # "run" /\ poll' = [poll EXCEPT ![p] = NoPoll] /\ UNCHANGED <<now, pref, rule, spots>>
    BY DEF NoPoll, PollFails, Goto
  <1> QED BY <1>1, PollStep

LEMMA CommitKeeps ==
    ASSUME PollInv, NEW p \in Polls, PollCommits(p) PROVE PollInv'
  <1>1. poll[p] \in PollRows /\ poll[p].st = "run" /\ poll[p].matches = {}
    BY RunningRow DEF PollCommits
  <1>2. /\ poll' = [poll EXCEPT ![p] = NoPoll] /\ UNCHANGED <<now, pref, rule>>
        /\ \A s \in spots' : s \in spots \/ s \in poll[p].up
    BY StoredRows DEF PollCommits, Goto, DeleteSpotsOlderThan
  <1>3. \A s \in poll[p].up : s.watchers = {} /\ s \in SpotRows
    <2> SUFFICES ASSUME NEW s \in poll[p].up PROVE s.watchers = {} /\ s \in SpotRows
      OBVIOUS
    <2>1. Awaits(poll[p], s) /\ s \in SpotRows
      BY <1>1 DEF PollInv, PollsOK, PollRows
    <2> QED BY <1>1, <2>1 DEF Awaits, SpotRows
  <1>4. WatchersTold' /\ PollTypeOK'
    BY <1>2, <1>3 DEF PollInv, PollTypeOK, WatchersTold
  <1>5. \A o \in Polls : poll'[o] = IF o = p THEN NoPoll ELSE poll[o]
    BY <1>2 DEF PollInv, PollTypeOK
  <1>6. PollsOK'
    BY <1>2, <1>5 DEF PollInv, PollsOK, Awaits, Muted, NoPoll
  <1> QED BY <1>2, <1>4, <1>6 DEF PollInv

LEMMA RulesEditedKeep ==
    ASSUME PollInv,
           \/ \E r \in Rules, ref \in Refs, mode \in Modes \cup {None},
                 enabled \in BOOLEAN \cup {Keep} : CreateWatchRule(r, ref, mode, enabled)
           \/ \E r \in Rules, ref \in Refs \cup {Keep}, mode \in Modes \cup {None, Keep},
                 enabled \in BOOLEAN \cup {Keep} : UpdateWatchRule(r, ref, mode, enabled)
           \/ \E r \in Rules : DeleteWatchRule(r)
    PROVE  PollInv'
  <1>0. rule \in [Rules -> RuleRows]
    BY DEF PollInv, PollTypeOK
  <1>1. /\ UNCHANGED <<now, pref, spots, poll>>
        /\ \E r \in Rules, new \in RuleRows : rule' = [rule EXCEPT ![r] = new]
    <2>1. ASSUME NEW r \in Rules, NEW ref \in Refs, NEW mode \in Modes \cup {None},
                 NEW enabled \in BOOLEAN \cup {Keep}, CreateWatchRule(r, ref, mode, enabled)
          PROVE  <1>1
      <3>1. CreateSpotWatchRule(ref, mode, enabled) \in RuleRows
        BY DEF CreateSpotWatchRule, RuleRows, Given
      <3> QED BY <2>1, <3>1 DEF CreateWatchRule
    <2>2. ASSUME NEW r \in Rules, NEW ref \in Refs \cup {Keep}, NEW mode \in Modes \cup {None, Keep},
                 NEW enabled \in BOOLEAN \cup {Keep}, UpdateWatchRule(r, ref, mode, enabled)
          PROVE  <1>1
      <3>1. UpdateSpotWatchRuleByUUID(r, ref, mode, enabled) \in RuleRows
        BY <1>0 DEF UpdateSpotWatchRuleByUUID, RuleRows, Given
      <3> QED BY <2>2, <3>1 DEF UpdateWatchRule
    <2>3. ASSUME NEW r \in Rules, DeleteWatchRule(r) PROVE <1>1
      <3>1. DeleteSpotWatchRuleByUUID \in RuleRows
        BY DEF DeleteSpotWatchRuleByUUID, SpotWatchRule, RuleRows
      <3> QED BY <2>3, <3>1 DEF DeleteWatchRule
    <2> QED BY <2>1, <2>2, <2>3
  <1>2. rule' \in [Rules -> RuleRows]
    BY <1>0, <1>1
  <1> QED BY <1>1, <1>2, PollsUntouched DEF PollInv, PollTypeOK

-----------------------------------------------------------------------------
LEMMA NextFeed == FeedInv /\ [Next]_vars => FeedInv'
  <1> SUFFICES ASSUME FeedInv, [Next]_vars PROVE FeedInv'
    OBVIOUS
  <1>0. /\ now \in Nat /\ jobs \in Nat /\ requests \in Nat
        /\ expiry \in [Callsigns -> Dates \cup {None}] /\ scan \in Scans \cup {NoScan}
    BY DEF FeedInv, FeedTypeOK
  <1>1. CASE UNCHANGED vars
    BY <1>0, <1>1, FeedUntouched DEF vars
  <1>2. ASSUME NEW p \in Polls,
               \/ \E feed \in Feeds : FetchSpots(p, feed)
               \/ UpsertSpot(p) \/ UpsertFails(p) \/ AlertMatch(p)
               \/ PollFails(p) \/ PollCommits(p)
        PROVE  FeedInv'
    <2>1. UNCHANGED <<now, notes, posted, expiry, scan, requests>> /\ jobs' \in {jobs, jobs + 1}
      BY <1>2 DEF FetchSpots, UpsertSpot, UpsertFails, AlertMatch, PollFails, PollCommits
    <2> QED BY <1>0, <2>1, FeedUntouched
  <1>3. ASSUME \/ \E r \in Rules, ref \in Refs, mode \in Modes \cup {None},
                     enabled \in BOOLEAN \cup {Keep} : CreateWatchRule(r, ref, mode, enabled)
               \/ \E r \in Rules, ref \in Refs \cup {Keep}, mode \in Modes \cup {None, Keep},
                     enabled \in BOOLEAN \cup {Keep} : UpdateWatchRule(r, ref, mode, enabled)
               \/ \E r \in Rules : DeleteWatchRule(r)
               \/ \E enabled \in BOOLEAN : PutPreferences(enabled)
        PROVE  FeedInv'
    <2>1. UNCHANGED <<now, notes, posted, expiry, scan, jobs>> /\ requests' = requests + 1
      BY <1>3 DEF CreateWatchRule, UpdateWatchRule, DeleteWatchRule, PutPreferences, Request
    <2> QED BY <1>0, <2>1, FeedUntouched
  <1>4. CASE Tick
    BY <1>0, <1>4, FeedUntouched DEF Tick
  <1>5. ASSUME NEW c \in Callsigns, NEW date \in Dates, CertExpiry(c, date) PROVE FeedInv'
    BY <1>0, <1>5, FeedUntouched DEF CertExpiry, UpdateCertExpiryByCallsign, Request
  <1>6. CASE ScanEnds
    BY <1>0, <1>6, FeedUntouched DEF ScanEnds
  <1> QED
    BY <1>1, <1>2, <1>3, <1>4, <1>5, <1>6, FeedReadKeeps, CreateKeeps, WarnKeeps, ScanStarts
       DEF Next

LEMMA NextPolls == PollInv /\ [Next]_vars => PollInv'
  <1> SUFFICES ASSUME PollInv, [Next]_vars PROVE PollInv'
    OBVIOUS
  <1>0. now \in Nat /\ pref \in BOOLEAN /\ rule \in [Rules -> RuleRows]
    BY DEF PollInv, PollTypeOK
  <1>1. CASE UNCHANGED vars
    BY <1>0, <1>1, PollsUntouched DEF vars
  <1>2. ASSUME NEW p \in Polls,
               \/ \E feed \in Feeds : FetchSpots(p, feed)
               \/ UpsertSpot(p) \/ UpsertFails(p) \/ AlertMatch(p)
               \/ PollFails(p) \/ PollCommits(p)
        PROVE  PollInv'
    BY <1>2, FetchKeeps, UpsertKeeps, PassKeeps, MatchKeeps, FailsKeep, CommitKeeps
  <1>3. ASSUME \/ Tick \/ \E enabled \in BOOLEAN : PutPreferences(enabled)
               \/ (\E n \in notes : MarkRead(n) \/ Delete(n)) \/ MarkAllRead \/ Create
               \/ \E c \in Callsigns, date \in Dates : CertExpiry(c, date)
               \/ ScanStart \/ ScanWarn \/ ScanEnds
        PROVE  PollInv'
    <2>1. UNCHANGED <<poll, spots, rule>> /\ now' \in Nat /\ pref' \in BOOLEAN
      BY <1>0, <1>3 DEF Tick, PutPreferences, MarkRead, Delete, MarkAllRead, Create, CertExpiry,
                        ScanStart, ScanWarn, ScanEnds
    <2> QED BY <1>0, <2>1, PollsUntouched
  <1> QED BY <1>1, <1>2, <1>3, RulesEditedKeep DEF Next

LEMMA NextInv == AlertsInv /\ [Next]_vars => AlertsInv'
  BY NextFeed, NextPolls DEF AlertsInv

\* The tables, the polls and the check under way keep their types, however
\* polls overlap, fail and commit.
THEOREM TypeCorrect == Spec => []TypeOK
  <1>1. AlertsInv => TypeOK
    BY DEF AlertsInv, FeedInv, PollInv, TypeOK
  <1> QED BY <1>1, InitInv, NextInv, PTL DEF Spec

\* No spot is stored whose watchers were to be told of it and were not: a poll
\* that may still commit has gone through the matches of all it has stored but
\* the last, and found them muted.
THEOREM WatchersAreTold == Spec => []WatchersTold
  <1>1. AlertsInv => WatchersTold
    BY DEF AlertsInv, PollInv
  <1> QED BY <1>1, InitInv, NextInv, PTL DEF Spec

\* A warning that stands in the feed is not repeated within its window,
\* wherever the certificate check died and was run again.
THEOREM WarningsApart == Spec => []WarningsSpaced
  <1>1. AlertsInv => WarningsSpaced
    BY DEF AlertsInv, FeedInv
  <1> QED BY <1>1, InitInv, NextInv, PTL DEF Spec

=============================================================================
