----------------------------- MODULE Credentials -----------------------------
(***************************************************************************)
(* The encrypted credentials of one user: the handlers that save, verify   *)
(* and delete them, the versioned keyring they are encrypted with, and the *)
(* tool that re-encrypts the rows under a new master key while the server  *)
(* runs.  Two rows: one of a service with a public endpoint, and LoTW's.   *)
(*                                                                         *)
(* A transaction of one statement is a step; a call of a service is a      *)
(* step.  Secrets are numbered by the request that brought them.           *)
(***************************************************************************)
EXTENDS Naturals, FiniteSets

CONSTANTS
    MaxRequests,    \* bound: requests served
    MaxRestarts,    \* bound: restarts of the API server
    BatchSize,      \* the rotation tool's -batch-size
    Linked,         \* services the user may link
    Inputs,         \* credential types and formats of what is typed
    None

ASSUME CredentialsAssumption ==
    /\ MaxRequests \in Nat /\ MaxRestarts \in Nat /\ BatchSize \in Nat \ {0}
    /\ Linked \subseteq {"qrz", "eqsl", "clublog", "hamqth", "pota", "sota"}

VARIABLES
    svc,        \* the service linked besides LoTW
    row,        \* user_service_credentials, by service
    ring,       \* the server's keyring: a master key for each version
    restarts,   \* restarts so far
    tool,       \* the rotation tool
    req,        \* requests in flight
    vouched,    \* history: secrets that Save or Verify tested and found good
    suspect     \* history: rows whose stamp may be another secret's

credVars == <<svc, row, ring, restarts, tool, req, vouched, suspect>>

Requests == 1..MaxRequests
\* The secret stored before the first request.
Earlier == MaxRequests + 1
Services == {svc, "lotw"}
Formats == {"key", "pair", "json", "blank", "invalid"}
ASSUME InputsAssumption == \A in \in Inputs : in.fmt \in Formats
Plain(pw, web, f) == [pw |-> pw, web |-> web, fmt |-> f]
NoPlain == Plain(0, 0, "blank")
NoRow == [st |-> "none"]
NoReq == [kind |-> "none", pc |-> "idle", plain |-> NoPlain, ok |-> FALSE,
          alone |-> TRUE]

-----------------------------------------------------------------------------
(* The keyring.                                                            *)

NewKeyring(key) == [v \in {1} |-> key]
AddKey(kr, key) ==
    [v \in DOMAIN kr \union {Cardinality(DOMAIN kr) + 1} |->
        IF v \in DOMAIN kr THEN kr[v] ELSE key]
CurrentVersion(kr) == CHOOSE v \in DOMAIN kr : \A w \in DOMAIN kr : w <= v
ToolRing == AddKey(NewKeyring("old"), "new")

Encrypt(kr, p) ==
    [version |-> CurrentVersion(kr), key |-> kr[CurrentVersion(kr)], plain |-> p]

deriveUserKey(kr, version) == IF version \in DOMAIN kr THEN kr[version] ELSE None

\* GCM's tag refuses a ciphertext of another key.
Decrypts(kr, c) == deriveUserKey(kr, c.version) = c.key

-----------------------------------------------------------------------------
(* The verifiers: whether an answer of the service counts as success.  A   *)
(* page is an answer with status 200 that says neither yes nor no.         *)

Answers == {"accept", "reject", "page", "error500", "timeout"}

verifyQRZLogbookKey(a) == a = "accept"
verifyQRZXML(f, a) == f = "pair" /\ a = "accept"
verifyQRZ(f, a) == IF f = "key" THEN verifyQRZLogbookKey(a) ELSE verifyQRZXML(f, a)
verifyEQSL(f, a) == f \in {"json", "pair"} /\ a \in {"accept", "page", "error500"}
verifyClubLog(f, a) == f = "json" /\ a \in {"accept", "page"}
verifyHamQTH(f, a) == f = "pair" /\ a = "accept"
verifySOTA(f, a) == f = "key" /\ a \in {"accept", "page"}

verifyCredential(s, f, a) ==
    CASE s = "qrz" -> verifyQRZ(f, a)
      [] s = "eqsl" -> verifyEQSL(f, a)
      [] s = "clublog" -> verifyClubLog(f, a)
      [] s = "hamqth" -> verifyHamQTH(f, a)
      [] s = "sota" -> verifySOTA(f, a)
      [] OTHER -> TRUE

serviceRequiresVerification(s) == s \in {"qrz", "eqsl", "clublog", "sota"}

normalizeQRZAPIKeyValue(f) == IF f \in {"blank", "json"} THEN "invalid" ELSE "key"
normalizeQRZUsernamePasswordValue(f) ==
    IF f \in {"pair", "json"} THEN "pair" ELSE "invalid"
normalizeCredentialValue(s, in) ==
    CASE s = "qrz" /\ in.type = "api_key" -> normalizeQRZAPIKeyValue(in.fmt)
      [] s = "qrz" /\ in.type = "username_password" ->
            normalizeQRZUsernamePasswordValue(in.fmt)
      [] OTHER -> in.fmt

-----------------------------------------------------------------------------
(* The table.  A row the tool's transaction locked keeps writers waiting.  *)

\* Mutant: the tool selects its batch without FOR UPDATE.
LockedNever(s) == FALSE

Locked(s) == s \in DOMAIN tool.read
\* The CHECK on service has no 'sota'.
Storable(s) == s \in {"qrz", "eqsl", "clublog", "hamqth", "pota", "lotw"}

UpsertCredential(s, p, active) ==
    [row EXCEPT ![s] =
        [st |-> "row", cipher |-> Encrypt(ring, p), active |-> active,
         stamp |-> IF row[s] = NoRow THEN FALSE ELSE row[s].stamp]]

DeleteCredential(s) == [row EXCEPT ![s] = NoRow]
GetCredential(s) == row[s] # NoRow /\ row[s].active
updateVerifiedAt(s) ==
    IF row[s] = NoRow THEN row ELSE [row EXCEPT ![s].stamp = TRUE]
\* Mutant: a save that fails its verification leaves the stamp alone.
clearVerifiedAtNever(s) == row

clearVerifiedAt(s) ==
    IF row[s] = NoRow THEN row ELSE [row EXCEPT ![s].stamp = FALSE]
ListCredentials == {s \in Services : row[s] # NoRow /\ row[s].active}
\* GET /v1/sync/credentials: the services listed as verified.
ListVerified == {s \in ListCredentials : row[s].stamp}

-----------------------------------------------------------------------------
(* Requests.                                                               *)

InFlight(n) == req[n].pc \notin {"idle", "done"}
Gone == [NoReq EXCEPT !.pc = "done"]
Stage(n, pc) ==
    req' = [req EXCEPT ![n] = IF pc = "done" THEN Gone ELSE [req[n] EXCEPT !.pc = pc]]
At(n, kinds, pc) == req[n].kind \in kinds /\ req[n].pc = pc
CanBegin(n) == req[n].pc = "idle" /\ \A m \in 1..(n - 1) : req[m].pc # "idle"
\* Another request is yet to stamp the same row.
Contended(n) ==
    \E m \in Requests \ {n} :
        At(m, {"put", "reverify"}, "stamp") \/ At(m, {"reverify"}, "check")

\* PUT /v1/sync/credentials/{service}, and POST /v1/credentials.  (The rows of
\* sync_status that a PUT adds afterwards are not of this module.)
StoreAndVerify(n) ==
    /\ CanBegin(n)
    /\ \E in \in Inputs :
        LET f == normalizeCredentialValue(svc, in) IN
        req' = [req EXCEPT ![n] =
            IF f = "invalid" THEN Gone
            ELSE [NoReq EXCEPT !.kind = "put", !.plain = Plain(n, 0, f), !.pc = "verify"]]
    /\ UNCHANGED <<svc, row, ring, restarts, tool, vouched, suspect>>

\* Services without a test in Save (HamQTH, POTA) pass untested, and the row
\* will be stamped like one that was tested.
SaveVerifies(n) ==
    /\ At(n, {"put"}, "verify")
    /\ \E a \in Answers :
        LET tested == serviceRequiresVerification(svc)
            ok == ~tested \/ verifyCredential(svc, req[n].plain.fmt, a) IN
        /\ req' = [req EXCEPT ![n].ok = ok, ![n].pc = "upsert"]
        /\ vouched' = IF tested /\ ok THEN vouched \union {n} ELSE vouched
    /\ UNCHANGED <<svc, row, ring, restarts, tool, suspect>>

SaveUpserts(n) ==
    /\ At(n, {"put"}, "upsert") /\ Storable(svc) /\ ~Locked(svc)
    /\ row' = UpsertCredential(svc, req[n].plain, TRUE)
    /\ suspect' = Contended(n)
    /\ Stage(n, "stamp")
    /\ UNCHANGED <<svc, ring, restarts, tool, vouched>>

\* The insert is refused or the connection is lost: 500, nothing stored.
SaveFails(n) ==
    /\ At(n, {"put"}, "upsert")
    /\ Stage(n, "done")
    /\ UNCHANGED <<svc, row, ring, restarts, tool, vouched, suspect>>

SaveStamps(n) ==
    /\ At(n, {"put"}, "stamp") /\ ~Locked(svc)
    /\ row' = IF req[n].ok THEN updateVerifiedAt(svc) ELSE clearVerifiedAt(svc)
    /\ Stage(n, "done")
    /\ UNCHANGED <<svc, ring, restarts, tool, vouched, suspect>>

\* The statement fails, which is only logged.
StampFails(n) ==
    /\ At(n, {"put"}, "stamp")
    /\ Stage(n, "done")
    /\ suspect' = TRUE
    /\ UNCHANGED <<svc, row, ring, restarts, tool, vouched>>

\* POST /v1/sync/credentials/{service}/verify, up to Get's result.
ReVerify(n) ==
    /\ CanBegin(n)
    /\ LET found == GetCredential(svc) /\ Decrypts(ring, row[svc].cipher) IN
       req' = [req EXCEPT ![n] =
            IF ~found THEN Gone
            ELSE [NoReq EXCEPT !.kind = "reverify", !.plain = row[svc].cipher.plain,
                               !.pc = "check"]]
    /\ UNCHANGED <<svc, row, ring, restarts, tool, vouched, suspect>>

ReVerifyChecks(n) ==
    /\ At(n, {"reverify"}, "check")
    /\ \E a \in Answers :
        LET ok == verifyCredential(svc, req[n].plain.fmt, a) IN
        /\ Stage(n, IF ok THEN "stamp" ELSE "done")
        /\ vouched' = IF ok THEN vouched \union {req[n].plain.pw} ELSE vouched
    /\ UNCHANGED <<svc, row, ring, restarts, tool, suspect>>

ReVerifyStamps(n) ==
    /\ At(n, {"reverify"}, "stamp") /\ ~Locked(svc)
    /\ row' \in {row, updateVerifiedAt(svc)}
    /\ Stage(n, "done")
    /\ UNCHANGED <<svc, ring, restarts, tool, vouched, suspect>>

\* DELETE /v1/sync/credentials/{service}.
Delete(n) ==
    /\ CanBegin(n)
    /\ req' = [req EXCEPT ![n] = [NoReq EXCEPT !.kind = "delete", !.pc = "delete"]]
    /\ UNCHANGED <<svc, row, ring, restarts, tool, vouched, suspect>>

DeleteRow(n) ==
    /\ At(n, {"delete"}, "delete") /\ ~Locked(svc)
    /\ row' = DeleteCredential(svc)
    /\ Stage(n, "done")
    /\ UNCHANGED <<svc, ring, restarts, tool, vouched, suspect>>

-----------------------------------------------------------------------------
(* The tool rotate-credentials-key, a process of its own.                  *)

Outdated(v) == {s \in Services : row[s] # NoRow /\ row[s].cipher.version < v}
\* Rows a save holds locked while the tool selects are skipped.
Held == {s \in Services : \E n \in Requests :
            \/ s = svc /\ At(n, {"put"}, "upsert")
            \/ s = "lotw" /\ req[n].pc = "store"}
AtMost(k, S) == {T \in SUBSET S : Cardinality(T) = IF Cardinality(S) < k
                                                  THEN Cardinality(S) ELSE k}

Idle(pc) == [pc |-> pc, read |-> <<>>]
\* The loop goes on only after a full batch.
RotateKey(n) == Idle(IF n < BatchSize THEN "done" ELSE "select")

rotateSelect ==
    /\ tool.pc = "select"
    /\ \E skip \in SUBSET Held :
        \E batch \in AtMost(BatchSize,
                            Outdated(CurrentVersion(ToolRing)) \ skip) :
            tool' = IF batch = {} THEN Idle("done")
                    ELSE [pc |-> "batch", read |-> [s \in batch |-> row[s].cipher]]
    /\ UNCHANGED <<svc, row, ring, restarts, req, vouched, suspect>>

\* Re-encrypts what it read; rows it cannot decrypt are skipped.
rotateBatch ==
    /\ tool.pc = "batch"
    /\ LET good == {s \in DOMAIN tool.read : Decrypts(ToolRing, tool.read[s])} IN
       /\ row' = [s \in Services |->
            IF s \in good /\ row[s] # NoRow
            THEN [row[s] EXCEPT !.cipher = Encrypt(ToolRing, tool.read[s].plain)]
            ELSE row[s]]
       /\ tool' = RotateKey(Cardinality(good))
    /\ UNCHANGED <<svc, ring, restarts, req, vouched, suspect>>

\* The tool is killed or loses its connection: the batch is rolled back.
rotateAborts ==
    /\ tool.pc \in {"select", "batch"}
    /\ tool' = Idle("failed")
    /\ UNCHANGED <<svc, row, ring, restarts, req, vouched, suspect>>

\* The API server stops, and starts with the key it had, or with the new
\* one once the tool said so.  Requests in flight are lost.
Restart ==
    /\ restarts < MaxRestarts
    /\ restarts' = restarts + 1
    /\ ring' \in {ring} \union
                 (IF tool.pc = "done" THEN {NewKeyring("new")} ELSE {})
    /\ suspect' = (suspect \/ \E n \in Requests : At(n, {"put"}, "stamp"))
    /\ req' = [n \in Requests |->
                IF InFlight(n) THEN Gone ELSE req[n]]
    /\ UNCHANGED <<svc, row, tool, vouched>>

Saved(s, p) == [st |-> "row", cipher |-> Encrypt(NewKeyring("old"), p),
                active |-> TRUE, stamp |-> s # "lotw"]

CredInit ==
    /\ svc \in Linked
    /\ row = [s \in Services |->
                IF Storable(s)
                THEN Saved(s, Plain(Earlier, 0, IF s = "lotw" THEN "json" ELSE "pair"))
                ELSE NoRow]
    /\ ring = NewKeyring("old")
    /\ restarts = 0
    /\ tool = Idle("select")
    /\ req = [n \in Requests |-> NoReq]
    /\ vouched = {Earlier}
    /\ suspect = FALSE

CredNext ==
    \/ \E n \in Requests :
        \/ StoreAndVerify(n) \/ SaveVerifies(n) \/ SaveUpserts(n)
        \/ SaveFails(n) \/ SaveStamps(n) \/ StampFails(n)
        \/ ReVerify(n) \/ ReVerifyChecks(n) \/ ReVerifyStamps(n)
        \/ Delete(n) \/ DeleteRow(n)
    \/ rotateSelect \/ rotateBatch \/ rotateAborts
=============================================================================
