----------------------------- MODULE VaultProofs -----------------------------
(***************************************************************************)
(* Proofs about Credentials and Vault, for every number of requests and    *)
(* restarts, every batch size and every set of services: the table with    *)
(* its keys, locks and rotation tool implements the plain store of secrets *)
(* (SecretStore), a row shown as verified was verified, and the stored     *)
(* password opens the certificate.                                         *)
(***************************************************************************)
EXTENDS Vault, FiniteSetTheorems, TLAPS

Ciphers == [version : {1, 2}, key : {"old", "new"}, plain : Plains]
CredRows == [st : {"row"}, cipher : Ciphers, active : BOOLEAN, stamp : BOOLEAN]

\* What a request does, and how far it is.
Stages == {<<"none", "idle">>, <<"none", "done">>}
    \union ({"put"} \X {"verify", "upsert", "stamp"})
    \union ({"reverify"} \X {"check", "stamp"}) \union {<<"delete", "delete">>}
    \union ({"import"} \X {"vault", "load", "store", "flag", "active"})
    \union ({"remove"} \X {"load", "vault", "erase", "flag", "active"})
    \union ({"settings"} \X {"hascert", "load", "store"}) \union {<<"rotate", "vault">>}
Kinds == {"none", "put", "reverify", "delete"} \union LoTWKinds
Pcs == {"idle", "done", "verify", "upsert", "stamp", "check", "delete", "vault", "load",
        "store", "flag", "active", "erase", "hascert"}
Reqs == [kind : Kinds, pc : Pcs, plain : Plains, ok : BOOLEAN, alone : BOOLEAN]

Flags ==
    /\ cert \in [pw : 0..Earlier, expired : BOOLEAN]
    /\ suspect \in BOOLEAN /\ hasCert \in BOOLEAN /\ torn \in BOOLEAN
RowsTyped ==
    /\ svc \in Linked
    /\ row \in [Services -> CredRows \union {NoRow}]
    /\ ring \in {NewKeyring("old"), NewKeyring("new")}
TypeOK == RowsTyped /\ req \in [Requests -> Reqs] /\ Flags

\* What keeps every row readable: its cipher is of one of the three keys, and
\* the tool's copy of a row is the row as it is, because the row is locked.
AllKept == \A s \in Services : row[s] # NoRow => Kept(row[s].cipher)
CopyCurrent ==
    \A s \in DOMAIN tool.read :
        s \in Services /\ row[s] # NoRow /\ tool.read[s] = row[s].cipher

\* A request is at a stage of its kind, and what a save brings is its own.
Good(n) ==
    /\ <<req[n].kind, req[n].pc>> \in Stages
    /\ req[n].kind = "put" => req[n].plain.pw = n
    /\ At(n, {"import"}, "store") => req[n].plain.pw = n
    /\ At(n, {"settings"}, "store") => req[n].plain.web = n
AllGood == \A n \in Requests : Good(n)

TableInv == TypeOK /\ AllKept /\ CopyCurrent /\ AllGood

-----------------------------------------------------------------------------
(* What a stamp that is to come will find, when nothing is suspect.        *)
Holds(s, pw) == row[s] # NoRow => row[s].cipher.plain.pw = pw

\* The linked service is one that Save tests.
Tested == serviceRequiresVerification(svc)

\* A save that is to stamp the row was verified; so was what a check read.
SavesVouched ==
    \A n \in Requests :
        At(n, {"put"}, "upsert") \/ At(n, {"put"}, "stamp") => (req[n].ok /\ Tested => n \in vouched)
ChecksVouched == \A n \in Requests : At(n, {"reverify"}, "stamp") => req[n].plain.pw \in vouched
\* The row still holds what those who are to stamp it saw.
StampersSee ==
    ~suspect => \A n \in Requests :
        /\ At(n, {"put"}, "stamp") => Holds(svc, n)
        /\ req[n].kind = "reverify" => Holds(svc, req[n].plain.pw)
StampedVouched ==
    ~suspect /\ ~(\E n \in Requests : At(n, {"put"}, "stamp"))
        => (Tested /\ row[svc] # NoRow /\ row[svc].stamp => row[svc].cipher.plain.pw \in vouched)

StampInv == SavesVouched /\ ChecksVouched /\ StampersSee /\ StampedVouched

-----------------------------------------------------------------------------
(* The three places agree, and what an import or a deletion that runs      *)
(* alone has done so far.                                                  *)
LoTWPw == row["lotw"].cipher.plain.pw
Agree ==
    /\ hasCert <=> Load(cert)
    /\ hasCert => row["lotw"] # NoRow /\ row["lotw"].active /\ cert.pw = LoTWPw

Touched(n) == \/ req[n].kind = "import" /\ req[n].pc \in {"load", "store", "flag", "active"}
              \/ req[n].kind = "remove" /\ req[n].pc \in {"flag", "active"}

AloneIsAlone ==
    \A n, m \in Requests : Busy(n) /\ Busy(m) /\ req[n].alone => n = m
TornByOverlap == ~torn => \A n \in Requests : Busy(n) => req[n].alone
AgreeUnlessTouched == ~torn /\ ~(\E n \in Requests : Touched(n)) => Agree
Progress(n) ==
    /\ req[n].kind = "import" /\ Touched(n) => cert.pw = n
    /\ req[n].kind = "import" /\ req[n].pc \in {"flag", "active"}
          => row["lotw"] # NoRow /\ LoTWPw = n
    /\ req[n].kind = "remove" /\ Touched(n) => cert = NoCert
    /\ Touched(n) /\ req[n].pc = "active" => (hasCert <=> req[n].kind = "import")
    /\ At(n, {"settings"}, "store") => row["lotw"] # NoRow /\ req[n].plain.pw = LoTWPw
AloneProgresses == \A n \in Requests : Busy(n) /\ req[n].alone => Progress(n)
\* An empty vault is the only one without a password.
VaultPw == cert.pw = 0 => cert = NoCert

CertInv ==
    /\ AloneIsAlone /\ TornByOverlap /\ AgreeUnlessTouched /\ AloneProgresses /\ VaultPw

-----------------------------------------------------------------------------
(* The keyring and the ciphers it makes.                                   *)

LEMMA NewKeyringEncrypts ==
    ASSUME NEW key, NEW p
    PROVE  Encrypt(NewKeyring(key), p) = [version |-> 1, key |-> key, plain |-> p]
<1>1. CurrentVersion(NewKeyring(key)) = 1
  BY DEF CurrentVersion, NewKeyring
<1> QED
  BY <1>1 DEF Encrypt, NewKeyring

LEMMA ToolRingIs ==
    /\ DOMAIN ToolRing = {1, 2}
    /\ ToolRing[1] = "old" /\ ToolRing[2] = "new"
<1>1. DOMAIN NewKeyring("old") = {1} /\ NewKeyring("old")[1] = "old"
  BY DEF NewKeyring
<1>2. Cardinality({1}) = 1
  BY FS_Singleton, Zenon
<1>3. Cardinality(DOMAIN NewKeyring("old")) + 1 = 2
  BY <1>1, <1>2
<1> QED
  BY <1>1, <1>3 DEF ToolRing, AddKey

LEMMA ToolRingEncrypts ==
    ASSUME NEW p
    PROVE  Encrypt(ToolRing, p) = [version |-> 2, key |-> "new", plain |-> p]
<1>1. CurrentVersion(ToolRing) = 2
  BY ToolRingIs DEF CurrentVersion
<1> QED
  BY <1>1, ToolRingIs DEF Encrypt

LEMMA IdleReadsNothing ==
    ASSUME NEW pc
    PROVE  DOMAIN Idle(pc).read = {}
BY DEF Idle

LEMMA LoTWIsApart == ASSUME svc \in Linked PROVE svc # "lotw"
BY CredentialsAssumption

LEMMA RequestNumbers ==
    Requests \subseteq 0..Earlier /\ Earlier \in 0..Earlier /\ 0 \in 0..Earlier /\ 0 \notin Requests
BY CredentialsAssumption DEF Requests, Earlier

LEMMA Blanks ==
    /\ NoPlain \in Plains
    /\ NoReq \in Reqs /\ NoReq.kind = "none" /\ NoReq.pc = "idle"
    /\ Gone \in Reqs /\ Gone.kind = "none" /\ Gone.pc = "done"
<1>1. NoPlain \in Plains
  BY RequestNumbers DEF NoPlain, Plain, Plains, Formats
<1>2. NoReq \in Reqs /\ NoReq.kind = "none" /\ NoReq.pc = "idle"
  BY <1>1 DEF NoReq, Reqs, Kinds, Pcs
<1>3. Gone \in Reqs
  BY <1>2 DEF Gone, Reqs, Pcs
<1>4. Gone.kind = "none" /\ Gone.pc = "done"
  BY DEF Gone, NoReq
<1> QED
  BY <1>1, <1>2, <1>3, <1>4

-----------------------------------------------------------------------------
(* What a step does to the requests: one of them moves.                    *)

\* Nothing but the mark that it runs alone differs.
Same(m) == /\ req'[m].kind = req[m].kind /\ req'[m].pc = req[m].pc
           /\ req'[m].plain = req[m].plain /\ req'[m].ok = req[m].ok
Turns(n) ==
    /\ req' \in [Requests -> Reqs]
    /\ Good(n)'
    /\ \A m \in Requests \ {n} : Same(m)
OthersStay(n) == \A m \in Requests \ {n} : req'[m] = req[m]

LEMMA UpdateTurns ==
    ASSUME TypeOK, NEW n \in Requests, NEW r \in Reqs, req' = [req EXCEPT ![n] = r],
           <<r.kind, r.pc>> \in Stages,
           r.kind = "put" => r.plain.pw = n,
           r.kind = "import" /\ r.pc = "store" => r.plain.pw = n,
           r.kind = "settings" /\ r.pc = "store" => r.plain.web = n
    PROVE  Turns(n) /\ OthersStay(n) /\ req'[n] = r
<1>1. req \in [Requests -> Reqs]
  BY DEF TypeOK
<1>2. req' \in [Requests -> Reqs] /\ req'[n] = r /\ OthersStay(n)
  BY <1>1 DEF OthersStay
<1>3. Good(n)'
  BY <1>2 DEF Good, At
<1> QED
  BY <1>2, <1>3 DEF Turns, OthersStay, Same

LEMMA StageTurns ==
    ASSUME TypeOK, AllGood, NEW n \in Requests, NEW pc \in Pcs \ {"store"}, Stage(n, pc),
           pc # "done" => <<req[n].kind, pc>> \in Stages
    PROVE  /\ Turns(n) /\ OthersStay(n)
           /\ pc = "done" => req'[n] = Gone
           /\ pc # "done" => /\ req'[n].kind = req[n].kind /\ req'[n].pc = pc
                             /\ req'[n].plain = req[n].plain /\ req'[n].ok = req[n].ok
                             /\ req'[n].alone = req[n].alone
<1>1. req[n] \in Reqs /\ Good(n)
  BY DEF TypeOK, AllGood
<1>2. CASE pc = "done"
  <2>1. req' = [req EXCEPT ![n] = Gone]
    BY <1>2 DEF Stage
  <2>2. <<Gone.kind, Gone.pc>> \in Stages
    BY Blanks DEF Stages
  <2> QED
    BY <1>2, <2>1, <2>2, UpdateTurns, Blanks
<1>3. CASE pc # "done"
  <2> DEFINE new == [req[n] EXCEPT !.pc = pc]
  <2>1. req' = [req EXCEPT ![n] = new]
    BY <1>3 DEF Stage
  <2>2. /\ new \in Reqs /\ new.kind = req[n].kind /\ new.pc = pc
        /\ new.plain = req[n].plain /\ new.ok = req[n].ok /\ new.alone = req[n].alone
    BY <1>1 DEF Reqs
  <2>3. new.kind = "put" => new.plain.pw = n
    BY <1>1, <2>2 DEF Good
  <2> HIDE DEF new
  <2>4. Turns(n) /\ OthersStay(n) /\ req'[n] = new
    BY <1>3, <2>1, <2>2, <2>3, UpdateTurns
  <2> QED
    BY <1>3, <2>2, <2>4
<1> QED
  BY <1>2, <1>3

LEMMA RowTyped ==
    ASSUME TypeOK, NEW s \in Services, row[s] # NoRow
    PROVE  /\ row[s] \in CredRows /\ row[s].cipher \in Ciphers
           /\ row[s].cipher.plain \in Plains
<1>1. row[s] \in CredRows
  BY DEF TypeOK, RowsTyped
<1>2. row[s].cipher \in Ciphers
  BY <1>1 DEF CredRows
<1> QED
  BY <1>1, <1>2 DEF Ciphers

LEMMA ServicesAre == svc \in Services /\ "lotw" \in Services
BY DEF Services

LEMMA StoredTyped ==
    ASSUME TypeOK
    PROVE  DecodeStoredPasswords \in Plains
BY RowTyped, ServicesAre, Blanks DEF DecodeStoredPasswords

LEMMA Normalised ==
    ASSUME NEW in \in Inputs, NEW f, f = normalizeCredentialValue(svc, in)
    PROVE  f \in Formats
<1>1. in.fmt \in Formats
  BY InputsAssumption
<1> QED
  BY <1>1 DEF normalizeCredentialValue, normalizeQRZAPIKeyValue,
              normalizeQRZUsernamePasswordValue, Formats

LEMMA StoreAndVerifyTurns ==
    ASSUME TypeOK, AllGood, NEW n \in Requests, StoreAndVerify(n)
    PROVE  /\ Turns(n) /\ OthersStay(n)
           /\ req'[n] = Gone \/ (req'[n].kind = "put" /\ req'[n].pc = "verify")
<1>1. PICK in \in Inputs : req' = [req EXCEPT ![n] =
            IF normalizeCredentialValue(svc, in) = "invalid" THEN Gone
            ELSE [NoReq EXCEPT !.kind = "put",
                    !.plain = Plain(n, 0, normalizeCredentialValue(svc, in)), !.pc = "verify"]]
  BY DEF StoreAndVerify
<1>2. PICK f \in Formats : f = normalizeCredentialValue(svc, in)
  BY Normalised
<1>3. CASE f = "invalid"
  <2>1. Stage(n, "done")
    BY <1>1, <1>2, <1>3 DEF Stage
  <2> QED
    BY <2>1, StageTurns DEF Pcs
<1>4. CASE f # "invalid"
  <2>1. PICK p : p = Plain(n, 0, f)
    OBVIOUS
  <2>2. p \in Plains /\ p.pw = n
    BY <2>1, RequestNumbers DEF Plain, Plains
  <2> DEFINE new == [NoReq EXCEPT !.kind = "put", !.plain = p, !.pc = "verify"]
  <2>3. req' = [req EXCEPT ![n] = new]
    BY <1>1, <1>2, <1>4, <2>1
  <2>4. new \in Reqs /\ new.kind = "put" /\ new.pc = "verify" /\ new.plain = p
    BY <2>2, Blanks DEF Reqs, Kinds, Pcs
  <2> HIDE DEF new
  <2>5. <<new.kind, new.pc>> \in Stages
    BY <2>4 DEF Stages
  <2> QED
    BY <2>2, <2>3, <2>4, <2>5, UpdateTurns
<1> QED
  BY <1>3, <1>4

LEMMA SaveVerifiesTurns ==
    ASSUME TypeOK, AllGood, NEW n \in Requests, SaveVerifies(n)
    PROVE  /\ Turns(n) /\ OthersStay(n)
           /\ req'[n].kind = "put" /\ req'[n].pc = "upsert"
           /\ req'[n].ok /\ Tested => n \in vouched'
           /\ vouched \subseteq vouched'
<1>1. PICK ok \in BOOLEAN :
        /\ req' = [req EXCEPT ![n].ok = ok, ![n].pc = "upsert"]
        /\ vouched' = IF Tested /\ ok THEN vouched \union {n} ELSE vouched
  BY DEF SaveVerifies, Tested
<1>2. req \in [Requests -> Reqs] /\ req[n] \in Reqs /\ req[n].kind = "put" /\ req[n].plain.pw = n
  BY DEF TypeOK, AllGood, Good, SaveVerifies, At
<1> DEFINE new == [req[n] EXCEPT !.ok = ok, !.pc = "upsert"]
<1>3. req' = [req EXCEPT ![n] = new]
  BY <1>1, <1>2
<1>4. new \in Reqs /\ new.kind = "put" /\ new.pc = "upsert" /\ new.plain = req[n].plain /\ new.ok = ok
  BY <1>2 DEF Reqs, Pcs
<1> HIDE DEF new
<1>5. <<new.kind, new.pc>> \in Stages
  BY <1>4 DEF Stages
<1>6. Turns(n) /\ OthersStay(n) /\ req'[n] = new
  BY <1>2, <1>3, <1>4, <1>5, UpdateTurns
<1> QED
  BY <1>1, <1>4, <1>6

LEMMA ReVerifyTurns ==
    ASSUME TypeOK, AllGood, NEW n \in Requests, ReVerify(n)
    PROVE  /\ Turns(n) /\ OthersStay(n)
           /\ \/ req'[n] = Gone
              \/ /\ req'[n].kind = "reverify" /\ req'[n].pc = "check"
                 /\ row[svc] # NoRow /\ req'[n].plain = row[svc].cipher.plain
<1> DEFINE found == GetCredential(svc) /\ Decrypts(ring, row[svc].cipher)
<1>1. CASE ~found
  <2>1. Stage(n, "done")
    BY <1>1 DEF Stage, ReVerify
  <2> QED
    BY <2>1, StageTurns DEF Pcs
<1>2. CASE found
  <2>1. row[svc] # NoRow
    BY <1>2 DEF GetCredential
  <2>2. PICK p : p = row[svc].cipher.plain
    OBVIOUS
  <2>3. p \in Plains
    BY <2>1, <2>2, RowTyped, ServicesAre
  <2> DEFINE new == [NoReq EXCEPT !.kind = "reverify", !.plain = p, !.pc = "check"]
  <2>4. req' = [req EXCEPT ![n] = new]
    BY <1>2, <2>2 DEF ReVerify
  <2>5. new \in Reqs /\ new.kind = "reverify" /\ new.pc = "check" /\ new.plain = p
    BY <2>3, Blanks DEF Reqs, Kinds, Pcs
  <2> HIDE DEF new
  <2>6. <<new.kind, new.pc>> \in Stages
    BY <2>5 DEF Stages
  <2>7. Turns(n) /\ OthersStay(n) /\ req'[n] = new
    BY <2>4, <2>5, <2>6, UpdateTurns
  <2> QED
    BY <2>1, <2>2, <2>5, <2>7
<1> QED
  BY <1>1, <1>2

LEMMA DeleteTurns ==
    ASSUME TypeOK, AllGood, NEW n \in Requests, Delete(n)
    PROVE  /\ Turns(n) /\ OthersStay(n)
           /\ req'[n].kind = "delete" /\ req'[n].pc = "delete"
<1> DEFINE new == [NoReq EXCEPT !.kind = "delete", !.pc = "delete"]
<1>1. req' = [req EXCEPT ![n] = new]
  BY DEF Delete
<1>2. new \in Reqs /\ new.kind = "delete" /\ new.pc = "delete"
  BY Blanks DEF Reqs, Kinds, Pcs
<1> HIDE DEF new
<1>3. <<new.kind, new.pc>> \in Stages
  BY <1>2 DEF Stages
<1> QED
  BY <1>1, <1>2, <1>3, UpdateTurns

LEMMA BeginsTurns ==
    ASSUME TypeOK, AllGood, NEW n \in Requests, NEW kind \in LoTWKinds,
           NEW pc \in Pcs \ {"store"}, <<kind, pc>> \in Stages, Begins(n, kind, pc)
    PROVE  /\ Turns(n) /\ req'[n].kind = kind /\ req'[n].pc = pc
           /\ req'[n].alone <=> ~(\E m \in Requests : Busy(m))
           /\ \A m \in Requests \ {n} : ~Busy(m) => req'[m] = req[m]
           /\ \A m \in Requests \ {n} : Busy(m) => ~req'[m].alone
<1> DEFINE others == {m \in Requests : Busy(m)}
           new == [NoReq EXCEPT !.kind = kind, !.pc = pc, !.alone = others = {}]
           left(m) == [req[m] EXCEPT !.alone = FALSE]
<1>1. req \in [Requests -> Reqs] /\ ~Busy(n)
  BY DEF TypeOK, Begins, CanBegin, Busy, InFlight
<1>2. PICK lone \in BOOLEAN : lone = (others = {})
  OBVIOUS
<1>3. new \in Reqs /\ new.kind = kind /\ new.pc = pc /\ new.alone = lone
  <2> DEFINE r == [NoReq EXCEPT !.kind = kind, !.pc = pc, !.alone = lone]
  <2>1. r \in Reqs /\ r.kind = kind /\ r.pc = pc /\ r.alone = lone
    BY Blanks DEF Reqs, Kinds
  <2> QED
    BY <1>2, <2>1
<1>4. \A m \in Requests : /\ left(m) \in Reqs /\ left(m).kind = req[m].kind
                          /\ left(m).pc = req[m].pc /\ left(m).plain = req[m].plain
                          /\ left(m).ok = req[m].ok /\ left(m).alone = FALSE
  BY <1>1 DEF Reqs
<1> HIDE DEF new, left
<1>5. req' = [m \in Requests |-> IF m = n THEN new ELSE IF m \in others THEN left(m) ELSE req[m]]
  <2>1. n \notin others
    BY <1>1
  <2>2. req' = [m \in Requests |-> CASE m = n -> new [] m \in others -> left(m) [] OTHER -> req[m]]
    BY DEF Begins, new, left
  <2> QED
    BY <2>1, <2>2
<1>6. req' \in [Requests -> Reqs] /\ req'[n] = new
  BY <1>1, <1>3, <1>4, <1>5
<1>7. \A m \in Requests \ {n} : req'[m] = IF m \in others THEN left(m) ELSE req[m]
  BY <1>5
<1>8. \A m \in Requests \ {n} : Same(m)
  BY <1>4, <1>7 DEF Same
<1>9. Good(n)'
  BY <1>3, <1>6 DEF Good, At, LoTWKinds
<1>10. lone <=> ~(\E m \in Requests : Busy(m))
  BY <1>2
<1> QED
  BY <1>3, <1>4, <1>6, <1>7, <1>8, <1>9, <1>10 DEF Turns

LEMMA StoreVaultPasswordTurns ==
    ASSUME TypeOK, AllGood, NEW n \in Requests, storeVaultPassword(n)
    PROVE  /\ Turns(n) /\ OthersStay(n)
           /\ \/ req'[n] = Gone /\ torn'
              \/ /\ req'[n].kind = "import" /\ req'[n].pc = "store"
                 /\ req'[n].alone = req[n].alone /\ torn' = torn
<1>1. CASE Stage(n, "done") /\ torn' = TRUE
  BY <1>1, StageTurns DEF Pcs
<1>2. CASE /\ req' = [req EXCEPT ![n].pc = "store",
                   ![n].plain = [DecodeStoredPasswords EXCEPT !.pw = n, !.fmt = "json"]]
           /\ UNCHANGED torn
  <2>1. PICK p : p = [DecodeStoredPasswords EXCEPT !.pw = n, !.fmt = "json"]
    OBVIOUS
  <2>2. p \in Plains /\ p.pw = n
    BY <2>1, StoredTyped, RequestNumbers DEF Plains, Formats
  <2>3. req \in [Requests -> Reqs] /\ req[n] \in Reqs /\ req[n].kind = "import"
    BY DEF TypeOK, storeVaultPassword, At
  <2> DEFINE new == [req[n] EXCEPT !.pc = "store", !.plain = p]
  <2>4. req' = [req EXCEPT ![n] = new]
    BY <1>2, <2>1, <2>3
  <2>5. /\ new \in Reqs /\ new.kind = "import" /\ new.pc = "store" /\ new.plain = p
        /\ new.alone = req[n].alone
    BY <2>2, <2>3 DEF Reqs, Pcs
  <2> HIDE DEF new
  <2>6. <<new.kind, new.pc>> \in Stages
    BY <2>5 DEF Stages
  <2>7. Turns(n) /\ OthersStay(n) /\ req'[n] = new
    BY <2>2, <2>4, <2>5, <2>6, UpdateTurns
  <2> QED
    BY <1>2, <2>5, <2>7
<1> QED
  BY <1>1, <1>2 DEF storeVaultPassword

LEMMA StoreWebPasswordTurns ==
    ASSUME TypeOK, AllGood, NEW n \in Requests, storeWebPassword(n)
    PROVE  /\ req[n].kind = "settings" /\ req[n].pc \in {"hascert", "load"}
           /\ Turns(n) /\ OthersStay(n)
           /\ \/ req'[n] = Gone
              \/ /\ req'[n].kind = "settings" /\ req'[n].pc = "load"
                 /\ req'[n].alone = req[n].alone
              \/ /\ req'[n].kind = "settings" /\ req'[n].pc = "store"
                 /\ req'[n].alone = req[n].alone /\ DecodeStoredPasswords.pw # 0
                 /\ req'[n].plain.pw = DecodeStoredPasswords.pw
<1>1. req[n].kind = "settings" /\ req[n].pc \in {"hascert", "load"}
  BY DEF storeWebPassword, At
<1>2. CASE Stage(n, "done")
  BY <1>1, <1>2, StageTurns DEF Pcs
<1>3. CASE Stage(n, "load")
  BY <1>1, <1>3, StageTurns DEF Pcs, Stages
<1>4. CASE /\ DecodeStoredPasswords.pw # 0
           /\ req' = [req EXCEPT ![n].pc = "store",
                            ![n].plain = [DecodeStoredPasswords EXCEPT !.web = n]]
  <2>1. PICK p : p = [DecodeStoredPasswords EXCEPT !.web = n]
    OBVIOUS
  <2>2. p \in Plains /\ p.web = n /\ p.pw = DecodeStoredPasswords.pw
    BY <2>1, StoredTyped, RequestNumbers DEF Plains
  <2>3. req \in [Requests -> Reqs] /\ req[n] \in Reqs
    BY DEF TypeOK
  <2> DEFINE new == [req[n] EXCEPT !.pc = "store", !.plain = p]
  <2>4. req' = [req EXCEPT ![n] = new]
    BY <1>4, <2>1, <2>3
  <2>5. /\ new \in Reqs /\ new.kind = "settings" /\ new.pc = "store" /\ new.plain = p
        /\ new.alone = req[n].alone
    BY <1>1, <2>2, <2>3 DEF Reqs, Pcs
  <2> HIDE DEF new
  <2>6. <<new.kind, new.pc>> \in Stages
    BY <2>5 DEF Stages
  <2>7. Turns(n) /\ OthersStay(n) /\ req'[n] = new
    BY <2>2, <2>4, <2>5, <2>6, UpdateTurns
  <2> QED
    BY <1>1, <1>4, <2>2, <2>5, <2>7
<1> QED
  BY <1>2, <1>3, <1>4 DEF storeWebPassword

LEMMA UpsertHasCertTurns ==
    ASSUME TypeOK, AllGood, NEW n \in Requests, upsertHasCert(n)
    PROVE  /\ Turns(n) /\ OthersStay(n)
           /\ req'[n].kind = req[n].kind /\ req'[n].pc = "active"
           /\ req'[n].plain = req[n].plain
           /\ \/ /\ req'[n].alone = req[n].alone /\ torn' = torn
                 /\ hasCert' = (req[n].kind = "import")
              \/ req'[n].alone = FALSE /\ torn' /\ hasCert' = hasCert
<1>1. req \in [Requests -> Reqs] /\ req[n] \in Reqs /\ req[n].kind \in {"import", "remove"}
  BY DEF TypeOK, upsertHasCert, At
<1>2. CASE /\ Stage(n, "active") /\ UNCHANGED torn
           /\ hasCert' = (req[n].kind = "import")
  <2>1. <<req[n].kind, "active">> \in Stages
    BY <1>1 DEF Stages
  <2>2. /\ Turns(n) /\ OthersStay(n) /\ req'[n].kind = req[n].kind /\ req'[n].pc = "active"
        /\ req'[n].plain = req[n].plain /\ req'[n].alone = req[n].alone
    BY <1>2, <2>1, StageTurns DEF Pcs
  <2> QED
    BY <1>2, <2>2, Zenon
<1>3. CASE /\ req' = [req EXCEPT ![n].pc = "active", ![n].alone = FALSE]
           /\ torn' = TRUE /\ UNCHANGED hasCert
  <2> DEFINE new == [req[n] EXCEPT !.pc = "active", !.alone = FALSE]
  <2>1. req' = [req EXCEPT ![n] = new]
    BY <1>1, <1>3
  <2>2. /\ new \in Reqs /\ new.kind = req[n].kind /\ new.pc = "active"
        /\ new.plain = req[n].plain /\ new.alone = FALSE
    BY <1>1 DEF Reqs, Pcs
  <2> HIDE DEF new
  <2>3. <<new.kind, new.pc>> \in Stages
    BY <1>1, <2>2 DEF Stages
  <2>4. Turns(n) /\ OthersStay(n) /\ req'[n] = new
    BY <1>1, <2>1, <2>2, <2>3, UpdateTurns
  <2> QED
    BY <1>3, <2>2, <2>4
<1> QED
  BY <1>2, <1>3 DEF upsertHasCert

LEMMA LoadVaultPasswordTurns ==
    ASSUME TypeOK, AllGood, NEW n \in Requests, loadVaultPassword(n)
    PROVE  /\ Turns(n) /\ OthersStay(n)
           /\ \/ req'[n] = Gone
              \/ /\ req'[n].kind = "remove" /\ req'[n].pc = "vault"
                 /\ req'[n].alone = req[n].alone
<1>1. CASE Stage(n, "done")
  BY <1>1, StageTurns DEF Pcs
<1>2. CASE req' = [req EXCEPT ![n].pc = "vault", ![n].plain = DecodeStoredPasswords]
  <2>1. PICK p \in Plains : p = DecodeStoredPasswords
    BY StoredTyped
  <2>2. req \in [Requests -> Reqs] /\ req[n] \in Reqs /\ req[n].kind = "remove"
    BY DEF TypeOK, loadVaultPassword, At
  <2> DEFINE new == [req[n] EXCEPT !.pc = "vault", !.plain = p]
  <2>3. req' = [req EXCEPT ![n] = new]
    BY <1>2, <2>1, <2>2
  <2>4. /\ new \in Reqs /\ new.kind = "remove" /\ new.pc = "vault"
        /\ new.alone = req[n].alone
    BY <2>2 DEF Reqs, Pcs
  <2> HIDE DEF new
  <2>5. <<new.kind, new.pc>> \in Stages
    BY <2>4 DEF Stages
  <2>6. Turns(n) /\ OthersStay(n) /\ req'[n] = new
    BY <2>3, <2>4, <2>5, UpdateTurns
  <2> QED
    BY <2>4, <2>6
<1> QED
  BY <1>1, <1>2 DEF loadVaultPassword

-----------------------------------------------------------------------------
(* What a step does to the rows.                                           *)

RowsOK == RowsTyped /\ AllKept /\ CopyCurrent

LEMMA RowWritten ==
    ASSUME TableInv, NEW s \in Services, NEW r \in CredRows \union {NoRow},
           row' = [row EXCEPT ![s] = r], r # NoRow => Kept(r.cipher), ~Locked(s),
           UNCHANGED <<svc, ring, tool>>
    PROVE  RowsOK' /\ row'[s] = r /\ \A z \in Services \ {s} : row'[z] = row[z]
<1>1. row \in [Services -> CredRows \union {NoRow}] /\ Services' = Services
  BY DEF TableInv, TypeOK, RowsTyped, Services
<1>2. row'[s] = r /\ \A z \in Services \ {s} : row'[z] = row[z]
  BY <1>1
<1>3. RowsTyped'
  BY <1>1 DEF TableInv, TypeOK, RowsTyped
<1>4. AllKept'
  BY <1>1, <1>2 DEF TableInv, AllKept, Kept
<1>5. CopyCurrent'
  BY <1>1, <1>2 DEF TableInv, CopyCurrent, Locked
<1> QED
  BY <1>2, <1>3, <1>4, <1>5 DEF RowsOK

LEMMA UpsertWrites ==
    ASSUME TableInv, NEW s \in Services, NEW p \in Plains, ~Locked(s),
           row' = UpsertCredential(s, p, TRUE), UNCHANGED <<svc, ring, tool>>
    PROVE  /\ RowsOK' /\ \A z \in Services \ {s} : row'[z] = row[z]
           /\ row'[s] # NoRow /\ row'[s].cipher.plain = p /\ row'[s].active
<1>1. PICK key \in {"old", "new"} : ring = NewKeyring(key)
  BY DEF TableInv, TypeOK, RowsTyped
<1>2. PICK c : c = Encrypt(ring, p)
  OBVIOUS
<1>3. c \in Ciphers /\ Kept(c) /\ c.plain = p
  BY <1>1, <1>2, NewKeyringEncrypts DEF Ciphers, Kept
<1>4. PICK b \in BOOLEAN : b = IF row[s] = NoRow THEN FALSE ELSE row[s].stamp
  BY RowTyped DEF TableInv, CredRows
<1> DEFINE new == [st |-> "row", cipher |-> c, active |-> TRUE, stamp |-> b]
<1>5. new \in CredRows /\ new # NoRow /\ new.cipher = c /\ new.active
  BY <1>3 DEF CredRows, NoRow
<1>6. row' = [row EXCEPT ![s] = new]
  BY <1>2, <1>4 DEF UpsertCredential
<1> HIDE DEF new
<1> QED
  BY <1>3, <1>5, <1>6, RowWritten

\* What writes a row but its secret.
Touches(s) ==
    /\ \A z \in Services \ {s} : row'[z] = row[z]
    /\ row'[s] = NoRow <=> row[s] = NoRow
    /\ row[s] # NoRow => row'[s].cipher = row[s].cipher

LEMMA StampWrites ==
    ASSUME TableInv, NEW s \in Services, ~Locked(s), NEW b \in BOOLEAN,
           row' = IF row[s] = NoRow THEN row ELSE [row EXCEPT ![s].stamp = b],
           UNCHANGED <<svc, ring, tool>>
    PROVE  RowsOK' /\ Touches(s) /\ (row[s] # NoRow => row'[s].stamp = b)
<1>1. CASE row[s] = NoRow
  <2>1. row' = row /\ RowsOK'
    BY <1>1 DEF TableInv, TypeOK, RowsOK, RowsTyped, AllKept, CopyCurrent, Kept, Services
  <2> QED
    BY <1>1, <2>1 DEF Touches
<1>2. CASE row[s] # NoRow
  <2> DEFINE new == [row[s] EXCEPT !.stamp = b]
  <2>1. row[s] \in CredRows /\ row \in [Services -> CredRows \union {NoRow}]
    BY <1>2, RowTyped DEF TableInv, TypeOK, RowsTyped
  <2>2. new \in CredRows /\ new # NoRow /\ new.cipher = row[s].cipher /\ new.stamp = b
    BY <2>1 DEF CredRows, NoRow
  <2>3. row' = [row EXCEPT ![s] = new]
    BY <1>2, <2>1
  <2>4. Kept(new.cipher)
    BY <1>2, <2>2 DEF TableInv, AllKept
  <2> HIDE DEF new
  <2>5. RowsOK' /\ row'[s] = new /\ \A z \in Services \ {s} : row'[z] = row[z]
    BY <2>2, <2>3, <2>4, RowWritten
  <2> QED
    BY <1>2, <2>2, <2>5 DEF Touches
<1> QED
  BY <1>1, <1>2

LEMMA ActiveWrites ==
    ASSUME TableInv, NEW s \in Services, ~Locked(s), NEW b \in BOOLEAN,
           row' = IF row[s] = NoRow THEN row ELSE [row EXCEPT ![s].active = b],
           UNCHANGED <<svc, ring, tool>>
    PROVE  RowsOK' /\ Touches(s) /\ (row[s] # NoRow => row'[s].active = b)
<1>1. CASE row[s] = NoRow
  <2>1. row' = row /\ RowsOK'
    BY <1>1 DEF TableInv, TypeOK, RowsOK, RowsTyped, AllKept, CopyCurrent, Kept, Services
  <2> QED
    BY <1>1, <2>1 DEF Touches
<1>2. CASE row[s] # NoRow
  <2> DEFINE new == [row[s] EXCEPT !.active = b]
  <2>1. row[s] \in CredRows /\ row \in [Services -> CredRows \union {NoRow}]
    BY <1>2, RowTyped DEF TableInv, TypeOK, RowsTyped
  <2>2. new \in CredRows /\ new # NoRow /\ new.cipher = row[s].cipher /\ new.active = b
    BY <2>1 DEF CredRows, NoRow
  <2>3. row' = [row EXCEPT ![s] = new]
    BY <1>2, <2>1
  <2>4. Kept(new.cipher)
    BY <1>2, <2>2 DEF TableInv, AllKept
  <2> HIDE DEF new
  <2>5. RowsOK' /\ row'[s] = new /\ \A z \in Services \ {s} : row'[z] = row[z]
    BY <2>2, <2>3, <2>4, RowWritten
  <2> QED
    BY <1>2, <2>2, <2>5 DEF Touches
<1> QED
  BY <1>1, <1>2

LEMMA DeleteWrites ==
    ASSUME TableInv, NEW s \in Services, ~Locked(s), row' = DeleteCredential(s),
           UNCHANGED <<svc, ring, tool>>
    PROVE  RowsOK' /\ row'[s] = NoRow /\ \A z \in Services \ {s} : row'[z] = row[z]
BY RowWritten DEF DeleteCredential

\* What the tool leaves of every row.
Rewraps ==
    \A s \in Services :
        /\ row'[s] = NoRow <=> row[s] = NoRow
        /\ row[s] # NoRow => /\ row'[s].cipher.plain = row[s].cipher.plain
                             /\ row'[s].active = row[s].active
                             /\ row'[s].stamp = row[s].stamp

LEMMA RotateSelects ==
    ASSUME TableInv, rotateSelect
    PROVE  RowsOK'
<1>1. UNCHANGED <<svc, row, ring>> /\ Services' = Services
  BY DEF rotateSelect, Services
<1>2. RowsTyped' /\ AllKept'
  BY <1>1 DEF TableInv, TypeOK, RowsTyped, AllKept, Kept
<1>3. PICK skip \in SUBSET Held :
        \E batch \in AtMost(BatchSize, Outdated(CurrentVersion(ToolRing)) \ skip) :
            tool' = IF batch = {} THEN Idle("done")
                    ELSE [pc |-> "batch", read |-> [s \in batch |-> row[s].cipher]]
  BY DEF rotateSelect
<1>4. PICK batch \in AtMost(BatchSize, Outdated(CurrentVersion(ToolRing)) \ skip) :
            tool' = IF batch = {} THEN Idle("done")
                    ELSE [pc |-> "batch", read |-> [s \in batch |-> row[s].cipher]]
  BY <1>3
<1>5. \A s \in batch : s \in Services /\ row[s] # NoRow
  BY DEF AtMost, Outdated
<1>6. CASE batch = {}
  <2>1. DOMAIN tool'.read = {}
    BY <1>4, <1>6, IdleReadsNothing
  <2>2. CopyCurrent'
    BY <2>1 DEF CopyCurrent
  <2> QED
    BY <1>2, <2>2 DEF RowsOK
<1>7. CASE batch # {}
  <2>1. tool'.read = [s \in batch |-> row[s].cipher]
    BY <1>4, <1>7
  <2>2. CopyCurrent'
    BY <1>1, <1>5, <2>1 DEF CopyCurrent
  <2> QED
    BY <1>2, <2>2 DEF RowsOK
<1> QED
  BY <1>6, <1>7

LEMMA RotateRewraps ==
    ASSUME TableInv, rotateBatch
    PROVE  RowsOK' /\ Rewraps
<1> DEFINE good == {s \in DOMAIN tool.read : Decrypts(ToolRing, tool.read[s])}
           new(s) == [row[s] EXCEPT !.cipher = Encrypt(ToolRing, tool.read[s].plain)]
<1>1. /\ row \in [Services -> CredRows \union {NoRow}] /\ Services' = Services
      /\ UNCHANGED <<svc, ring>>
  BY DEF TableInv, TypeOK, RowsTyped, Services, rotateBatch
<1>2. ASSUME NEW s \in Services, s \in good, row[s] # NoRow
      PROVE  /\ new(s) \in CredRows /\ new(s) # NoRow /\ Kept(new(s).cipher)
             /\ new(s).cipher.plain = row[s].cipher.plain
             /\ new(s).active = row[s].active /\ new(s).stamp = row[s].stamp
  <2>1. row[s] \in CredRows /\ row[s].cipher.plain \in Plains
    BY <1>2, RowTyped DEF TableInv
  <2>2. tool.read[s].plain = row[s].cipher.plain
    BY <1>2 DEF TableInv, CopyCurrent
  <2>3. PICK c : c = Encrypt(ToolRing, tool.read[s].plain)
    OBVIOUS
  <2>4. c \in Ciphers /\ Kept(c) /\ c.plain = row[s].cipher.plain
    BY <2>1, <2>2, <2>3, ToolRingEncrypts DEF Ciphers, Kept
  <2> DEFINE r == [row[s] EXCEPT !.cipher = c]
  <2>5. r \in CredRows /\ r # NoRow /\ r.cipher = c /\ r.active = row[s].active /\ r.stamp = row[s].stamp
    BY <2>1, <2>4 DEF CredRows, NoRow
  <2>6. new(s) = r
    BY <2>3
  <2> HIDE DEF new, r
  <2> QED
    BY <2>4, <2>5, <2>6
<1> HIDE DEF new
<1>3. row' = [s \in Services |-> IF s \in good /\ row[s] # NoRow THEN new(s) ELSE row[s]]
  BY DEF rotateBatch, new
<1>4. RowsTyped'
  BY <1>1, <1>2, <1>3 DEF TableInv, TypeOK, RowsTyped
<1>5. AllKept'
  BY <1>1, <1>2, <1>3 DEF TableInv, AllKept, Kept
<1>6. Rewraps
  BY <1>1, <1>2, <1>3 DEF Rewraps
<1>7. DOMAIN tool'.read = {}
  BY IdleReadsNothing DEF rotateBatch, RotateKey
<1>8. CopyCurrent'
  BY <1>7 DEF CopyCurrent
<1> QED
  BY <1>4, <1>5, <1>6, <1>8 DEF RowsOK

LEMMA RowsStay ==
    ASSUME TableInv, UNCHANGED <<svc, row>>, ring' \in {NewKeyring("old"), NewKeyring("new")},
           tool' = tool \/ DOMAIN tool'.read = {}
    PROVE  RowsOK'
<1>1. Services' = Services
  BY DEF Services
<1>2. RowsTyped' /\ AllKept'
  BY <1>1 DEF TableInv, TypeOK, RowsTyped, AllKept, Kept
<1>3. CopyCurrent'
  BY <1>1 DEF TableInv, CopyCurrent
<1> QED
  BY <1>2, <1>3 DEF RowsOK

LEMMA TurnKeepsTable ==
    ASSUME TableInv, NEW n \in Requests, Turns(n), RowsOK', Flags'
    PROVE  TableInv'
<1>1. TypeOK'
  BY DEF RowsOK, TypeOK, Turns
<1>2. ASSUME NEW m \in Requests PROVE Good(m)'
  <2>1. CASE m = n
    BY <2>1 DEF Turns
  <2>2. CASE m # n
    <3>1. Same(m) /\ Good(m)
      BY <2>2 DEF Turns, TableInv, AllGood
    <3> QED
      BY <3>1 DEF Same, Good, At
  <2> QED
    BY <2>1, <2>2
<1> QED
  BY <1>1, <1>2 DEF RowsOK, TableInv, AllGood

\* A step of one request that leaves the table alone.
LEMMA QuietKeepsTable ==
    ASSUME TableInv, NEW n \in Requests, Turns(n), UNCHANGED <<svc, row, ring, tool>>, Flags'
    PROVE  TableInv'
<1>1. ring' \in {NewKeyring("old"), NewKeyring("new")}
  BY DEF TableInv, TypeOK, RowsTyped
<1>2. RowsOK'
  BY <1>1, RowsStay
<1> QED
  BY <1>2, TurnKeepsTable

-----------------------------------------------------------------------------
(* The table's invariant.                                                  *)

LEMMA PlainTyped ==
    ASSUME TypeOK, NEW n \in Requests
    PROVE  req[n] \in Reqs /\ req[n].plain \in Plains /\ req[n].ok \in BOOLEAN
<1>1. req[n] \in Reqs
  BY DEF TypeOK
<1> QED
  BY <1>1 DEF Reqs

\* Where the stages of a request lead.
LEMMA StageMoves ==
    ASSUME TypeOK, AllGood, NEW n \in Requests
    PROVE  /\ SaveUpserts(n) => Turns(n) /\ OthersStay(n) /\ req'[n].kind = "put"
                                /\ req'[n].pc = "stamp" /\ req'[n].ok = req[n].ok
           /\ SaveFails(n) \/ SaveStamps(n) \/ StampFails(n) \/ ReVerifyStamps(n) \/ DeleteRow(n)
                => Turns(n) /\ OthersStay(n) /\ req'[n] = Gone
           /\ ReVerifyChecks(n)
                => /\ Turns(n) /\ OthersStay(n)
                   /\ \/ req'[n] = Gone /\ vouched' = vouched
                      \/ /\ req'[n].kind = "reverify" /\ req'[n].pc = "stamp"
                         /\ req'[n].plain = req[n].plain
                         /\ vouched' = vouched \union {req[n].plain.pw}
<1>1. ASSUME SaveUpserts(n)
      PROVE  Turns(n) /\ OthersStay(n) /\ req'[n].kind = "put" /\ req'[n].pc = "stamp"
             /\ req'[n].ok = req[n].ok
  <2>1. Stage(n, "stamp") /\ req[n].kind = "put"
    BY <1>1 DEF SaveUpserts, At
  <2> QED
    <3>1. <<req[n].kind, "stamp">> \in Stages
      BY <2>1 DEF Stages
    <3> QED
      BY <2>1, <3>1, StageTurns DEF Pcs
<1>2. ASSUME SaveFails(n) \/ SaveStamps(n) \/ StampFails(n) \/ ReVerifyStamps(n) \/ DeleteRow(n)
      PROVE  Turns(n) /\ OthersStay(n) /\ req'[n] = Gone
  <2>1. Stage(n, "done")
    BY <1>2 DEF SaveFails, SaveStamps, StampFails, ReVerifyStamps, DeleteRow
  <2> QED
    BY <2>1, StageTurns DEF Pcs
<1>3. ASSUME ReVerifyChecks(n)
      PROVE  /\ Turns(n) /\ OthersStay(n)
             /\ \/ req'[n] = Gone /\ vouched' = vouched
                \/ /\ req'[n].kind = "reverify" /\ req'[n].pc = "stamp"
                   /\ req'[n].plain = req[n].plain
                   /\ vouched' = vouched \union {req[n].plain.pw}
  <2>1. req[n].kind = "reverify"
    BY <1>3 DEF ReVerifyChecks, At
  <2>2. CASE Stage(n, "done") /\ vouched' = vouched
    BY <2>2, StageTurns DEF Pcs
  <2>3. CASE Stage(n, "stamp") /\ vouched' = vouched \union {req[n].plain.pw}
    <3>1. <<req[n].kind, "stamp">> \in Stages
      BY <2>1 DEF Stages
    <3> QED
      BY <2>1, <2>3, <3>1, StageTurns DEF Pcs
  <2> QED
    BY <1>3, <2>2, <2>3 DEF ReVerifyChecks
<1> QED
  BY <1>1, <1>2, <1>3

LEMMA SaveStampsWrites ==
    ASSUME TableInv, NEW n \in Requests, SaveStamps(n)
    PROVE  RowsOK' /\ Touches(svc) /\ (row[svc] # NoRow => row'[svc].stamp = req[n].ok)
<1>1. ~Locked(svc) /\ UNCHANGED <<svc, ring, tool>> /\ req[n].ok \in BOOLEAN
  BY PlainTyped DEF SaveStamps, TableInv
<1>2. PICK b \in BOOLEAN : b = req[n].ok
  BY <1>1
<1>3. row' = IF row[svc] = NoRow THEN row ELSE [row EXCEPT ![svc].stamp = b]
  BY <1>2 DEF SaveStamps, updateVerifiedAt, clearVerifiedAt
<1> QED
  BY <1>1, <1>2, <1>3, StampWrites, ServicesAre

LEMMA ReVerifyStampsWrites ==
    ASSUME TableInv, NEW n \in Requests, ReVerifyStamps(n)
    PROVE  RowsOK' /\ Touches(svc)
<1>1. ~Locked(svc) /\ UNCHANGED <<svc, ring, tool>>
  BY DEF ReVerifyStamps
<1>2. CASE row' = row
  <2>1. ring' \in {NewKeyring("old"), NewKeyring("new")}
    BY <1>1 DEF TableInv, TypeOK, RowsTyped
  <2> QED
    BY <1>1, <1>2, <2>1, RowsStay DEF Touches
<1>3. CASE row' = updateVerifiedAt(svc)
  <2>1. row' = IF row[svc] = NoRow THEN row ELSE [row EXCEPT ![svc].stamp = TRUE]
    BY <1>3 DEF updateVerifiedAt
  <2> QED
    BY <1>1, <2>1, StampWrites, ServicesAre
<1> QED
  BY <1>2, <1>3 DEF ReVerifyStamps

LEMMA CredKeepsTable ==
    ASSUME TableInv, NEW n \in Requests, UNCHANGED <<cert, hasCert, torn>>,
           \/ StoreAndVerify(n) \/ SaveVerifies(n) \/ SaveUpserts(n)
           \/ SaveFails(n) \/ SaveStamps(n) \/ StampFails(n)
           \/ ReVerify(n) \/ ReVerifyChecks(n) \/ ReVerifyStamps(n)
           \/ Delete(n) \/ DeleteRow(n)
    PROVE  TableInv'
<1> USE DEF TableInv
<1>1. suspect' \in BOOLEAN => Flags'
  BY DEF TypeOK, Flags
<1>2. UNCHANGED suspect => Flags'
  BY DEF TypeOK, Flags
<1>3. CASE StoreAndVerify(n)
  BY <1>2, <1>3, StoreAndVerifyTurns, QuietKeepsTable DEF StoreAndVerify
<1>4. CASE SaveVerifies(n)
  BY <1>2, <1>4, SaveVerifiesTurns, QuietKeepsTable DEF SaveVerifies
<1>5. CASE SaveUpserts(n)
  <2>1. Turns(n) /\ req[n].plain \in Plains
    BY <1>5, StageMoves, PlainTyped
  <2>2. RowsOK'
    BY <1>5, <2>1, UpsertWrites, ServicesAre DEF SaveUpserts
  <2>3. suspect' \in BOOLEAN
    BY <1>5, Zenon DEF SaveUpserts, Contended
  <2> QED
    BY <1>1, <2>1, <2>2, <2>3, TurnKeepsTable
<1>6. CASE SaveFails(n)
  BY <1>2, <1>6, StageMoves, QuietKeepsTable DEF SaveFails
<1>7. CASE SaveStamps(n)
  <2>1. Flags'
    BY <1>2, <1>7 DEF SaveStamps
  <2> QED
    BY <1>7, <2>1, StageMoves, SaveStampsWrites, TurnKeepsTable
<1>8. CASE StampFails(n)
  <2>1. Flags'
    BY <1>1, <1>8 DEF StampFails
  <2> QED
    BY <1>8, <2>1, StageMoves, QuietKeepsTable DEF StampFails
<1>9. CASE ReVerify(n)
  BY <1>2, <1>9, ReVerifyTurns, QuietKeepsTable DEF ReVerify
<1>10. CASE ReVerifyChecks(n)
  BY <1>2, <1>10, StageMoves, QuietKeepsTable DEF ReVerifyChecks
<1>11. CASE ReVerifyStamps(n)
  <2>1. Flags'
    BY <1>2, <1>11 DEF ReVerifyStamps
  <2> QED
    BY <1>11, <2>1, StageMoves, ReVerifyStampsWrites, TurnKeepsTable
<1>12. CASE Delete(n)
  BY <1>2, <1>12, DeleteTurns, QuietKeepsTable DEF Delete
<1>13. CASE DeleteRow(n)
  <2>1. Flags' /\ RowsOK'
    BY <1>2, <1>13, DeleteWrites, ServicesAre DEF DeleteRow
  <2> QED
    BY <1>13, <2>1, StageMoves, TurnKeepsTable
<1> QED
  BY <1>3, <1>4, <1>5, <1>6, <1>7, <1>8, <1>9, <1>10, <1>11, <1>12, <1>13

\* Request n is at another stage, with what it had.
Moves(n, pc) ==
    /\ req'[n].kind = req[n].kind /\ req'[n].pc = pc
    /\ req'[n].plain = req[n].plain /\ req'[n].alone = req[n].alone

LEMMA StoreStage ==
    ASSUME AllGood, NEW n \in Requests, req[n].pc = "store"
    PROVE  req[n].kind \in {"import", "settings"}
<1>1. <<req[n].kind, "store">> \in Stages
  BY DEF AllGood, Good
<1> QED
  BY <1>1 DEF Stages

LEMMA VaultImportsTurns ==
    ASSUME TypeOK, AllGood, NEW n \in Requests, VaultImports(n)
    PROVE  /\ Turns(n) /\ OthersStay(n)
           /\ \/ req'[n] = Gone /\ torn'
              \/ Moves(n, "load") /\ torn' = torn
<1>1. CASE Stage(n, "done") /\ torn' = TRUE
  BY <1>1, StageTurns DEF Pcs
<1>2. CASE Stage(n, "load") /\ UNCHANGED torn
  <2>1. <<req[n].kind, "load">> \in Stages
    BY DEF VaultImports, At, Stages
  <2> QED
    BY <1>2, <2>1, StageTurns DEF Pcs, Moves
<1> QED
  BY <1>1, <1>2 DEF VaultImports

LEMMA StoreLoTWPasswordsTurns ==
    ASSUME TypeOK, AllGood, NEW n \in Requests, storeLoTWPasswords(n)
    PROVE  /\ Turns(n) /\ OthersStay(n)
           /\ \/ req[n].kind = "import" /\ Moves(n, "flag")
              \/ req[n].kind = "settings" /\ req'[n] = Gone
<1>1. CASE req[n].kind = "import"
  <2>1. <<req[n].kind, "flag">> \in Stages /\ Stage(n, "flag")
    BY <1>1 DEF storeLoTWPasswords, Stages
  <2> QED
    BY <1>1, <2>1, StageTurns DEF Pcs, Moves
<1>2. CASE req[n].kind = "settings"
  <2>1. Stage(n, "done")
    BY <1>2 DEF storeLoTWPasswords
  <2> QED
    BY <1>2, <2>1, StageTurns DEF Pcs
<1> QED
  BY <1>1, <1>2, StoreStage DEF storeLoTWPasswords

LEMMA VaultDeletesTurns ==
    ASSUME TypeOK, AllGood, NEW n \in Requests, VaultDeletes(n)
    PROVE  /\ Turns(n) /\ OthersStay(n) /\ req[n].kind = "remove"
           /\ \/ req'[n] = Gone /\ UNCHANGED <<cert, torn>>
              \/ req[n].pc = "vault" /\ Moves(n, "erase") /\ UNCHANGED <<cert, torn>>
              \/ req[n].pc = "erase" /\ Moves(n, "flag") /\ cert' = NoCert /\ UNCHANGED torn
              \/ req[n].pc = "erase" /\ req'[n] = Gone /\ cert' = NoCert /\ torn'
<1>1. req[n].kind = "remove"
  BY DEF VaultDeletes, At
<1>2. <<req[n].kind, "erase">> \in Stages /\ <<req[n].kind, "flag">> \in Stages
  BY <1>1 DEF Stages
<1>3. CASE Stage(n, "done") /\ UNCHANGED <<cert, torn>>
  BY <1>1, <1>3, StageTurns DEF Pcs
<1>4. CASE req[n].pc = "vault" /\ Stage(n, "erase") /\ UNCHANGED <<cert, torn>>
  BY <1>1, <1>2, <1>4, StageTurns DEF Pcs, Moves
<1>5. CASE req[n].pc = "erase" /\ Stage(n, "flag") /\ cert' = NoCert /\ UNCHANGED torn
  BY <1>1, <1>2, <1>5, StageTurns DEF Pcs, Moves
<1>6. CASE req[n].pc = "erase" /\ Stage(n, "done") /\ cert' = NoCert /\ torn' = TRUE
  BY <1>1, <1>6, StageTurns DEF Pcs
<1> QED
  BY <1>3, <1>4, <1>5, <1>6 DEF VaultDeletes, At

LEMMA LoTWEnds ==
    ASSUME TypeOK, AllGood, NEW n \in Requests,
           ImportRefused(n) \/ StoreFails(n) \/ upsertLotwCredential(n) \/ VaultRotates(n)
    PROVE  Turns(n) /\ OthersStay(n) /\ req'[n] = Gone
<1>1. Stage(n, "done")
  BY DEF ImportRefused, StoreFails, upsertLotwCredential, VaultRotates
<1> QED
  BY <1>1, StageTurns DEF Pcs

LEMMA CertTyped ==
    ASSUME NEW n \in Requests, Flags
    PROVE  /\ NoCert \in [pw : 0..Earlier, expired : BOOLEAN]
           /\ handleImportCert(n) \in [pw : 0..Earlier, expired : BOOLEAN]
           /\ handleRotatePassword(cert, 0, n) \in [pw : 0..Earlier, expired : BOOLEAN]
<1>1. NoCert \in [pw : 0..Earlier, expired : BOOLEAN]
  BY RequestNumbers DEF NoCert
<1>2. handleImportCert(n) \in [pw : 0..Earlier, expired : BOOLEAN]
  BY RequestNumbers DEF handleImportCert
<1>3. handleRotatePassword(cert, 0, n) \in [pw : 0..Earlier, expired : BOOLEAN]
  BY RequestNumbers DEF handleRotatePassword, Flags
<1> QED
  BY <1>1, <1>2, <1>3

LEMMA UpsertLotwWrites ==
    ASSUME TableInv, NEW n \in Requests, upsertLotwCredential(n)
    PROVE  /\ RowsOK' /\ Touches("lotw") /\ torn' \in BOOLEAN
           /\ \/ /\ row["lotw"] # NoRow => (row'["lotw"].active <=> req[n].kind = "import")
                 /\ torn' = (torn /\ ~req[n].alone)
              \/ torn'
<1>1. ~Locked("lotw") /\ UNCHANGED <<svc, ring, tool>>
  BY DEF upsertLotwCredential
<1>2. PICK b \in BOOLEAN : b = (req[n].kind = "import")
  BY Zenon
<1>3. CASE /\ row' = IF row["lotw"] = NoRow THEN row
                     ELSE [row EXCEPT !["lotw"].active = req[n].kind = "import"]
           /\ torn' = (torn /\ ~req[n].alone)
  <2>1. row' = IF row["lotw"] = NoRow THEN row ELSE [row EXCEPT !["lotw"].active = b]
    BY <1>2, <1>3
  <2>2. /\ RowsOK' /\ Touches("lotw")
        /\ row["lotw"] # NoRow => row'["lotw"].active = b
    BY <1>1, <2>1, ActiveWrites, ServicesAre
  <2>3. row["lotw"] # NoRow => (row'["lotw"].active <=> req[n].kind = "import")
    BY <1>2, <2>2
  <2>4. torn' \in BOOLEAN
    BY <1>3, Zenon
  <2> QED
    BY <1>3, <2>2, <2>3, <2>4
<1>4. CASE UNCHANGED row /\ torn' = TRUE
  <2>1. ring' \in {NewKeyring("old"), NewKeyring("new")}
    BY <1>1 DEF TableInv, TypeOK, RowsTyped
  <2>2. RowsOK' /\ Touches("lotw")
    BY <1>1, <1>4, <2>1, RowsStay DEF Touches
  <2> QED
    BY <1>4, <2>2
<1> QED
  BY <1>3, <1>4 DEF upsertLotwCredential

LEMMA ArrivalTurns ==
    ASSUME TypeOK, AllGood, NEW n \in Requests,
           ImportCert(n) \/ DeleteCert(n) \/ UpdateSettings(n) \/ RotatePassword(n)
    PROVE  \E kind \in LoTWKinds, pc \in {"vault", "load", "hascert"} :
                /\ <<kind, pc>> \in {<<"import", "vault">>, <<"remove", "load">>,
                                     <<"settings", "hascert">>, <<"rotate", "vault">>}
                /\ Begins(n, kind, pc)
                /\ Turns(n) /\ req'[n].kind = kind /\ req'[n].pc = pc
                /\ req'[n].alone <=> ~(\E m \in Requests : Busy(m))
                /\ \A m \in Requests \ {n} : ~Busy(m) => req'[m] = req[m]
                /\ \A m \in Requests \ {n} : Busy(m) => ~req'[m].alone
<1>1. PICK kind \in LoTWKinds, pc \in {"vault", "load", "hascert"} :
        /\ <<kind, pc>> \in {<<"import", "vault">>, <<"remove", "load">>,
                             <<"settings", "hascert">>, <<"rotate", "vault">>}
        /\ Begins(n, kind, pc)
  BY DEF ImportCert, DeleteCert, UpdateSettings, RotatePassword, LoTWKinds
<1>2. <<kind, pc>> \in Stages /\ pc \in Pcs \ {"store"}
  BY <1>1 DEF Stages, Pcs
<1>3. /\ Turns(n) /\ req'[n].kind = kind /\ req'[n].pc = pc
      /\ req'[n].alone <=> ~(\E m \in Requests : Busy(m))
      /\ \A m \in Requests \ {n} : ~Busy(m) => req'[m] = req[m]
      /\ \A m \in Requests \ {n} : Busy(m) => ~req'[m].alone
  BY <1>1, <1>2, BeginsTurns
<1> QED
  BY <1>1, <1>3

LEMMA LoTWKeepsTable ==
    ASSUME TableInv, NEW n \in Requests,
           \/ ImportCert(n) \/ DeleteCert(n) \/ UpdateSettings(n) \/ RotatePassword(n)
           \/ VaultImports(n) \/ ImportRefused(n) \/ storeVaultPassword(n)
           \/ storeWebPassword(n) \/ storeLoTWPasswords(n) \/ StoreFails(n)
           \/ upsertHasCert(n) \/ upsertLotwCredential(n) \/ loadVaultPassword(n)
           \/ VaultDeletes(n) \/ VaultRotates(n)
    PROVE  TableInv'
<1> USE DEF TableInv
<1>1. Flags
  BY DEF TypeOK
<1>2. UNCHANGED <<cert, hasCert, suspect>> /\ torn' \in BOOLEAN => Flags'
  BY <1>1 DEF Flags
<1>3. UNCHANGED <<cert, hasCert, torn, suspect>> => Flags'
  BY <1>1 DEF Flags
<1>4. CASE ImportCert(n) \/ DeleteCert(n) \/ UpdateSettings(n) \/ RotatePassword(n)
  <2>1. PICK kind, pc : Begins(n, kind, pc) /\ Turns(n)
    BY <1>4, ArrivalTurns
  <2>2. UNCHANGED <<svc, row, ring, tool, cert, hasCert, suspect>>
    BY <2>1 DEF Begins
  <2>3. torn' \in BOOLEAN
    BY <2>1, Zenon DEF Begins
  <2> QED
    BY <1>2, <2>1, <2>2, <2>3, QuietKeepsTable
<1>5. CASE VaultImports(n)
  <2>1. Flags' /\ UNCHANGED <<svc, row, ring, tool>>
    BY <1>1, <1>5, CertTyped DEF VaultImports, Flags
  <2> QED
    BY <1>5, <2>1, VaultImportsTurns, QuietKeepsTable
<1>6. CASE ImportRefused(n)
  BY <1>3, <1>6, LoTWEnds, QuietKeepsTable DEF ImportRefused
<1>7. CASE storeVaultPassword(n)
  <2>1. Flags' /\ UNCHANGED <<svc, row, ring, tool>>
    BY <1>1, <1>7 DEF storeVaultPassword, Flags
  <2> QED
    BY <1>7, <2>1, StoreVaultPasswordTurns, QuietKeepsTable
<1>8. CASE storeWebPassword(n)
  BY <1>3, <1>8, StoreWebPasswordTurns, QuietKeepsTable DEF storeWebPassword
<1>9. CASE storeLoTWPasswords(n)
  <2>1. Turns(n) /\ req[n].plain \in Plains
    BY <1>9, StoreLoTWPasswordsTurns, PlainTyped
  <2>2. RowsOK'
    BY <1>9, <2>1, UpsertWrites, ServicesAre DEF storeLoTWPasswords
  <2> QED
    BY <1>3, <1>9, <2>1, <2>2, TurnKeepsTable DEF storeLoTWPasswords
<1>10. CASE StoreFails(n)
  <2>1. torn' \in BOOLEAN
    BY <1>10, Zenon DEF StoreFails
  <2> QED
    BY <1>2, <1>10, <2>1, LoTWEnds, QuietKeepsTable DEF StoreFails
<1>11. CASE upsertHasCert(n)
  <2>1. hasCert' \in BOOLEAN /\ torn' \in BOOLEAN
    BY <1>1, <1>11, Zenon DEF upsertHasCert, Flags
  <2>2. Flags' /\ UNCHANGED <<svc, row, ring, tool>>
    BY <1>1, <1>11, <2>1 DEF upsertHasCert, Flags
  <2> QED
    BY <1>11, <2>2, UpsertHasCertTurns, QuietKeepsTable
<1>12. CASE upsertLotwCredential(n)
  <2>1. RowsOK' /\ torn' \in BOOLEAN
    BY <1>12, UpsertLotwWrites
  <2>2. Flags'
    BY <1>2, <1>12, <2>1 DEF upsertLotwCredential
  <2> QED
    BY <1>12, <2>1, <2>2, LoTWEnds, TurnKeepsTable
<1>13. CASE loadVaultPassword(n)
  BY <1>3, <1>13, LoadVaultPasswordTurns, QuietKeepsTable DEF loadVaultPassword
<1>14. CASE VaultDeletes(n)
  <2>1. Turns(n) /\ cert' \in {cert, NoCert} /\ torn' \in BOOLEAN
    BY <1>1, <1>14, VaultDeletesTurns DEF Flags, VaultDeletes
  <2>2. Flags' /\ UNCHANGED <<svc, row, ring, tool>>
    BY <1>1, <1>14, <2>1, CertTyped DEF VaultDeletes, Flags
  <2> QED
    BY <2>1, <2>2, QuietKeepsTable
<1>15. CASE VaultRotates(n)
  <2>1. Flags' /\ UNCHANGED <<svc, row, ring, tool>>
    BY <1>1, <1>15, CertTyped DEF VaultRotates, Flags
  <2> QED
    BY <1>15, <2>1, LoTWEnds, QuietKeepsTable
<1> QED
  BY <1>4, <1>5, <1>6, <1>7, <1>8, <1>9, <1>10, <1>11, <1>12, <1>13, <1>14, <1>15

LEMMA ReqsStay ==
    ASSUME TableInv, UNCHANGED req, RowsOK', Flags'
    PROVE  TableInv'
BY DEF TableInv, TypeOK, RowsOK, AllGood, Good, At

LEMMA RestartTurns ==
    ASSUME TypeOK, AllGood, Restart
    PROVE  /\ req' \in [Requests -> Reqs]
           /\ \A n \in Requests : req'[n] = IF InFlight(n) THEN Gone ELSE req[n]
           /\ AllGood'
<1>1. /\ req \in [Requests -> Reqs]
      /\ req' = [n \in Requests |-> IF InFlight(n) THEN Gone ELSE req[n]]
  BY DEF TypeOK, Restart
<1>2. req' \in [Requests -> Reqs]
  BY <1>1, Blanks
<1>3. \A n \in Requests : req'[n] = IF InFlight(n) THEN Gone ELSE req[n]
  BY <1>1
<1>4. <<Gone.kind, Gone.pc>> \in Stages
  BY Blanks DEF Stages
<1>5. ASSUME NEW n \in Requests PROVE Good(n)'
  BY <1>3, <1>4, Blanks DEF AllGood, Good, At
<1> QED
  BY <1>2, <1>3, <1>5 DEF AllGood

LEMMA OthersKeepTable ==
    ASSUME TableInv,
           \/ (rotateSelect \/ rotateBatch \/ rotateAborts) /\ UNCHANGED <<cert, hasCert, torn>>
           \/ ServerRestart \/ Expire \/ UNCHANGED vars
    PROVE  TableInv'
<1> USE DEF TableInv
<1>1. Flags /\ ring \in {NewKeyring("old"), NewKeyring("new")}
  BY DEF TypeOK, RowsTyped
<1>2. UNCHANGED <<cert, hasCert, torn, suspect>> => Flags'
  BY <1>1 DEF Flags
<1>3. CASE rotateSelect /\ UNCHANGED <<cert, hasCert, torn>>
  BY <1>2, <1>3, RotateSelects, ReqsStay DEF rotateSelect
<1>4. CASE rotateBatch /\ UNCHANGED <<cert, hasCert, torn>>
  BY <1>2, <1>4, RotateRewraps, ReqsStay DEF rotateBatch
<1>5. CASE rotateAborts /\ UNCHANGED <<cert, hasCert, torn>>
  <2>1. DOMAIN tool'.read = {}
    BY <1>5, IdleReadsNothing DEF rotateAborts
  <2>2. RowsOK'
    BY <1>1, <1>5, <2>1, RowsStay DEF rotateAborts
  <2> QED
    BY <1>2, <1>5, <2>2, ReqsStay DEF rotateAborts
<1>6. CASE ServerRestart
  <2>1. UNCHANGED <<svc, row, tool, cert, hasCert>> /\ ring' \in {NewKeyring("old"), NewKeyring("new")}
    BY <1>1, <1>6 DEF ServerRestart, Restart
  <2>2. RowsOK'
    BY <2>1, RowsStay
  <2>3. suspect' \in BOOLEAN /\ torn' \in BOOLEAN
    BY <1>6, Zenon DEF ServerRestart, Restart
  <2>4. Flags'
    BY <1>1, <2>1, <2>3 DEF Flags
  <2> QED
    BY <1>6, <2>2, <2>4, RestartTurns DEF ServerRestart, RowsOK, TypeOK
<1>7. CASE Expire
  <2>1. UNCHANGED <<svc, row, ring, tool, req, hasCert, torn, suspect>>
    BY <1>7 DEF Expire
  <2>2. Flags'
    BY <1>1, <1>7 DEF Expire, Flags
  <2>3. RowsOK'
    BY <1>1, <2>1, RowsStay
  <2> QED
    BY <2>1, <2>2, <2>3, ReqsStay
<1>8. CASE UNCHANGED vars
  <2>1. UNCHANGED <<svc, row, ring, tool, req, cert, hasCert, torn, suspect>>
    BY <1>8 DEF vars
  <2>2. RowsOK'
    BY <1>1, <2>1, RowsStay
  <2> QED
    BY <1>2, <2>1, <2>2, ReqsStay
<1> QED
  BY <1>3, <1>4, <1>5, <1>6, <1>7, <1>8

LEMMA InitTable == Init => TableInv
<1> SUFFICES ASSUME Init PROVE TableInv
  OBVIOUS
<1>1. Flags
  BY RequestNumbers DEF Init, CredInit, Flags, handleImportCert
<1>2. ASSUME NEW f \in Formats, NEW s
      PROVE  /\ Saved(s, Plain(Earlier, 0, f)) \in CredRows
             /\ Kept(Saved(s, Plain(Earlier, 0, f)).cipher)
  <2>1. PICK p \in Plains : p = Plain(Earlier, 0, f)
    BY RequestNumbers DEF Plain, Plains
  <2>2. PICK c \in Ciphers : c = Encrypt(NewKeyring("old"), p) /\ Kept(c)
    BY NewKeyringEncrypts DEF Ciphers, Kept
  <2> QED
    BY <2>1, <2>2 DEF Saved, CredRows
<1>3. "json" \in Formats /\ "pair" \in Formats
  BY DEF Formats
<1>4. PICK f \in [Services -> Formats] :
        row = [s \in Services |-> IF Storable(s) THEN Saved(s, Plain(Earlier, 0, f[s])) ELSE NoRow]
  <2> DEFINE f == [s \in Services |-> IF s = "lotw" THEN "json" ELSE "pair"]
  <2>1. f \in [Services -> Formats]
    BY <1>3
  <2> QED
    BY <2>1 DEF Init, CredInit
<1>5. \A s \in Services : row[s] \in CredRows \union {NoRow} /\ (row[s] # NoRow => Kept(row[s].cipher))
  BY <1>2, <1>4
<1>6. RowsTyped /\ AllKept
  BY <1>4, <1>5 DEF Init, CredInit, RowsTyped, AllKept
<1>7. CopyCurrent
  BY IdleReadsNothing DEF Init, CredInit, CopyCurrent
<1>8. req \in [Requests -> Reqs] /\ \A n \in Requests : req[n] = NoReq
  BY Blanks DEF Init, CredInit
<1>9. <<NoReq.kind, NoReq.pc>> \in Stages
  BY Blanks DEF Stages
<1>10. AllGood
  BY <1>8, <1>9, Blanks DEF AllGood, Good, At
<1> QED
  BY <1>1, <1>6, <1>7, <1>8, <1>10 DEF TableInv, TypeOK

LEMMA NextTable == TableInv /\ [Next]_vars => TableInv'
<1> SUFFICES ASSUME TableInv, [Next]_vars PROVE TableInv'
  OBVIOUS
<1> QED
  BY CredKeepsTable, LoTWKeepsTable, OthersKeepTable DEF Next, CredNext, CredStep

LEMMA TableHolds == Spec => []TableInv
BY InitTable, NextTable, PTL DEF Spec

-----------------------------------------------------------------------------
(* The table implements the store of secrets.                              *)

OpenPcs == {"verify", "upsert", "check", "delete", "vault", "load", "hascert", "store", "erase"}

LEMMA SecretIs ==
    ASSUME TableInv
    PROVE  Secret = [s \in Linked \union {"lotw"} |->
                        IF s \notin Services \/ row[s] = NoRow THEN None
                        ELSE row[s].cipher.plain]
BY DEF Secret, TableInv, AllKept

LEMMA SecretTyped ==
    ASSUME TableInv
    PROVE  Secret \in [Linked \union {"lotw"} -> Plains \union {None}]
BY SecretIs, RowTyped DEF TableInv

LEMMA SecretStays ==
    ASSUME TableInv, TableInv', UNCHANGED svc,
           \A s \in Services : /\ row'[s] = NoRow <=> row[s] = NoRow
                               /\ row[s] # NoRow => row'[s].cipher.plain = row[s].cipher.plain
    PROVE  UNCHANGED Secret
<1>1. Services' = Services
  BY DEF Services
<1>2. Secret' = [s \in Linked \union {"lotw"} |->
                   IF s \notin Services \/ row'[s] = NoRow THEN None ELSE row'[s].cipher.plain]
  BY <1>1 DEF Secret, TableInv, AllKept
<1>3. \A s \in Services :
          (IF row'[s] = NoRow THEN None ELSE row'[s].cipher.plain)
              = (IF row[s] = NoRow THEN None ELSE row[s].cipher.plain)
  OBVIOUS
<1>4. Secret' = [s \in Linked \union {"lotw"} |->
                   IF s \notin Services \/ row[s] = NoRow THEN None ELSE row[s].cipher.plain]
  BY <1>2, <1>3
<1> QED
  BY <1>4, SecretIs

LEMMA SecretWritten ==
    ASSUME TableInv, TableInv', UNCHANGED svc, NEW s \in Services, NEW v,
           \A z \in Services \ {s} : row'[z] = row[z],
           IF row'[s] = NoRow THEN v = None ELSE row'[s].cipher.plain = v
    PROVE  Secret' = [Secret EXCEPT ![s] = v]
<1>1. Services' = Services /\ Services \subseteq Linked \union {"lotw"}
  BY DEF Services, TableInv, TypeOK, RowsTyped
<1>2. Secret' = [z \in Linked \union {"lotw"} |->
                   IF z \notin Services \/ row'[z] = NoRow THEN None ELSE row'[z].cipher.plain]
  BY <1>1 DEF Secret, TableInv, AllKept
<1>3. Secret = [z \in Linked \union {"lotw"} |->
                  IF z \notin Services \/ row[z] = NoRow THEN None ELSE row[z].cipher.plain]
  BY SecretIs
<1>4. (IF s \notin Services \/ row'[s] = NoRow THEN None ELSE row'[s].cipher.plain) = v
  OBVIOUS
<1>5. \A z \in (Linked \union {"lotw"}) \ {s} :
          (IF z \notin Services \/ row'[z] = NoRow THEN None ELSE row'[z].cipher.plain) = Secret[z]
  BY <1>3
<1>6. DOMAIN Secret = Linked \union {"lotw"}
  BY <1>3
<1>7. Secret' = [z \in DOMAIN Secret |-> IF z = s THEN v ELSE Secret[z]]
  BY <1>2, <1>4, <1>5, <1>6
<1> QED
  BY <1>7

LEMMA AskMaps ==
    ASSUME TableInv, TableInv', NEW n \in Requests, Turns(n), UNCHANGED <<svc, row>>,
           req[n].pc = "idle", req'[n].pc # "idle"
    PROVE  Abstract!Ask(n)
<1>1. UNCHANGED Secret
  BY SecretStays
<1>2. \A m \in Requests \ {n} : req'[m].pc = req[m].pc
  BY DEF Turns, Same
<1>3. n \notin Asked /\ Asked' = Asked \union {n}
  BY <1>2 DEF Asked
<1>4. Open' = Open \/ Open' = Open \union {n}
  BY <1>2 DEF Open
<1> QED
  BY <1>1, <1>3, <1>4 DEF Abstract!Ask

LEMMA AskedStays ==
    ASSUME NEW n \in Requests, Turns(n), req[n].pc # "idle", req'[n].pc # "idle"
    PROVE  UNCHANGED Asked
<1>1. \A m \in Requests \ {n} : req'[m].pc = req[m].pc
  BY DEF Turns, Same
<1> QED
  BY <1>1 DEF Asked

LEMMA OpenCloses ==
    ASSUME NEW n \in Requests, Turns(n), req'[n].pc \notin OpenPcs
    PROVE  Open' = Open \ {n}
<1>1. \A m \in Requests \ {n} : req'[m].pc = req[m].pc
  BY DEF Turns, Same
<1> QED
  BY <1>1 DEF Open, OpenPcs

LEMMA GiveUpMaps ==
    ASSUME TableInv, TableInv', NEW n \in Requests, Turns(n), UNCHANGED Secret,
           req[n].pc # "idle", req'[n].pc # "idle",
           req'[n].pc \in OpenPcs => req[n].pc \in OpenPcs
    PROVE  Abstract!GiveUp
<1>1. \A m \in Requests \ {n} : req'[m].pc = req[m].pc
  BY DEF Turns, Same
<1>2. Open' \subseteq Open
  BY <1>1 DEF Open, OpenPcs
<1> QED
  BY <1>2, AskedStays DEF Abstract!GiveUp

LEMMA CommitMaps ==
    ASSUME TableInv, TableInv', NEW n \in Requests, Turns(n), UNCHANGED svc, NEW s \in Services,
           NEW v \in Plains, v.pw = n \/ v.web = n,
           \A z \in Services \ {s} : row'[z] = row[z],
           row'[s] # NoRow, row'[s].cipher.plain = v,
           req[n].pc \in OpenPcs, req'[n].pc \notin OpenPcs, req'[n].pc # "idle"
    PROVE  Abstract!Commit(n, s)
<1>1. Secret' = [Secret EXCEPT ![s] = v]
  BY SecretWritten
<1>2. n \in Open /\ Open' = Open \ {n}
  BY OpenCloses DEF Open, OpenPcs
<1>3. UNCHANGED Asked
  BY AskedStays DEF OpenPcs
<1> QED
  BY <1>1, <1>2, <1>3 DEF Abstract!Commit, Abstract!Brings

LEMMA DeleteMaps ==
    ASSUME TableInv, TableInv', NEW n \in Requests, DeleteRow(n)
    PROVE  Abstract!Delete(n, svc)
<1>1. Turns(n) /\ req'[n].pc = "done" /\ req[n].pc = "delete" /\ UNCHANGED svc
  BY StageMoves, Blanks DEF TableInv, DeleteRow, At
<1>2. row'[svc] = NoRow /\ \A z \in Services \ {svc} : row'[z] = row[z]
  BY DeleteWrites, ServicesAre DEF DeleteRow
<1>3. Secret' = [Secret EXCEPT ![svc] = None]
  BY <1>1, <1>2, SecretWritten, ServicesAre
<1>4. n \in Open /\ Open' = Open \ {n}
  BY <1>1, OpenCloses DEF Open, OpenPcs
<1>5. UNCHANGED Asked
  BY <1>1, AskedStays
<1> QED
  BY <1>3, <1>4, <1>5 DEF Abstract!Delete

LEMMA TouchesKeepsSecret ==
    ASSUME TableInv, TableInv', UNCHANGED svc, NEW s \in Services, Touches(s)
    PROVE  UNCHANGED Secret
<1>1. \A z \in Services : /\ row'[z] = NoRow <=> row[z] = NoRow
                          /\ row[z] # NoRow => row'[z].cipher.plain = row[z].cipher.plain
  BY DEF Touches
<1> QED
  BY <1>1, SecretStays

LEMMA RowKeepsSecret ==
    ASSUME TableInv, TableInv', UNCHANGED <<svc, row>>
    PROVE  UNCHANGED Secret
BY SecretStays

LEMMA CredMaps ==
    ASSUME TableInv, TableInv', NEW n \in Requests,
           \/ StoreAndVerify(n) \/ SaveVerifies(n) \/ SaveUpserts(n)
           \/ SaveFails(n) \/ SaveStamps(n) \/ StampFails(n)
           \/ ReVerify(n) \/ ReVerifyChecks(n) \/ ReVerifyStamps(n)
           \/ Delete(n) \/ DeleteRow(n)
    PROVE  Abstract!Next
<1>1. TypeOK /\ AllGood /\ Gone.pc = "done" /\ svc \in Linked \union {"lotw"}
  BY Blanks DEF TableInv, TypeOK, RowsTyped
<1>2. CASE StoreAndVerify(n)
  <2>1. Turns(n) /\ req'[n].pc # "idle" /\ req[n].pc = "idle" /\ UNCHANGED <<svc, row>>
    BY <1>1, <1>2, StoreAndVerifyTurns DEF StoreAndVerify, CanBegin
  <2> QED
    BY <2>1, AskMaps DEF Abstract!Next
<1>3. CASE ReVerify(n)
  <2>1. Turns(n) /\ req'[n].pc # "idle" /\ req[n].pc = "idle" /\ UNCHANGED <<svc, row>>
    BY <1>1, <1>3, ReVerifyTurns DEF ReVerify, CanBegin
  <2> QED
    BY <2>1, AskMaps DEF Abstract!Next
<1>4. CASE Delete(n)
  <2>1. Turns(n) /\ req'[n].pc # "idle" /\ req[n].pc = "idle" /\ UNCHANGED <<svc, row>>
    BY <1>1, <1>4, DeleteTurns DEF Delete, CanBegin
  <2> QED
    BY <2>1, AskMaps DEF Abstract!Next
<1>5. CASE SaveUpserts(n)
  <2>1. /\ Turns(n) /\ req'[n].pc = "stamp" /\ req[n].pc = "upsert" /\ req[n].kind = "put"
        /\ UNCHANGED <<svc, ring, tool>> /\ ~Locked(svc)
    BY <1>1, <1>5, StageMoves DEF SaveUpserts, At
  <2>2. req[n].plain \in Plains /\ req[n].plain.pw = n
    BY <1>1, <2>1, PlainTyped DEF AllGood, Good
  <2>3. /\ \A z \in Services \ {svc} : row'[z] = row[z]
        /\ row'[svc] # NoRow /\ row'[svc].cipher.plain = req[n].plain
    BY <1>5, <2>1, <2>2, UpsertWrites, ServicesAre DEF SaveUpserts
  <2>4. Abstract!Commit(n, svc)
    BY <2>1, <2>2, <2>3, CommitMaps, ServicesAre DEF OpenPcs
  <2> QED
    BY <1>1, <2>4 DEF Abstract!Next
<1>6. CASE SaveStamps(n)
  <2>1. /\ Turns(n) /\ req'[n].pc = "done" /\ req[n].pc = "stamp" /\ UNCHANGED svc
    BY <1>1, <1>6, StageMoves DEF SaveStamps, At
  <2>2. UNCHANGED Secret
    BY <1>6, <2>1, SaveStampsWrites, TouchesKeepsSecret, ServicesAre
  <2> QED
    BY <2>1, <2>2, GiveUpMaps DEF Abstract!Next, OpenPcs
<1>7. CASE ReVerifyStamps(n)
  <2>1. /\ Turns(n) /\ req'[n].pc = "done" /\ req[n].pc = "stamp" /\ UNCHANGED svc
    BY <1>1, <1>7, StageMoves DEF ReVerifyStamps, At
  <2>2. UNCHANGED Secret
    BY <1>7, <2>1, ReVerifyStampsWrites, TouchesKeepsSecret, ServicesAre
  <2> QED
    BY <2>1, <2>2, GiveUpMaps DEF Abstract!Next, OpenPcs
<1>8. CASE SaveVerifies(n)
  <2>1. /\ Turns(n) /\ req'[n].pc = "upsert" /\ req[n].pc = "verify" /\ UNCHANGED <<svc, row>>
    BY <1>1, <1>8, SaveVerifiesTurns DEF SaveVerifies, At
  <2> QED
    BY <2>1, RowKeepsSecret, GiveUpMaps DEF Abstract!Next, OpenPcs
<1>9. CASE SaveFails(n) \/ StampFails(n)
  <2>1. /\ Turns(n) /\ req'[n].pc = "done" /\ req[n].pc # "idle" /\ UNCHANGED <<svc, row>>
    BY <1>1, <1>9, StageMoves DEF SaveFails, StampFails, At
  <2> QED
    BY <2>1, RowKeepsSecret, GiveUpMaps DEF Abstract!Next, OpenPcs
<1>10. CASE ReVerifyChecks(n)
  <2>1. /\ Turns(n) /\ req'[n].pc \in {"done", "stamp"} /\ req[n].pc # "idle" /\ UNCHANGED <<svc, row>>
    BY <1>1, <1>10, StageMoves DEF ReVerifyChecks, At
  <2> QED
    BY <2>1, RowKeepsSecret, GiveUpMaps DEF Abstract!Next, OpenPcs
<1>11. CASE DeleteRow(n)
  BY <1>1, <1>11, DeleteMaps DEF Abstract!Next
<1> QED
  BY <1>2, <1>3, <1>4, <1>5, <1>6, <1>7, <1>8, <1>9, <1>10, <1>11

LEMMA LoTWMaps ==
    ASSUME TableInv, TableInv', NEW n \in Requests,
           \/ ImportCert(n) \/ DeleteCert(n) \/ UpdateSettings(n) \/ RotatePassword(n)
           \/ VaultImports(n) \/ ImportRefused(n) \/ storeVaultPassword(n)
           \/ storeWebPassword(n) \/ storeLoTWPasswords(n) \/ StoreFails(n)
           \/ upsertHasCert(n) \/ upsertLotwCredential(n) \/ loadVaultPassword(n)
           \/ VaultDeletes(n) \/ VaultRotates(n)
    PROVE  Abstract!Next
<1>1. TypeOK /\ AllGood /\ Gone.pc = "done"
  BY Blanks DEF TableInv
<1>2. CASE ImportCert(n) \/ DeleteCert(n) \/ UpdateSettings(n) \/ RotatePassword(n)
  <2>1. PICK kind \in LoTWKinds, pc \in {"vault", "load", "hascert"} :
            Begins(n, kind, pc) /\ Turns(n) /\ req'[n].pc = pc
    BY <1>1, <1>2, ArrivalTurns
  <2>2. req[n].pc = "idle" /\ req'[n].pc # "idle" /\ UNCHANGED <<svc, row>>
    BY <2>1 DEF Begins, CanBegin
  <2> QED
    BY <2>1, <2>2, AskMaps DEF Abstract!Next
<1>3. CASE storeLoTWPasswords(n)
  <2>1. /\ Turns(n) /\ req'[n].pc \in {"flag", "done"} /\ req[n].pc = "store"
        /\ UNCHANGED <<svc, ring, tool>> /\ ~Locked("lotw")
    BY <1>1, <1>3, StoreLoTWPasswordsTurns DEF storeLoTWPasswords, Moves
  <2>2. req[n].plain \in Plains /\ (req[n].plain.pw = n \/ req[n].plain.web = n)
    BY <1>1, <2>1, PlainTyped, StoreStage DEF AllGood, Good, At
  <2>3. /\ \A z \in Services \ {"lotw"} : row'[z] = row[z]
        /\ row'["lotw"] # NoRow /\ row'["lotw"].cipher.plain = req[n].plain
    BY <1>3, <2>1, <2>2, UpsertWrites, ServicesAre DEF storeLoTWPasswords
  <2>4. Abstract!Commit(n, "lotw")
    BY <2>1, <2>2, <2>3, CommitMaps, ServicesAre DEF OpenPcs
  <2> QED
    BY <2>4 DEF Abstract!Next
<1>4. CASE upsertLotwCredential(n)
  <2>1. /\ Turns(n) /\ req'[n].pc = "done" /\ req[n].pc = "active" /\ UNCHANGED svc
    BY <1>1, <1>4, LoTWEnds DEF upsertLotwCredential, At
  <2>2. UNCHANGED Secret
    BY <1>4, <2>1, UpsertLotwWrites, TouchesKeepsSecret, ServicesAre
  <2> QED
    BY <2>1, <2>2, GiveUpMaps DEF Abstract!Next, OpenPcs
<1>5. CASE VaultImports(n)
  <2>1. /\ Turns(n) /\ req'[n].pc \in {"done", "load"} /\ req[n].pc = "vault" /\ UNCHANGED <<svc, row>>
    BY <1>1, <1>5, VaultImportsTurns DEF VaultImports, At, Moves
  <2> QED
    BY <2>1, RowKeepsSecret, GiveUpMaps DEF Abstract!Next, OpenPcs
<1>6. CASE ImportRefused(n) \/ StoreFails(n) \/ VaultRotates(n)
  <2>1. /\ Turns(n) /\ req'[n].pc = "done" /\ req[n].pc # "idle" /\ UNCHANGED <<svc, row>>
    BY <1>1, <1>6, LoTWEnds DEF ImportRefused, StoreFails, VaultRotates, At
  <2> QED
    BY <2>1, RowKeepsSecret, GiveUpMaps DEF Abstract!Next, OpenPcs
<1>7. CASE storeVaultPassword(n)
  <2>1. /\ Turns(n) /\ req'[n].pc \in {"done", "store"} /\ req[n].pc = "load" /\ UNCHANGED <<svc, row>>
    BY <1>1, <1>7, StoreVaultPasswordTurns DEF storeVaultPassword, At
  <2> QED
    BY <2>1, RowKeepsSecret, GiveUpMaps DEF Abstract!Next, OpenPcs
<1>8. CASE storeWebPassword(n)
  <2>1. /\ Turns(n) /\ req'[n].pc \in {"done", "load", "store"} /\ req[n].pc \in {"hascert", "load"}
        /\ UNCHANGED <<svc, row>>
    BY <1>1, <1>8, StoreWebPasswordTurns DEF storeWebPassword
  <2> QED
    BY <2>1, RowKeepsSecret, GiveUpMaps DEF Abstract!Next, OpenPcs
<1>9. CASE upsertHasCert(n)
  <2>1. /\ Turns(n) /\ req'[n].pc = "active" /\ req[n].pc = "flag" /\ UNCHANGED <<svc, row>>
    BY <1>1, <1>9, UpsertHasCertTurns DEF upsertHasCert, At
  <2> QED
    BY <2>1, RowKeepsSecret, GiveUpMaps DEF Abstract!Next, OpenPcs
<1>10. CASE loadVaultPassword(n)
  <2>1. /\ Turns(n) /\ req'[n].pc \in {"done", "vault"} /\ req[n].pc = "load" /\ UNCHANGED <<svc, row>>
    BY <1>1, <1>10, LoadVaultPasswordTurns DEF loadVaultPassword, At
  <2> QED
    BY <2>1, RowKeepsSecret, GiveUpMaps DEF Abstract!Next, OpenPcs
<1>11. CASE VaultDeletes(n)
  <2>1. /\ Turns(n) /\ req'[n].pc \in {"done", "erase", "flag"} /\ req[n].pc \in {"vault", "erase"}
        /\ UNCHANGED <<svc, row>>
    BY <1>1, <1>11, VaultDeletesTurns DEF VaultDeletes, At, Moves
  <2> QED
    BY <2>1, RowKeepsSecret, GiveUpMaps DEF Abstract!Next, OpenPcs
<1> QED
  BY <1>2, <1>3, <1>4, <1>5, <1>6, <1>7, <1>8, <1>9, <1>10, <1>11

LEMMA OthersMap ==
    ASSUME TableInv, TableInv',
           rotateSelect \/ rotateBatch \/ rotateAborts \/ ServerRestart \/ Expire
    PROVE  Abstract!Next
<1>1. UNCHANGED svc
  BY DEF rotateSelect, rotateBatch, rotateAborts, ServerRestart, Restart, Expire
<1>2. UNCHANGED Secret
  <2>1. CASE rotateBatch
    BY <1>1, <2>1, RotateRewraps, SecretStays DEF Rewraps
  <2>2. CASE ~rotateBatch
    <3>1. UNCHANGED row
      BY <2>2 DEF rotateSelect, rotateAborts, ServerRestart, Restart, Expire
    <3> QED
      BY <1>1, <3>1, RowKeepsSecret
  <2> QED
    BY <2>1, <2>2
<1>3. UNCHANGED Asked /\ Open' \subseteq Open
  <2>1. CASE ServerRestart
    <3>1. \A n \in Requests : req'[n] = IF InFlight(n) THEN Gone ELSE req[n]
      BY <2>1, RestartTurns DEF TableInv, ServerRestart
    <3> QED
      BY <3>1, Blanks DEF Asked, Open, InFlight
  <2>2. CASE ~ServerRestart
    <3>1. UNCHANGED req
      BY <2>2 DEF rotateSelect, rotateBatch, rotateAborts, Expire
    <3> QED
      BY <3>1 DEF Asked, Open
  <2> QED
    BY <2>1, <2>2
<1> QED
  BY <1>2, <1>3 DEF Abstract!Next, Abstract!GiveUp

\* ImplementsStore: however many requests, restarts and batches of the
\* rotation tool interleave, the rows change as the plain store of secrets
\* allows: each save once, with what it brought, and never a re-encryption.
THEOREM StoreImplemented == Spec => ImplementsStore
<1>1. Init => Abstract!Init
  <2> SUFFICES ASSUME Init PROVE Abstract!Init
    OBVIOUS
  <2>1. Secret \in [Linked \union {"lotw"} -> Plains \union {None}]
    BY InitTable, SecretTyped
  <2>2. \A n \in Requests : req[n].pc = "idle"
    BY Blanks DEF Init, CredInit
  <2>3. Asked = {} /\ Open = {}
    BY <2>2 DEF Asked, Open
  <2> QED
    BY <2>1, <2>3 DEF Abstract!Init
<1>2. TableInv /\ TableInv' /\ [Next]_vars => [Abstract!Next]_<<Secret, Asked, Open>>
  <2> SUFFICES ASSUME TableInv, TableInv', [Next]_vars
               PROVE  Abstract!Next \/ UNCHANGED <<Secret, Asked, Open>>
    OBVIOUS
  <2>1. CASE UNCHANGED vars
    <3>1. UNCHANGED <<svc, row, req>>
      BY <2>1 DEF vars
    <3> QED
      BY <3>1, RowKeepsSecret DEF Asked, Open
  <2>2. CASE Next
    BY <2>2, CredMaps, LoTWMaps, OthersMap DEF Next, CredNext, CredStep
  <2> QED
    BY <2>1, <2>2
<1> QED
  BY <1>1, <1>2, TableHolds, PTL DEF Spec, ImplementsStore, Abstract!Spec

-----------------------------------------------------------------------------
(* A row shown as verified was verified.                                   *)

\* The linked service's row keeps its secret and its stamp.
SvcStays ==
    /\ UNCHANGED svc
    /\ row'[svc] = NoRow <=> row[svc] = NoRow
    /\ row[svc] # NoRow => /\ row'[svc].cipher.plain = row[svc].cipher.plain
                           /\ row'[svc].stamp = row[svc].stamp

LEMMA QuietKeepsStamp ==
    ASSUME TableInv, StampInv, NEW n \in Requests, Turns(n), SvcStays, UNCHANGED suspect,
           vouched \subseteq vouched', ~At(n, {"put"}, "stamp"), ~At(n, {"put"}, "stamp")',
           At(n, {"put"}, "upsert")' => (req'[n].ok /\ Tested => n \in vouched'),
           At(n, {"reverify"}, "stamp")' => req'[n].plain.pw \in vouched',
           req'[n].kind = "reverify"
                => \/ req[n].kind = "reverify" /\ req'[n].plain = req[n].plain
                   \/ req'[n].plain = row[svc].cipher.plain
    PROVE  StampInv'
<1>1. \A m \in Requests \ {n} : Same(m)
  BY DEF Turns
<1>2. SavesVouched'
  BY <1>1 DEF StampInv, SvcStays, Tested, SavesVouched, At, Same
<1>3. ChecksVouched'
  BY <1>1 DEF StampInv, ChecksVouched, At, Same
<1>4. StampersSee'
  <2> SUFFICES ASSUME ~suspect, NEW m \in Requests
               PROVE  /\ At(m, {"put"}, "stamp")' => Holds(svc, m)'
                      /\ req'[m].kind = "reverify" => Holds(svc, req[m].plain.pw)'
    BY DEF StampersSee
  <2>1. CASE m = n
    BY <2>1 DEF StampInv, StampersSee, SvcStays, Holds, At
  <2>2. CASE m # n
    BY <1>1, <2>2 DEF StampInv, StampersSee, SvcStays, Holds, At, Same
  <2> QED
    BY <2>1, <2>2
<1>5. StampedVouched'
  <2>1. (\E m \in Requests : At(m, {"put"}, "stamp"))
            => (\E m \in Requests : At(m, {"put"}, "stamp")')
    BY <1>1 DEF At, Same
  <2> QED
    BY <2>1 DEF StampInv, Tested, StampedVouched, SvcStays
<1> QED
  BY <1>2, <1>3, <1>4, <1>5 DEF StampInv

LEMMA RowIsSvcStays ==
    ASSUME UNCHANGED <<svc, row>>
    PROVE  SvcStays
BY DEF SvcStays

LEMMA SaveUpsertsKeepsStamp ==
    ASSUME TableInv, StampInv, NEW n \in Requests, SaveUpserts(n)
    PROVE  StampInv'
<1>1. /\ Turns(n) /\ OthersStay(n) /\ req'[n].kind = "put" /\ req'[n].pc = "stamp"
      /\ req'[n].ok = req[n].ok
  BY StageMoves DEF TableInv
<1>2. /\ At(n, {"put"}, "upsert") /\ ~Locked(svc) /\ UNCHANGED <<svc, ring, tool, vouched>>
      /\ suspect' = Contended(n)
  BY DEF SaveUpserts
<1>3. req[n].plain \in Plains /\ req[n].plain.pw = n
  BY <1>2, PlainTyped DEF TableInv, AllGood, Good, At
<1>4. row'[svc].cipher.plain = req[n].plain
  BY <1>2, <1>3, UpsertWrites, ServicesAre DEF SaveUpserts
<1>5. SavesVouched'
  BY <1>1, <1>2 DEF StampInv, Tested, SavesVouched, At, OthersStay
<1>6. ChecksVouched'
  BY <1>1, <1>2 DEF StampInv, ChecksVouched, At, OthersStay
<1>7. StampersSee'
  <2> SUFFICES ASSUME ~Contended(n), NEW m \in Requests
               PROVE  /\ At(m, {"put"}, "stamp")' => Holds(svc, m)'
                      /\ req'[m].kind = "reverify" => Holds(svc, req[m].plain.pw)'
    BY <1>2 DEF StampersSee
  <2>1. CASE m = n
    BY <1>1, <1>2, <1>3, <1>4, <2>1 DEF Holds
  <2>2. CASE m # n
    <3>1. req'[m] = req[m] /\ <<req[m].kind, req[m].pc>> \in Stages
      BY <1>1, <2>2 DEF OthersStay, TableInv, AllGood, Good
    <3>2. req[m].kind = "reverify" => req[m].pc \in {"check", "stamp"}
      BY <3>1 DEF Stages
    <3> QED
      BY <2>2, <3>1, <3>2 DEF Contended, At
  <2> QED
    BY <2>1, <2>2
<1>8. StampedVouched'
  BY <1>1 DEF StampedVouched, At
<1> QED
  BY <1>5, <1>6, <1>7, <1>8 DEF StampInv

LEMMA SaveStampsKeepsStamp ==
    ASSUME TableInv, StampInv, NEW n \in Requests, SaveStamps(n)
    PROVE  StampInv'
<1>1. Turns(n) /\ OthersStay(n) /\ req'[n] = Gone
  BY StageMoves DEF TableInv
<1>2. At(n, {"put"}, "stamp") /\ UNCHANGED <<svc, vouched, suspect>>
  BY DEF SaveStamps
<1>3. Touches(svc) /\ (row[svc] # NoRow => row'[svc].stamp = req[n].ok)
  BY SaveStampsWrites
<1>4. SavesVouched'
  BY <1>1, <1>2, Blanks DEF StampInv, Tested, SavesVouched, At, OthersStay
<1>5. ChecksVouched'
  BY <1>1, <1>2, Blanks DEF StampInv, ChecksVouched, At, OthersStay
<1>6. StampersSee'
  BY <1>1, <1>2, <1>3, Blanks DEF StampInv, StampersSee, At, OthersStay, Holds, Touches
<1>7. StampedVouched'
  <2> SUFFICES ASSUME ~suspect, Tested, row'[svc] # NoRow, row'[svc].stamp
               PROVE  row'[svc].cipher.plain.pw \in vouched
    BY <1>2 DEF StampedVouched, Tested
  <2>1. row[svc] # NoRow /\ req[n].ok /\ row'[svc].cipher = row[svc].cipher
    BY <1>2, <1>3 DEF Touches
  <2>2. row[svc].cipher.plain.pw = n
    BY <1>2, <2>1 DEF StampInv, StampersSee, Holds
  <2>3. n \in vouched
    BY <1>2, <2>1 DEF StampInv, SavesVouched
  <2> QED
    BY <2>1, <2>2, <2>3
<1> QED
  BY <1>4, <1>5, <1>6, <1>7 DEF StampInv

LEMMA ReVerifyStampsKeepsStamp ==
    ASSUME TableInv, StampInv, NEW n \in Requests, ReVerifyStamps(n)
    PROVE  StampInv'
<1>1. Turns(n) /\ OthersStay(n) /\ req'[n] = Gone
  BY StageMoves DEF TableInv
<1>2. At(n, {"reverify"}, "stamp") /\ UNCHANGED <<svc, vouched, suspect>>
  BY DEF ReVerifyStamps
<1>3. Touches(svc)
  BY ReVerifyStampsWrites
<1>4. SavesVouched'
  BY <1>1, <1>2, Blanks DEF StampInv, Tested, SavesVouched, At, OthersStay
<1>5. ChecksVouched'
  BY <1>1, <1>2, Blanks DEF StampInv, ChecksVouched, At, OthersStay
<1>6. StampersSee'
  BY <1>1, <1>2, <1>3, Blanks DEF StampInv, StampersSee, At, OthersStay, Holds, Touches
<1>7. StampedVouched'
  <2> SUFFICES ASSUME ~suspect, row'[svc] # NoRow
               PROVE  row'[svc].cipher.plain.pw \in vouched
    BY <1>2 DEF StampedVouched
  <2>1. row[svc] # NoRow /\ row'[svc].cipher = row[svc].cipher
    BY <1>2, <1>3 DEF Touches
  <2>2. row[svc].cipher.plain.pw = req[n].plain.pw
    BY <1>2, <2>1 DEF StampInv, StampersSee, Holds, At
  <2>3. req[n].plain.pw \in vouched
    BY <1>2 DEF StampInv, ChecksVouched
  <2> QED
    BY <2>1, <2>2, <2>3
<1> QED
  BY <1>4, <1>5, <1>6, <1>7 DEF StampInv

LEMMA CredKeepsStamp ==
    ASSUME TableInv, StampInv, NEW n \in Requests,
           \/ StoreAndVerify(n) \/ SaveVerifies(n) \/ SaveUpserts(n)
           \/ SaveFails(n) \/ SaveStamps(n) \/ StampFails(n)
           \/ ReVerify(n) \/ ReVerifyChecks(n) \/ ReVerifyStamps(n)
           \/ Delete(n) \/ DeleteRow(n)
    PROVE  StampInv'
<1>1. TypeOK /\ AllGood /\ Gone.kind = "none"
  BY Blanks DEF TableInv
<1>2. CASE StoreAndVerify(n)
  <2>1. /\ Turns(n) /\ (req'[n].kind = "none" \/ (req'[n].kind = "put" /\ req'[n].pc = "verify"))
        /\ req[n].pc = "idle" /\ SvcStays /\ UNCHANGED <<suspect, vouched>>
    BY <1>1, <1>2, StoreAndVerifyTurns, RowIsSvcStays DEF StoreAndVerify, CanBegin
  <2> QED
    BY <2>1, QuietKeepsStamp DEF At
<1>3. CASE SaveVerifies(n)
  <2>1. /\ Turns(n) /\ req'[n].kind = "put" /\ req'[n].pc = "upsert" /\ req[n].pc = "verify"
        /\ (req'[n].ok /\ Tested => n \in vouched') /\ vouched \subseteq vouched'
        /\ SvcStays /\ UNCHANGED suspect
    BY <1>1, <1>3, SaveVerifiesTurns, RowIsSvcStays DEF SaveVerifies, At
  <2> QED
    BY <2>1, QuietKeepsStamp DEF At
<1>4. CASE SaveUpserts(n)
  BY <1>4, SaveUpsertsKeepsStamp
<1>5. CASE SaveFails(n)
  <2>1. Turns(n) /\ req'[n].kind = "none" /\ req[n].pc = "upsert" /\ SvcStays /\ UNCHANGED <<suspect, vouched>>
    BY <1>1, <1>5, StageMoves, RowIsSvcStays DEF SaveFails, At
  <2> QED
    BY <2>1, QuietKeepsStamp DEF At
<1>6. CASE SaveStamps(n)
  BY <1>6, SaveStampsKeepsStamp
<1>7. CASE StampFails(n)
  <2>1. Turns(n) /\ OthersStay(n) /\ req'[n] = Gone /\ suspect' /\ UNCHANGED <<svc, vouched>>
    BY <1>1, <1>7, StageMoves DEF StampFails
  <2>2. SavesVouched' /\ ChecksVouched'
    BY <1>1, <2>1 DEF StampInv, Tested, SavesVouched, ChecksVouched, At, OthersStay
  <2> QED
    BY <2>1, <2>2 DEF StampInv, StampersSee, StampedVouched
<1>8. CASE ReVerify(n)
  <2>1. /\ Turns(n) /\ req[n].pc = "idle" /\ SvcStays /\ UNCHANGED <<suspect, vouched>>
        /\ \/ req'[n].kind = "none"
           \/ /\ req'[n].kind = "reverify" /\ req'[n].pc = "check"
              /\ req'[n].plain = row[svc].cipher.plain
    BY <1>1, <1>8, ReVerifyTurns, RowIsSvcStays DEF ReVerify, CanBegin
  <2> QED
    BY <2>1, QuietKeepsStamp DEF At
<1>9. CASE ReVerifyChecks(n)
  <2>1. /\ Turns(n) /\ At(n, {"reverify"}, "check") /\ SvcStays /\ UNCHANGED suspect
        /\ \/ req'[n].kind = "none" /\ vouched' = vouched
           \/ /\ req'[n].kind = "reverify" /\ req'[n].pc = "stamp"
              /\ req'[n].plain = req[n].plain /\ vouched' = vouched \union {req[n].plain.pw}
    BY <1>1, <1>9, StageMoves, RowIsSvcStays DEF ReVerifyChecks
  <2> QED
    BY <2>1, QuietKeepsStamp DEF At
<1>10. CASE ReVerifyStamps(n)
  BY <1>10, ReVerifyStampsKeepsStamp
<1>11. CASE Delete(n)
  <2>1. /\ Turns(n) /\ req'[n].kind = "delete" /\ req[n].pc = "idle" /\ SvcStays
        /\ UNCHANGED <<suspect, vouched>>
    BY <1>1, <1>11, DeleteTurns, RowIsSvcStays DEF Delete, CanBegin
  <2> QED
    BY <2>1, QuietKeepsStamp DEF At
<1>12. CASE DeleteRow(n)
  <2>1. Turns(n) /\ OthersStay(n) /\ req'[n] = Gone /\ UNCHANGED <<svc, suspect, vouched>>
    BY <1>1, <1>12, StageMoves DEF DeleteRow
  <2>2. row'[svc] = NoRow
    BY <1>12, DeleteWrites, ServicesAre DEF DeleteRow
  <2>3. SavesVouched' /\ ChecksVouched'
    BY <1>1, <2>1 DEF StampInv, Tested, SavesVouched, ChecksVouched, At, OthersStay
  <2>4. StampersSee' /\ StampedVouched'
    BY <2>1, <2>2 DEF StampersSee, StampedVouched, Holds
  <2> QED
    BY <2>3, <2>4 DEF StampInv
<1> QED
  BY <1>2, <1>3, <1>4, <1>5, <1>6, <1>7, <1>8, <1>9, <1>10, <1>11, <1>12

\* A request about LoTW writes no row but LoTW's.
LEMMA LoTWLeavesSvc ==
    ASSUME TableInv, UNCHANGED svc, \A z \in Services \ {"lotw"} : row'[z] = row[z]
    PROVE  SvcStays
<1>1. svc # "lotw" /\ svc \in Services
  BY LoTWIsApart, ServicesAre DEF TableInv, TypeOK, RowsTyped
<1> QED
  BY <1>1 DEF SvcStays

LEMMA LoTWKeepsStamp ==
    ASSUME TableInv, StampInv, NEW n \in Requests,
           \/ ImportCert(n) \/ DeleteCert(n) \/ UpdateSettings(n) \/ RotatePassword(n)
           \/ VaultImports(n) \/ ImportRefused(n) \/ storeVaultPassword(n)
           \/ storeWebPassword(n) \/ storeLoTWPasswords(n) \/ StoreFails(n)
           \/ upsertHasCert(n) \/ upsertLotwCredential(n) \/ loadVaultPassword(n)
           \/ VaultDeletes(n) \/ VaultRotates(n)
    PROVE  StampInv'
<1>1. TypeOK /\ AllGood /\ Gone.kind = "none"
  BY Blanks DEF TableInv
<1> DEFINE Quiet == /\ Turns(n) /\ SvcStays /\ UNCHANGED <<suspect, vouched>>
                    /\ req[n].kind # "put" \/ req[n].pc = "idle"
                    /\ req'[n].kind \in LoTWKinds \union {"none"}
<1>2. ASSUME Quiet PROVE StampInv'
  BY <1>2, QuietKeepsStamp DEF At, LoTWKinds
<1>3. CASE ImportCert(n) \/ DeleteCert(n) \/ UpdateSettings(n) \/ RotatePassword(n)
  <2>1. PICK kind \in LoTWKinds, pc \in {"vault", "load", "hascert"} :
            Begins(n, kind, pc) /\ Turns(n) /\ req'[n].kind = kind
    BY <1>1, <1>3, ArrivalTurns
  <2>2. req[n].pc = "idle" /\ SvcStays /\ UNCHANGED <<suspect, vouched>>
    BY <2>1, RowIsSvcStays DEF Begins, CanBegin
  <2> QED
    BY <1>2, <2>1, <2>2
<1>4. CASE storeLoTWPasswords(n)
  <2>1. /\ Turns(n) /\ req[n].kind \in {"import", "settings"} /\ req[n].plain \in Plains
        /\ req'[n].kind \in LoTWKinds \union {"none"}
    BY <1>1, <1>4, StoreLoTWPasswordsTurns, PlainTyped DEF Moves, LoTWKinds
  <2>2. \A z \in Services \ {"lotw"} : row'[z] = row[z]
    BY <1>4, <2>1, UpsertWrites, ServicesAre DEF storeLoTWPasswords
  <2>3. SvcStays /\ UNCHANGED <<suspect, vouched>>
    BY <1>4, <2>2, LoTWLeavesSvc DEF storeLoTWPasswords
  <2> QED
    BY <1>2, <2>1, <2>3
<1>5. CASE upsertLotwCredential(n)
  <2>1. Turns(n) /\ req[n].kind # "put" /\ req'[n].kind = "none"
    BY <1>1, <1>5, LoTWEnds DEF upsertLotwCredential, At
  <2>2. Touches("lotw")
    BY <1>5, UpsertLotwWrites
  <2>3. SvcStays /\ UNCHANGED <<suspect, vouched>>
    BY <1>5, <2>2, LoTWLeavesSvc DEF upsertLotwCredential, Touches
  <2> QED
    BY <1>2, <2>1, <2>3
<1>6. CASE VaultImports(n)
  <2>1. Turns(n) /\ req[n].kind = "import" /\ req'[n].kind \in {"import", "none"}
    BY <1>1, <1>6, VaultImportsTurns DEF VaultImports, At, Moves
  <2> QED
    BY <1>2, <1>6, <2>1, RowIsSvcStays DEF VaultImports, LoTWKinds
<1>7. CASE ImportRefused(n) \/ StoreFails(n) \/ VaultRotates(n)
  <2>1. Turns(n) /\ req[n].kind # "put" /\ req'[n].kind = "none"
    BY <1>1, <1>7, LoTWEnds, StoreStage DEF ImportRefused, StoreFails, VaultRotates, At
  <2> QED
    BY <1>2, <1>7, <2>1, RowIsSvcStays DEF ImportRefused, StoreFails, VaultRotates
<1>8. CASE storeVaultPassword(n)
  <2>1. Turns(n) /\ req[n].kind = "import" /\ req'[n].kind \in {"import", "none"}
    BY <1>1, <1>8, StoreVaultPasswordTurns DEF storeVaultPassword, At
  <2> QED
    BY <1>2, <1>8, <2>1, RowIsSvcStays DEF storeVaultPassword, LoTWKinds
<1>9. CASE storeWebPassword(n)
  <2>1. Turns(n) /\ req[n].kind = "settings" /\ req'[n].kind \in {"settings", "none"}
    BY <1>1, <1>9, StoreWebPasswordTurns
  <2> QED
    BY <1>2, <1>9, <2>1, RowIsSvcStays DEF storeWebPassword, LoTWKinds
<1>10. CASE upsertHasCert(n)
  <2>1. Turns(n) /\ req[n].kind \in {"import", "remove"} /\ req'[n].kind = req[n].kind
    BY <1>1, <1>10, UpsertHasCertTurns DEF upsertHasCert, At
  <2> QED
    BY <1>2, <1>10, <2>1, RowIsSvcStays DEF upsertHasCert, LoTWKinds
<1>11. CASE loadVaultPassword(n)
  <2>1. Turns(n) /\ req[n].kind = "remove" /\ req'[n].kind \in {"remove", "none"}
    BY <1>1, <1>11, LoadVaultPasswordTurns DEF loadVaultPassword, At
  <2> QED
    BY <1>2, <1>11, <2>1, RowIsSvcStays DEF loadVaultPassword, LoTWKinds
<1>12. CASE VaultDeletes(n)
  <2>1. Turns(n) /\ req[n].kind = "remove" /\ req'[n].kind \in {"remove", "none"}
    BY <1>1, <1>12, VaultDeletesTurns DEF Moves
  <2> QED
    BY <1>2, <1>12, <2>1, RowIsSvcStays DEF VaultDeletes, LoTWKinds
<1> QED
  BY <1>3, <1>4, <1>5, <1>6, <1>7, <1>8, <1>9, <1>10, <1>11, <1>12

LEMMA OthersKeepStamp ==
    ASSUME TableInv, StampInv,
           \/ rotateSelect \/ rotateBatch \/ rotateAborts \/ ServerRestart \/ Expire
           \/ UNCHANGED vars
    PROVE  StampInv'
<1>1. CASE ServerRestart
  <2>1. \A n \in Requests : req'[n] = IF InFlight(n) THEN Gone ELSE req[n]
    BY <1>1, RestartTurns DEF TableInv, ServerRestart
  <2>2. /\ UNCHANGED <<svc, row, vouched>>
        /\ ~suspect' => ~suspect /\ ~\E n \in Requests : At(n, {"put"}, "stamp")
    BY <1>1 DEF ServerRestart, Restart
  <2>3. SavesVouched' /\ ChecksVouched'
    BY <2>1, <2>2, Blanks DEF StampInv, Tested, SavesVouched, ChecksVouched, At
  <2>4. StampersSee'
    BY <2>1, <2>2, Blanks DEF StampInv, StampersSee, At, Holds
  <2>5. StampedVouched'
    BY <2>2 DEF StampInv, Tested, StampedVouched
  <2> QED
    BY <2>3, <2>4, <2>5 DEF StampInv
<1>2. CASE ~ServerRestart
  <2>1. UNCHANGED <<svc, req, vouched, suspect>>
    BY <1>2 DEF rotateSelect, rotateBatch, rotateAborts, Expire, vars
  <2>2. SvcStays
    <3>1. CASE rotateBatch
      BY <2>1, <3>1, RotateRewraps, ServicesAre DEF Rewraps, SvcStays
    <3>2. CASE ~rotateBatch
      BY <1>2, <3>2, RowIsSvcStays DEF rotateSelect, rotateAborts, Expire, vars
    <3> QED
      BY <3>1, <3>2
  <2>3. SavesVouched' /\ ChecksVouched'
    BY <2>1 DEF StampInv, Tested, SavesVouched, ChecksVouched, At
  <2>4. StampersSee'
    BY <2>1, <2>2 DEF StampInv, StampersSee, At, Holds, SvcStays
  <2>5. StampedVouched'
    BY <2>1, <2>2 DEF StampInv, Tested, StampedVouched, At, SvcStays
  <2> QED
    BY <2>3, <2>4, <2>5 DEF StampInv
<1> QED
  BY <1>1, <1>2

LEMMA InitStamp == Init => StampInv
<1> SUFFICES ASSUME Init PROVE StampInv
  OBVIOUS
<1>1. \A n \in Requests : req[n].kind = "none"
  BY Blanks DEF Init, CredInit
<1>2. SavesVouched /\ ChecksVouched /\ StampersSee
  BY <1>1 DEF SavesVouched, ChecksVouched, StampersSee, At
<1>3. row[svc] = NoRow \/ row[svc].cipher.plain.pw = Earlier
  <2>1. PICK f : row[svc] = IF Storable(svc) THEN Saved(svc, Plain(Earlier, 0, f)) ELSE NoRow
    BY ServicesAre DEF Init, CredInit
  <2>2. Saved(svc, Plain(Earlier, 0, f)).cipher.plain.pw = Earlier
    BY NewKeyringEncrypts DEF Saved, Plain
  <2> QED
    BY <2>1, <2>2
<1>4. StampedVouched
  BY <1>3 DEF StampedVouched, Init, CredInit
<1> QED
  BY <1>2, <1>4 DEF StampInv

LEMMA NextStamp == TableInv /\ StampInv /\ [Next]_vars => StampInv'
<1> SUFFICES ASSUME TableInv, StampInv, [Next]_vars PROVE StampInv'
  OBVIOUS
<1> QED
  BY CredKeepsStamp, LoTWKeepsStamp, OthersKeepStamp DEF Next, CredNext, CredStep

\* VerifiedHonest: for a service that Save tests, a row that GET
\* /v1/sync/credentials lists as verified holds a secret that Save or Verify
\* tested and found good, whatever saves, checks, deletions,
\* rotations and restarts interleaved, unless a stamp went astray.
THEOREM StampsHonest == Spec => []VerifiedHonest
<1>1. Spec => []StampInv
  BY InitStamp, NextStamp, TableHolds, PTL DEF Spec
<1>2. StampInv => VerifiedHonest
  BY DEF StampInv, Tested, StampedVouched, VerifiedHonest, ListVerified, ListCredentials
<1> QED
  BY <1>1, <1>2, PTL

-----------------------------------------------------------------------------
(* The stored password opens the certificate.                              *)

\* LoTW's row keeps its password and its flag.
LoTWStays ==
    /\ row'["lotw"] = NoRow <=> row["lotw"] = NoRow
    /\ row["lotw"] # NoRow => /\ row'["lotw"].cipher.plain = row["lotw"].cipher.plain
                              /\ row'["lotw"].active = row["lotw"].active

LEMMA TouchedIsBusy ==
    ASSUME NEW n \in Requests, Touched(n)
    PROVE  Busy(n)
BY DEF Touched, Busy, InFlight, LoTWKinds

LEMMA RequestAgrees ==
    ASSUME NEW n \in Requests, req'[n] = req[n]
    PROVE  (Busy(n)' <=> Busy(n)) /\ (Touched(n)' <=> Touched(n))
BY DEF Busy, InFlight, Touched

LEMMA AgreeStays ==
    ASSUME LoTWStays, UNCHANGED <<cert, hasCert>>, Agree
    PROVE  Agree'
BY DEF Agree, LoTWStays, Load, LoTWPw

LEMMA ProgressStays ==
    ASSUME LoTWStays, UNCHANGED <<cert, hasCert>>, NEW n \in Requests, req'[n] = req[n], Progress(n)
    PROVE  Progress(n)'
BY DEF Progress, LoTWStays, LoTWPw, Touched, At

\* A step that is none of a request about LoTW.
LEMMA AsideKeepsCert ==
    ASSUME CertInv, LoTWStays, UNCHANGED <<cert, hasCert, torn>>,
           \A n \in Requests : req'[n] = req[n] \/ (~Busy(n) /\ ~Busy(n)')
    PROVE  CertInv'
<1>1. \A n \in Requests : /\ Busy(n)' => Busy(n) /\ req'[n] = req[n]
                          /\ Touched(n) => Touched(n)'
  BY RequestAgrees, TouchedIsBusy
<1>2. AloneIsAlone'
  BY <1>1 DEF CertInv, AloneIsAlone
<1>3. TornByOverlap'
  BY <1>1 DEF CertInv, TornByOverlap
<1>4. AgreeUnlessTouched'
  BY <1>1, AgreeStays DEF CertInv, AgreeUnlessTouched
<1>5. AloneProgresses'
  BY <1>1, ProgressStays DEF CertInv, AloneProgresses
<1>6. VaultPw'
  BY DEF CertInv, VaultPw
<1> QED
  BY <1>2, <1>3, <1>4, <1>5, <1>6 DEF CertInv

\* A step of a request about LoTW: whether it runs alone makes the difference.
LEMMA StepKeepsCert ==
    ASSUME CertInv, NEW n \in Requests, Busy(n), OthersStay(n), VaultPw',
           ~req[n].alone => (Busy(n)' => ~req'[n].alone) /\ (torn => torn'),
           req[n].alone => /\ torn' \/ Touched(n)' \/ Agree'
                           /\ Busy(n)' /\ req'[n].alone => Progress(n)'
                           /\ Busy(n)' /\ ~req'[n].alone => torn'
    PROVE  CertInv'
<1>1. \A m \in Requests \ {n} : req'[m] = req[m] /\ (Busy(m)' <=> Busy(m))
  BY RequestAgrees DEF OthersStay
<1>2. \A m \in Requests \ {n} : Busy(m) => ~req[m].alone
  BY DEF CertInv, AloneIsAlone
<1>3. CASE req[n].alone
  <2>1. \A m \in Requests \ {n} : ~Busy(m)'
    BY <1>1, <1>3 DEF CertInv, AloneIsAlone
  <2>2. AloneIsAlone' /\ TornByOverlap' /\ AloneProgresses'
    BY <1>3, <2>1 DEF AloneIsAlone, TornByOverlap, AloneProgresses
  <2>3. AgreeUnlessTouched'
    BY <1>3 DEF AgreeUnlessTouched
  <2> QED
    BY <2>2, <2>3 DEF CertInv
<1>4. CASE ~req[n].alone
  <2>1. torn'
    BY <1>4 DEF CertInv, TornByOverlap
  <2>2. AloneIsAlone' /\ AloneProgresses'
    BY <1>1, <1>2, <1>4 DEF AloneIsAlone, AloneProgresses
  <2> QED
    BY <2>1, <2>2 DEF CertInv, TornByOverlap, AgreeUnlessTouched
<1> QED
  BY <1>3, <1>4

\* What an alone request knows before its step.
LEMMA AloneKnows ==
    ASSUME CertInv, NEW n \in Requests, Busy(n), req[n].alone
    PROVE  Progress(n) /\ (torn \/ Touched(n) \/ Agree)
<1>1. \A m \in Requests \ {n} : ~Touched(m)
  BY TouchedIsBusy DEF CertInv, AloneIsAlone
<1> QED
  BY <1>1 DEF CertInv, AloneProgresses, AgreeUnlessTouched

\* A step that only moves the request, before it touched anything.
LEMMA UntouchedStep ==
    ASSUME CertInv, NEW n \in Requests, Busy(n), OthersStay(n), LoTWStays,
           UNCHANGED <<cert, hasCert>>, torn => torn', ~Touched(n),
           ~Busy(n)' \/ (req'[n].alone = req[n].alone /\ Progress(n)')
    PROVE  CertInv'
<1>1. VaultPw'
  BY DEF CertInv, VaultPw
<1>2. req[n].alone => torn' \/ Agree'
  BY AloneKnows, AgreeStays
<1> QED
  BY <1>1, <1>2, StepKeepsCert

LEMMA GoneIsIdle ==
    ASSUME NEW n \in Requests, req'[n] = Gone
    PROVE  ~Busy(n)' /\ ~Touched(n)'
BY Blanks DEF Busy, LoTWKinds, Touched

LEMMA RowIsLoTWStays == ASSUME UNCHANGED row PROVE LoTWStays
BY DEF LoTWStays

LEMMA ArrivalKeepsCert ==
    ASSUME TableInv, CertInv, NEW n \in Requests,
           ImportCert(n) \/ DeleteCert(n) \/ UpdateSettings(n) \/ RotatePassword(n)
    PROVE  CertInv'
<1>1. PICK kind \in LoTWKinds, pc \in {"vault", "load", "hascert"} :
        /\ <<kind, pc>> \in {<<"import", "vault">>, <<"remove", "load">>,
                             <<"settings", "hascert">>, <<"rotate", "vault">>}
        /\ Begins(n, kind, pc)
        /\ Turns(n) /\ req'[n].kind = kind /\ req'[n].pc = pc
        /\ req'[n].alone <=> ~(\E m \in Requests : Busy(m))
        /\ \A m \in Requests \ {n} : ~Busy(m) => req'[m] = req[m]
        /\ \A m \in Requests \ {n} : Busy(m) => ~req'[m].alone
  BY ArrivalTurns DEF TableInv
<1>2. /\ UNCHANGED <<row, cert, hasCert>> /\ req[n].pc = "idle"
      /\ torn' <=> torn \/ \E m \in Requests : Busy(m)
  BY <1>1 DEF Begins, CanBegin
<1>3. VaultPw'
  BY <1>2 DEF CertInv, VaultPw
<1>4. ~Busy(n) /\ ~Touched(n) /\ ~Touched(n)'
  BY <1>1, <1>2 DEF Busy, InFlight, Touched
<1>5. \A m \in Requests \ {n} : Busy(m)' <=> Busy(m)
  BY <1>1 DEF Turns, Same, Busy, InFlight
<1>6. CASE \E m \in Requests : Busy(m)
  <2>1. torn' /\ \A m \in Requests : Busy(m)' => ~req'[m].alone
    BY <1>1, <1>2, <1>5, <1>6
  <2> QED
    BY <1>3, <2>1 DEF CertInv, AloneIsAlone, TornByOverlap, AgreeUnlessTouched, AloneProgresses
<1>7. CASE ~\E m \in Requests : Busy(m)
  <2>1. req'[n].alone /\ (torn' <=> torn) /\ \A m \in Requests \ {n} : ~Busy(m)'
    BY <1>1, <1>2, <1>5, <1>7
  <2>2. Progress(n)'
    BY <1>1, <1>4 DEF Progress, At
  <2>3. ~torn' => Agree'
    BY <1>2, <1>7, <2>1, TouchedIsBusy, AgreeStays, RowIsLoTWStays DEF CertInv, AgreeUnlessTouched
  <2> QED
    BY <1>3, <2>1, <2>2, <2>3
       DEF CertInv, AloneIsAlone, TornByOverlap, AgreeUnlessTouched, AloneProgresses
<1> QED
  BY <1>6, <1>7

LEMMA ImportKeepsCert ==
    ASSUME TableInv, CertInv, NEW n \in Requests,
           VaultImports(n) \/ ImportRefused(n) \/ storeVaultPassword(n)
    PROVE  CertInv'
<1>1. TypeOK /\ AllGood /\ n # 0
  BY RequestNumbers DEF TableInv
<1>2. CASE VaultImports(n)
  <2>1. /\ OthersStay(n) /\ req[n].kind = "import" /\ req[n].pc = "vault" /\ Busy(n)
        /\ (req'[n] = Gone /\ torn') \/ (Moves(n, "load") /\ torn' = torn)
    BY <1>1, <1>2, VaultImportsTurns DEF VaultImports, At, Busy, InFlight, LoTWKinds
  <2>2. cert'.pw = n
    BY <1>2 DEF VaultImports, handleImportCert
  <2>3. VaultPw'
    BY <1>1, <2>2 DEF VaultPw
  <2>4. CASE req'[n] = Gone /\ torn'
    BY <2>1, <2>3, <2>4, GoneIsIdle, StepKeepsCert
  <2>5. CASE Moves(n, "load") /\ torn' = torn
    <3>1. Touched(n)' /\ Progress(n)'
      BY <2>1, <2>2, <2>5 DEF Touched, Progress, Moves, At
    <3> QED
      BY <2>1, <2>3, <2>5, <3>1, StepKeepsCert DEF Moves
  <2> QED
    BY <2>1, <2>4, <2>5
<1>3. CASE ImportRefused(n)
  <2>1. /\ OthersStay(n) /\ req'[n] = Gone /\ Busy(n) /\ ~Touched(n) /\ LoTWStays
        /\ UNCHANGED <<cert, hasCert, torn>>
    BY <1>1, <1>3, LoTWEnds, RowIsLoTWStays
       DEF ImportRefused, At, Busy, InFlight, LoTWKinds, Touched
  <2> QED
    BY <2>1, GoneIsIdle, UntouchedStep
<1>4. CASE storeVaultPassword(n)
  <2>1. /\ OthersStay(n) /\ req[n].kind = "import" /\ req[n].pc = "load" /\ Busy(n)
        /\ UNCHANGED <<row, cert, hasCert>>
        /\ \/ req'[n] = Gone /\ torn'
           \/ /\ req'[n].kind = "import" /\ req'[n].pc = "store"
              /\ req'[n].alone = req[n].alone /\ torn' = torn
    BY <1>1, <1>4, StoreVaultPasswordTurns DEF storeVaultPassword, At, Busy, InFlight, LoTWKinds
  <2>2. VaultPw'
    BY <2>1 DEF CertInv, VaultPw
  <2>3. CASE req'[n] = Gone /\ torn'
    BY <2>1, <2>2, <2>3, GoneIsIdle, StepKeepsCert
  <2>4. CASE /\ req'[n].kind = "import" /\ req'[n].pc = "store"
             /\ req'[n].alone = req[n].alone /\ torn' = torn
    <3>1. Touched(n)' /\ Touched(n)
      BY <2>1, <2>4 DEF Touched
    <3>2. req[n].alone => Progress(n)'
      BY <2>1, <2>4, <3>1, AloneKnows DEF Progress, At
    <3> QED
      BY <2>1, <2>2, <2>4, <3>1, <3>2, StepKeepsCert
  <2> QED
    BY <2>1, <2>3, <2>4
<1> QED
  BY <1>2, <1>3, <1>4

LEMMA PasswordIsRows ==
    ASSUME DecodeStoredPasswords.pw # 0
    PROVE  row["lotw"] # NoRow /\ DecodeStoredPasswords.pw = LoTWPw
<1>1. NoPlain.pw = 0
  BY DEF NoPlain, Plain
<1> QED
  BY <1>1 DEF DecodeStoredPasswords, LoTWPw

LEMMA SettingsKeepCert ==
    ASSUME TableInv, CertInv, NEW n \in Requests,
           storeWebPassword(n) \/ storeLoTWPasswords(n) \/ StoreFails(n)
    PROVE  CertInv'
<1>1. TypeOK /\ AllGood
  BY DEF TableInv
<1>2. CASE storeWebPassword(n)
  <2>1. /\ req[n].kind = "settings" /\ OthersStay(n) /\ Busy(n) /\ ~Touched(n) /\ LoTWStays
        /\ UNCHANGED <<row, cert, hasCert, torn>>
    BY <1>1, <1>2, StoreWebPasswordTurns, RowIsLoTWStays
       DEF storeWebPassword, Busy, InFlight, LoTWKinds, Touched
  <2>2. CASE req'[n] = Gone
    BY <2>1, <2>2, GoneIsIdle, UntouchedStep
  <2>3. CASE req'[n].kind = "settings" /\ req'[n].pc = "load" /\ req'[n].alone = req[n].alone
    <3>1. Progress(n)'
      BY <2>3 DEF Progress, Touched, At
    <3> QED
      BY <2>1, <2>3, <3>1, UntouchedStep
  <2>4. CASE /\ req'[n].kind = "settings" /\ req'[n].pc = "store"
             /\ req'[n].alone = req[n].alone /\ DecodeStoredPasswords.pw # 0
             /\ req'[n].plain.pw = DecodeStoredPasswords.pw
    <3>1. Progress(n)'
      BY <2>1, <2>4, PasswordIsRows DEF Progress, Touched, At, LoTWPw
    <3> QED
      BY <2>1, <2>4, <3>1, UntouchedStep
  <2> QED
    BY <1>1, <1>2, <2>2, <2>3, <2>4, StoreWebPasswordTurns
<1>3. CASE storeLoTWPasswords(n)
  <2>1. /\ OthersStay(n) /\ req[n].pc = "store" /\ req[n].plain \in Plains
        /\ UNCHANGED <<svc, ring, tool, cert, hasCert, torn>> /\ ~Locked("lotw")
        /\ \/ req[n].kind = "import" /\ Moves(n, "flag")
           \/ req[n].kind = "settings" /\ req'[n] = Gone
    BY <1>1, <1>3, StoreLoTWPasswordsTurns, PlainTyped DEF storeLoTWPasswords
  <2>2. row'["lotw"] # NoRow /\ row'["lotw"].cipher.plain = req[n].plain /\ row'["lotw"].active
    BY <1>3, <2>1, UpsertWrites, ServicesAre DEF storeLoTWPasswords
  <2>3. VaultPw' /\ Busy(n)
    BY <2>1 DEF CertInv, VaultPw, Busy, InFlight, LoTWKinds
  <2>4. CASE req[n].kind = "import" /\ Moves(n, "flag")
    <3>1. Touched(n) /\ Touched(n)' /\ req[n].plain.pw = n
      BY <1>1, <2>1, <2>4 DEF Touched, Moves, AllGood, Good, At
    <3>2. req[n].alone => Progress(n)'
      BY <2>1, <2>2, <2>3, <2>4, <3>1, AloneKnows DEF Progress, Moves, At, LoTWPw
    <3> QED
      BY <2>1, <2>3, <2>4, <3>1, <3>2, StepKeepsCert DEF Moves
  <2>5. CASE req[n].kind = "settings" /\ req'[n] = Gone
    <3>1. ASSUME req[n].alone PROVE torn' \/ Agree'
      <4>1. Progress(n) /\ (torn \/ Agree)
        BY <2>3, <2>5, <3>1, AloneKnows DEF Touched
      <4>2. req[n].plain.pw = LoTWPw
        BY <2>1, <2>5, <4>1 DEF Progress, At
      <4> QED
        BY <2>1, <2>2, <4>1, <4>2 DEF Agree, Load, LoTWPw
    <3> QED
      BY <2>1, <2>3, <2>5, <3>1, GoneIsIdle, StepKeepsCert
  <2> QED
    BY <2>1, <2>4, <2>5
<1>4. CASE StoreFails(n)
  <2>1. /\ OthersStay(n) /\ req'[n] = Gone /\ req[n].kind \in {"import", "settings"} /\ Busy(n)
        /\ LoTWStays /\ UNCHANGED <<cert, hasCert>> /\ (torn' <=> torn \/ req[n].kind = "import")
    BY <1>1, <1>4, LoTWEnds, StoreStage, RowIsLoTWStays DEF StoreFails, Busy, InFlight, LoTWKinds
  <2>2. VaultPw'
    BY <2>1 DEF CertInv, VaultPw
  <2>3. CASE req[n].kind = "import"
    BY <2>1, <2>2, <2>3, GoneIsIdle, StepKeepsCert
  <2>4. CASE req[n].kind = "settings"
    BY <2>1, <2>4, GoneIsIdle, UntouchedStep DEF Touched
  <2> QED
    BY <2>1, <2>3, <2>4
<1> QED
  BY <1>2, <1>3, <1>4

LEMMA FlagKeepsCert ==
    ASSUME TableInv, CertInv, NEW n \in Requests, upsertHasCert(n)
    PROVE  CertInv'
<1>1. /\ OthersStay(n) /\ req[n].kind \in {"import", "remove"} /\ req[n].pc = "flag" /\ Busy(n)
      /\ req'[n].kind = req[n].kind /\ req'[n].pc = "active" /\ UNCHANGED <<row, cert>>
  BY UpsertHasCertTurns DEF TableInv, upsertHasCert, At, Busy, InFlight, LoTWKinds
<1>2. VaultPw' /\ Touched(n) /\ Touched(n)'
  BY <1>1 DEF CertInv, VaultPw, Touched
<1>3. CASE req'[n].alone = FALSE /\ torn'
  BY <1>1, <1>2, <1>3, StepKeepsCert
<1>4. CASE /\ req'[n].alone = req[n].alone /\ torn' = torn
           /\ hasCert' = (req[n].kind = "import")
  <2>1. hasCert' <=> req'[n].kind = "import"
    BY <1>1, <1>4, Zenon
  <2>2. req[n].alone => Progress(n)'
    BY <1>1, <1>2, <2>1, AloneKnows DEF Progress, At, LoTWPw
  <2> QED
    BY <1>1, <1>2, <1>4, <2>2, StepKeepsCert
<1> QED
  BY <1>3, <1>4, UpsertHasCertTurns DEF TableInv

LEMMA LastKeepsCert ==
    ASSUME TableInv, CertInv, NEW n \in Requests, upsertLotwCredential(n)
    PROVE  CertInv'
<1>1. /\ OthersStay(n) /\ req[n].kind \in {"import", "remove"} /\ req[n].pc = "active" /\ Busy(n)
      /\ req'[n] = Gone /\ UNCHANGED <<cert, hasCert>> /\ n # 0
  BY LoTWEnds, RequestNumbers DEF TableInv, upsertLotwCredential, At, Busy, InFlight, LoTWKinds
<1>2. VaultPw' /\ Touched(n)
  BY <1>1 DEF CertInv, VaultPw, Touched
<1>3. Touches("lotw")
  BY UpsertLotwWrites
<1>4. CASE torn'
  BY <1>1, <1>2, <1>4, GoneIsIdle, StepKeepsCert
<1>5. CASE /\ row["lotw"] # NoRow => (row'["lotw"].active <=> req[n].kind = "import")
           /\ torn' = (torn /\ ~req[n].alone)
  <2>1. ASSUME req[n].alone PROVE Agree'
    <3>1. Progress(n)
      BY <1>1, <2>1, AloneKnows
    <3>2. CASE req[n].kind = "import"
      <4>1. cert.pw = n /\ row["lotw"] # NoRow /\ LoTWPw = n /\ hasCert
        BY <1>1, <1>2, <3>1, <3>2 DEF Progress
      <4>2. Load(cert)
        BY <1>1, <4>1 DEF Load, NoCert
      <4>3. row'["lotw"] # NoRow /\ row'["lotw"].active /\ row'["lotw"].cipher = row["lotw"].cipher
        BY <1>3, <1>5, <3>2, <4>1 DEF Touches
      <4> QED
        BY <1>1, <4>1, <4>2, <4>3 DEF Agree, LoTWPw, Load
    <3>3. CASE req[n].kind = "remove"
      <4>1. cert = NoCert /\ ~hasCert
        BY <1>1, <1>2, <3>1, <3>3 DEF Progress
      <4> QED
        BY <1>1, <4>1 DEF Agree, Load
    <3> QED
      BY <1>1, <3>2, <3>3
  <2>2. ~req[n].alone => (torn => torn')
    BY <1>5
  <2> QED
    BY <1>1, <1>2, <2>1, <2>2, GoneIsIdle, StepKeepsCert
<1> QED
  BY <1>4, <1>5, UpsertLotwWrites

LEMMA RemoveKeepsCert ==
    ASSUME TableInv, CertInv, NEW n \in Requests, loadVaultPassword(n) \/ VaultDeletes(n)
    PROVE  CertInv'
<1>1. TypeOK /\ AllGood
  BY DEF TableInv
<1>2. CASE loadVaultPassword(n)
  <2>1. /\ OthersStay(n) /\ Busy(n) /\ ~Touched(n) /\ LoTWStays /\ UNCHANGED <<cert, hasCert, torn>>
        /\ \/ req'[n] = Gone
           \/ req'[n].kind = "remove" /\ req'[n].pc = "vault" /\ req'[n].alone = req[n].alone
    BY <1>1, <1>2, LoadVaultPasswordTurns, RowIsLoTWStays
       DEF loadVaultPassword, At, Busy, InFlight, LoTWKinds, Touched
  <2>2. ~Busy(n)' \/ (req'[n].alone = req[n].alone /\ Progress(n)')
    BY <2>1, GoneIsIdle DEF Progress, Touched, At
  <2> QED
    BY <2>1, <2>2, UntouchedStep
<1>3. CASE VaultDeletes(n)
  <2>1. /\ OthersStay(n) /\ Busy(n) /\ ~Touched(n) /\ LoTWStays /\ UNCHANGED hasCert
        /\ req[n].kind = "remove"
    BY <1>1, <1>3, VaultDeletesTurns, RowIsLoTWStays
       DEF VaultDeletes, At, Busy, InFlight, LoTWKinds, Touched
  <2>2. CASE req'[n] = Gone /\ UNCHANGED <<cert, torn>>
    BY <2>1, <2>2, GoneIsIdle, UntouchedStep
  <2>3. CASE Moves(n, "erase") /\ UNCHANGED <<cert, torn>>
    <3>1. Progress(n)' /\ req'[n].alone = req[n].alone
      BY <2>1, <2>3 DEF Progress, Touched, At, Moves
    <3> QED
      BY <2>1, <2>3, <3>1, UntouchedStep
  <2>4. CASE Moves(n, "flag") /\ cert' = NoCert /\ UNCHANGED torn
    <3>1. Touched(n)' /\ Progress(n)' /\ VaultPw'
      BY <2>1, <2>4 DEF Touched, Progress, Moves, At, VaultPw
    <3> QED
      BY <2>1, <2>4, <3>1, StepKeepsCert DEF Moves
  <2>5. CASE req'[n] = Gone /\ cert' = NoCert /\ torn'
    <3>1. VaultPw'
      BY <2>5 DEF VaultPw
    <3> QED
      BY <2>1, <2>5, <3>1, GoneIsIdle, StepKeepsCert
  <2> QED
    BY <1>1, <1>3, <2>2, <2>3, <2>4, <2>5, VaultDeletesTurns
<1> QED
  BY <1>2, <1>3

\* Nobody knows the generated password, so that a rotation rotates nothing.
LEMMA RotateKeepsCert ==
    ASSUME TableInv, CertInv, NEW n \in Requests, VaultRotates(n)
    PROVE  CertInv'
<1>1. cert' = cert
  BY DEF VaultRotates, handleRotatePassword, Load, CertInv, VaultPw
<1>2. /\ OthersStay(n) /\ req'[n] = Gone /\ Busy(n) /\ ~Touched(n) /\ LoTWStays
      /\ UNCHANGED <<hasCert, torn>>
  BY LoTWEnds, RowIsLoTWStays
     DEF TableInv, VaultRotates, At, Busy, InFlight, LoTWKinds, Touched
<1> QED
  BY <1>1, <1>2, GoneIsIdle, UntouchedStep

LEMMA ExpireKeepsCert ==
    ASSUME TableInv, CertInv, Expire
    PROVE  CertInv'
<1>1. UNCHANGED <<row, req, hasCert, torn>> /\ Load(cert)
  BY DEF Expire
<1>2. cert'.pw = cert.pw /\ cert'.expired = TRUE
  BY DEF Expire, TableInv, TypeOK, Flags
<1>3. Load(cert')
  BY <1>2 DEF Load, NoCert
<1>4. \A n \in Requests : (Busy(n)' <=> Busy(n)) /\ (Touched(n)' <=> Touched(n))
  BY <1>1, RequestAgrees
<1>5. AloneIsAlone' /\ TornByOverlap'
  BY <1>1, <1>4 DEF CertInv, AloneIsAlone, TornByOverlap
<1>6. AgreeUnlessTouched'
  <2>1. Agree => Agree'
    BY <1>1, <1>2, <1>3 DEF Agree, LoTWPw
  <2> QED
    BY <1>1, <1>4, <2>1 DEF CertInv, AgreeUnlessTouched
<1>7. ASSUME NEW n \in Requests, Progress(n) PROVE Progress(n)'
  BY <1>1, <1>2, <1>4, <1>7 DEF Progress, LoTWPw, At, Load
<1>8. AloneProgresses'
  BY <1>1, <1>4, <1>7 DEF CertInv, AloneProgresses
<1>9. VaultPw'
  BY <1>1, <1>2 DEF CertInv, VaultPw, Load
<1> QED
  BY <1>5, <1>6, <1>8, <1>9 DEF CertInv

LEMMA RestartKeepsCert ==
    ASSUME TableInv, CertInv, ServerRestart
    PROVE  CertInv'
<1>1. \A n \in Requests : req'[n] = IF InFlight(n) THEN Gone ELSE req[n]
  BY RestartTurns DEF TableInv, ServerRestart
<1>2. \A n \in Requests : ~Busy(n)'
  BY <1>1, Blanks DEF Busy, InFlight
<1>3. /\ UNCHANGED <<row, cert, hasCert>>
      /\ ~torn' => ~torn /\ ~\E n \in Requests : Busy(n)
  BY DEF ServerRestart, Restart
<1>4. AgreeUnlessTouched'
  BY <1>3, TouchedIsBusy, AgreeStays, RowIsLoTWStays DEF CertInv, AgreeUnlessTouched
<1>5. VaultPw'
  BY <1>3 DEF CertInv, VaultPw
<1> QED
  BY <1>2, <1>4, <1>5 DEF CertInv, AloneIsAlone, TornByOverlap, AloneProgresses

\* The kinds of a request that is not about LoTW.
LEMMA CredKinds ==
    ASSUME TableInv, NEW n \in Requests,
           \/ StoreAndVerify(n) \/ SaveVerifies(n) \/ SaveUpserts(n)
           \/ SaveFails(n) \/ SaveStamps(n) \/ StampFails(n)
           \/ ReVerify(n) \/ ReVerifyChecks(n) \/ ReVerifyStamps(n)
           \/ Delete(n) \/ DeleteRow(n)
    PROVE  OthersStay(n) /\ ~Busy(n) /\ ~Busy(n)'
<1>1. TypeOK /\ AllGood /\ Gone.kind = "none"
  BY Blanks DEF TableInv
<1>2. CASE StoreAndVerify(n)
  BY <1>1, <1>2, StoreAndVerifyTurns DEF StoreAndVerify, CanBegin, Busy, InFlight, LoTWKinds
<1>3. CASE SaveVerifies(n)
  BY <1>1, <1>3, SaveVerifiesTurns DEF SaveVerifies, At, Busy, LoTWKinds
<1>4. CASE SaveUpserts(n)
  BY <1>1, <1>4, StageMoves DEF SaveUpserts, At, Busy, LoTWKinds
<1>5. CASE SaveFails(n) \/ SaveStamps(n) \/ StampFails(n) \/ ReVerifyStamps(n) \/ DeleteRow(n)
  BY <1>1, <1>5, StageMoves
     DEF SaveFails, SaveStamps, StampFails, ReVerifyStamps, DeleteRow, At, Busy, LoTWKinds
<1>6. CASE ReVerify(n)
  BY <1>1, <1>6, ReVerifyTurns DEF ReVerify, CanBegin, Busy, InFlight, LoTWKinds
<1>7. CASE ReVerifyChecks(n)
  BY <1>1, <1>7, StageMoves DEF ReVerifyChecks, At, Busy, LoTWKinds
<1>8. CASE Delete(n)
  BY <1>1, <1>8, DeleteTurns DEF Delete, CanBegin, Busy, InFlight, LoTWKinds
<1> QED
  BY <1>2, <1>3, <1>4, <1>5, <1>6, <1>7, <1>8

LEMMA CredLeavesLoTW ==
    ASSUME TableInv, NEW n \in Requests,
           \/ StoreAndVerify(n) \/ SaveVerifies(n) \/ SaveUpserts(n)
           \/ SaveFails(n) \/ SaveStamps(n) \/ StampFails(n)
           \/ ReVerify(n) \/ ReVerifyChecks(n) \/ ReVerifyStamps(n)
           \/ Delete(n) \/ DeleteRow(n)
    PROVE  LoTWStays
<1>1. svc # "lotw" /\ "lotw" \in Services /\ svc \in Services
  BY LoTWIsApart, ServicesAre DEF TableInv, TypeOK, RowsTyped
<1>2. CASE UNCHANGED row
  BY <1>2, RowIsLoTWStays
<1>3. CASE SaveUpserts(n)
  <2>1. req[n].plain \in Plains /\ ~Locked(svc) /\ UNCHANGED <<svc, ring, tool>>
    BY <1>3, PlainTyped DEF TableInv, SaveUpserts
  <2>2. \A z \in Services \ {svc} : row'[z] = row[z]
    BY <1>1, <1>3, <2>1, UpsertWrites DEF SaveUpserts
  <2> QED
    BY <1>1, <2>2 DEF LoTWStays
<1>4. CASE SaveStamps(n)
  BY <1>1, <1>4, SaveStampsWrites DEF LoTWStays, Touches
<1>5. CASE ReVerifyStamps(n)
  BY <1>1, <1>5, ReVerifyStampsWrites DEF LoTWStays, Touches
<1>6. CASE DeleteRow(n)
  BY <1>1, <1>6, DeleteWrites DEF LoTWStays, DeleteRow
<1> QED
  BY <1>2, <1>3, <1>4, <1>5, <1>6
     DEF StoreAndVerify, SaveVerifies, SaveFails, StampFails, ReVerify, ReVerifyChecks, Delete

LEMMA CredNextKeepsCert ==
    ASSUME TableInv, CertInv, CredNext, UNCHANGED <<cert, hasCert, torn>>
    PROVE  CertInv'
<1>1. CASE rotateSelect \/ rotateBatch \/ rotateAborts
  <2>1. UNCHANGED req
    BY <1>1 DEF rotateSelect, rotateBatch, rotateAborts
  <2>2. LoTWStays
    BY <1>1, RotateRewraps, ServicesAre, RowIsLoTWStays
       DEF rotateSelect, rotateAborts, Rewraps, LoTWStays
  <2> QED
    BY <2>1, <2>2, AsideKeepsCert
<1>2. ASSUME NEW n \in Requests,
             \/ StoreAndVerify(n) \/ SaveVerifies(n) \/ SaveUpserts(n)
             \/ SaveFails(n) \/ SaveStamps(n) \/ StampFails(n)
             \/ ReVerify(n) \/ ReVerifyChecks(n) \/ ReVerifyStamps(n)
             \/ Delete(n) \/ DeleteRow(n)
      PROVE  CertInv'
  <2>1. OthersStay(n) /\ ~Busy(n) /\ ~Busy(n)' /\ LoTWStays
    BY <1>2, CredKinds, CredLeavesLoTW
  <2> QED
    BY <2>1, AsideKeepsCert DEF OthersStay
<1> QED
  BY <1>1, <1>2 DEF CredNext

LEMMA InitCert == Init => CertInv
<1> SUFFICES ASSUME Init PROVE CertInv
  OBVIOUS
<1>1. \A n \in Requests : ~Busy(n)
  BY Blanks DEF Init, CredInit, Busy, InFlight
<1>2. cert.pw = Earlier /\ Earlier # 0 /\ hasCert
  BY CredentialsAssumption DEF Init, handleImportCert, Earlier
<1>3. row["lotw"] = Saved("lotw", Plain(Earlier, 0, "json"))
  BY ServicesAre DEF Init, CredInit, Storable
<1>4. /\ Saved("lotw", Plain(Earlier, 0, "json")).cipher.plain.pw = Earlier
      /\ Saved("lotw", Plain(Earlier, 0, "json")).active
      /\ Saved("lotw", Plain(Earlier, 0, "json")).st = "row"
  BY NewKeyringEncrypts DEF Saved, Plain
<1>5. row["lotw"] # NoRow
  BY <1>3, <1>4 DEF NoRow
<1>6. Agree
  BY <1>2, <1>3, <1>4, <1>5 DEF Agree, Load, NoCert, LoTWPw
<1> QED
  BY <1>1, <1>2, <1>6
     DEF CertInv, AloneIsAlone, TornByOverlap, AgreeUnlessTouched, AloneProgresses, VaultPw

LEMMA NextCert == TableInv /\ CertInv /\ [Next]_vars => CertInv'
<1> SUFFICES ASSUME TableInv, CertInv, [Next]_vars PROVE CertInv'
  OBVIOUS
<1>1. CASE UNCHANGED vars
  <2>1. UNCHANGED <<row, req, cert, hasCert, torn>>
    BY <1>1 DEF vars
  <2> QED
    BY <2>1, RowIsLoTWStays, AsideKeepsCert
<1>2. CASE CredStep
  BY <1>2, CredNextKeepsCert DEF CredStep
<1>3. CASE ServerRestart \/ Expire
  BY <1>3, RestartKeepsCert, ExpireKeepsCert
<1>4. ASSUME NEW n \in Requests,
             \/ ImportCert(n) \/ DeleteCert(n) \/ UpdateSettings(n) \/ RotatePassword(n)
             \/ VaultImports(n) \/ ImportRefused(n) \/ storeVaultPassword(n)
             \/ storeWebPassword(n) \/ storeLoTWPasswords(n) \/ StoreFails(n)
             \/ upsertHasCert(n) \/ upsertLotwCredential(n) \/ loadVaultPassword(n)
             \/ VaultDeletes(n) \/ VaultRotates(n)
      PROVE  CertInv'
  BY <1>4, ArrivalKeepsCert, ImportKeepsCert, SettingsKeepCert, FlagKeepsCert, LastKeepsCert,
     RemoveKeepsCert, RotateKeepsCert
<1> QED
  BY <1>1, <1>2, <1>3, <1>4 DEF Next

\* The server reads LoTW's row as long as nobody changed keys since a request
\* stored it.
KeyFits == rekeyed \in BOOLEAN /\ (~rekeyed /\ row["lotw"] # NoRow => Decrypts(ring, row["lotw"].cipher))

LEMMA RingFits ==
    ASSUME RowsTyped, NEW p
    PROVE  Decrypts(ring, Encrypt(ring, p))
<1>1. PICK key : ring = NewKeyring(key)
  BY DEF RowsTyped
<1>2. Encrypt(ring, p) = [version |-> 1, key |-> key, plain |-> p]
  BY <1>1, NewKeyringEncrypts
<1> QED
  BY <1>1, <1>2 DEF Decrypts, deriveUserKey, NewKeyring

LEMMA InitKey == Init => KeyFits
<1> SUFFICES ASSUME Init PROVE KeyFits
  OBVIOUS
<1>1. row["lotw"] = Saved("lotw", Plain(Earlier, 0, "json")) /\ ring = NewKeyring("old") /\ rekeyed = FALSE
  BY ServicesAre DEF Init, CredInit, Storable
<1>2. row["lotw"].cipher = [version |-> 1, key |-> "old", plain |-> Plain(Earlier, 0, "json")]
  BY <1>1, NewKeyringEncrypts DEF Saved
<1>3. DOMAIN ring = {1} /\ ring[1] = "old"
  BY <1>1 DEF NewKeyring
<1>4. Decrypts(ring, row["lotw"].cipher)
  BY <1>2, <1>3 DEF Decrypts, deriveUserKey
<1> QED
  BY <1>1, <1>4 DEF KeyFits

\* Steps that change neither the key nor the row's cipher, unless they say so.
LEMMA KeyStays ==
    ASSUME KeyFits, rekeyed' \in BOOLEAN, rekeyed => rekeyed',
           \/ rekeyed'
           \/ UNCHANGED ring /\ row'["lotw"] = row["lotw"]
           \/ UNCHANGED ring /\ Touches("lotw")
    PROVE  KeyFits'
<1>1. CASE rekeyed'
  BY <1>1 DEF KeyFits
<1>2. CASE UNCHANGED ring /\ row'["lotw"] = row["lotw"]
  BY <1>2 DEF KeyFits
<1>3. CASE UNCHANGED ring /\ Touches("lotw")
  BY <1>3 DEF KeyFits, Touches
<1> QED
  BY <1>1, <1>2, <1>3

LEMMA NextKey == TableInv /\ KeyFits /\ [Next]_vars => KeyFits'
<1> SUFFICES ASSUME TableInv, KeyFits, [Next]_vars PROVE KeyFits'
  OBVIOUS
<1>1. rekeyed \in BOOLEAN
  BY DEF KeyFits
<1>2. CASE UNCHANGED vars
  BY <1>1, <1>2, KeyStays DEF vars
<1>3. CASE CredStep
  <2>1. UNCHANGED ring
    BY <1>3 DEF CredStep, CredNext, StoreAndVerify, SaveVerifies, SaveUpserts, SaveFails,
       SaveStamps, StampFails, ReVerify, ReVerifyChecks, ReVerifyStamps, Delete, DeleteRow,
       rotateSelect, rotateBatch, rotateAborts
  <2>2. rekeyed' = (rekeyed \/ row'["lotw"] # row["lotw"])
    BY <1>3 DEF CredStep
  <2>3. rekeyed' \in BOOLEAN /\ (rekeyed => rekeyed') /\ (rekeyed' \/ row'["lotw"] = row["lotw"])
    BY <2>2
  <2> QED
    BY <2>1, <2>3, KeyStays
<1>4. CASE ServerRestart
  <2>1. UNCHANGED row /\ rekeyed' = (rekeyed \/ ring' # ring)
    BY <1>4 DEF ServerRestart, Restart
  <2>2. rekeyed' \in BOOLEAN /\ (rekeyed => rekeyed') /\ (rekeyed' \/ ring' = ring)
    BY <2>1
  <2> QED
    BY <2>1, <2>2, KeyStays
<1>5. ASSUME NEW n \in Requests, storeLoTWPasswords(n) PROVE KeyFits'
  <2>1. UNCHANGED ring /\ rekeyed' = FALSE /\ row' = UpsertCredential("lotw", req[n].plain, TRUE)
    BY <1>5 DEF storeLoTWPasswords
  <2>2. row'["lotw"].cipher = Encrypt(ring, req[n].plain)
    BY <2>1, ServicesAre DEF TableInv, TypeOK, RowsTyped, UpsertCredential
  <2> QED
    BY <2>1, <2>2, RingFits DEF TableInv, TypeOK, KeyFits
<1>6. ASSUME NEW n \in Requests, UNCHANGED rekeyed,
             \/ ImportCert(n) \/ DeleteCert(n) \/ UpdateSettings(n) \/ RotatePassword(n)
             \/ VaultImports(n) \/ ImportRefused(n) \/ storeVaultPassword(n)
             \/ storeWebPassword(n) \/ StoreFails(n)
             \/ upsertHasCert(n) \/ upsertLotwCredential(n) \/ loadVaultPassword(n)
             \/ VaultDeletes(n) \/ VaultRotates(n)
      PROVE  KeyFits'
  <2>1. CASE upsertLotwCredential(n)
    BY <1>1, <1>6, <2>1, UpsertLotwWrites, KeyStays DEF upsertLotwCredential
  <2>2. CASE ~upsertLotwCredential(n)
    <3>1. UNCHANGED <<ring, row>>
      BY <1>6, <2>2 DEF ImportCert, DeleteCert, UpdateSettings, RotatePassword, Begins,
         VaultImports, ImportRefused, storeVaultPassword, storeWebPassword, StoreFails,
         upsertHasCert, loadVaultPassword, VaultDeletes, VaultRotates
    <3> QED
      BY <1>1, <1>6, <3>1, KeyStays
  <2> QED
    BY <2>1, <2>2
<1>7. CASE Expire /\ UNCHANGED rekeyed
  BY <1>1, <1>7, KeyStays DEF Expire
<1> QED
  BY <1>2, <1>3, <1>4, <1>5, <1>6, <1>7 DEF Next

\* CertOpens: unless a request about LoTW was cut short or two overlapped,
\* has_cert tells whether the vault holds the certificate, and the password
\* in the LoTW row opens it, however the handlers' three writes, web
\* passwords, key rotations and restarts came; and the server decrypts that
\* row unless keys changed since a request stored it.
THEOREM CertificateOpens == Spec => []CertOpens
<1>1. Spec => []CertInv
  BY InitCert, NextCert, TableHolds, PTL DEF Spec
<1>2. Spec => []KeyFits
  BY InitKey, NextKey, TableHolds, PTL DEF Spec
<1>3. ASSUME TableInv, CertInv, KeyFits PROVE CertOpens
  <2> SUFFICES ASSUME ~torn, ~(\E n \in Requests : Busy(n))
               PROVE  /\ hasCert <=> handleCertInfo(cert) = 200
                      /\ hasCert => /\ "lotw" \in ListCredentials
                                    /\ rekeyed \/ Decrypts(ring, row["lotw"].cipher)
                                    /\ handleSign(cert, DecodeStoredPasswords.pw) \in {200, 400}
    BY DEF CertOpens
  <2>1. Agree
    BY <1>3, TouchedIsBusy DEF CertInv, AgreeUnlessTouched
  <2>2. hasCert <=> handleCertInfo(cert) = 200
    BY <2>1 DEF Agree, handleCertInfo
  <2>3. hasCert => "lotw" \in ListCredentials
    BY <2>1, ServicesAre DEF Agree, ListCredentials
  <2>4. hasCert => Load(cert) /\ cert.pw = DecodeStoredPasswords.pw
    BY <2>1 DEF Agree, DecodeStoredPasswords, LoTWPw
  <2>5. hasCert => handleSign(cert, DecodeStoredPasswords.pw) \in {200, 400}
    BY <1>3, <2>4 DEF handleSign
  <2>6. hasCert => rekeyed \/ Decrypts(ring, row["lotw"].cipher)
    BY <1>3, <2>1 DEF Agree, KeyFits
  <2> QED
    BY <2>2, <2>3, <2>5, <2>6
<1> QED
  BY <1>1, <1>2, <1>3, TableHolds, PTL

\* The types of the table, the keyring, the requests and the vault's row.
THEOREM TypeCorrect == Spec => []TypeOK
<1>1. TableInv => TypeOK
  BY DEF TableInv
<1> QED
  BY <1>1, TableHolds, PTL
=============================================================================
