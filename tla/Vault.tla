-------------------------------- MODULE Vault --------------------------------
(***************************************************************************)
(* A LoTW certificate: it lies in the vault, encrypted under a password    *)
(* the API generated; the password lies in the user's LoTW credential row, *)
(* beside the web password; has_cert lies in lotw_sync_status.  The        *)
(* handlers write the three one after the other.                           *)
(***************************************************************************)
EXTENDS Credentials

VARIABLES
    cert,       \* the vault's row for the user
    hasCert,    \* lotw_sync_status.has_cert
    torn,       \* history: a request was cut short, or two overlapped, since
                \* the last import or deletion that ran alone
    rekeyed     \* history: since a request stored LoTW's row, the tool has
                \* re-encrypted it or the server got another key

vars == <<svc, row, ring, restarts, tool, req, vouched, suspect,
          cert, hasCert, torn, rekeyed>>

NoCert == [pw |-> 0, expired |-> FALSE]

-----------------------------------------------------------------------------
(* The vault service: its handlers' answers and what they leave stored.    *)

Load(e) == e # NoCert
handleImportCert(pw) == [pw |-> pw, expired |-> FALSE]
handleDeleteCert(e, pw) ==
    IF ~Load(e) THEN 404 ELSE IF e.pw # pw THEN 401 ELSE 200
handleRotatePassword(e, old, new) ==
    IF Load(e) /\ e.pw = old /\ new # old THEN [e EXCEPT !.pw = new] ELSE e
handleSign(e, pw) ==
    CASE ~Load(e) -> 404
      [] Load(e) /\ e.expired -> 400
      [] Load(e) /\ ~e.expired /\ e.pw # pw -> 401
      [] OTHER -> 200
handleCertInfo(e) == IF Load(e) THEN 200 ELSE 404

checkVaultStatus(code) == code = 200

-----------------------------------------------------------------------------
(* The API's handlers.                                                     *)

LoTWKinds == {"import", "remove", "settings", "rotate"}
Busy(n) == InFlight(n) /\ req[n].kind \in LoTWKinds

\* A request of the kind arrives; those it overlaps do not run alone.
Begins(n, kind, pc) ==
    /\ CanBegin(n)
    /\ LET others == {m \in Requests : Busy(m)} IN
       /\ req' = [m \in Requests |->
            CASE m = n -> [NoReq EXCEPT !.kind = kind, !.pc = pc, !.alone = others = {}]
              [] m \in others -> [req[m] EXCEPT !.alone = FALSE]
              [] OTHER -> req[m]]
       /\ torn' = (torn \/ others # {})
    /\ UNCHANGED <<svc, row, ring, restarts, tool, vouched, suspect, cert, hasCert>>

ImportCert(n) == Begins(n, "import", "vault")
DeleteCert(n) == Begins(n, "remove", "load")
UpdateSettings(n) == Begins(n, "settings", "hascert")
RotatePassword(n) == Begins(n, "rotate", "vault")

\* The vault stores the certificate; the answer may be lost on its way.
VaultImports(n) ==
    /\ At(n, {"import"}, "vault")
    /\ cert' = handleImportCert(n)
    /\ \/ Stage(n, "load") /\ UNCHANGED torn
       \/ Stage(n, "done") /\ torn' = TRUE
    /\ UNCHANGED <<svc, row, ring, restarts, tool, vouched, suspect, hasCert>>

\* A wrong .p12 password, an expired or foreign certificate, or no vault.
ImportRefused(n) ==
    /\ At(n, {"import"}, "vault")
    /\ Stage(n, "done")
    /\ UNCHANGED <<svc, row, ring, restarts, tool, vouched, suspect, cert,
                   hasCert, torn>>

Readable == row["lotw"] = NoRow \/ Decrypts(ring, row["lotw"].cipher)
DecodeStoredPasswords ==
    IF row["lotw"] = NoRow THEN NoPlain ELSE row["lotw"].cipher.plain

\* storeVaultPassword reads the payload to keep the web password.
storeVaultPassword(n) ==
    /\ At(n, {"import"}, "load")
    /\ \/ /\ Readable
          /\ req' = [req EXCEPT ![n].pc = "store",
                        ![n].plain = [DecodeStoredPasswords EXCEPT !.pw = n, !.fmt = "json"]]
          /\ UNCHANGED torn
       \/ Stage(n, "done") /\ torn' = TRUE
    /\ UNCHANGED <<svc, row, ring, restarts, tool, vouched, suspect, cert, hasCert>>

\* Mutant: the web password is stored without the payload it is part of.
storeWebPasswordAlone(n) ==
    /\ At(n, {"settings"}, "hascert")
    /\ req' = [req EXCEPT ![n].pc = "store", ![n].plain = Plain(0, n, "json")]
    /\ UNCHANGED <<svc, row, ring, restarts, tool, vouched, suspect, cert, hasCert, torn>>

storeWebPassword(n) ==
    /\ \/ /\ At(n, {"settings"}, "hascert")
          /\ Stage(n, IF hasCert THEN "load" ELSE "done")
       \/ /\ At(n, {"settings"}, "load")
          /\ IF Readable /\ DecodeStoredPasswords.pw # 0
             THEN req' = [req EXCEPT ![n].pc = "store",
                            ![n].plain = [DecodeStoredPasswords EXCEPT !.web = n]]
             ELSE Stage(n, "done")
    /\ UNCHANGED <<svc, row, ring, restarts, tool, vouched, suspect, cert,
                   hasCert, torn>>

storeLoTWPasswords(n) ==
    /\ req[n].pc = "store" /\ ~Locked("lotw")
    /\ row' = UpsertCredential("lotw", req[n].plain, TRUE)
    /\ Stage(n, IF req[n].kind = "import" THEN "flag" ELSE "done")
    /\ rekeyed' = FALSE
    /\ UNCHANGED <<svc, ring, restarts, tool, vouched, suspect, cert, hasCert, torn>>

StoreFails(n) ==
    /\ req[n].pc = "store"
    /\ Stage(n, "done")
    /\ torn' = (torn \/ req[n].kind = "import")
    /\ UNCHANGED <<svc, row, ring, restarts, tool, vouched, suspect, cert, hasCert>>

\* upsertHasCert; a failure is only logged.
upsertHasCert(n) ==
    /\ At(n, {"import", "remove"}, "flag")
    /\ \/ /\ hasCert' = (req[n].kind = "import")
          /\ Stage(n, "active")
          /\ UNCHANGED torn
       \/ /\ req' = [req EXCEPT ![n].pc = "active", ![n].alone = FALSE]
          /\ torn' = TRUE
          /\ UNCHANGED hasCert
    /\ UNCHANGED <<svc, row, ring, restarts, tool, vouched, suspect, cert>>

\* upsertLotwCredential, the last statement of an import and of a deletion.
upsertLotwCredential(n) ==
    /\ At(n, {"import", "remove"}, "active") /\ ~Locked("lotw")
    /\ \/ /\ row' = IF row["lotw"] = NoRow THEN row
                    ELSE [row EXCEPT !["lotw"].active = req[n].kind = "import"]
          /\ torn' = (torn /\ ~req[n].alone)
       \/ UNCHANGED row /\ torn' = TRUE
    /\ Stage(n, "done")
    /\ UNCHANGED <<svc, ring, restarts, tool, vouched, suspect, cert, hasCert>>

\* DeleteCert reads the password, whether or not the row is active.
loadVaultPassword(n) ==
    /\ At(n, {"remove"}, "load")
    /\ IF Readable /\ DecodeStoredPasswords.pw # 0
       THEN req' = [req EXCEPT ![n].pc = "vault", ![n].plain = DecodeStoredPasswords]
       ELSE Stage(n, "done")
    /\ UNCHANGED <<svc, row, ring, restarts, tool, vouched, suspect, cert,
                   hasCert, torn>>

\* The vault checks the password, then deletes whatever it holds.
VaultDeletes(n) ==
    /\ \/ /\ At(n, {"remove"}, "vault")
          /\ Stage(n, IF checkVaultStatus(handleDeleteCert(cert, req[n].plain.pw))
                      THEN "erase" ELSE "done")
          /\ UNCHANGED <<cert, torn>>
       \/ /\ At(n, {"remove"}, "erase") /\ Load(cert)
          /\ cert' = NoCert
          /\ \/ Stage(n, "flag") /\ UNCHANGED torn
             \/ Stage(n, "done") /\ torn' = TRUE
       \/ /\ At(n, {"remove"}, "erase") /\ ~Load(cert)
          /\ Stage(n, "done")
          /\ UNCHANGED <<cert, torn>>
    /\ UNCHANGED <<svc, row, ring, restarts, tool, vouched, suspect, hasCert>>

\* The user types the old password, which was never shown to anybody.
VaultRotates(n) ==
    /\ At(n, {"rotate"}, "vault")
    /\ cert' = handleRotatePassword(cert, 0, n)
    /\ Stage(n, "done")
    /\ UNCHANGED <<svc, row, ring, restarts, tool, vouched, suspect, hasCert, torn>>

\* The certificate's NotAfter passes.
Expire ==
    /\ Load(cert) /\ ~cert.expired
    /\ cert' = [cert EXCEPT !.expired = TRUE]
    /\ UNCHANGED <<svc, row, ring, restarts, tool, req, vouched, suspect,
                   hasCert, torn>>

-----------------------------------------------------------------------------
Init ==
    /\ CredInit
    /\ cert = handleImportCert(Earlier)
    /\ hasCert = TRUE
    /\ torn = FALSE
    /\ rekeyed = FALSE

ServerRestart ==
    /\ Restart
    /\ torn' = (torn \/ \E n \in Requests : Busy(n))
    /\ rekeyed' = (rekeyed \/ ring' # ring)
    /\ UNCHANGED <<cert, hasCert>>

\* Of the steps of Credentials, only the tool's write LoTW's row.
CredStep ==
    /\ CredNext
    /\ rekeyed' = (rekeyed \/ row'["lotw"] # row["lotw"])
    /\ UNCHANGED <<cert, hasCert, torn>>

Next ==
    \/ CredStep
    \/ ServerRestart
    \/ \E n \in Requests : storeLoTWPasswords(n)
    \/ /\ \/ \E n \in Requests :
            \/ ImportCert(n) \/ DeleteCert(n) \/ UpdateSettings(n) \/ RotatePassword(n)
            \/ VaultImports(n) \/ ImportRefused(n) \/ storeVaultPassword(n)
            \/ storeWebPassword(n) \/ StoreFails(n)
            \/ upsertHasCert(n) \/ upsertLotwCredential(n) \/ loadVaultPassword(n)
            \/ VaultDeletes(n) \/ VaultRotates(n)
          \/ Expire
       /\ UNCHANGED rekeyed

Spec == Init /\ [][Next]_vars

-----------------------------------------------------------------------------
\* A row with the secret under the key its version names is not lost, as long
\* as the operator keeps both master keys.
Kept(c) == <<c.version, c.key>> \in {<<1, "old">>, <<2, "new">>, <<1, "new">>}

\* The store of secrets as the two rows and the requests show it.
Plains == [pw : 0..Earlier, web : 0..Earlier, fmt : Formats]
Secret == [s \in Linked \union {"lotw"} |->
             IF s \notin Services \/ row[s] = NoRow THEN None
             ELSE IF Kept(row[s].cipher) THEN row[s].cipher.plain ELSE "lost"]
Asked == {n \in Requests : req[n].pc # "idle"}
Open == {n \in Requests :
           req[n].pc \in {"verify", "upsert", "check", "delete", "vault", "load",
                          "hascert", "store", "erase"}}

Abstract == INSTANCE SecretStore WITH
    Services <- Linked \union {"lotw"}, NoSecret <- None,
    secret <- Secret, asked <- Asked, open <- Open

\* The credential table with its keyring, its row locks and the rotation tool
\* implements the plain store of secrets: re-encryption (rotateBatch) never
\* brings back a secret that a save replaced meanwhile, never resurrects a
\* deleted row, and every row stays readable to a holder of both keys.
ImplementsStore == Abstract!Spec

\* A row that List shows as verified holds a secret that Save or Verify tested
\* and found good, unless another request was about to stamp the row when the
\* secret was stored, or the stamp that Save writes after its upsert did not
\* come through (UpsertCredential leaves last_verified_at as it was).  For
\* services that Save does not test the stamp says only that a save came
\* through, and nothing is claimed.
VerifiedHonest ==
    serviceRequiresVerification(svc) /\ svc \in ListVerified /\ ~suspect
            /\ ~(\E n \in Requests : At(n, {"put"}, "stamp"))
        => row[svc].cipher.plain.pw \in vouched

\* Whatever imports, deletions, web passwords, key rotations and restarts came
\* before: unless a request was cut short or two overlapped, has_cert tells
\* whether the vault has the user's certificate, and the password in the LoTW
\* row opens it until it expires.  The server can also read that password, so
\* that a sync can sign, unless the tool has re-encrypted the row, or the
\* server was given another key, since a request stored it.
CertOpens ==
    ~torn /\ ~(\E n \in Requests : Busy(n))
        => /\ hasCert <=> handleCertInfo(cert) = 200
           /\ hasCert => /\ "lotw" \in ListCredentials
                         /\ rekeyed \/ Decrypts(ring, row["lotw"].cipher)
                         /\ handleSign(cert, DecodeStoredPasswords.pw) \in {200, 400}
=============================================================================
