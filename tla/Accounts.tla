------------------------------ MODULE Accounts ------------------------------
(***************************************************************************)
(* User accounts: registration with invite keys, first logins through      *)
(* Zitadel, passwords and the login lockout, API keys, stream tokens, and  *)
(* the logbooks and memberships an account holds.                          *)
(*                                                                         *)
(* A request is served by one of Procs.  What a handler does in one        *)
(* database transaction is one step; what it reads outside of the          *)
(* transaction that uses it is a step of its own.  A step that answers     *)
(* with an error after nothing was written is the action Answer.           *)
(***************************************************************************)
EXTENDS Naturals, FiniteSets, FiniteSetsExt

CONSTANTS
    Procs,          \* requests in flight at a time
    Ids,            \* ids of users rows, drawn in increasing order
    Emails,         \* addresses
    Subjects,       \* Zitadel subjects
    Calls,          \* callsigns
    Codes,          \* invite codes
    Books,          \* ids of logbooks rows
    Tokens,         \* stream tokens
    Paths,          \* stream paths
    MaxUses,        \* max_uses of an invite
    MaxInvites,     \* maxInvitesPerUser
    MaxFailed,      \* maxFailedLoginAttempts (5)
    LockFor,        \* loginLockoutDuration (15 minutes)
    EntryTTL,       \* loginEntryTTL (30 minutes)
    MaxTime,        \* bound: ticks of the clock
    MaxRequests,    \* bound: requests served
    None

ASSUME AccountsAssumption ==
    /\ IsFiniteSet(Procs) /\ Emails # {} /\ None \notin Nat \cup Codes
    /\ Ids \subseteq Nat /\ 1 \in Ids
    /\ Books \subseteq Nat /\ Books # {}
    /\ MaxUses \in Nat \ {0} /\ MaxInvites \in Nat \ {0}
    /\ MaxFailed \in Nat \ {0} /\ LockFor \in Nat \ {0} /\ EntryTTL \in Nat

VARIABLES
    cfg,      \* AUTH_MODE and RequireInviteKey of this server
    user,     \* users rows
    inv,      \* invite_keys rows
    book,     \* logbooks rows
    role,     \* user_roles: role[b][u]
    key,      \* one API key per user
    tok,      \* the streamTokens map
    track,    \* the loginAttemptTracker map
    clock,    \* time.Now
    req,      \* the requests in flight
    served,   \* requests begun
    raced,    \* history: callsigns whose checks overlapped
    opened,   \* streams opened with a token (tokens are not issued again)
    guesses   \* history: wrong passwords tried since an address was unlocked

tables == <<user, inv, book, role, key>>
memory == <<tok, track>>
ghosts == <<raced, opened, guesses>>
vars == <<cfg, user, inv, book, role, key, tok, track, clock, req, served,
          raced, opened, guesses>>

Idle == [pc |-> "idle", by |-> None, email |-> None, sub |-> None,
         call |-> None, code |-> None, now |-> 0]
NoUser == [st |-> "none", email |-> None, sub |-> None, call |-> None,
           pw |-> FALSE, via |-> None]
NoInvite == [st |-> "none", by |-> None, uses |-> 0]
NoBook == [owner |-> None, isDefault |-> FALSE, deleted |-> FALSE]
NoToken == [by |-> None, path |-> None, exp |-> 0]
NoEntry == [count |-> 0, until |-> 0, upd |-> 0]

Live(u) == user[u].st = "live"
LiveUsers == {u \in Ids : Live(u)}

\* The account that set the server up, with its default logbook.
Init ==
    /\ cfg \in [local : BOOLEAN, invite : BOOLEAN]
    /\ user = [u \in Ids |-> IF u # 1 THEN NoUser
                 ELSE [NoUser EXCEPT !.st = "live", !.pw = cfg.local,
                                     !.email = CHOOSE e \in Emails : TRUE]]
    /\ inv = [c \in Codes |-> NoInvite]
    /\ LET b1 == Min(Books) IN
         /\ book = [b \in Books |-> IF b = b1
                      THEN [owner |-> 1, isDefault |-> TRUE, deleted |-> FALSE]
                      ELSE NoBook]
         /\ role = [b \in Books |-> [u \in Ids |->
                      IF b = b1 /\ u = 1 THEN "owner" ELSE "none"]]
    /\ key = [u \in Ids |-> "none"]
    /\ tok = [t \in Tokens |-> NoToken]
    /\ track = [e \in Emails |-> NoEntry]
    /\ clock = 1
    /\ req = [p \in Procs |-> Idle]
    /\ served = 0
    /\ raced = {}
    /\ opened = [t \in Tokens |-> 0]
    /\ guesses = [e \in Emails |-> 0]

---------------------------------------------------------------------------
(* Requests. *)

Begin(p, r) ==
    /\ req[p].pc = "idle" /\ served < MaxRequests
    /\ served' = served + 1
    /\ req' = [req EXCEPT ![p] = r]

Goto(p, r) == req' = [req EXCEPT ![p] = r] /\ served' = served
Done(p) == Goto(p, Idle)

\* A request ends with an error before it has written anything: an invalid
\* body, a failing query, a rolled back transaction, a client that is gone.
Answer(p) ==
    /\ req[p].pc # "idle" /\ Done(p)
    /\ UNCHANGED <<cfg, tables, memory, clock, ghosts>>

At(p, pc) == req[p].pc = pc
By(p) == req[p].by

---------------------------------------------------------------------------
(* Accounts are rows of users.  The address of a live one is unique, and   *)
(* zitadel_id is over all rows, those of deleted accounts too.             *)

EmailFree(e) == \A u \in LiveUsers : user[u].email # e
SubjectFree(s) == \A u \in Ids : user[u].sub # s
BySubject(s) == {u \in LiveUsers : user[u].sub = s}
FreeIds == {u \in Ids : user[u].st = "none"}
FreeBooks == {b \in Books : book[b].owner = None}
RoomForUser == FreeIds # {} /\ FreeBooks # {}

\* Mutant: the comparison with the asking account is turned round.
CallsignInUseByMe(c, but) == \E u \in LiveUsers : user[u].call = c /\ u = but

\* The live accounts that have a callsign.
Owners(c) == {u \in LiveUsers : user[u].call = c}

\* CallsignInUse reads one owner (LIMIT 1, in no order) and compares it with the
\* account asking: where both it and another are owners, either answer may come.
\* This is when the answer cannot be that the callsign is free.
CallsignInUse(c, but) == Owners(c) # {} /\ but \notin Owners(c)

\* A check of c overlaps a request that has already passed its own.
NoteOverlap(p, c) ==
    raced' = raced \cup {d \in {c} \cap Calls : \E q \in Procs \ {p} : req[q].call = d}

\* Default and other logbooks: the insert trigger makes the user the owner.
InsertBook(u, isDefault) ==
    LET b == Min(FreeBooks) IN
      /\ book' = [book EXCEPT ![b] = [owner |-> u, isDefault |-> isDefault,
                                      deleted |-> FALSE]]
      /\ role' = [role EXCEPT ![b][u] = "owner"]

CreateUser(row) ==
    /\ user' = [user EXCEPT ![Min(FreeIds)] = row]
    /\ InsertBook(Min(FreeIds), TRUE)

InviteActive(c) == inv[c].st = "open" /\ inv[c].uses < MaxUses

\* Mutant: the use count is not compared with max_uses.
ConsumeInviteUnlimited(c) ==
    IF cfg.invite
    THEN inv[c].st = "open" /\ inv' = [inv EXCEPT ![c].uses = @ + 1]
    ELSE inv' = inv

\* The conditional UPDATE that spends one use of an invite.
ConsumeInviteByCode(c) ==
    IF cfg.invite
    THEN InviteActive(c) /\ inv' = [inv EXCEPT ![c].uses = @ + 1]
    ELSE inv' = inv

\* Local mode.  The callsign is looked up before the transaction.
RegisterCheck(p, e, c, code) ==
    /\ cfg.local
    /\ (code \in Codes) = cfg.invite
    /\ c = None \/ ~CallsignInUse(c, None)
    /\ Begin(p, [Idle EXCEPT !.pc = "register", !.email = e, !.call = c,
                             !.code = code])
    /\ NoteOverlap(p, c)
    /\ UNCHANGED <<cfg, tables, memory, clock, opened, guesses>>

Register(p) ==
    /\ At(p, "register") /\ RoomForUser
    /\ EmailFree(req[p].email)
    /\ CreateUser([NoUser EXCEPT !.st = "live", !.email = req[p].email,
                     !.call = req[p].call, !.pw = TRUE, !.via = req[p].code])
    /\ ConsumeInviteByCode(req[p].code)
    /\ Done(p)
    /\ UNCHANGED <<cfg, key, memory, clock, ghosts>>

\* Zitadel mode.  A token carries a subject and an address.  GetUserByZitadelID
\* and, failing that, the link of an account that has the address only.
LinkUser(s, e) ==
    {u \in LiveUsers : user[u].email = e /\ user[u].sub = None}

LookupOrLinkUser(p, s, e) ==
    /\ ~cfg.local
    /\ IF BySubject(s) # {} THEN
         /\ \E u \in BySubject(s) :
              Begin(p, [Idle EXCEPT !.pc = "auth", !.by = u])
         /\ user' = user
       ELSE IF LinkUser(s, e) # {} THEN
         \E u \in LinkUser(s, e) :
           /\ SubjectFree(s)
           /\ user' = [user EXCEPT ![u].sub = s]
           /\ Begin(p, [Idle EXCEPT !.pc = "auth", !.by = u])
       ELSE
         /\ ~cfg.invite
         /\ Begin(p, [Idle EXCEPT !.pc = "provision", !.sub = s, !.email = e])
         /\ user' = user
    /\ UNCHANGED <<cfg, inv, book, role, key, memory, clock, ghosts>>

CreateZitadelUser(p, code) ==
    /\ RoomForUser /\ EmailFree(req[p].email) /\ SubjectFree(req[p].sub)
    /\ CreateUser([NoUser EXCEPT !.st = "live", !.email = req[p].email,
                     !.sub = req[p].sub, !.via = code])

\* The first request of a new subject creates its account.
ProvisionUser(p) ==
    /\ At(p, "provision")
    /\ CreateZitadelUser(p, None)
    /\ Goto(p, [Idle EXCEPT !.pc = "auth", !.by = Min(FreeIds)])
    /\ UNCHANGED <<cfg, inv, key, memory, clock, ghosts>>

\* ConsumeInvite looks the subject up and, in a later statement of the same
\* READ COMMITTED transaction, creates it.
ConsumeInviteLookup(p, s, e, code) ==
    /\ ~cfg.local
    /\ (code \in Codes) = cfg.invite
    /\ BySubject(s) = {}
    /\ Begin(p, [Idle EXCEPT !.pc = "consume", !.sub = s, !.email = e,
                             !.code = code])
    /\ UNCHANGED <<cfg, tables, memory, clock, ghosts>>

ConsumeInvite(p) ==
    /\ At(p, "consume")
    /\ CreateZitadelUser(p, req[p].code)
    /\ ConsumeInviteByCode(req[p].code)
    /\ Done(p)
    /\ UNCHANGED <<cfg, key, memory, clock, ghosts>>

---------------------------------------------------------------------------
(* Login and its lockout (local mode).                                     *)

\* Whether the address is locked, forgetting a lock that is over.
Locked(e) == track[e].until > clock
LockOver(e) == track[e].until # 0 /\ ~Locked(e)

LoginCheck(p, e) ==
    /\ cfg.local
    /\ ~Locked(e)
    /\ track' = IF LockOver(e)
                THEN [track EXCEPT ![e] = [@ EXCEPT !.until = 0, !.count = 0]]
                ELSE track
    /\ guesses' = IF LockOver(e) THEN [guesses EXCEPT ![e] = 0] ELSE guesses
    /\ Begin(p, [Idle EXCEPT !.pc = "login", !.email = e, !.now = clock])
    /\ UNCHANGED <<cfg, tables, tok, clock, raced, opened>>

\* A locked address only has its entry touched.
LoginRefused(p, e) ==
    /\ cfg.local /\ Locked(e)
    /\ track' = [track EXCEPT ![e].upd = clock]
    /\ Begin(p, Idle)
    /\ UNCHANGED <<cfg, tables, tok, clock, ghosts>>

\* Mutant: locks after one failure more.
AfterFailureLate(t, now) ==
    IF t.until > now THEN [t EXCEPT !.upd = now]
    ELSE IF t.count + 1 > MaxFailed
         THEN [count |-> 0, until |-> now + LockFor, upd |-> now]
         ELSE [t EXCEPT !.count = @ + 1, !.upd = now]

AfterFailure(t, now) ==
    IF t.until > now THEN [t EXCEPT !.upd = now]
    ELSE IF t.count + 1 >= MaxFailed
         THEN [count |-> 0, until |-> now + LockFor, upd |-> now]
         ELSE [t EXCEPT !.count = @ + 1, !.upd = now]

\* now is the time the request came in, before bcrypt.
RecordFailedLoginAttempt(p) ==
    LET e == req[p].email IN
      /\ At(p, "login")
      /\ track' = [track EXCEPT ![e] = AfterFailure(@, req[p].now)]
      /\ guesses' = [guesses EXCEPT ![e] = @ + 1]
      /\ Done(p)
      /\ UNCHANGED <<cfg, tables, tok, clock, raced, opened>>

LoginSucceeds(p) ==
    LET e == req[p].email IN
      /\ At(p, "login")
      /\ \E u \in LiveUsers : user[u].email = e /\ user[u].pw
      /\ track' = [track EXCEPT ![e] = NoEntry]
      /\ guesses' = [guesses EXCEPT ![e] = 0]
      /\ Done(p)
      /\ UNCHANGED <<cfg, tables, tok, clock, raced, opened>>

\* The goroutine that drops entries nobody has touched for a while.
CleanupLoginAttemptTracker(e) ==
    /\ track[e] # NoEntry
    /\ clock - track[e].upd > EntryTTL /\ track[e].until < clock
    /\ track' = [track EXCEPT ![e] = NoEntry]
    /\ guesses' = [guesses EXCEPT ![e] = 0]
    /\ UNCHANGED <<cfg, tables, tok, clock, req, served, raced, opened>>

Tick ==
    /\ clock < MaxTime
    /\ clock' = clock + 1
    /\ UNCHANGED <<cfg, tables, memory, req, served, ghosts>>

---------------------------------------------------------------------------
(* Authentication of a request by its bearer token, API key or stream      *)
(* token; what follows acts for user By(p).                                *)

\* A local JWT names a user id: the row is looked up on every request.
ValidateToken(p, u) ==
    /\ cfg.local /\ Live(u)
    /\ Begin(p, [Idle EXCEPT !.pc = "auth", !.by = u])
    /\ UNCHANGED <<cfg, tables, memory, clock, ghosts>>

\* GetAPIKeyByHash finds keys that are not revoked.
KeyFound(u) == key[u] = "open"

AuthenticateAPIKey(p, u) ==
    /\ KeyFound(u) /\ Live(u)
    /\ Begin(p, [Idle EXCEPT !.pc = "auth", !.by = u])
    /\ UNCHANGED <<cfg, tables, memory, clock, ghosts>>

IssueStreamToken(p, t, path) ==
    /\ At(p, "auth") /\ tok[t] = NoToken /\ opened[t] = 0
    /\ tok' = [tok EXCEPT ![t] = [by |-> By(p), path |-> path,
                                  exp |-> clock + 1]]
    /\ Done(p)
    /\ UNCHANGED <<cfg, tables, track, clock, ghosts>>

\* What LoadAndDelete leaves: the token is gone whatever comes next.
AfterConsume(t) == [tok EXCEPT ![t] = NoToken]

ConsumeStreamToken(p, t, path) ==
    /\ tok[t] # NoToken
    /\ tok' = AfterConsume(t)
    /\ opened' = IF clock > tok[t].exp \/ path # tok[t].path THEN opened
                 ELSE [opened EXCEPT ![t] = @ + 1]
    /\ Begin(p, Idle)
    /\ UNCHANGED <<cfg, tables, track, clock, raced, guesses>>

ExpireStreamToken(t) ==
    /\ tok[t] # NoToken /\ clock > tok[t].exp
    /\ tok' = [tok EXCEPT ![t] = NoToken]
    /\ UNCHANGED <<cfg, tables, track, clock, req, served, ghosts>>

CreateAPIKey(u) == key' = [key EXCEPT ![u] = "open"]

GenerateAPIKey(p) ==
    /\ At(p, "auth") /\ key[By(p)] = "none"
    /\ CreateAPIKey(By(p))
    /\ Done(p)
    /\ UNCHANGED <<cfg, user, inv, book, role, memory, clock, ghosts>>

RevokeKey(u) == KeyFound(u) /\ key' = [key EXCEPT ![u] = "revoked"]

RevokeAPIKey(p) ==
    /\ At(p, "auth") /\ RevokeKey(By(p))
    /\ Done(p)
    /\ UNCHANGED <<cfg, user, inv, book, role, memory, clock, ghosts>>

---------------------------------------------------------------------------
(* Invites.                                                                *)

ActiveInvites(u) == {c \in Codes : inv[c].by = u /\ InviteActive(c)}

\* The limit is checked by one statement and the key inserted by another.
CreateInviteCheck(p) ==
    /\ At(p, "auth")
    /\ Cardinality(ActiveInvites(By(p))) < MaxInvites
    /\ Goto(p, [req[p] EXCEPT !.pc = "invite"])
    /\ UNCHANGED <<cfg, tables, memory, clock, ghosts>>

CreateInviteKey(p, c) ==
    /\ At(p, "invite") /\ inv[c].st = "none"
    /\ inv' = [inv EXCEPT ![c] = [st |-> "open", by |-> By(p), uses |-> 0]]
    /\ Done(p)
    /\ UNCHANGED <<cfg, user, book, role, key, memory, clock, ghosts>>

RevokeInviteKey(p, c) ==
    /\ At(p, "auth") /\ inv[c].by = By(p) /\ inv[c].st # "revoked"
    /\ inv' = [inv EXCEPT ![c].st = "revoked"]
    /\ Done(p)
    /\ UNCHANGED <<cfg, user, book, role, key, memory, clock, ghosts>>

\* expires_at passes.
InviteExpires(c) ==
    /\ inv[c].st = "open" /\ clock = MaxTime
    /\ inv' = [inv EXCEPT ![c].st = "expired"]
    /\ UNCHANGED <<cfg, user, book, role, key, memory, clock, req, served, ghosts>>

---------------------------------------------------------------------------
(* The account itself.                                                     *)

\* The old password is verified against a hash read before the update.
ChangePasswordCheck(p) ==
    /\ At(p, "auth") /\ cfg.local /\ Live(By(p)) /\ user[By(p)].pw
    /\ Goto(p, [req[p] EXCEPT !.pc = "password"])
    /\ UNCHANGED <<cfg, tables, memory, clock, ghosts>>

UpdatePasswordHash(p) ==
    /\ At(p, "password")
    /\ user' = [user EXCEPT ![By(p)].pw = TRUE]
    /\ Done(p)
    /\ UNCHANGED <<cfg, inv, book, role, key, memory, clock, ghosts>>

UpdateProfileCheck(p, c) ==
    /\ At(p, "auth")
    /\ ~CallsignInUse(c, By(p))
    /\ Goto(p, [req[p] EXCEPT !.pc = "profile", !.call = c])
    /\ NoteOverlap(p, c)
    /\ UNCHANGED <<cfg, tables, memory, clock, opened, guesses>>

UpdateProfile(p) ==
    /\ At(p, "profile") /\ Live(By(p))
    /\ user' = [user EXCEPT ![By(p)].call = req[p].call]
    /\ Done(p)
    /\ UNCHANGED <<cfg, inv, book, role, key, memory, clock, ghosts>>

\* The row is kept; logbooks, roles, keys and invites are left as they are.
DeleteMe(p) ==
    /\ At(p, "auth") /\ Live(By(p))
    /\ user' = [user EXCEPT ![By(p)].st = "gone"]
    /\ Done(p)
    /\ UNCHANGED <<cfg, inv, book, role, key, memory, clock, ghosts>>

---------------------------------------------------------------------------
(* Logbooks and members, through the row level security of the API role.   *)

Rank(r) == CASE r = "owner" -> 5 [] r = "admin" -> 4 [] r = "operator" -> 3
             [] r = "contributor" -> 2 [] r = "viewer" -> 1 [] OTHER -> 0

HasMinRole(b, u, r) == Rank(role[b][u]) >= Rank(r)

\* users_self: a request sees no row of users but its own.
UsersVisible(u) == {u}

\* logbooks_select, for a row that is or would become row.
BookVisible(b, row, u) ==
    ~row.deleted /\ (row.owner = u \/ HasMinRole(b, u, "viewer"))

\* RequireLogbookPermission of the routes, by the least role that has it.
MayUpdate(b, u) == HasMinRole(b, u, "admin")
MayOwn(b, u) == HasMinRole(b, u, "owner")

\* A unique index allows one live default logbook per user.
ClearDefault(bk, u, but) ==
    [b \in Books |-> IF bk[b].owner = u /\ b # but
                     THEN [bk[b] EXCEPT !.isDefault = FALSE] ELSE bk[b]]

CreateLogbook(p, isDefault) ==
    /\ At(p, "auth") /\ FreeBooks # {}
    /\ LET b == Min(FreeBooks)
           u == By(p)
           cleared == IF isDefault THEN ClearDefault(book, u, b) ELSE book
       IN /\ book' = [cleared EXCEPT ![b] = [owner |-> u,
                        isDefault |-> isDefault, deleted |-> FALSE]]
          /\ role' = [role EXCEPT ![b][u] = "owner"]
    /\ Done(p)
    /\ UNCHANGED <<cfg, user, inv, key, memory, clock, ghosts>>

\* The row UpdateLogbook leaves: name and callsign are not modelled.
UpdatedBook(bk, b, isDefault) == [bk EXCEPT ![b].isDefault = isDefault]

\* PUT replaces the flag: a body that leaves is_default out clears it.
UpdateLogbook(p, b, isDefault) ==
    /\ At(p, "auth") /\ MayUpdate(b, By(p))
    /\ BookVisible(b, book[b], By(p))
    /\ LET cleared == IF isDefault THEN ClearDefault(book, book[b].owner, b)
                      ELSE book
       IN book' = UpdatedBook(cleared, b, isDefault)
    /\ Done(p)
    /\ UNCHANGED <<cfg, user, inv, role, key, memory, clock, ghosts>>

DeletedBook(b) == [book[b] EXCEPT !.deleted = TRUE, !.isDefault = FALSE]

\* The soft delete is an UPDATE ... RETURNING, whose new row logbooks_select
\* has to admit as well.
DeleteLogbook(p, b) ==
    /\ At(p, "auth") /\ MayOwn(b, By(p))
    /\ book' = IF BookVisible(b, DeletedBook(b), By(p))
               THEN [book EXCEPT ![b] = DeletedBook(b)] ELSE book
    /\ Done(p)
    /\ UNCHANGED <<cfg, user, inv, role, key, memory, clock, ghosts>>

\* GetLogbookMemberByUserUUID: the role of a member whose users row the
\* request can see.
MemberRole(b, u, by) ==
    IF u \in UsersVisible(by) /\ Live(u) THEN role[b][u] ELSE "none"

\* The four handlers read the member and then write the role; all of them
\* refuse to touch an owner, and none but Invite finds somebody without a role.
Changeable(b, u, by) == MemberRole(b, u, by) \notin {"none", "owner"}
Invitable(b, u, by) ==
    u \in UsersVisible(by) /\ Live(u) /\ MemberRole(b, u, by) # "owner"

\* The statements: delete, upsert, update, and the two of a transfer.
WithoutMember(b, u) == [role EXCEPT ![b][u] = "none"]
UpsertedMember(b, u, r) == [role EXCEPT ![b][u] = r]
UpdatedMember(b, u, r) == [role EXCEPT ![b][u] = r]
TransferredRoles(b, from, to) ==
    [role EXCEPT ![b][to] = "owner", ![b][from] = "admin"]
TransferredBook(b, to) ==
    [book EXCEPT ![b].owner = to, ![b].isDefault = FALSE]

RemoveMember(p, b, u) ==
    /\ At(p, "auth") /\ MayUpdate(b, By(p))
    /\ role' = IF Changeable(b, u, By(p))
               THEN WithoutMember(b, u) ELSE role
    /\ Done(p)
    /\ UNCHANGED <<cfg, user, inv, book, key, memory, clock, ghosts>>

InviteMember(p, b, u, r) ==
    /\ At(p, "auth") /\ MayUpdate(b, By(p))
    /\ role' = IF Invitable(b, u, By(p)) THEN UpsertedMember(b, u, r) ELSE role
    /\ Done(p)
    /\ UNCHANGED <<cfg, user, inv, book, key, memory, clock, ghosts>>

UpdateMemberRole(p, b, u, r) ==
    /\ At(p, "auth") /\ MayUpdate(b, By(p))
    /\ role' = IF Changeable(b, u, By(p)) THEN UpdatedMember(b, u, r) ELSE role
    /\ Done(p)
    /\ UNCHANGED <<cfg, user, inv, book, key, memory, clock, ghosts>>

TransferOwnership(p, b, u) ==
    /\ At(p, "auth") /\ MayOwn(b, By(p))
    /\ role' = IF Changeable(b, u, By(p))
               THEN TransferredRoles(b, By(p), u) ELSE role
    /\ book' = IF Changeable(b, u, By(p))
               THEN TransferredBook(b, u) ELSE book
    /\ Done(p)
    /\ UNCHANGED <<cfg, user, inv, key, memory, clock, ghosts>>

---------------------------------------------------------------------------
Unauthenticated(p) ==
    \/ \E e \in Emails, c \in Calls \cup {None}, code \in Codes \cup {None} :
         RegisterCheck(p, e, c, code)
    \/ Register(p)
    \/ \E s \in Subjects, e \in Emails : LookupOrLinkUser(p, s, e)
    \/ ProvisionUser(p)
    \/ \E s \in Subjects, e \in Emails, code \in Codes \cup {None} :
         ConsumeInviteLookup(p, s, e, code)
    \/ ConsumeInvite(p)
    \/ \E e \in Emails : LoginCheck(p, e) \/ LoginRefused(p, e)
    \/ RecordFailedLoginAttempt(p) \/ LoginSucceeds(p)
    \/ \E u \in Ids : ValidateToken(p, u) \/ AuthenticateAPIKey(p, u)
    \/ \E t \in Tokens, path \in Paths : ConsumeStreamToken(p, t, path)

Authenticated(p) ==
    \/ \E t \in Tokens, path \in Paths : IssueStreamToken(p, t, path)
    \/ GenerateAPIKey(p) \/ RevokeAPIKey(p)
    \/ CreateInviteCheck(p)
    \/ \E c \in Codes : CreateInviteKey(p, c) \/ RevokeInviteKey(p, c)
    \/ ChangePasswordCheck(p) \/ UpdatePasswordHash(p)
    \/ \E c \in Calls : UpdateProfileCheck(p, c)
    \/ UpdateProfile(p) \/ DeleteMe(p)
    \/ \E d \in BOOLEAN : CreateLogbook(p, d)
    \/ \E b \in Books :
         \/ \E d \in BOOLEAN : UpdateLogbook(p, b, d)
         \/ DeleteLogbook(p, b)
         \/ \E u \in Ids :
              \/ RemoveMember(p, b, u) \/ TransferOwnership(p, b, u)
              \/ \E r \in {"admin", "viewer"} :
                   InviteMember(p, b, u, r) \/ UpdateMemberRole(p, b, u, r)

Next ==
    \/ \E p \in Procs : Unauthenticated(p) \/ Authenticated(p) \/ Answer(p)
    \/ \E e \in Emails : CleanupLoginAttemptTracker(e)
    \/ \E t \in Tokens : ExpireStreamToken(t)
    \/ \E c \in Codes : InviteExpires(c)
    \/ Tick

Spec == Init /\ [][Next]_vars

---------------------------------------------------------------------------
(* Properties. *)

\* Every use of an invite is one account, and none is used more often than
\* max_uses: a registration that fails, or loses a race for the address, the
\* subject or the last use, rolls its use back.
InviteSpent ==
    cfg.invite => \A c \in Codes :
        /\ inv[c].uses = Cardinality({u \in Ids : user[u].via = c})
        /\ inv[c].uses <= MaxUses

\* However many logins of an address overlap, the lockout lets through at
\* most MaxFailed wrong passwords and, for each further login in flight, the
\* one it was already trying when the lock began: the check of the lock and
\* the record of the failure are apart by a query and a bcrypt comparison.
GuessesBounded ==
    \A e \in Emails : guesses[e] <= MaxFailed + Cardinality(Procs) - 1

\* Two live accounts have the same callsign only when the check of one
\* passed while a request of another that had passed it was in flight: users
\* has no unique index on callsign.
CallsignsCollideOnlyInRace ==
    \A u, v \in LiveUsers :
        u # v /\ user[u].call = user[v].call /\ user[u].call # None
            => user[u].call \in raced
=============================================================================
