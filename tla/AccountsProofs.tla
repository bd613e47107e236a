--------------------------- MODULE AccountsProofs ---------------------------
(***************************************************************************)
(* Proofs about Accounts, for every number of requests at a time and in    *)
(* all, and every set of users, addresses, codes and callsigns: an invite  *)
(* is spent once per account, the lockout bounds the wrong passwords, and  *)
(* two accounts share a callsign only where two checks overlapped.         *)
(***************************************************************************)
EXTENDS Accounts, FiniteSetTheorems, WellFoundedInduction, TLAPS

-----------------------------------------------------------------------------
(* Types. *)

Roles == {"owner", "admin", "viewer", "none"}
UserRows == [st : {"none", "live", "gone"}, email : Emails \cup {None},
             sub : Subjects \cup {None}, call : Calls \cup {None}, pw : BOOLEAN,
             via : Codes \cup {None}]
InviteRows == [st : {"none", "open", "revoked", "expired"}, by : Ids \cup {None}, uses : Nat]
BookRows == [owner : Ids \cup {None}, isDefault : BOOLEAN, deleted : BOOLEAN]
TokenRows == [by : Ids \cup {None}, path : Paths \cup {None}, exp : Nat]
Entries == [count : Nat, until : Nat, upd : Nat]
Steps == {"idle", "register", "provision", "consume", "login", "auth", "invite", "password",
          "profile"}

\* A request that acts for a user has one, one that creates or logs in a
\* user has an address, and only the two that write a callsign carry one.
ReqRows == [pc : Steps, by : Ids \cup {None}, email : Emails \cup {None},
            sub : Subjects \cup {None}, call : Calls \cup {None}, code : Codes \cup {None},
            now : Nat]
Reqs == {r \in ReqRows :
            /\ r.pc \in {"auth", "invite", "password", "profile"} => r.by \in Ids
            /\ r.pc \in {"register", "provision", "consume", "login"} => r.email \in Emails
            /\ r.call # None => r.pc \in {"register", "profile"}
            /\ r.pc = "register" => r.by = None}

TypeOK ==
    /\ cfg \in [local : BOOLEAN, invite : BOOLEAN]
    /\ user \in [Ids -> UserRows]
    /\ inv \in [Codes -> InviteRows]
    /\ book \in [Books -> BookRows]
    /\ role \in [Books -> [Ids -> Roles]]
    /\ key \in [Ids -> {"none", "open", "revoked"}]
    /\ tok \in [Tokens -> TokenRows]
    /\ track \in [Emails -> Entries]
    /\ req \in [Procs -> Reqs]
    /\ clock \in Nat /\ served \in Nat
    /\ raced \subseteq Calls
    /\ opened \in [Tokens -> Nat]
    /\ guesses \in [Emails -> Nat]

-----------------------------------------------------------------------------
(***************************************************************************)
(* The inductive invariant.                                                *)
(***************************************************************************)

\* The accounts made with a code are as many as its uses; a request that is
\* about to spend one has a code where the server asks for it.
Via(c) == {u \in Ids : user[u].via = c}
NewIsUnused ==
    /\ \A u \in Ids : user[u].st = "none" => user[u].via = None
    /\ \A c \in Codes : inv[c].st = "none" => inv[c].uses = 0
Spent(c) == /\ IsFiniteSet(Via(c)) /\ Cardinality(Via(c)) = inv[c].uses
            /\ inv[c].uses <= MaxUses
InviteInv ==
    /\ NewIsUnused
    /\ cfg.invite => \A c \in Codes : Spent(c)
    /\ cfg.invite => \A p \in Procs : req[p].pc \in {"register", "consume"} => req[p].code \in Codes

\* Without a lock, the tracker has counted every guess.  Under a lock, also
\* one that is over but not yet forgotten, no new login is admitted: what may
\* still come are the logins under way.
Trying(e) == {p \in Procs : req[p].pc = "login" /\ req[p].email = e}
LockInv ==
    \A e \in Emails :
        /\ track[e].until = 0 => guesses[e] = track[e].count /\ track[e].count < MaxFailed
        /\ track[e].until # 0 =>
             guesses[e] + Cardinality(Trying(e)) <= MaxFailed + Cardinality(Procs) - 1

\* What a request found when it looked its callsign up still holds, unless
\* two of them overlapped.
CheckStands ==
    \A p \in Procs : req[p].call # None /\ req[p].call \notin raced =>
        \A u \in LiveUsers : user[u].call = req[p].call => u = req[p].by
PairsRaced ==
    \A p, q \in Procs : p # q /\ req[p].call = req[q].call /\ req[p].call # None =>
        req[p].call \in raced
CallInv == CheckStands /\ PairsRaced /\ CallsignsCollideOnlyInRace

AccountsInv == TypeOK /\ InviteInv /\ LockInv /\ CallInv

-----------------------------------------------------------------------------
LEMMA MinIsIn ==
    ASSUME NEW S \in SUBSET Nat, S # {}
    PROVE  Min(S) \in S
  <1>1. PICK x \in S : \A y \in S : ~(<<y, x>> \in OpToRel(<, Nat))
    BY WFMin, NatLessThanWellFounded, Zenon
  <1>2. \A y \in S : ~(y < x)
    BY <1>1, Zenon DEF OpToRel
  <1>3. \A y \in S : x <= y
    BY <1>2
  <1> QED BY <1>3 DEF Min

LEMMA Bounds ==
    /\ MaxUses \in Nat /\ 0 < MaxUses /\ MaxFailed \in Nat /\ 0 < MaxFailed
    /\ LockFor \in Nat /\ 0 < LockFor
    /\ IsFiniteSet(Procs) /\ Cardinality(Procs) \in Nat
  <1>1. MaxUses \in Nat \ {0} /\ MaxFailed \in Nat \ {0} /\ LockFor \in Nat \ {0}
    BY AccountsAssumption
  <1>2. IsFiniteSet(Procs)
    BY AccountsAssumption
  <1> QED BY <1>1, <1>2, FS_CardinalityType

LEMMA FreeFound ==
    /\ FreeIds # {} => Min(FreeIds) \in FreeIds
    /\ FreeBooks # {} => Min(FreeBooks) \in FreeBooks
    /\ Min(Books) \in Books
  <1>1. FreeIds \in SUBSET Nat /\ FreeBooks \in SUBSET Nat /\ Books \in SUBSET Nat
    BY AccountsAssumption DEF FreeIds, FreeBooks
  <1> QED BY <1>1, MinIsIn, AccountsAssumption

LEMMA IdleType == Idle \in Reqs /\ Idle.call = None /\ Idle.pc = "idle" /\ Idle.by = None
  BY DEF Idle, Reqs, ReqRows, Steps

LEMMA InitInv == Init => AccountsInv
  <1> SUFFICES ASSUME Init PROVE AccountsInv
    OBVIOUS
  <1> USE DEF Init
  <1>1. PICK e1 \in Emails : e1 = CHOOSE e \in Emails : TRUE
    BY AccountsAssumption
  <1>2. NoUser \in UserRows /\ NoUser.via = None /\ NoUser.st = "none" /\ NoUser.call = None
    BY DEF NoUser, UserRows
  <1>3. PICK first : first = [NoUser EXCEPT !.st = "live", !.pw = cfg.local, !.email = e1]
    OBVIOUS
  <1>4. first \in UserRows /\ first.via = None /\ first.st = "live" /\ first.call = None
    BY <1>3 DEF NoUser, UserRows
  <1>5. user = [u \in Ids |-> IF u # 1 THEN NoUser ELSE first]
    BY <1>1, <1>3
  <1>6. \A u \in Ids : user[u] \in UserRows /\ user[u].via = None /\ user[u].call = None
    BY <1>2, <1>4, <1>5
  <1>7. TypeOK
    <2>1. user \in [Ids -> UserRows]
      BY <1>2, <1>4, <1>5
    <2>2. inv \in [Codes -> InviteRows] /\ tok \in [Tokens -> TokenRows]
      BY DEF NoInvite, InviteRows, NoToken, TokenRows
    <2>3. track \in [Emails -> Entries]
      BY DEF NoEntry, Entries
    <2>4. book \in [Books -> BookRows]
      <3>1. NoBook \in BookRows /\ [owner |-> 1, isDefault |-> TRUE, deleted |-> FALSE] \in BookRows
        BY AccountsAssumption DEF NoBook, BookRows
      <3> QED BY <3>1
    <2>5. role \in [Books -> [Ids -> Roles]]
      BY DEF Roles
    <2> QED BY <2>1, <2>2, <2>3, <2>4, <2>5, IdleType DEF TypeOK
  <1>8. InviteInv
    <2>1. NewIsUnused
      BY <1>6 DEF NewIsUnused, NoInvite
    <2>2. ASSUME NEW c \in Codes PROVE Spent(c)
      <3>1. Via(c) = {}
        BY <1>6, AccountsAssumption DEF Via
      <3>2. inv[c].uses = 0
        BY DEF NoInvite
      <3>3. IsFiniteSet({}) /\ Cardinality({}) = 0
        BY FS_EmptySet
      <3>4. IsFiniteSet(Via(c)) /\ Cardinality(Via(c)) = 0
        BY <3>1, <3>3, Zenon
      <3>5. inv[c].uses <= MaxUses
        <4>1. 0 <= MaxUses
          BY ONLY Bounds
        <4> QED BY <3>2, <4>1, Zenon
      <3> QED BY <3>2, <3>4, <3>5, Zenon DEF Spent
    <2> QED BY <2>1, <2>2, IdleType DEF InviteInv
  <1>9. LockInv
    BY Bounds DEF LockInv, NoEntry
  <1>10. CallInv
    BY <1>6, IdleType DEF CallInv, CheckStands, PairsRaced, CallsignsCollideOnlyInRace, LiveUsers
  <1> QED BY <1>7, <1>8, <1>9, <1>10 DEF AccountsInv

-----------------------------------------------------------------------------
(***************************************************************************)
(* What each part of the invariant asks of a step that does not concern    *)
(* it.                                                                     *)
(***************************************************************************)
LEMMA InviteQuiet ==
    ASSUME InviteInv, cfg' = cfg,
           \A u \in Ids : /\ user'[u].via = user[u].via
                          /\ user'[u].st = "none" => user[u].st = "none",
           \A c \in Codes : /\ inv'[c].uses = inv[c].uses
                            /\ inv'[c].st = "none" => inv[c].st = "none",
           \A p \in Procs : req'[p].pc \in {"register", "consume"} /\ cfg.invite =>
                req'[p] = req[p] \/ req'[p].code \in Codes
    PROVE  InviteInv'
  <1>1. NewIsUnused'
    BY DEF InviteInv, NewIsUnused
  <1>2. ASSUME NEW c \in Codes, cfg.invite PROVE Spent(c)'
    <2>1. \A u \in Ids : user'[u].via = c <=> user[u].via = c
      OBVIOUS
    <2>2. Via(c)' = Via(c)
      BY <2>1 DEF Via
    <2> QED BY <1>2, <2>2 DEF InviteInv, Spent
  <1>3. ASSUME NEW p \in Procs, req'[p].pc \in {"register", "consume"}, cfg.invite
        PROVE  req'[p].code \in Codes
    BY <1>3 DEF InviteInv
  <1> QED BY <1>1, <1>2, <1>3 DEF InviteInv

LEMMA LockQuiet ==
    ASSUME TypeOK, LockInv,
           \A e \in Emails :
             \/ /\ track'[e].until = track[e].until /\ track'[e].count = track[e].count
                /\ guesses'[e] = guesses[e]
             \/ track'[e].until = 0 /\ track'[e].count = 0 /\ guesses'[e] = 0,
           \A p \in Procs : req'[p].pc = "login" => req'[p] = req[p]
    PROVE  LockInv'
  <1> SUFFICES ASSUME NEW e \in Emails
               PROVE  /\ track'[e].until = 0 => guesses'[e] = track'[e].count /\ track'[e].count < MaxFailed
                      /\ track'[e].until # 0 =>
                           guesses'[e] + Cardinality(Trying(e)') <= MaxFailed + Cardinality(Procs) - 1
    BY DEF LockInv
  <1>1. CASE track'[e].until = 0 /\ track'[e].count = 0 /\ guesses'[e] = 0
    BY <1>1, Bounds
  <1>2. CASE /\ track'[e].until = track[e].until /\ track'[e].count = track[e].count
             /\ guesses'[e] = guesses[e]
    <2>1. Trying(e)' \subseteq Trying(e) /\ Trying(e) \subseteq Procs
      BY DEF Trying
    <2>2. IsFiniteSet(Trying(e))
      BY <2>1, Bounds, FS_Subset
    <2>3. /\ Cardinality(Trying(e)') <= Cardinality(Trying(e))
          /\ Cardinality(Trying(e)) \in Nat /\ Cardinality(Trying(e)') \in Nat
      BY <2>1, <2>2, FS_Subset, FS_CardinalityType
    <2>4. guesses[e] \in Nat
      BY DEF TypeOK
    <2>5. /\ track[e].until = 0 => guesses[e] = track[e].count /\ track[e].count < MaxFailed
          /\ track[e].until # 0 =>
               guesses[e] + Cardinality(Trying(e)) <= MaxFailed + Cardinality(Procs) - 1
      BY DEF LockInv
    <2> HIDE DEF Trying
    <2> QED BY <1>2, <2>3, <2>4, <2>5, Bounds
  <1> QED BY <1>1, <1>2

LEMMA CallQuiet ==
    ASSUME CallInv, \A c \in raced : c \in raced',
           \A u \in Ids : /\ user'[u].call = user[u].call
                          /\ user'[u].st = "live" => user[u].st = "live",
           \A p \in Procs : req'[p].call # None =>
                req'[p].call = req[p].call /\ req'[p].by = req[p].by
    PROVE  CallInv'
  <1>1. \A u \in LiveUsers' : u \in LiveUsers /\ user'[u].call = user[u].call
    BY DEF LiveUsers, Live
  <1>2. CheckStands'
    BY <1>1 DEF CallInv, CheckStands
  <1>3. PairsRaced'
    BY DEF CallInv, PairsRaced
  <1>4. CallsignsCollideOnlyInRace'
    BY <1>1 DEF CallInv, CallsignsCollideOnlyInRace
  <1> QED BY <1>2, <1>3, <1>4 DEF CallInv

\* The request that a step leaves behind.
LEMMA ReqStep ==
    ASSUME TypeOK, NEW p \in Procs, NEW r \in Reqs, Begin(p, r) \/ Goto(p, r)
    PROVE  /\ req' \in [Procs -> Reqs] /\ served' \in Nat
           /\ req'[p] = r /\ \A q \in Procs : q # p => req'[q] = req[q]
  BY DEF TypeOK, Begin, Goto

\* A step that neither starts nor ends a registration, a login or a change of
\* callsign, and leaves the users and the uses of the invites alone.
Plain(r) == r.call = None /\ r.pc \notin {"login", "register", "consume"}
LEMMA PlainStep ==
    ASSUME AccountsInv, TypeOK', UNCHANGED <<cfg, raced>>,
           \A u \in Ids : /\ user'[u].via = user[u].via /\ user'[u].call = user[u].call
                          /\ user'[u].st = user[u].st \/ user'[u].st = "gone",
           \A c \in Codes : /\ inv'[c].uses = inv[c].uses
                            /\ inv'[c].st = "none" => inv[c].st = "none",
           \A p \in Procs : req'[p] = req[p] \/ Plain(req'[p]),
           \A e \in Emails :
             \/ /\ track'[e].until = track[e].until /\ track'[e].count = track[e].count
                /\ guesses'[e] = guesses[e]
             \/ track'[e].until = 0 /\ track'[e].count = 0 /\ guesses'[e] = 0
    PROVE  AccountsInv'
  <1>1. InviteInv'
    <2>1. \A u \in Ids : /\ user'[u].via = user[u].via
                         /\ user'[u].st = "none" => user[u].st = "none"
      OBVIOUS
    <2>2. \A p \in Procs : req'[p].pc \in {"register", "consume"} /\ cfg.invite =>
                req'[p] = req[p] \/ req'[p].code \in Codes
      BY DEF Plain
    <2> QED BY <2>1, <2>2, InviteQuiet DEF AccountsInv
  <1>2. LockInv'
    <2>1. \A p \in Procs : req'[p].pc = "login" => req'[p] = req[p]
      BY DEF Plain
    <2> QED BY <2>1, LockQuiet DEF AccountsInv
  <1>3. CallInv'
    <2>1. \A p \in Procs : req'[p].call # None =>
                req'[p].call = req[p].call /\ req'[p].by = req[p].by
      BY DEF Plain
    <2>2. \A u \in Ids : /\ user'[u].call = user[u].call
                         /\ user'[u].st = "live" => user[u].st = "live"
      OBVIOUS
    <2> QED BY <2>1, <2>2, CallQuiet DEF AccountsInv
  <1> QED BY <1>1, <1>2, <1>3 DEF AccountsInv

-----------------------------------------------------------------------------
(***************************************************************************)
(* Steps that touch neither users, invites nor the tracker.                *)
(***************************************************************************)
LEMMA QuietStep ==
    ASSUME AccountsInv, NEW p \in Procs, NEW r \in Reqs, Plain(r), Begin(p, r) \/ Goto(p, r),
           UNCHANGED <<cfg, user, inv, track, clock, raced, guesses>>,
           book' \in [Books -> BookRows], role' \in [Books -> [Ids -> Roles]],
           key' \in [Ids -> {"none", "open", "revoked"}],
           tok' \in [Tokens -> TokenRows], opened' \in [Tokens -> Nat]
    PROVE  AccountsInv'
  <1>1. TypeOK
    BY DEF AccountsInv
  <1>2. /\ req' \in [Procs -> Reqs] /\ served' \in Nat
        /\ req'[p] = r /\ \A q \in Procs : q # p => req'[q] = req[q]
    BY <1>1, ReqStep
  <1>3. TypeOK'
    BY <1>1, <1>2 DEF TypeOK
  <1>4. \A q \in Procs : req'[q] = req[q] \/ Plain(req'[q])
    BY <1>2
  <1> QED BY <1>3, <1>4, PlainStep

\* Requests that act for a user.
ForUser(u) == [Idle EXCEPT !.pc = "auth", !.by = u]
LEMMA AuthType ==
    /\ Plain(Idle)
    /\ \A u \in Ids : ForUser(u) \in Reqs /\ Plain(ForUser(u))
    /\ \A r \in Reqs, s \in {"invite", "password"} : r.pc = "auth" =>
         [r EXCEPT !.pc = s] \in Reqs /\ Plain([r EXCEPT !.pc = s]) /\ r.by \in Ids
  <1>1. Plain(Idle)
    BY DEF Plain, Idle
  <1>2. ASSUME NEW u \in Ids PROVE ForUser(u) \in Reqs /\ Plain(ForUser(u))
    BY DEF ForUser, Plain, Idle, Reqs, ReqRows, Steps
  <1>3. ASSUME NEW r \in Reqs, NEW s \in {"invite", "password"}, r.pc = "auth"
        PROVE  [r EXCEPT !.pc = s] \in Reqs /\ Plain([r EXCEPT !.pc = s]) /\ r.by \in Ids
    BY <1>3 DEF Plain, Reqs, ReqRows, Steps
  <1> QED BY <1>1, <1>2, <1>3

LEMMA AuthSteps ==
    ASSUME AccountsInv, NEW p \in Procs,
           \/ Answer(p) \/ CreateInviteCheck(p) \/ ChangePasswordCheck(p)
           \/ \E u \in Ids : ValidateToken(p, u) \/ AuthenticateAPIKey(p, u)
    PROVE  AccountsInv'
  <1>1. TypeOK /\ req[p] \in Reqs
    BY DEF AccountsInv, TypeOK
  <1>2. UNCHANGED <<cfg, tables, memory, clock, ghosts>>
    BY DEF Answer, CreateInviteCheck, ChangePasswordCheck, ValidateToken, AuthenticateAPIKey
  <1>3. /\ UNCHANGED <<cfg, user, inv, track, clock, raced, guesses>>
        /\ book' \in [Books -> BookRows] /\ role' \in [Books -> [Ids -> Roles]]
        /\ key' \in [Ids -> {"none", "open", "revoked"}]
        /\ tok' \in [Tokens -> TokenRows] /\ opened' \in [Tokens -> Nat]
    BY <1>1, <1>2 DEF TypeOK, tables, memory, ghosts
  <1>4. \E r \in Reqs : Plain(r) /\ (Begin(p, r) \/ Goto(p, r))
    <2>1. CASE Answer(p)
      BY <2>1, IdleType, AuthType DEF Answer, Done
    <2>2. CASE CreateInviteCheck(p)
      <3>1. req[p].pc = "auth" /\ Goto(p, [req[p] EXCEPT !.pc = "invite"])
        BY <2>2 DEF CreateInviteCheck, At
      <3> QED BY <1>1, <3>1, AuthType
    <2>3. CASE ChangePasswordCheck(p)
      <3>1. req[p].pc = "auth" /\ Goto(p, [req[p] EXCEPT !.pc = "password"])
        BY <2>3 DEF ChangePasswordCheck, At
      <3> QED BY <1>1, <3>1, AuthType
    <2>4. CASE \E u \in Ids : ValidateToken(p, u) \/ AuthenticateAPIKey(p, u)
      <3>1. PICK u \in Ids : Begin(p, ForUser(u))
        BY <2>4 DEF ValidateToken, AuthenticateAPIKey, ForUser
      <3> QED BY <3>1, AuthType
    <2> QED BY <2>1, <2>2, <2>3, <2>4
  <1> QED BY <1>3, <1>4, QuietStep

\* A request ends and may have written logbooks, roles, keys or tokens.
LEMMA Ends ==
    ASSUME AccountsInv, NEW p \in Procs, Done(p) \/ Begin(p, Idle),
           UNCHANGED <<cfg, user, inv, track, clock, raced, guesses>>,
           book' \in [Books -> BookRows], role' \in [Books -> [Ids -> Roles]],
           key' \in [Ids -> {"none", "open", "revoked"}],
           tok' \in [Tokens -> TokenRows], opened' \in [Tokens -> Nat]
    PROVE  AccountsInv'
  BY QuietStep, IdleType, AuthType DEF Done

LEMMA ByType ==
    ASSUME TypeOK, NEW p \in Procs
    PROVE  /\ req[p] \in Reqs
           /\ req[p].pc \in {"auth", "invite", "password", "profile"} => By(p) \in Ids
  BY DEF TypeOK, Reqs, By

LEMMA TokenSteps ==
    ASSUME AccountsInv, NEW p \in Procs,
           \E t \in Tokens, path \in Paths :
             ConsumeStreamToken(p, t, path) \/ IssueStreamToken(p, t, path)
    PROVE  AccountsInv'
  <1>1. TypeOK
    BY DEF AccountsInv
  <1>2. PICK t \in Tokens, path \in Paths :
            ConsumeStreamToken(p, t, path) \/ IssueStreamToken(p, t, path)
    OBVIOUS
  <1>3. /\ book' \in [Books -> BookRows] /\ role' \in [Books -> [Ids -> Roles]]
        /\ key' \in [Ids -> {"none", "open", "revoked"}]
        /\ UNCHANGED <<cfg, user, inv, track, clock, raced, guesses>>
        /\ Done(p) \/ Begin(p, Idle)
    BY <1>1, <1>2 DEF TypeOK, ConsumeStreamToken, IssueStreamToken, tables, ghosts
  <1>4. tok' \in [Tokens -> TokenRows]
    <2>1. CASE ConsumeStreamToken(p, t, path)
      <3>1. NoToken \in TokenRows
        BY DEF NoToken, TokenRows
      <3> QED BY <1>1, <2>1, <3>1 DEF TypeOK, ConsumeStreamToken, AfterConsume
    <2>2. CASE IssueStreamToken(p, t, path)
      <3>1. [by |-> By(p), path |-> path, exp |-> clock + 1] \in TokenRows
        BY <1>1, <2>2, ByType DEF TypeOK, TokenRows, IssueStreamToken, At
      <3> QED BY <1>1, <2>2, <3>1 DEF TypeOK, IssueStreamToken
    <2> QED BY <1>2, <2>1, <2>2
  <1>5. opened' \in [Tokens -> Nat]
    BY <1>1, <1>2 DEF TypeOK, ConsumeStreamToken, IssueStreamToken, ghosts
  <1> QED BY <1>3, <1>4, <1>5, Ends

LEMMA KeySteps ==
    ASSUME AccountsInv, NEW p \in Procs, GenerateAPIKey(p) \/ RevokeAPIKey(p)
    PROVE  AccountsInv'
  <1>1. TypeOK
    BY DEF AccountsInv
  <1>2. /\ UNCHANGED <<cfg, user, inv, book, role, memory, clock, ghosts>> /\ Done(p)
        /\ key' = [key EXCEPT ![By(p)] = "open"] \/ key' = [key EXCEPT ![By(p)] = "revoked"]
    BY DEF GenerateAPIKey, RevokeAPIKey, CreateAPIKey, RevokeKey
  <1>3. /\ book' \in [Books -> BookRows] /\ role' \in [Books -> [Ids -> Roles]]
        /\ key' \in [Ids -> {"none", "open", "revoked"}]
        /\ tok' \in [Tokens -> TokenRows] /\ opened' \in [Tokens -> Nat]
        /\ UNCHANGED <<cfg, user, inv, track, clock, raced, guesses>>
    BY <1>1, <1>2 DEF TypeOK, memory, ghosts
  <1> QED BY <1>2, <1>3, Ends

LEMMA BookTypes ==
    ASSUME TypeOK
    PROVE  /\ \A u \in Ids, d \in BOOLEAN :
                [owner |-> u, isDefault |-> d, deleted |-> FALSE] \in BookRows
           /\ \A u, but : ClearDefault(book, u, but) \in [Books -> BookRows]
           /\ \A b \in Books, u \in Ids, r \in Roles :
                [role EXCEPT ![b][u] = r] \in [Books -> [Ids -> Roles]]
  <1>1. ASSUME NEW u \in Ids, NEW d \in BOOLEAN
        PROVE  [owner |-> u, isDefault |-> d, deleted |-> FALSE] \in BookRows
    BY DEF BookRows
  <1>2. \A row \in BookRows : [row EXCEPT !.isDefault = FALSE] \in BookRows
    BY DEF BookRows
  <1>3. ASSUME NEW u, NEW but PROVE ClearDefault(book, u, but) \in [Books -> BookRows]
    BY <1>2 DEF TypeOK, ClearDefault
  <1>4. ASSUME NEW b \in Books, NEW u \in Ids, NEW r \in Roles
        PROVE  [role EXCEPT ![b][u] = r] \in [Books -> [Ids -> Roles]]
    BY DEF TypeOK
  <1> QED BY <1>1, <1>3, <1>4

LEMMA LogbookSteps ==
    ASSUME AccountsInv, NEW p \in Procs,
           \/ \E d \in BOOLEAN : CreateLogbook(p, d)
           \/ \E b \in Books : DeleteLogbook(p, b) \/ \E d \in BOOLEAN : UpdateLogbook(p, b, d)
    PROVE  AccountsInv'
  <1>1. TypeOK
    BY DEF AccountsInv
  <1>2. /\ key' \in [Ids -> {"none", "open", "revoked"}]
        /\ tok' \in [Tokens -> TokenRows] /\ opened' \in [Tokens -> Nat]
        /\ UNCHANGED <<cfg, user, inv, track, clock, raced, guesses>> /\ Done(p)
    BY <1>1 DEF TypeOK, CreateLogbook, DeleteLogbook, UpdateLogbook, memory, ghosts
  <1>3. book' \in [Books -> BookRows] /\ role' \in [Books -> [Ids -> Roles]]
    <2>1. ASSUME NEW d \in BOOLEAN, CreateLogbook(p, d)
          PROVE  book' \in [Books -> BookRows] /\ role' \in [Books -> [Ids -> Roles]]
      <3>1. PICK b \in Books : b = Min(FreeBooks)
        BY <2>1, FreeFound DEF CreateLogbook, FreeBooks
      <3>2. PICK u \in Ids : u = By(p)
        BY <1>1, <2>1, ByType DEF CreateLogbook, At
      <3>3. PICK cleared \in [Books -> BookRows] :
                cleared = IF d THEN ClearDefault(book, u, b) ELSE book
        BY <1>1, BookTypes DEF TypeOK
      <3>4. /\ book' = [cleared EXCEPT ![b] = [owner |-> u, isDefault |-> d, deleted |-> FALSE]]
            /\ role' = [role EXCEPT ![b][u] = "owner"]
        BY <2>1, <3>1, <3>2, <3>3 DEF CreateLogbook
      <3> QED BY <1>1, <3>4, BookTypes DEF Roles
    <2>2. ASSUME NEW b \in Books, DeleteLogbook(p, b)
          PROVE  book' \in [Books -> BookRows] /\ role' \in [Books -> [Ids -> Roles]]
      <3>1. DeletedBook(b) \in BookRows
        <4>1. book[b] \in BookRows
          BY <1>1 DEF TypeOK
        <4>2. \A row \in BookRows : [row EXCEPT !.deleted = TRUE, !.isDefault = FALSE] \in BookRows
          BY DEF BookRows
        <4> QED BY <4>1, <4>2 DEF DeletedBook
      <3> QED BY <1>1, <2>2, <3>1 DEF TypeOK, DeleteLogbook
    <2>3. ASSUME NEW b \in Books, NEW d \in BOOLEAN, UpdateLogbook(p, b, d)
          PROVE  book' \in [Books -> BookRows] /\ role' \in [Books -> [Ids -> Roles]]
      <3>1. PICK cleared \in [Books -> BookRows] :
                cleared = IF d THEN ClearDefault(book, book[b].owner, b) ELSE book
        BY <1>1, BookTypes DEF TypeOK
      <3>2. [cleared[b] EXCEPT !.isDefault = d] \in BookRows
        BY DEF BookRows
      <3>3. book' = [cleared EXCEPT ![b] = [cleared[b] EXCEPT !.isDefault = d]]
        BY <2>3, <3>1 DEF UpdateLogbook, UpdatedBook
      <3> QED BY <1>1, <2>3, <3>2, <3>3 DEF TypeOK, UpdateLogbook
    <2> QED BY <2>1, <2>2, <2>3
  <1> QED BY <1>2, <1>3, Ends

LEMMA MemberSteps ==
    ASSUME AccountsInv, NEW p \in Procs, NEW b \in Books, NEW u \in Ids,
           \/ RemoveMember(p, b, u) \/ TransferOwnership(p, b, u)
           \/ \E r \in {"admin", "viewer"} : InviteMember(p, b, u, r) \/ UpdateMemberRole(p, b, u, r)
    PROVE  AccountsInv'
  <1>1. TypeOK
    BY DEF AccountsInv
  <1>2. /\ key' \in [Ids -> {"none", "open", "revoked"}]
        /\ tok' \in [Tokens -> TokenRows] /\ opened' \in [Tokens -> Nat]
        /\ UNCHANGED <<cfg, user, inv, track, clock, raced, guesses>> /\ Done(p)
    BY <1>1 DEF TypeOK, RemoveMember, TransferOwnership, InviteMember, UpdateMemberRole,
                memory, ghosts
  <1>3. CASE \/ RemoveMember(p, b, u)
             \/ \E r \in {"admin", "viewer"} : InviteMember(p, b, u, r) \/ UpdateMemberRole(p, b, u, r)
    <2>1. /\ book' = book
          /\ role' = role \/ \E r \in Roles : role' = [role EXCEPT ![b][u] = r]
      BY <1>3 DEF RemoveMember, InviteMember, UpdateMemberRole, WithoutMember, UpsertedMember,
                  UpdatedMember, Roles
    <2>2. book' \in [Books -> BookRows] /\ role' \in [Books -> [Ids -> Roles]]
      <3>1. book' \in [Books -> BookRows]
        BY <1>1, <2>1 DEF TypeOK
      <3>2. CASE role' = role
        BY <1>1, <3>1, <3>2 DEF TypeOK
      <3>3. ASSUME NEW r \in Roles, role' = [role EXCEPT ![b][u] = r]
            PROVE  role' \in [Books -> [Ids -> Roles]]
        BY <1>1, <3>3, BookTypes, Zenon
      <3> QED BY <2>1, <3>1, <3>2, <3>3
    <2> QED BY <1>2, <2>2, Ends
  <1>4. CASE TransferOwnership(p, b, u)
    <2>1. By(p) \in Ids
      BY <1>1, <1>4, ByType DEF TransferOwnership, At
    <2>2. TransferredRoles(b, By(p), u) \in [Books -> [Ids -> Roles]]
      <3>1. PICK r1 : r1 = [role EXCEPT ![b][u] = "owner"]
        OBVIOUS
      <3>2. r1 \in [Books -> [Ids -> Roles]]
        BY <1>1, <3>1, BookTypes DEF Roles
      <3>3. TransferredRoles(b, By(p), u) = [r1 EXCEPT ![b][By(p)] = "admin"]
        BY <3>1 DEF TransferredRoles
      <3> QED BY <2>1, <3>2, <3>3 DEF Roles
    <2>3. TransferredBook(b, u) \in [Books -> BookRows]
      <3>1. book[b] \in BookRows /\ [book[b] EXCEPT !.owner = u, !.isDefault = FALSE] \in BookRows
        <4>1. book[b] \in BookRows
          BY <1>1 DEF TypeOK
        <4>2. \A row \in BookRows : [row EXCEPT !.owner = u, !.isDefault = FALSE] \in BookRows
          BY DEF BookRows
        <4> QED BY <4>1, <4>2
      <3>2. TransferredBook(b, u) = [book EXCEPT ![b] = [book[b] EXCEPT !.owner = u, !.isDefault = FALSE]]
        BY <1>1, <3>1 DEF TypeOK, TransferredBook
      <3> QED BY <1>1, <3>1, <3>2 DEF TypeOK
    <2>4. book' \in [Books -> BookRows] /\ role' \in [Books -> [Ids -> Roles]]
      BY <1>1, <1>4, <2>2, <2>3 DEF TypeOK, TransferOwnership
    <2> QED BY <1>2, <2>4, Ends
  <1> QED BY <1>3, <1>4

-----------------------------------------------------------------------------
(***************************************************************************)
(* Steps on users, invites and the tracker that the properties allow for.  *)
(***************************************************************************)
\* One row of users is written.
LEMMA OneUser ==
    ASSUME TypeOK, NEW u \in Ids, NEW row \in UserRows, user' = [user EXCEPT ![u] = row]
    PROVE  /\ user' \in [Ids -> UserRows] /\ user'[u] = row
           /\ \A v \in Ids : v # u => user'[v] = user[v]
  BY DEF TypeOK

LEMMA UserFields ==
    \A row \in UserRows :
        /\ \A s \in Subjects : LET x == [row EXCEPT !.sub = s] IN
             x \in UserRows /\ x.via = row.via /\ x.call = row.call /\ x.st = row.st
        /\ LET x == [row EXCEPT !.pw = TRUE] IN
             x \in UserRows /\ x.via = row.via /\ x.call = row.call /\ x.st = row.st
        /\ LET x == [row EXCEPT !.st = "gone"] IN
             x \in UserRows /\ x.via = row.via /\ x.call = row.call /\ x.st = "gone"
        /\ \A c \in Calls \cup {None} : LET x == [row EXCEPT !.call = c] IN
             x \in UserRows /\ x.via = row.via /\ x.call = c /\ x.st = row.st
  <1> SUFFICES ASSUME NEW row \in UserRows
               PROVE  /\ \A s \in Subjects : LET x == [row EXCEPT !.sub = s] IN
                           x \in UserRows /\ x.via = row.via /\ x.call = row.call /\ x.st = row.st
                      /\ LET x == [row EXCEPT !.pw = TRUE] IN
                           x \in UserRows /\ x.via = row.via /\ x.call = row.call /\ x.st = row.st
                      /\ LET x == [row EXCEPT !.st = "gone"] IN
                           x \in UserRows /\ x.via = row.via /\ x.call = row.call /\ x.st = "gone"
                      /\ \A c \in Calls \cup {None} : LET x == [row EXCEPT !.call = c] IN
                           x \in UserRows /\ x.via = row.via /\ x.call = c /\ x.st = row.st
    OBVIOUS
  <1>1. ASSUME NEW s \in Subjects, NEW x, x = [row EXCEPT !.sub = s]
        PROVE  x \in UserRows /\ x.via = row.via /\ x.call = row.call /\ x.st = row.st
    BY <1>1 DEF UserRows
  <1>2. ASSUME NEW x, x = [row EXCEPT !.pw = TRUE]
        PROVE  x \in UserRows /\ x.via = row.via /\ x.call = row.call /\ x.st = row.st
    BY <1>2 DEF UserRows
  <1>3. ASSUME NEW x, x = [row EXCEPT !.st = "gone"]
        PROVE  x \in UserRows /\ x.via = row.via /\ x.call = row.call /\ x.st = "gone"
    BY <1>3 DEF UserRows
  <1>4. ASSUME NEW c \in Calls \cup {None}, NEW x, x = [row EXCEPT !.call = c]
        PROVE  x \in UserRows /\ x.via = row.via /\ x.call = c /\ x.st = row.st
    BY <1>4 DEF UserRows
  <1> QED BY <1>1, <1>2, <1>3, <1>4

\* A step that changes a row of users without its invite, call or absence.
LEMMA UserStep ==
    ASSUME AccountsInv, NEW p \in Procs, NEW r \in Reqs, Plain(r), Begin(p, r) \/ Goto(p, r),
           NEW u \in Ids, NEW row \in UserRows, user' = [user EXCEPT ![u] = row],
           row.via = user[u].via, row.call = user[u].call, row.st = user[u].st \/ row.st = "gone",
           UNCHANGED <<cfg, inv, book, role, key, memory, clock, ghosts>>
    PROVE  AccountsInv'
  <1>1. TypeOK
    BY DEF AccountsInv
  <1>2. /\ req' \in [Procs -> Reqs] /\ served' \in Nat
        /\ req'[p] = r /\ \A q \in Procs : q # p => req'[q] = req[q]
    BY <1>1, ReqStep
  <1>3. /\ user' \in [Ids -> UserRows] /\ user'[u] = row
        /\ \A v \in Ids : v # u => user'[v] = user[v]
    BY <1>1, OneUser
  <1>4. UNCHANGED <<cfg, inv, book, role, key, tok, track, clock, raced, opened, guesses>>
    BY DEF memory, ghosts
  <1>5. TypeOK'
    BY <1>1, <1>2, <1>3, <1>4 DEF TypeOK
  <1>6. \A q \in Procs : req'[q] = req[q] \/ Plain(req'[q])
    BY <1>2
  <1>7. \A v \in Ids : /\ user'[v].via = user[v].via /\ user'[v].call = user[v].call
                       /\ user'[v].st = user[v].st \/ user'[v].st = "gone"
    BY <1>3
  <1> QED BY <1>4, <1>5, <1>6, <1>7, PlainStep

LEMMA UserSteps ==
    ASSUME AccountsInv, NEW p \in Procs, UpdatePasswordHash(p) \/ DeleteMe(p)
    PROVE  AccountsInv'
  <1>1. TypeOK
    BY DEF AccountsInv
  <1>2. By(p) \in Ids /\ user[By(p)] \in UserRows
    BY <1>1, ByType DEF UpdatePasswordHash, DeleteMe, At, TypeOK
  <1>3. /\ UNCHANGED <<cfg, inv, book, role, key, memory, clock, ghosts>> /\ Goto(p, Idle)
        /\ \/ user' = [user EXCEPT ![By(p)] = [user[By(p)] EXCEPT !.pw = TRUE]]
           \/ user' = [user EXCEPT ![By(p)] = [user[By(p)] EXCEPT !.st = "gone"]]
    BY DEF UpdatePasswordHash, DeleteMe, Done
  <1>4. CASE user' = [user EXCEPT ![By(p)] = [user[By(p)] EXCEPT !.pw = TRUE]]
    BY <1>2, <1>3, <1>4, UserFields, UserStep, IdleType, AuthType
  <1>5. CASE user' = [user EXCEPT ![By(p)] = [user[By(p)] EXCEPT !.st = "gone"]]
    BY <1>2, <1>3, <1>5, UserFields, UserStep, IdleType, AuthType
  <1> QED BY <1>3, <1>4, <1>5

LEMMA LookupStep ==
    ASSUME AccountsInv, NEW p \in Procs, NEW s \in Subjects, NEW e \in Emails,
           LookupOrLinkUser(p, s, e)
    PROVE  AccountsInv'
  <1>1. TypeOK
    BY DEF AccountsInv
  <1>2. UNCHANGED <<cfg, inv, book, role, key, memory, clock, ghosts>>
    BY DEF LookupOrLinkUser
  <1>3. /\ book' \in [Books -> BookRows] /\ role' \in [Books -> [Ids -> Roles]]
        /\ key' \in [Ids -> {"none", "open", "revoked"}]
        /\ tok' \in [Tokens -> TokenRows] /\ opened' \in [Tokens -> Nat]
        /\ UNCHANGED <<cfg, inv, track, clock, raced, guesses>>
    BY <1>1, <1>2 DEF TypeOK, memory, ghosts
  <1>4. ASSUME user' = user, NEW u \in Ids, Begin(p, ForUser(u)) PROVE AccountsInv'
    BY <1>3, <1>4, AuthType, QuietStep
  <1>5. ASSUME user' = user, Begin(p, [Idle EXCEPT !.pc = "provision", !.sub = s, !.email = e])
        PROVE  AccountsInv'
    <2>1. PICK r : r = [Idle EXCEPT !.pc = "provision", !.sub = s, !.email = e]
      OBVIOUS
    <2>2. r \in Reqs /\ Plain(r)
      BY <2>1 DEF Plain, Idle, Reqs, ReqRows, Steps
    <2> QED BY <1>3, <1>5, <2>1, <2>2, QuietStep
  <1>6. ASSUME NEW u \in Ids, user' = [user EXCEPT ![u].sub = s], Begin(p, ForUser(u))
        PROVE  AccountsInv'
    <2>1. user[u] \in UserRows
      BY <1>1 DEF TypeOK
    <2>2. user' = [user EXCEPT ![u] = [user[u] EXCEPT !.sub = s]]
      BY <1>6
    <2> QED BY <1>2, <1>6, <2>1, <2>2, UserFields, AuthType, UserStep
  <1> QED BY <1>4, <1>5, <1>6 DEF LookupOrLinkUser, ForUser, BySubject, LinkUser, LiveUsers

\* One invite changes without being used.
LEMMA InviteStep ==
    ASSUME AccountsInv, NEW c \in Codes, NEW row \in InviteRows, inv' = [inv EXCEPT ![c] = row],
           row.uses = inv[c].uses, row.st # "none",
           req' \in [Procs -> Reqs], served' \in Nat,
           \A q \in Procs : req'[q] = req[q] \/ Plain(req'[q]),
           UNCHANGED <<cfg, user, book, role, key, memory, clock, ghosts>>
    PROVE  AccountsInv'
  <1>1. TypeOK
    BY DEF AccountsInv
  <1>2. UNCHANGED <<cfg, user, book, role, key, tok, track, clock, raced, opened, guesses>>
    BY DEF memory, ghosts
  <1>3. /\ inv' \in [Codes -> InviteRows] /\ inv'[c] = row
        /\ \A d \in Codes : d # c => inv'[d] = inv[d]
    BY <1>1 DEF TypeOK
  <1>4. TypeOK'
    BY <1>1, <1>2, <1>3 DEF TypeOK
  <1>5. \A d \in Codes : /\ inv'[d].uses = inv[d].uses
                         /\ inv'[d].st = "none" => inv[d].st = "none"
    BY <1>3
  <1> QED BY <1>2, <1>4, <1>5, PlainStep

LEMMA InviteSteps ==
    ASSUME AccountsInv, NEW c \in Codes,
           \/ \E p \in Procs : CreateInviteKey(p, c) \/ RevokeInviteKey(p, c)
           \/ InviteExpires(c)
    PROVE  AccountsInv'
  <1>1. TypeOK /\ inv[c] \in InviteRows
    BY DEF AccountsInv, TypeOK
  <1>2. ASSUME NEW p \in Procs, Goto(p, Idle)
        PROVE  /\ req' \in [Procs -> Reqs] /\ served' \in Nat
               /\ \A q \in Procs : req'[q] = req[q] \/ Plain(req'[q])
    BY <1>1, <1>2, ReqStep, IdleType, AuthType
  <1>3. ASSUME NEW p \in Procs, CreateInviteKey(p, c) PROVE AccountsInv'
    <2>1. [st |-> "open", by |-> By(p), uses |-> 0] \in InviteRows /\ inv[c].uses = 0
      BY <1>1, <1>3, ByType DEF CreateInviteKey, At, InviteRows, AccountsInv, InviteInv, NewIsUnused
    <2>2. /\ Goto(p, Idle) /\ inv' = [inv EXCEPT ![c] = [st |-> "open", by |-> By(p), uses |-> 0]]
          /\ UNCHANGED <<cfg, user, book, role, key, memory, clock, ghosts>>
      BY <1>3 DEF CreateInviteKey, Done
    <2> QED BY <1>2, <2>1, <2>2, InviteStep
  <1>4. ASSUME NEW st \in {"revoked", "expired"}, inv' = [inv EXCEPT ![c].st = st],
               req' \in [Procs -> Reqs], served' \in Nat,
               \A q \in Procs : req'[q] = req[q] \/ Plain(req'[q]),
               UNCHANGED <<cfg, user, book, role, key, memory, clock, ghosts>>
        PROVE  AccountsInv'
    <2>1. PICK row : row = [inv[c] EXCEPT !.st = st]
      OBVIOUS
    <2>2. row \in InviteRows /\ row.uses = inv[c].uses /\ row.st # "none"
      BY <1>1, <2>1 DEF InviteRows
    <2>3. inv' = [inv EXCEPT ![c] = row]
      BY <1>4, <2>1
    <2> QED BY <1>4, <2>2, <2>3, InviteStep
  <1>5. ASSUME NEW p \in Procs, RevokeInviteKey(p, c) PROVE AccountsInv'
    <2>1. /\ Goto(p, Idle) /\ inv' = [inv EXCEPT ![c].st = "revoked"]
          /\ UNCHANGED <<cfg, user, book, role, key, memory, clock, ghosts>>
      BY <1>5 DEF RevokeInviteKey, Done
    <2> QED BY <1>2, <1>4, <2>1
  <1>6. ASSUME InviteExpires(c) PROVE AccountsInv'
    <2>1. /\ req' = req /\ served' = served /\ inv' = [inv EXCEPT ![c].st = "expired"]
          /\ UNCHANGED <<cfg, user, book, role, key, memory, clock, ghosts>>
      BY <1>6 DEF InviteExpires
    <2>2. /\ req' \in [Procs -> Reqs] /\ served' \in Nat
          /\ \A q \in Procs : req'[q] = req[q] \/ Plain(req'[q])
      BY <1>1, <2>1 DEF TypeOK
    <2> QED BY <1>4, <2>1, <2>2
  <1> QED BY <1>3, <1>5, <1>6

\* The clock and the tokens that nobody claims.
LEMMA TimeSteps ==
    ASSUME AccountsInv, Tick \/ \E t \in Tokens : ExpireStreamToken(t)
    PROVE  AccountsInv'
  <1>1. TypeOK
    BY DEF AccountsInv
  <1>2. /\ UNCHANGED <<cfg, user, inv, book, role, key, track, req, served, raced, opened, guesses>>
    BY DEF Tick, ExpireStreamToken, tables, memory, ghosts
  <1>3. clock' \in Nat
    BY <1>1 DEF Tick, ExpireStreamToken, TypeOK
  <1>4. tok' \in [Tokens -> TokenRows]
    <2>1. NoToken \in TokenRows
      BY DEF NoToken, TokenRows
    <2> QED BY <1>1, <2>1 DEF Tick, ExpireStreamToken, TypeOK, memory
  <1>5. TypeOK'
    BY <1>1, <1>2, <1>3, <1>4 DEF TypeOK
  <1> QED BY <1>2, <1>5, PlainStep

-----------------------------------------------------------------------------
(***************************************************************************)
(* The login tracker.                                                      *)
(***************************************************************************)
LEMMA OneEntry ==
    ASSUME TypeOK, NEW e \in Emails, NEW t \in Entries, NEW g \in Nat,
           track' = [track EXCEPT ![e] = t], guesses' = [guesses EXCEPT ![e] = g]
    PROVE  /\ track' \in [Emails -> Entries] /\ guesses' \in [Emails -> Nat]
           /\ track'[e] = t /\ guesses'[e] = g
           /\ \A f \in Emails : f # e => track'[f] = track[f] /\ guesses'[f] = guesses[f]
  BY DEF TypeOK

LEMMA LoginQuietSteps ==
    ASSUME AccountsInv, NEW e \in Emails,
           \/ \E p \in Procs : LoginRefused(p, e) \/ (LoginSucceeds(p) /\ req[p].email = e)
           \/ CleanupLoginAttemptTracker(e)
    PROVE  AccountsInv'
  <1>1. TypeOK
    BY DEF AccountsInv
  <1>2. NoEntry \in Entries /\ NoEntry.until = 0 /\ NoEntry.count = 0
    BY DEF NoEntry, Entries
  <1>3. PICK touched : touched = [track[e] EXCEPT !.upd = clock]
    OBVIOUS
  <1>4. /\ touched \in Entries /\ touched.until = track[e].until /\ touched.count = track[e].count
        /\ guesses[e] \in Nat
    BY <1>1, <1>3 DEF TypeOK, Entries
  <1>5. UNCHANGED <<cfg, user, inv, book, role, key, tok, clock, raced, opened>>
    BY DEF LoginRefused, LoginSucceeds, CleanupLoginAttemptTracker, tables, ghosts
  <1>6. /\ req' \in [Procs -> Reqs] /\ served' \in Nat
        /\ \A q \in Procs : req'[q] = req[q] \/ Plain(req'[q])
    <2>1. CASE req' = req /\ served' = served
      BY <1>1, <2>1 DEF TypeOK
    <2>2. ASSUME NEW p \in Procs, Begin(p, Idle) \/ Goto(p, Idle)
          PROVE  /\ req' \in [Procs -> Reqs] /\ served' \in Nat
                 /\ \A q \in Procs : req'[q] = req[q] \/ Plain(req'[q])
      BY <1>1, <2>2, ReqStep, IdleType, AuthType
    <2> QED BY <2>1, <2>2 DEF LoginRefused, LoginSucceeds, CleanupLoginAttemptTracker, Done
  <1>7. \/ /\ track' = [track EXCEPT ![e] = touched] /\ guesses' = [guesses EXCEPT ![e] = guesses[e]]
        \/ /\ track' = [track EXCEPT ![e] = NoEntry] /\ guesses' = [guesses EXCEPT ![e] = 0]
    BY <1>1, <1>3 DEF LoginRefused, LoginSucceeds, CleanupLoginAttemptTracker, ghosts, TypeOK
  <1>8. /\ track' \in [Emails -> Entries] /\ guesses' \in [Emails -> Nat]
        /\ \A f \in Emails :
             \/ /\ track'[f].until = track[f].until /\ track'[f].count = track[f].count
                /\ guesses'[f] = guesses[f]
             \/ track'[f].until = 0 /\ track'[f].count = 0 /\ guesses'[f] = 0
    BY <1>1, <1>2, <1>4, <1>7, OneEntry
  <1>9. TypeOK'
    BY <1>1, <1>5, <1>6, <1>8 DEF TypeOK
  <1> QED BY <1>5, <1>6, <1>8, <1>9, PlainStep

\* A step that leaves users, invites and callsigns alone, and starts or ends
\* a login at most.
LEMMA LoginStep ==
    ASSUME AccountsInv, NEW p \in Procs, NEW r \in Reqs, r.pc \in {"idle", "login"},
           Begin(p, r) \/ Goto(p, r),
           UNCHANGED <<cfg, tables, tok, clock, raced, opened>>,
           track' \in [Emails -> Entries], guesses' \in [Emails -> Nat], LockInv'
    PROVE  AccountsInv'
  <1>1. TypeOK
    BY DEF AccountsInv
  <1>2. /\ req' \in [Procs -> Reqs] /\ served' \in Nat
        /\ req'[p] = r /\ \A q \in Procs : q # p => req'[q] = req[q]
    BY <1>1, ReqStep
  <1>3. UNCHANGED <<cfg, user, inv, book, role, key, tok, clock, raced, opened>>
    BY DEF tables
  <1>4. TypeOK'
    BY <1>1, <1>2, <1>3 DEF TypeOK
  <1>5. r.call = None
    BY DEF Reqs
  <1>6. \A q \in Procs : req'[q].pc \in {"register", "consume"} /\ cfg.invite =>
                req'[q] = req[q] \/ req'[q].code \in Codes
    BY <1>2
  <1>7. InviteInv'
    BY <1>3, <1>6, InviteQuiet DEF AccountsInv
  <1>8. \A q \in Procs : req'[q].call # None =>
                req'[q].call = req[q].call /\ req'[q].by = req[q].by
    BY <1>2, <1>5
  <1>9. CallInv'
    BY <1>3, <1>8, CallQuiet DEF AccountsInv
  <1> QED BY <1>4, <1>7, <1>9 DEF AccountsInv

\* The logins under way are at most the requests.
LEMMA TryingFinite ==
    ASSUME NEW e \in Emails
    PROVE  IsFiniteSet(Trying(e)) /\ Cardinality(Trying(e)) \in Nat
  <1>1. Trying(e) \subseteq Procs
    BY DEF Trying
  <1> QED BY <1>1, Bounds, FS_Subset, FS_CardinalityType

LEMMA LoginCheckStep ==
    ASSUME AccountsInv, NEW p \in Procs, NEW e \in Emails, LoginCheck(p, e)
    PROVE  AccountsInv'
  <1>1. TypeOK /\ LockInv
    BY DEF AccountsInv
  <1>2. PICK r : r = [Idle EXCEPT !.pc = "login", !.email = e, !.now = clock]
    OBVIOUS
  <1>3. r \in Reqs /\ r.pc = "login" /\ r.email = e
    <2>1. clock \in Nat
      BY <1>1 DEF TypeOK
    <2> QED BY <1>2, <2>1 DEF Idle, Reqs, ReqRows, Steps
  <1>4. Begin(p, r) /\ UNCHANGED <<cfg, tables, tok, clock, raced, opened>>
    BY <1>2 DEF LoginCheck
  <1>5. req'[p] = r /\ \A q \in Procs : q # p => req'[q] = req[q]
    BY <1>1, <1>3, <1>4, ReqStep
  <1>6. track[e] \in Entries /\ guesses[e] \in Nat /\ clock \in Nat
    BY <1>1 DEF TypeOK
  <1>7. PICK t \in Entries, g \in Nat :
            /\ track' = [track EXCEPT ![e] = t] /\ guesses' = [guesses EXCEPT ![e] = g]
            /\ t.until = 0 /\ g = t.count /\ t.count < MaxFailed
    <2>1. CASE LockOver(e)
      <3>1. PICK t : t = [track[e] EXCEPT !.until = 0, !.count = 0]
        OBVIOUS
      <3>2. t \in Entries /\ t.until = 0 /\ t.count = 0
        BY <1>6, <3>1 DEF Entries
      <3>3. track' = [track EXCEPT ![e] = t] /\ guesses' = [guesses EXCEPT ![e] = 0]
        BY <2>1, <3>1 DEF LoginCheck
      <3> QED BY <3>2, <3>3, Bounds
    <2>2. CASE ~LockOver(e)
      <3>1. track' = track /\ guesses' = guesses /\ track[e].until = 0
        BY <2>2 DEF LoginCheck, LockOver
      <3>2. track' = [track EXCEPT ![e] = track[e]] /\ guesses' = [guesses EXCEPT ![e] = guesses[e]]
        BY <1>1, <3>1 DEF TypeOK
      <3> QED BY <1>1, <1>6, <3>1, <3>2 DEF LockInv
    <2> QED BY <2>1, <2>2
  <1>8. /\ track' \in [Emails -> Entries] /\ guesses' \in [Emails -> Nat]
        /\ track'[e] = t /\ guesses'[e] = g
        /\ \A f \in Emails : f # e => track'[f] = track[f] /\ guesses'[f] = guesses[f]
    BY <1>1, <1>7, OneEntry
  <1>9. LockInv'
    <2> SUFFICES ASSUME NEW f \in Emails
                 PROVE  /\ track'[f].until = 0 => guesses'[f] = track'[f].count /\ track'[f].count < MaxFailed
                        /\ track'[f].until # 0 =>
                             guesses'[f] + Cardinality(Trying(f)') <= MaxFailed + Cardinality(Procs) - 1
      BY DEF LockInv
    <2>1. CASE f = e
      BY <1>7, <1>8, <2>1
    <2>2. CASE f # e
      <3>1. req[p].pc = "idle"
        BY <1>4 DEF Begin
      <3>2. Trying(f)' = Trying(f)
        BY <1>3, <1>5, <2>2, <3>1 DEF Trying
      <3> QED BY <1>1, <1>8, <2>2, <3>2 DEF LockInv
    <2> QED BY <2>1, <2>2
  <1> QED BY <1>3, <1>4, <1>8, <1>9, LoginStep

\* A failed login moves from the ones under way to the ones counted.
LEMMA FailureStep ==
    ASSUME AccountsInv, NEW p \in Procs, RecordFailedLoginAttempt(p)
    PROVE  AccountsInv'
  <1>1. TypeOK /\ LockInv /\ req[p] \in Reqs
    BY DEF AccountsInv, TypeOK
  <1>2. PICK e \in Emails : e = req[p].email
    BY <1>1 DEF RecordFailedLoginAttempt, At, Reqs
  <1>3. PICK now \in Nat : now = req[p].now
    BY <1>1 DEF Reqs, ReqRows
  <1>4. track[e] \in Entries /\ guesses[e] \in Nat
    BY <1>1 DEF TypeOK
  <1>5. PICK t : t = AfterFailure(track[e], now)
    OBVIOUS
  <1>6. /\ t \in Entries
        /\ track[e].until # 0 => t.until # 0
        /\ track[e].until = 0 /\ track[e].count + 1 >= MaxFailed => t.until # 0
        /\ track[e].until = 0 /\ track[e].count + 1 < MaxFailed =>
             t.until = 0 /\ t.count = track[e].count + 1
    <2>1. PICK c \in Nat, l \in Nat : c = track[e].count /\ l = track[e].until
      BY <1>4 DEF Entries
    <2>2. CASE l > now
      <3>1. t = [track[e] EXCEPT !.upd = now]
        BY <1>5, <2>1, <2>2 DEF AfterFailure
      <3>2. t \in Entries /\ t.until = l /\ l # 0
        BY <1>4, <2>1, <2>2, <3>1 DEF Entries
      <3> QED BY <2>1, <3>2
    <2>3. CASE ~(l > now) /\ c + 1 >= MaxFailed
      <3>1. t = [count |-> 0, until |-> now + LockFor, upd |-> now]
        BY <1>5, <2>1, <2>3 DEF AfterFailure
      <3>2. now + LockFor \in Nat /\ now + LockFor # 0
        BY Bounds
      <3>3. t \in Entries /\ t.until # 0
        BY <3>1, <3>2 DEF Entries
      <3> QED BY <2>1, <2>3, <3>3, Bounds
    <2>4. CASE ~(l > now) /\ ~(c + 1 >= MaxFailed)
      <3>1. t = [track[e] EXCEPT !.count = c + 1, !.upd = now]
        BY <1>5, <2>1, <2>4 DEF AfterFailure
      <3>2. t \in Entries /\ t.until = l /\ t.count = c + 1
        <4>1. PICK k \in Nat : k = c + 1
          OBVIOUS
        <4>2. t = [track[e] EXCEPT !.count = k, !.upd = now]
          BY <3>1, <4>1
        <4>3. t \in Entries /\ t.until = track[e].until /\ t.count = k
          BY <1>4, <4>2 DEF Entries
        <4> QED BY <2>1, <4>1, <4>3
      <3> QED BY <2>1, <2>4, <3>2, Bounds
    <2> QED BY <2>2, <2>3, <2>4
  <1>7. /\ track' = [track EXCEPT ![e] = t] /\ guesses' = [guesses EXCEPT ![e] = guesses[e] + 1]
        /\ Goto(p, Idle) /\ UNCHANGED <<cfg, tables, tok, clock, raced, opened>>
        /\ req[p].pc = "login"
    BY <1>2, <1>3, <1>5 DEF RecordFailedLoginAttempt, Done, At
  <1>8. /\ track' \in [Emails -> Entries] /\ guesses' \in [Emails -> Nat]
        /\ track'[e] = t /\ guesses'[e] = guesses[e] + 1
        /\ \A f \in Emails : f # e => track'[f] = track[f] /\ guesses'[f] = guesses[f]
    <2>1. guesses[e] + 1 \in Nat
      BY <1>4
    <2> QED BY <1>1, <1>6, <1>7, <2>1, OneEntry
  <1>9. req'[p] = Idle /\ \A q \in Procs : q # p => req'[q] = req[q]
    BY <1>1, <1>7, ReqStep, IdleType
  <1>10. LockInv'
    <2> SUFFICES ASSUME NEW f \in Emails
                 PROVE  /\ track'[f].until = 0 => guesses'[f] = track'[f].count /\ track'[f].count < MaxFailed
                        /\ track'[f].until # 0 =>
                             guesses'[f] + Cardinality(Trying(f)') <= MaxFailed + Cardinality(Procs) - 1
      BY DEF LockInv
    <2>1. CASE f # e
      <3>1. Trying(f)' = Trying(f)
        BY <1>2, <1>9, <2>1, IdleType DEF Trying
      <3> QED BY <1>1, <1>8, <2>1, <3>1 DEF LockInv
    <2>2. CASE f = e
      <3>1. p \in Trying(e) /\ Trying(e)' = Trying(e) \ {p}
        BY <1>2, <1>7, <1>9, IdleType DEF Trying
      <3>2. Cardinality(Trying(e)') = Cardinality(Trying(e)) - 1
        BY <3>1, TryingFinite, FS_RemoveElement
      <3>3. Cardinality(Trying(e)) <= Cardinality(Procs)
        <4>1. Trying(e) \subseteq Procs
          BY DEF Trying
        <4> QED BY <4>1, Bounds, FS_Subset
      <3>4. PICK n \in Nat : n = Cardinality(Trying(e))
        BY TryingFinite
      <3>5. PICK m \in Nat : m = Cardinality(Procs)
        BY Bounds
      <3>6. /\ track[e].until = 0 => guesses[e] = track[e].count /\ track[e].count < MaxFailed
            /\ track[e].until # 0 => guesses[e] + n <= MaxFailed + m - 1
        BY <1>1, <3>4, <3>5 DEF LockInv
      <3>7. track[e].count \in Nat
        BY <1>4 DEF Entries
      <3>8. /\ t.until = 0 => guesses[e] + 1 = t.count /\ t.count < MaxFailed
            /\ t.until # 0 => guesses[e] + 1 + (n - 1) <= MaxFailed + m - 1
        BY <1>4, <1>6, <3>3, <3>4, <3>5, <3>6, <3>7, Bounds
      <3> QED BY <1>8, <2>2, <3>2, <3>4, <3>5, <3>8
    <2> QED BY <2>1, <2>2
  <1> QED BY <1>7, <1>8, <1>10, LoginStep, IdleType

-----------------------------------------------------------------------------
(***************************************************************************)
(* Callsigns: a check, and a write of what was checked.                    *)
(***************************************************************************)
LEMMA CheckedCall ==
    ASSUME TypeOK, CallInv, NEW p \in Procs, NEW r \in Reqs,
           req'[p] = r, \A q \in Procs : q # p => req'[q] = req[q],
           user' = user, NoteOverlap(p, r.call),
           r.call = None \/ ~CallsignInUse(r.call, r.by)
    PROVE  CallInv' /\ raced' \subseteq Calls
  <1>1. r.call \in Calls \cup {None}
    BY DEF Reqs, ReqRows
  <1>2. /\ raced \subseteq raced' /\ raced' \subseteq raced \cup Calls
        /\ \A q \in Procs : q # p /\ req[q].call = r.call /\ r.call # None => r.call \in raced'
    BY <1>1 DEF NoteOverlap
  <1>3. LiveUsers' = LiveUsers
    BY DEF LiveUsers, Live
  <1>4. CheckStands'
    <2> SUFFICES ASSUME NEW q \in Procs, req'[q].call # None, req'[q].call \notin raced',
                        NEW u \in LiveUsers', user'[u].call = req'[q].call
                 PROVE  u = req'[q].by
      BY DEF CheckStands
    <2>1. CASE q = p
      <3>1. u \in Owners(r.call) /\ r.call # None /\ r.call \notin raced
        BY <1>2, <1>3, <2>1 DEF Owners
      <3>2. r.by \in Owners(r.call)
        BY <3>1 DEF CallsignInUse
      <3> QED BY <2>1, <3>1, <3>2 DEF Owners, CallInv, CallsignsCollideOnlyInRace
    <2>2. CASE q # p
      BY <1>2, <1>3, <2>2 DEF CallInv, CheckStands
    <2> QED BY <2>1, <2>2
  <1>5. PairsRaced'
    <2> SUFFICES ASSUME NEW q \in Procs, NEW s \in Procs, q # s, req'[q].call = req'[s].call,
                        req'[q].call # None
                 PROVE  req'[q].call \in raced'
      BY DEF PairsRaced
    <2>1. CASE q = p \/ s = p
      BY <1>2, <2>1
    <2>2. CASE q # p /\ s # p
      BY <1>2, <2>2 DEF CallInv, PairsRaced
    <2> QED BY <2>1, <2>2
  <1>6. CallsignsCollideOnlyInRace'
    BY <1>2, <1>3 DEF CallInv, CallsignsCollideOnlyInRace
  <1> QED BY <1>2, <1>4, <1>5, <1>6 DEF CallInv, TypeOK

LEMMA WrittenCall ==
    ASSUME TypeOK, CallInv, NEW p \in Procs, NEW w \in Ids,
           req'[p].call = None, \A q \in Procs : q # p => req'[q] = req[q],
           raced' = raced, \A v \in Ids : v # w => user'[v] = user[v],
           \/ user'[w].call = None
           \/ user'[w].call = req[p].call /\ req[p].by \in {None, w}
    PROVE  CallInv'
  <1>1. \A v \in LiveUsers' : v # w => v \in LiveUsers /\ user'[v].call = user[v].call
    BY DEF LiveUsers, Live
  <1>2. LiveUsers \subseteq Ids /\ LiveUsers' \subseteq Ids /\ None \notin Ids
    BY AccountsAssumption DEF LiveUsers
  <1>3. CheckStands'
    <2> SUFFICES ASSUME NEW q \in Procs, req'[q].call # None, req'[q].call \notin raced',
                        NEW u \in LiveUsers', user'[u].call = req'[q].call
                 PROVE  u = req'[q].by
      BY DEF CheckStands
    <2>1. q # p /\ req'[q] = req[q]
      OBVIOUS
    <2>2. u # w
      BY <2>1 DEF CallInv, PairsRaced
    <2> QED BY <1>1, <2>1, <2>2 DEF CallInv, CheckStands
  <1>4. PairsRaced'
    BY DEF CallInv, PairsRaced
  <1>5. CallsignsCollideOnlyInRace'
    <2> SUFFICES ASSUME NEW u \in LiveUsers', NEW v \in LiveUsers', u # v,
                        user'[u].call = user'[v].call, user'[u].call # None
                 PROVE  user'[u].call \in raced
      BY DEF CallsignsCollideOnlyInRace
    <2>1. ASSUME NEW x \in LiveUsers', x # w, user'[x].call = user'[w].call, user'[w].call # None
          PROVE  user'[w].call \in raced
      <3>1. x \in LiveUsers /\ user[x].call = req[p].call /\ req[p].call # None
        BY <1>1, <2>1
      <3>2. x # req[p].by
        BY <1>2, <2>1, <3>1
      <3> QED BY <2>1, <3>1, <3>2 DEF CallInv, CheckStands
    <2>2. CASE u = w \/ v = w
      BY <2>1, <2>2
    <2>3. CASE u # w /\ v # w
      BY <1>1, <2>3 DEF CallInv, CallsignsCollideOnlyInRace
    <2> QED BY <2>2, <2>3
  <1> QED BY <1>3, <1>4, <1>5 DEF CallInv

\* The two requests that look a callsign up.
LEMMA CheckStep ==
    ASSUME AccountsInv, NEW p \in Procs, NEW r \in Reqs, Begin(p, r) \/ Goto(p, r),
           r.pc \in {"register", "profile"},
           cfg.invite /\ r.pc = "register" => r.code \in Codes,
           NoteOverlap(p, r.call), r.call = None \/ ~CallsignInUse(r.call, r.by),
           UNCHANGED <<cfg, tables, memory, clock, opened, guesses>>
    PROVE  AccountsInv'
  <1>1. TypeOK
    BY DEF AccountsInv
  <1>2. /\ req' \in [Procs -> Reqs] /\ served' \in Nat
        /\ req'[p] = r /\ \A q \in Procs : q # p => req'[q] = req[q]
    BY <1>1, ReqStep
  <1>3. UNCHANGED <<cfg, user, inv, book, role, key, tok, track, clock, opened, guesses>>
    BY DEF tables, memory
  <1>4. CallInv' /\ raced' \subseteq Calls
    BY <1>1, <1>2, <1>3, CheckedCall DEF AccountsInv
  <1>5. TypeOK'
    BY <1>1, <1>2, <1>3, <1>4 DEF TypeOK
  <1>6. \A q \in Procs : req'[q].pc \in {"register", "consume"} /\ cfg.invite =>
                req'[q] = req[q] \/ req'[q].code \in Codes
    BY <1>2
  <1>7. InviteInv'
    BY <1>3, <1>6, InviteQuiet DEF AccountsInv
  <1>8. \A q \in Procs : req'[q].pc = "login" => req'[q] = req[q]
    BY <1>2
  <1>9. LockInv'
    BY <1>1, <1>3, <1>8, LockQuiet DEF AccountsInv
  <1> QED BY <1>4, <1>5, <1>7, <1>9 DEF AccountsInv

LEMMA CheckSteps ==
    ASSUME AccountsInv, NEW p \in Procs,
           \/ \E e \in Emails, c \in Calls \cup {None}, code \in Codes \cup {None} :
                RegisterCheck(p, e, c, code)
           \/ \E c \in Calls : UpdateProfileCheck(p, c)
    PROVE  AccountsInv'
  <1>1. TypeOK /\ req[p] \in Reqs
    BY DEF AccountsInv, TypeOK
  <1>2. ASSUME NEW e \in Emails, NEW c \in Calls \cup {None}, NEW code \in Codes \cup {None},
               RegisterCheck(p, e, c, code)
        PROVE  AccountsInv'
    <2>1. PICK r : r = [Idle EXCEPT !.pc = "register", !.email = e, !.call = c, !.code = code]
      OBVIOUS
    <2>2. r \in Reqs /\ r.pc = "register" /\ r.call = c /\ r.by = None /\ r.code = code
      BY <2>1 DEF Idle, Reqs, ReqRows, Steps
    <2>3. /\ Begin(p, r) /\ NoteOverlap(p, c) /\ (c = None \/ ~CallsignInUse(c, None))
          /\ cfg.invite => code \in Codes
          /\ UNCHANGED <<cfg, tables, memory, clock, opened, guesses>>
      BY <1>2, <2>1 DEF RegisterCheck
    <2> QED BY <2>2, <2>3, CheckStep
  <1>3. ASSUME NEW c \in Calls, UpdateProfileCheck(p, c) PROVE AccountsInv'
    <2>1. PICK r : r = [req[p] EXCEPT !.pc = "profile", !.call = c]
      OBVIOUS
    <2>2. req[p].pc = "auth"
      BY <1>3 DEF UpdateProfileCheck, At
    <2>3. r \in Reqs /\ r.pc = "profile" /\ r.call = c /\ r.by = req[p].by
      BY <1>1, <2>1, <2>2 DEF Reqs, ReqRows, Steps
    <2>4. /\ Goto(p, r) /\ NoteOverlap(p, c) /\ ~CallsignInUse(c, req[p].by)
          /\ UNCHANGED <<cfg, tables, memory, clock, opened, guesses>>
      BY <1>3, <2>1 DEF UpdateProfileCheck, By
    <2> QED BY <2>3, <2>4, CheckStep
  <1> QED BY <1>2, <1>3

-----------------------------------------------------------------------------
(***************************************************************************)
(* Accounts are created and change their callsign.                         *)
(***************************************************************************)
\* A user is written by request p, which ends or goes on for it.
LEMMA WriteUser ==
    ASSUME AccountsInv, NEW p \in Procs, NEW r \in Reqs, Plain(r), Goto(p, r),
           NEW w \in Ids, NEW row \in UserRows, user' = [user EXCEPT ![w] = row],
           \/ row.call = None
           \/ row.call = req[p].call /\ req[p].by \in {None, w},
           inv' \in [Codes -> InviteRows], InviteInv',
           book' \in [Books -> BookRows], role' \in [Books -> [Ids -> Roles]],
           UNCHANGED <<cfg, key, memory, clock, ghosts>>
    PROVE  AccountsInv'
  <1>1. TypeOK
    BY DEF AccountsInv
  <1>2. /\ req' \in [Procs -> Reqs] /\ served' \in Nat
        /\ req'[p] = r /\ \A q \in Procs : q # p => req'[q] = req[q]
    BY <1>1, ReqStep
  <1>3. /\ user' \in [Ids -> UserRows] /\ user'[w] = row
        /\ \A v \in Ids : v # w => user'[v] = user[v]
    BY <1>1, OneUser
  <1>4. UNCHANGED <<cfg, key, tok, track, clock, raced, opened, guesses>>
    BY DEF memory, ghosts
  <1>5. TypeOK'
    BY <1>1, <1>2, <1>3, <1>4 DEF TypeOK
  <1>6. \A q \in Procs : req'[q].pc = "login" => req'[q] = req[q]
    BY <1>2 DEF Plain
  <1>7. LockInv'
    BY <1>1, <1>4, <1>6, LockQuiet DEF AccountsInv
  <1>8. req'[p].call = None
    BY <1>2 DEF Plain
  <1>9. CallInv'
    BY <1>1, <1>2, <1>3, <1>4, <1>8, WrittenCall DEF AccountsInv
  <1> QED BY <1>5, <1>7, <1>9 DEF AccountsInv

LEMMA ProfileStep ==
    ASSUME AccountsInv, NEW p \in Procs, UpdateProfile(p)
    PROVE  AccountsInv'
  <1>1. TypeOK /\ req[p] \in Reqs
    BY DEF AccountsInv, TypeOK
  <1>2. PICK w \in Ids : w = By(p)
    BY <1>1, ByType DEF UpdateProfile, At
  <1>3. PICK row : row = [user[w] EXCEPT !.call = req[p].call]
    OBVIOUS
  <1>4. user[w] \in UserRows /\ req[p].call \in Calls \cup {None}
    BY <1>1 DEF TypeOK, Reqs, ReqRows
  <1>5. row \in UserRows /\ row.via = user[w].via /\ row.call = req[p].call /\ row.st = user[w].st
    BY <1>3, <1>4, UserFields
  <1>6. /\ user' = [user EXCEPT ![w] = row] /\ Goto(p, Idle)
        /\ UNCHANGED <<cfg, inv, book, role, key, memory, clock, ghosts>>
    BY <1>2, <1>3 DEF UpdateProfile, Done
  <1>7. req'[p] = Idle /\ \A q \in Procs : q # p => req'[q] = req[q]
    BY <1>1, <1>6, ReqStep, IdleType
  <1>8. InviteInv'
    <2>1. user'[w] = row /\ \A v \in Ids : v # w => user'[v] = user[v]
      BY <1>1, <1>5, <1>6, OneUser
    <2>2. \A u \in Ids : /\ user'[u].via = user[u].via
                         /\ user'[u].st = "none" => user[u].st = "none"
      BY <1>5, <2>1
    <2>3. \A q \in Procs : req'[q].pc \in {"register", "consume"} /\ cfg.invite =>
                req'[q] = req[q] \/ req'[q].code \in Codes
      BY <1>7, IdleType
    <2> QED BY <1>6, <2>2, <2>3, InviteQuiet DEF AccountsInv
  <1>9. inv' \in [Codes -> InviteRows] /\ book' \in [Books -> BookRows] /\ role' \in [Books -> [Ids -> Roles]]
    BY <1>1, <1>6 DEF TypeOK
  <1>10. req[p].by = w
    BY <1>2 DEF By
  <1> QED BY <1>5, <1>6, <1>8, <1>9, <1>10, WriteUser, IdleType, AuthType

LEMMA CreatedUser ==
    ASSUME TypeOK, RoomForUser, NEW row \in UserRows, CreateUser(row)
    PROVE  \E w \in Ids :
             /\ w = Min(FreeIds) /\ user[w].st = "none" /\ user' = [user EXCEPT ![w] = row]
             /\ book' \in [Books -> BookRows] /\ role' \in [Books -> [Ids -> Roles]]
  <1>1. PICK w \in Ids : w = Min(FreeIds) /\ user[w].st = "none"
    BY FreeFound DEF RoomForUser, FreeIds
  <1>2. PICK b \in Books : b = Min(FreeBooks)
    BY FreeFound DEF RoomForUser, FreeBooks
  <1>3. /\ user' = [user EXCEPT ![w] = row]
        /\ book' = [book EXCEPT ![b] = [owner |-> w, isDefault |-> TRUE, deleted |-> FALSE]]
        /\ role' = [role EXCEPT ![b][w] = "owner"]
    BY <1>1, <1>2 DEF CreateUser, InsertBook
  <1>4. book' \in [Books -> BookRows]
    <2>1. [owner |-> w, isDefault |-> TRUE, deleted |-> FALSE] \in BookRows
      BY BookTypes
    <2> QED BY <1>3, <2>1 DEF TypeOK
  <1>5. role' \in [Books -> [Ids -> Roles]]
    BY <1>3, BookTypes DEF Roles
  <1> QED BY <1>1, <1>3, <1>4, <1>5

\* The account made with a code and the use it spends come together.
LEMMA SpentByOne ==
    ASSUME TypeOK, InviteInv, cfg' = cfg, NEW w \in Ids, user[w].st = "none",
           NEW row \in UserRows, row.st = "live", user' = [user EXCEPT ![w] = row],
           \A q \in Procs : req'[q].pc \in {"register", "consume"} => req'[q] = req[q],
           \/ inv' = inv /\ (cfg.invite => row.via = None)
           \/ /\ row.via \in Codes /\ InviteActive(row.via)
              /\ inv' = [inv EXCEPT ![row.via].uses = @ + 1]
    PROVE  InviteInv' /\ inv' \in [Codes -> InviteRows]
  <1>1. user'[w] = row /\ \A v \in Ids : v # w => user'[v] = user[v]
    BY OneUser
  <1>2. user[w].via = None /\ None \notin Codes
    BY AccountsAssumption DEF InviteInv, NewIsUnused
  <1>3. \A c \in Codes : inv[c] \in InviteRows /\ inv[c].uses \in Nat
    BY DEF TypeOK, InviteRows
  <1>4. CASE inv' = inv /\ (cfg.invite => row.via = None)
    <2>1. NewIsUnused'
      BY <1>1, <1>4 DEF InviteInv, NewIsUnused
    <2>2. ASSUME NEW c \in Codes, cfg.invite PROVE Spent(c)'
      <3>1. Via(c)' = Via(c)
        BY <1>1, <1>2, <1>4, <2>2 DEF Via
      <3> QED BY <1>4, <2>2, <3>1 DEF InviteInv, Spent
    <2> QED BY <1>4, <2>1, <2>2 DEF InviteInv, TypeOK
  <1>5. CASE /\ row.via \in Codes /\ InviteActive(row.via)
             /\ inv' = [inv EXCEPT ![row.via].uses = @ + 1]
    <2>1. PICK d \in Codes : d = row.via
      BY <1>5
    <2>2. PICK n \in Nat : n = inv[d].uses
      BY <1>3
    <2>3. PICK used : used = [inv[d] EXCEPT !.uses = n + 1]
      OBVIOUS
    <2>4. used \in InviteRows /\ used.uses = n + 1 /\ used.st = inv[d].st
      BY <1>3, <2>2, <2>3 DEF InviteRows
    <2>5. inv' = [inv EXCEPT ![d] = used]
      BY <1>5, <2>1, <2>2, <2>3
    <2>6. /\ inv' \in [Codes -> InviteRows] /\ inv'[d] = used
          /\ \A c \in Codes : c # d => inv'[c] = inv[c]
      BY <2>4, <2>5 DEF TypeOK
    <2>7. inv[d].st = "open" /\ n < MaxUses
      BY <1>5, <2>1, <2>2 DEF InviteActive
    <2>8. NewIsUnused'
      BY <1>1, <2>4, <2>6, <2>7 DEF InviteInv, NewIsUnused
    <2>9. ASSUME NEW c \in Codes, cfg.invite PROVE Spent(c)'
      <3>1. Spent(c)
        BY <2>9 DEF InviteInv
      <3>2. CASE c # d
        <4>1. Via(c)' = Via(c)
          BY <1>1, <1>2, <2>1, <3>2 DEF Via
        <4> QED BY <2>6, <3>1, <3>2, <4>1 DEF Spent
      <3>3. CASE c = d
        <4>1. w \notin Via(d) /\ Via(d)' = Via(d) \cup {w}
          BY <1>1, <1>2, <2>1 DEF Via
        <4>2. IsFiniteSet(Via(d)) /\ Cardinality(Via(d)) = n
          BY <2>2, <3>1, <3>3 DEF Spent
        <4>3. IsFiniteSet(Via(d)') /\ Cardinality(Via(d)') = n + 1
          BY <4>1, <4>2, FS_AddElement
        <4>4. inv'[d].uses = n + 1 /\ n + 1 <= MaxUses
          BY <2>4, <2>6, <2>7, Bounds
        <4> QED BY <3>3, <4>3, <4>4 DEF Spent
      <3> QED BY <3>2, <3>3
    <2> QED BY <2>6, <2>8, <2>9 DEF InviteInv
  <1> QED BY <1>4, <1>5

LEMMA CreateStep ==
    ASSUME AccountsInv, NEW p \in Procs, NEW r \in Reqs, Plain(r), Goto(p, r), RoomForUser,
           NEW row \in UserRows, row.st = "live", CreateUser(row),
           \/ row.call = None
           \/ row.call = req[p].call /\ req[p].by = None,
           \/ inv' = inv /\ (cfg.invite => row.via = None)
           \/ /\ row.via \in Codes /\ InviteActive(row.via)
              /\ inv' = [inv EXCEPT ![row.via].uses = @ + 1],
           UNCHANGED <<cfg, key, memory, clock, ghosts>>
    PROVE  AccountsInv'
  <1>1. TypeOK /\ InviteInv
    BY DEF AccountsInv
  <1>2. PICK w \in Ids :
             /\ w = Min(FreeIds) /\ user[w].st = "none" /\ user' = [user EXCEPT ![w] = row]
             /\ book' \in [Books -> BookRows] /\ role' \in [Books -> [Ids -> Roles]]
    BY <1>1, CreatedUser
  <1>3. req'[p] = r /\ \A q \in Procs : q # p => req'[q] = req[q]
    BY <1>1, ReqStep
  <1>4. \A q \in Procs : req'[q].pc \in {"register", "consume"} => req'[q] = req[q]
    BY <1>3 DEF Plain
  <1>5. InviteInv' /\ inv' \in [Codes -> InviteRows]
    BY <1>1, <1>2, <1>4, SpentByOne
  <1> QED BY <1>2, <1>5, WriteUser

LEMMA CreateSteps ==
    ASSUME AccountsInv, NEW p \in Procs, Register(p) \/ ProvisionUser(p) \/ ConsumeInvite(p)
    PROVE  AccountsInv'
  <1>1. TypeOK /\ InviteInv /\ req[p] \in Reqs
    BY DEF AccountsInv, TypeOK
  <1>2. /\ req[p].email \in Emails \cup {None} /\ req[p].sub \in Subjects \cup {None}
        /\ req[p].call \in Calls \cup {None} /\ req[p].code \in Codes \cup {None}
    BY <1>1 DEF Reqs, ReqRows
  <1>3. ASSUME NEW code \in Codes \cup {None}, ConsumeInviteByCode(code),
               cfg.invite => code \in Codes
        PROVE  \/ inv' = inv /\ (cfg.invite => code = None)
               \/ /\ code \in Codes /\ InviteActive(code)
                  /\ inv' = [inv EXCEPT ![code].uses = @ + 1]
    BY <1>3 DEF ConsumeInviteByCode
  <1>4. cfg.invite /\ req[p].pc \in {"register", "consume"} => req[p].code \in Codes
    BY <1>1 DEF InviteInv
  <1>5. CASE Register(p)
    <2>1. PICK row : row = [NoUser EXCEPT !.st = "live", !.email = req[p].email,
                              !.call = req[p].call, !.pw = TRUE, !.via = req[p].code]
      OBVIOUS
    <2>2. row \in UserRows /\ row.st = "live" /\ row.call = req[p].call /\ row.via = req[p].code
      BY <1>2, <2>1 DEF NoUser, UserRows
    <2>3. /\ RoomForUser /\ CreateUser(row) /\ ConsumeInviteByCode(req[p].code) /\ Goto(p, Idle)
          /\ req[p].pc = "register" /\ UNCHANGED <<cfg, key, memory, clock, ghosts>>
      BY <1>5, <2>1 DEF Register, At, Done
    <2>4. req[p].by = None
      BY <1>1, <2>3 DEF Reqs
    <2> QED BY <1>2, <1>3, <1>4, <2>2, <2>3, <2>4, CreateStep, IdleType, AuthType
  <1>6. CASE ConsumeInvite(p)
    <2>1. PICK row : row = [NoUser EXCEPT !.st = "live", !.email = req[p].email,
                              !.sub = req[p].sub, !.via = req[p].code]
      OBVIOUS
    <2>2. row \in UserRows /\ row.st = "live" /\ row.call = None /\ row.via = req[p].code
      BY <1>2, <2>1 DEF NoUser, UserRows
    <2>3. /\ RoomForUser /\ CreateUser(row) /\ ConsumeInviteByCode(req[p].code) /\ Goto(p, Idle)
          /\ req[p].pc = "consume" /\ UNCHANGED <<cfg, key, memory, clock, ghosts>>
      BY <1>6, <2>1 DEF ConsumeInvite, CreateZitadelUser, At, Done
    <2> QED BY <1>2, <1>3, <1>4, <2>2, <2>3, CreateStep, IdleType, AuthType
  <1>7. CASE ProvisionUser(p)
    <2>1. PICK row : row = [NoUser EXCEPT !.st = "live", !.email = req[p].email,
                              !.sub = req[p].sub, !.via = None]
      OBVIOUS
    <2>2. row \in UserRows /\ row.st = "live" /\ row.call = None /\ row.via = None
      BY <1>2, <2>1 DEF NoUser, UserRows
    <2>3. /\ RoomForUser /\ CreateUser(row) /\ inv' = inv /\ Goto(p, ForUser(Min(FreeIds)))
          /\ UNCHANGED <<cfg, key, memory, clock, ghosts>>
      BY <1>7, <2>1 DEF ProvisionUser, CreateZitadelUser, ForUser
    <2>4. Min(FreeIds) \in Ids
      BY <2>3, FreeFound DEF RoomForUser, FreeIds
    <2> QED BY <2>2, <2>3, <2>4, CreateStep, AuthType
  <1> QED BY <1>5, <1>6, <1>7

\* The lookup of a subject before its account is made.
LEMMA ConsumeLookupStep ==
    ASSUME AccountsInv, NEW p \in Procs, NEW s \in Subjects, NEW e \in Emails,
           NEW code \in Codes \cup {None}, ConsumeInviteLookup(p, s, e, code)
    PROVE  AccountsInv'
  <1>1. TypeOK
    BY DEF AccountsInv
  <1>2. PICK r : r = [Idle EXCEPT !.pc = "consume", !.sub = s, !.email = e, !.code = code]
    OBVIOUS
  <1>3. r \in Reqs /\ r.pc = "consume" /\ r.call = None /\ r.code = code
    BY <1>2 DEF Idle, Reqs, ReqRows, Steps
  <1>4. Begin(p, r) /\ (cfg.invite => code \in Codes)
    BY <1>2 DEF ConsumeInviteLookup
  <1>5. /\ req' \in [Procs -> Reqs] /\ served' \in Nat
        /\ req'[p] = r /\ \A q \in Procs : q # p => req'[q] = req[q]
    BY <1>1, <1>3, <1>4, ReqStep
  <1>6. UNCHANGED <<cfg, user, inv, book, role, key, tok, track, clock, raced, opened, guesses>>
    BY DEF ConsumeInviteLookup, tables, memory, ghosts
  <1>7. TypeOK'
    BY <1>1, <1>5, <1>6 DEF TypeOK
  <1>8. /\ \A q \in Procs : req'[q].pc \in {"register", "consume"} /\ cfg.invite =>
                req'[q] = req[q] \/ req'[q].code \in Codes
        /\ \A q \in Procs : req'[q].pc = "login" => req'[q] = req[q]
        /\ \A q \in Procs : req'[q].call # None =>
                req'[q].call = req[q].call /\ req'[q].by = req[q].by
    BY <1>3, <1>4, <1>5
  <1>9. InviteInv'
    BY <1>6, <1>8, InviteQuiet DEF AccountsInv
  <1>10. LockInv'
    BY <1>1, <1>6, <1>8, LockQuiet DEF AccountsInv
  <1>11. CallInv'
    BY <1>6, <1>8, CallQuiet DEF AccountsInv
  <1> QED BY <1>7, <1>9, <1>10, <1>11 DEF AccountsInv

-----------------------------------------------------------------------------
(* The theorems. *)

LEMMA NextInv == AccountsInv /\ [Next]_vars => AccountsInv'
  <1> SUFFICES ASSUME AccountsInv, [Next]_vars PROVE AccountsInv'
    OBVIOUS
  <1>1. CASE UNCHANGED vars
    <2>1. TypeOK'
      BY <1>1 DEF vars, AccountsInv, TypeOK
    <2>2. UNCHANGED <<cfg, user, inv, track, req, raced, guesses>>
      BY <1>1 DEF vars
    <2> QED BY <2>1, <2>2, PlainStep
  <1>2. ASSUME NEW p \in Procs, Unauthenticated(p) PROVE AccountsInv'
    <2>1. CASE \E e \in Emails, c \in Calls \cup {None}, code \in Codes \cup {None} :
                  RegisterCheck(p, e, c, code)
      BY <2>1, CheckSteps
    <2>2. CASE Register(p) \/ ProvisionUser(p) \/ ConsumeInvite(p)
      BY <2>2, CreateSteps
    <2>3. CASE \E s \in Subjects, e \in Emails : LookupOrLinkUser(p, s, e)
      BY <2>3, LookupStep
    <2>4. CASE \E s \in Subjects, e \in Emails, code \in Codes \cup {None} :
                  ConsumeInviteLookup(p, s, e, code)
      BY <2>4, ConsumeLookupStep
    <2>5. CASE \E e \in Emails : LoginCheck(p, e) \/ LoginRefused(p, e)
      BY <2>5, LoginCheckStep, LoginQuietSteps
    <2>6. CASE RecordFailedLoginAttempt(p)
      BY <2>6, FailureStep
    <2>7. CASE LoginSucceeds(p)
      <3>1. req[p].email \in Emails
        BY <2>7 DEF AccountsInv, TypeOK, Reqs, LoginSucceeds, At
      <3> QED BY <2>7, <3>1, LoginQuietSteps
    <2>8. CASE \E u \in Ids : ValidateToken(p, u) \/ AuthenticateAPIKey(p, u)
      BY <2>8, AuthSteps
    <2>9. CASE \E t \in Tokens, path \in Paths : ConsumeStreamToken(p, t, path)
      BY <2>9, TokenSteps
    <2> QED BY <1>2, <2>1, <2>2, <2>3, <2>4, <2>5, <2>6, <2>7, <2>8, <2>9 DEF Unauthenticated
  <1>3. ASSUME NEW p \in Procs, Authenticated(p) PROVE AccountsInv'
    <2>1. CASE \E t \in Tokens, path \in Paths : IssueStreamToken(p, t, path)
      BY <2>1, TokenSteps
    <2>2. CASE GenerateAPIKey(p) \/ RevokeAPIKey(p)
      BY <2>2, KeySteps
    <2>3. CASE CreateInviteCheck(p) \/ ChangePasswordCheck(p)
      BY <2>3, AuthSteps
    <2>4. CASE \E c \in Codes : CreateInviteKey(p, c) \/ RevokeInviteKey(p, c)
      BY <2>4, InviteSteps
    <2>5. CASE UpdatePasswordHash(p) \/ DeleteMe(p)
      BY <2>5, UserSteps
    <2>6. CASE \E c \in Calls : UpdateProfileCheck(p, c)
      BY <2>6, CheckSteps
    <2>7. CASE UpdateProfile(p)
      BY <2>7, ProfileStep
    <2>8. CASE \E d \in BOOLEAN : CreateLogbook(p, d)
      BY <2>8, LogbookSteps
    <2>9. CASE \E b \in Books : DeleteLogbook(p, b) \/ \E d \in BOOLEAN : UpdateLogbook(p, b, d)
      BY <2>9, LogbookSteps
    <2>10. CASE \E b \in Books, u \in Ids :
                  \/ RemoveMember(p, b, u) \/ TransferOwnership(p, b, u)
                  \/ \E r \in {"admin", "viewer"} :
                       InviteMember(p, b, u, r) \/ UpdateMemberRole(p, b, u, r)
      BY <2>10, MemberSteps
    <2> QED BY <1>3, <2>1, <2>2, <2>3, <2>4, <2>5, <2>6, <2>7, <2>8, <2>9, <2>10 DEF Authenticated
  <1>4. ASSUME NEW p \in Procs, Answer(p) PROVE AccountsInv'
    BY <1>4, AuthSteps
  <1>5. ASSUME NEW e \in Emails, CleanupLoginAttemptTracker(e) PROVE AccountsInv'
    BY <1>5, LoginQuietSteps
  <1>6. ASSUME NEW c \in Codes, InviteExpires(c) PROVE AccountsInv'
    BY <1>6, InviteSteps
  <1>7. CASE Tick \/ \E t \in Tokens : ExpireStreamToken(t)
    BY <1>7, TimeSteps
  <1> QED BY <1>1, <1>2, <1>3, <1>4, <1>5, <1>6, <1>7 DEF Next

LEMMA Invariant == Spec => []AccountsInv
  BY InitInv, NextInv, PTL DEF Spec

\* Types of the account tables, the tracker and the requests: what acts for a
\* user has one, and only a registration and a profile change carry a callsign.
THEOREM TypeCorrect == Spec => []TypeOK
  <1>1. AccountsInv => TypeOK
    BY DEF AccountsInv
  <1> QED BY <1>1, Invariant, PTL

\* ConsumeInviteByCode and the account it admits commit together: the uses of
\* an invite are the accounts made with it, never more than max_uses, however
\* many registrations race for the last one.
THEOREM InvitesSpent == Spec => []InviteSpent
  <1>1. AccountsInv => InviteSpent
    BY DEF AccountsInv, InviteInv, Spent, Via, InviteSpent
  <1> QED BY <1>1, Invariant, PTL

\* The lockout of loginAttemptTracker lets at most MaxFailed wrong passwords
\* through and one more for each other request that can be in flight.
THEOREM GuessesLimited == Spec => []GuessesBounded
  <1>1. ASSUME AccountsInv, NEW e \in Emails
        PROVE  guesses[e] <= MaxFailed + Cardinality(Procs) - 1
    <2>1. guesses[e] \in Nat /\ track[e].until \in Nat
      BY <1>1 DEF AccountsInv, TypeOK, Entries
    <2>2. /\ track[e].until = 0 => guesses[e] < MaxFailed
          /\ track[e].until # 0 =>
               guesses[e] + Cardinality(Trying(e)) <= MaxFailed + Cardinality(Procs) - 1
      BY <1>1 DEF AccountsInv, LockInv
    <2> QED BY <2>1, <2>2, TryingFinite, Bounds
  <1>2. AccountsInv => GuessesBounded
    BY <1>1 DEF GuessesBounded
  <1> QED BY <1>2, Invariant, PTL

\* Two live accounts have one callsign only where the checks of two requests
\* overlapped: CallsignInUse and the write that follows are not one statement,
\* and nothing else lets a second account take it.
THEOREM CallsignsApart == Spec => []CallsignsCollideOnlyInRace
  <1>1. AccountsInv => CallsignsCollideOnlyInRace
    BY DEF AccountsInv, CallInv
  <1> QED BY <1>1, Invariant, PTL

=============================================================================
