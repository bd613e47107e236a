---------------------------- MODULE AwardsProofs ----------------------------
(***************************************************************************)
(* Proofs about Confirmations and Awards, for every set of users, QSOs,    *)
(* workers, milestones and configurations and every bound: a confirmation  *)
(* has a ground and is never taken back, a checkpoint passes no card       *)
(* unseen, clean award rows tell what the log is worth, and a milestone is *)
(* announced once.                                                         *)
(***************************************************************************)
EXTENDS Awards, NaturalsInduction, WellFoundedInduction, FiniteSetTheorems, TLAPS

(* Confirmations: the rows, and what the match and pull jobs remember.     *)

ConfRows == [status : {"none", "unconfirmed", "matched", "pending", "confirmed", "rejected"},
             matched : Qsos \union {None}, via : SUBSET {"rl", "lotw", "eqsl"},
             ours : BOOLEAN, theirs : BOOLEAN]
ConfOK ==
    /\ setup \in Setups /\ verified \subseteq Users /\ now \in Nat
    /\ conf \in [Qsos -> ConfRows]
    /\ DOMAIN qso = Qsos /\ DOMAIN match = Qsos /\ DOMAIN pull = Services
    /\ DOMAIN said = Qsos
    /\ lastPull \in [Services -> Nat]

\* Both operators are verified and their logs have agreed.
Peer(q, r) == r \in Qsos /\ OwnerOf[r] # OwnerOf[q] /\ LogsAgree(q, r)
Peers(q) == /\ OwnerOf[q] \in verified
            /\ \E r \in Qsos : OwnerOf[r] \in verified /\ Peer(q, r)
Ground == \A q \in Qsos : conf[q].status = "confirmed" => conf[q].via # {} \/ Peers(q)

\* A match job remembers what its row has said, then a contact of somebody
\* else that agrees with it.
Remembers(q, r) ==
    /\ r.pc = "find" => r.slot \in said[q]
    /\ r.pc = "ours" => r.best = None \/ Peer(q, r.best)
    /\ r.pc = "theirs" => Peer(q, r.best)
MatchOK == \A q \in Qsos : Remembers(q, match[q])
IsQso(r) == r \in [st : {r.st}, slot : {r.slot}, rcvd : {r.rcvd}]
SaidOK ==
    \A q \in Qsos : IsQso(qso[q]) /\ (qso[q].st = "live" => qso[q].slot \in said[q])

CardsOK ==
    /\ \A c \in cards : c.at \in Nat /\ c.at <= now /\ c.svc \in Services
    /\ \A s \in Services : lastPull[s] <= now

\* What a pull in flight knows: everything older than the date it asked for
\* is accounted for, and what is older than its mark is at hand.
Since(s) == pull[s].pc # "idle" => pull[s].since \in Nat /\ pull[s].since <= lastPull[s]
Handled(s) ==
    \A c \in cards : c.svc = s /\ (pull[s].mark = None \/ c.at < pull[s].mark)
        => c \in pull[s].got \union applied \union excused
AtHand(s) ==
    pull[s].pc \in {"cards", "apply"} =>
        /\ pull[s].mark # None => s = "lotw" /\ pull[s].mark \in Nat /\ pull[s].mark <= now
        /\ Handled(s)
Pulled(s) == pull[s].pc = "apply" => pull[s].q \in Qsos
PullOK(s) == Since(s) /\ AtHand(s) /\ Pulled(s)
PullsOK == \A s \in Services : PullOK(s)

ConfInv == ConfOK /\ MatchOK /\ SaidOK /\ CardsOK /\ PullsOK /\ Ground /\ CardsAccounted

-----------------------------------------------------------------------------
(* Awards: the cache and the refreshes in flight.                          *)

IsRow(r) ==
    r \in [key : {r.key}, worked : {r.worked}, conf : {r.conf}, dirty : {r.dirty}]
RowsOK ==
    /\ DOMAIN rows = Collectors
    /\ \A u \in Collectors : DOMAIN rows[u] = Types /\ \A t \in Types : \A r \in rows[u][t] : IsRow(r)

\* A refresh deletes and reads, writes what it read, or announces.
Steps(r) == [pc : {"delete", "select"}, u : Collectors, i : 1 .. 9, ok : {r.ok}]
Writes(r) == [pc : {"upsert"}, u : Collectors, i : 1 .. 9, ok : {r.ok}, todo : {r.todo}, n : {r.n}]
Checks(r) == [pc : {"check", "notify"}, u : Collectors, i : 1 .. 9, ok : {r.ok}, due : {r.due}]
RefreshOK(r) ==
    \/ r = Idle
    \/ /\ Order[r.i] \in Types
       /\ \/ r \in Steps(r)
          \/ r \in Writes(r) /\ (r.ok => r.todo \subseteq Progress(Order[r.i]))
          \/ /\ r \in Checks(r) /\ r.due \subseteq MilestonesFor[Order[r.i]]
             /\ r.pc = "notify" => r.due # {}
RefreshesOK == DOMAIN refresh = Workers /\ \A w \in Workers : RefreshOK(refresh[w])

\* A refresh that can be relied upon is the only one of its user.
OkIsAlone ==
    \A w, x \in Workers :
        refresh[w].pc # "idle" /\ refresh[w].ok /\ x \in Refreshing(refresh[w].u) => x = w
NotRacedIsAlone ==
    \A w, x \in Workers : refresh[w].pc # "idle" /\ refresh[w].u \notin raced
                            /\ x \in Refreshing(refresh[w].u) => x = w

\* The rows tell what the log is worth, for the entries given.
Shows(u, t, G) ==
    /\ ByType(u, t) = KeysOf(G)
    /\ \A g \in G : g.conf => \E r \in rows[u][t] : r.key = g.key /\ r.conf
Current(u, t) == Shows(u, t, Progress(t))

RowsCurrent ==
    \A u \in Collectors :
        u \notin missed /\ ~Dirty(u) /\ Refreshing(u) = {} => \A t \in Types : Current(u, t)

\* How far a refresh that can be relied upon has brought the rows: those of
\* the types before its own, and those of its type.
Sofar(r) ==
    /\ r.pc = "select" => Shows(r.u, Order[r.i], {})
    /\ r.pc = "upsert" => Shows(r.u, Order[r.i], Progress(Order[r.i]) \ r.todo)
    /\ r.pc \in {"check", "notify"} => Current(r.u, Order[r.i])
Reliable(r) ==
    r.pc # "idle" /\ r.ok =>
        /\ \A j \in 1 .. (r.i - 1) : Order[j] \in Types => Current(r.u, Order[j])
        /\ Sofar(r)
RefreshInv == \A w \in Workers : Reliable(refresh[w])

\* A milestone about to be announced was not.
NotYetSent ==
    \A w \in Workers : refresh[w].pc = "notify" /\ refresh[w].u \notin raced
        => notes[refresh[w].u][TypeOf(w)][Lowest(refresh[w].due)] = 0

CacheInv == RowsOK /\ RefreshesOK /\ OkIsAlone /\ RefreshInv /\ RowsCurrent
NotesOK ==
    /\ DOMAIN notes = Collectors
    /\ \A u \in Collectors : /\ DOMAIN notes[u] = Types
                             /\ \A t \in Types : notes[u][t] \in [MilestonesFor[t] -> Nat]
OnceAlone ==
    \A u \in Collectors \ raced : \A t \in Types : \A m \in MilestonesFor[t] :
        notes[u][t][m] <= 1

\* The refreshes that have found a milestone not announced and will announce
\* it, with those that have, are no more than the workers.
Notifiers(u, t, m) ==
    {w \in Workers : /\ refresh[w].pc = "notify" /\ refresh[w].u = u /\ TypeOf(w) = t
                     /\ Lowest(refresh[w].due) = m}
Counted ==
    \A u \in Collectors : \A t \in Types : \A m \in MilestonesFor[t] :
        notes[u][t][m] + Cardinality(Notifiers(u, t, m)) <= Cardinality(Workers)
NoteInv == NotesOK /\ NotRacedIsAlone /\ NotYetSent /\ OnceAlone /\ Counted

-----------------------------------------------------------------------------
(* Confirmation rows.                                                      *)

\* What a statement may make of a row: it keeps a confirmation, and gives
\* one only with a ground.
RowMoves(q, old, new) ==
    /\ new \in ConfRows /\ old.via \subseteq new.via
    /\ old.status = "confirmed" => new.status = "confirmed"
    /\ new.status = "confirmed"
          => old.status = "confirmed" \/ new.via # {} \/ Peers(q)

\* A row written by its id moves as it may, and the others stay.
ConfMoves ==
    \A q \in Qsos : conf'[q] = conf[q] \/ RowMoves(q, conf[q], conf'[q])

\* Two logs agree whichever of them is asked.
LEMMA PeerBoth ==
    ASSUME NEW q \in Qsos, NEW r, Peer(q, r)
    PROVE  Peer(r, q)
BY DEF Peer, LogsAgree, Agree

LEMMA WriteMoves ==
    ASSUME ConfOK, NEW q \in Qsos, NEW new,
           conf' = [conf EXCEPT ![q] = new], RowMoves(q, conf[q], new)
    PROVE  conf' \in [Qsos -> ConfRows] /\ ConfMoves
BY DEF ConfOK, RowMoves, ConfMoves

LEMMA UpsertMoves ==
    ASSUME ConfOK, NEW q \in Qsos, NEW status, NEW matched, NEW ours, NEW theirs,
           status \in {"unconfirmed", "matched", "confirmed"},
           matched \in Qsos \union {None}, ours \in BOOLEAN, theirs \in BOOLEAN,
           status = "confirmed" => Peers(q),
           upsertConfirmation(q, status, matched, ours, theirs)
    PROVE  conf' \in [Qsos -> ConfRows] /\ ConfMoves
<1> PICK new : new = [status |-> UpsertedStatus(conf[q], status),
                      matched |-> matched, via |-> conf[q].via,
                      ours |-> ours, theirs |-> theirs]
    OBVIOUS
<1>1. conf[q] \in ConfRows
    BY DEF ConfOK
<1>2. UpsertedStatus(conf[q], status) \in {"unconfirmed", "matched", "confirmed"}
    BY DEF UpsertedStatus
<1>3. new \in ConfRows
    BY <1>1, <1>2 DEF ConfRows
<1>4. new.via = conf[q].via /\ new.status = UpsertedStatus(conf[q], status)
    OBVIOUS
<1>5. RowMoves(q, conf[q], new)
    BY <1>3, <1>4 DEF RowMoves, UpsertedStatus
<1> QED
    BY <1>5, WriteMoves DEF upsertConfirmation

LEMMA OursMoves ==
    ASSUME ConfOK, MatchOK, NEW q \in Qsos, UpsertOurs(q)
    PROVE  conf' \in [Qsos -> ConfRows] /\ ConfMoves
<1> PICK r : r = match[q].best
    OBVIOUS
<1>1. CASE r = None /\ upsertConfirmation(q, "unconfirmed", None, OperatorVerified(OwnerOf[q]), FALSE)
    <2>1. OperatorVerified(OwnerOf[q]) \in BOOLEAN /\ None \in Qsos \union {None} /\ FALSE \in BOOLEAN
        BY DEF OperatorVerified
    <2>2. "unconfirmed" \in {"unconfirmed", "matched", "confirmed"} /\ ~("unconfirmed" = "confirmed")
        OBVIOUS
    <2> PICK a : a = OperatorVerified(OwnerOf[q])
        OBVIOUS
    <2>3. a \in BOOLEAN
        BY <2>1
    <2> PICK b : b = FALSE
        OBVIOUS
    <2>4. upsertConfirmation(q, "unconfirmed", None, a, b) /\ b \in BOOLEAN
        BY <1>1, Zenon
    <2> QED
        BY <2>1, <2>2, <2>3, <2>4, UpsertMoves
<1>2. CASE r # None /\ upsertConfirmation(q,
              DetermineConfirmationStatus(OperatorVerified(OwnerOf[q]), r # None /\ OperatorVerified(OwnerOf[r])),
              r, OperatorVerified(OwnerOf[q]), r # None /\ OperatorVerified(OwnerOf[r]))
    <2>1. Peer(q, r)
        BY <1>2 DEF UpsertOurs, MatchOK, Remembers
    <2>a. PICK st : st = DetermineConfirmationStatus(OperatorVerified(OwnerOf[q]), r # None /\ OperatorVerified(OwnerOf[r]))
        OBVIOUS
    <2>2. st \in {"unconfirmed", "matched", "confirmed"}
        BY <2>a DEF DetermineConfirmationStatus
    <2>3. st = "confirmed" => Peers(q)
        BY <2>1, <2>a DEF DetermineConfirmationStatus, Peers, Peer, OperatorVerified
    <2>b. PICK a : a = OperatorVerified(OwnerOf[q])
        OBVIOUS
    <2>c. PICK b : b = (r # None /\ OperatorVerified(OwnerOf[r]))
        OBVIOUS
    <2>4. upsertConfirmation(q, st, r, a, b)
        BY <1>2, <2>a, <2>b, <2>c, Zenon
    <2>5. a \in BOOLEAN /\ b \in BOOLEAN
        BY <2>b, <2>c DEF OperatorVerified
    <2>6. r \in Qsos \union {None}
        BY <2>1 DEF Peer
    <2> QED
        BY <2>2, <2>3, <2>4, <2>5, <2>6, UpsertMoves
<1> QED
    BY <1>1, <1>2, Zenon DEF UpsertOurs

LEMMA TheirsMoves ==
    ASSUME ConfOK, MatchOK, NEW q \in Qsos, UpsertTheirs(q)
    PROVE  conf' \in [Qsos -> ConfRows] /\ ConfMoves
<1> PICK r : r = match[q].best
    OBVIOUS
<1>1. Peer(q, r) /\ Peer(r, q)
    BY PeerBoth DEF UpsertTheirs, MatchOK, Remembers
<1>2. CASE conf' = conf
    BY <1>2 DEF ConfOK, ConfMoves
<1>3. CASE upsertConfirmation(r, DetermineConfirmationStatus(OperatorVerified(OwnerOf[r]), OperatorVerified(OwnerOf[q])),
                             q, OperatorVerified(OwnerOf[r]), OperatorVerified(OwnerOf[q]))
    <2> PICK st : st = DetermineConfirmationStatus(OperatorVerified(OwnerOf[r]), OperatorVerified(OwnerOf[q]))
        OBVIOUS
    <2>2. st \in {"unconfirmed", "matched", "confirmed"}
        BY DEF DetermineConfirmationStatus
    <2>3. st = "confirmed" => Peers(r)
        BY <1>1 DEF DetermineConfirmationStatus, Peers, Peer, OperatorVerified
    <2>4. OperatorVerified(OwnerOf[q]) \in BOOLEAN /\ OperatorVerified(OwnerOf[r]) \in BOOLEAN
        BY DEF OperatorVerified
    <2>5. r \in Qsos /\ q \in Qsos \union {None}
        BY <1>1 DEF Peer
    <2> PICK a : a = OperatorVerified(OwnerOf[r])
        OBVIOUS
    <2> PICK b : b = OperatorVerified(OwnerOf[q])
        OBVIOUS
    <2>6. upsertConfirmation(r, st, q, a, b)
        BY <1>3, Zenon
    <2>7. a \in BOOLEAN /\ b \in BOOLEAN
        BY <2>4
    <2> QED
        BY <2>2, <2>3, <2>5, <2>6, <2>7, UpsertMoves
<1> QED
    BY <1>2, <1>3, Zenon DEF UpsertTheirs

LEMMA ConfirmMoves ==
    ASSUME ConfOK, NEW q \in Qsos, Confirm(q) \/ Reject(q)
    PROVE  conf' \in [Qsos -> ConfRows] /\ ConfMoves
<1>1. conf[q] \in ConfRows
    BY DEF ConfOK
<1>2. CASE Confirm(q)
    <2> PICK new : new = [conf[q] EXCEPT !.status = "confirmed", !.via = @ \union {"rl"}]
        OBVIOUS
    <2>1. conf' = [conf EXCEPT ![q] = new]
        BY <1>2 DEF Confirm, ConfOK
    <2>2. new \in ConfRows /\ new.via = conf[q].via \union {"rl"} /\ new.status = "confirmed"
        BY <1>1 DEF ConfRows
    <2>3. RowMoves(q, conf[q], new)
        BY <2>2 DEF RowMoves
    <2> QED
        BY <2>1, <2>3, WriteMoves
<1>3. CASE Reject(q)
    <2> PICK new : new = [conf[q] EXCEPT !.status = "rejected"]
        OBVIOUS
    <2>1. conf' = [conf EXCEPT ![q] = new]
        BY <1>3 DEF Reject, ConfOK
    <2>2. new \in ConfRows /\ new.via = conf[q].via /\ new.status = "rejected"
        BY <1>1 DEF ConfRows
    <2>3. RowMoves(q, conf[q], new)
        BY <2>2, <1>3 DEF RowMoves, Reject
    <2> QED
        BY <2>1, <2>3, WriteMoves
<1> QED
    BY <1>2, <1>3

LEMMA CardMoves ==
    ASSUME ConfOK, PullsOK, NEW s \in Services, applyConfirmation(s)
    PROVE  conf' \in [Qsos -> ConfRows] /\ ConfMoves
<1> PICK q : q = pull[s].q
    OBVIOUS
<1>1. q \in Qsos
    BY DEF applyConfirmation, PullsOK, PullOK, Pulled
<1>2. conf[q] \in ConfRows
    BY <1>1 DEF ConfOK
<1> PICK new : new = ConfirmedBy(conf[q], s)
    OBVIOUS
<1>3. conf' = [conf EXCEPT ![q] = new]
    BY DEF applyConfirmation, lotwConfirmation, eqslConfirmation, Services
<1>4. new \in ConfRows /\ new.via = conf[q].via \union {s} /\ new.status = "confirmed"
    BY <1>2 DEF ConfRows, ConfirmedBy, Services
<1>5. RowMoves(q, conf[q], new)
    BY <1>4 DEF RowMoves
<1> QED
    BY <1>1, <1>3, <1>5, WriteMoves

(* The steps, as the confirmations see them.                               *)

LogStep(q) == (\E s \in Slots : CreateQSO(q, s) \/ UpdateQSO(q, s)) \/ DeleteQSO(q)
MatchStep(q) == \/ loadQSOForConfirmation(q) \/ FindMatches(q) \/ UpsertOurs(q)
                \/ UpsertTheirs(q) \/ MatchFails(q)
OwnerStep(q) == Confirm(q) \/ Reject(q)
FetchStep(s) == EnqueuePull(s) \/ PullStep(s) \/ applyConfirmation(s)
ArriveStep(s) == \E x \in Slots, b \in BOOLEAN : CardArrives(s, x, b)
AsideStep == UNCHANGED <<setup, qso, said, conf, verified, match, now, cards, lastPull, pull,
                         applied, excused>>

\* What upsertDXCCAwardProgress leaves alone.
LEMMA DXCCStays ==
    ASSUME NEW u, NEW k, NEW c, upsertDXCCAwardProgress(u, k, c)
    PROVE  UNCHANGED <<setup, qso, said, conf, verified, match, now, cards, lastPull, pull,
                       applied, excused, refresh, notes, raced>>
BY DEF upsertDXCCAwardProgress

LEMMA ConfSteps ==
    ASSUME Next
    PROVE  \/ \E q \in Qsos : LogStep(q) \/ MatchStep(q) \/ OwnerStep(q)
           \/ \E s \in Services : ArriveStep(s) \/ FetchStep(s)
           \/ Tick \/ AsideStep
<1>1. CASE \E q \in Qsos : \/ \E s \in Slots : CreateQSO(q, s) /\ Unflagged
                           \/ \E s \in Slots : UpdateQSO(q, s) /\ Flagged(OwnerOf[q])
                           \/ DeleteQSO(q) /\ Flagged(OwnerOf[q])
                           \/ loadQSOForConfirmation(q) /\ UNCHANGED awardVars
                           \/ FindMatches(q) /\ UNCHANGED awardVars
                           \/ UpsertOurs(q) /\ UNCHANGED awardVars
                           \/ UpsertTheirs(q) /\ UNCHANGED awardVars
                           \/ MatchFails(q) /\ UNCHANGED awardVars
                           \/ Confirm(q) /\ UNCHANGED awardVars
                           \/ Reject(q) /\ UNCHANGED awardVars
    BY <1>1, Zenon DEF LogStep, MatchStep, OwnerStep
<1>2. CASE \/ \E s \in Services, x \in Slots, b \in BOOLEAN :
                 CardArrives(s, x, b) /\ UNCHANGED awardVars
           \/ EnqueueLoTWConfirmationPull /\ UNCHANGED awardVars
           \/ EnqueueEQSLConfirmationPull /\ UNCHANGED awardVars
           \/ LoTWConfirmationPullWork /\ UNCHANGED awardVars
           \/ EQSLConfirmationPullWork /\ UNCHANGED awardVars
           \/ \E s \in Services : applyConfirmation(s) /\ Unflagged
    <2>1. "lotw" \in Services /\ "eqsl" \in Services
        BY DEF Services
    <2> QED
        BY <1>2, <2>1, Zenon DEF ArriveStep, FetchStep, EnqueueLoTWConfirmationPull,
               EnqueueEQSLConfirmationPull, LoTWConfirmationPullWork, EQSLConfirmationPullWork
<1>3. CASE Tick /\ UNCHANGED awardVars
    BY <1>3
<1>4. CASE \E w \in Workers : \/ RefreshStep(w) /\ UNCHANGED confVars
                              \/ TypeFails(w) \/ RefreshCrash(w)
    BY <1>4 DEF AsideStep, confVars, TypeFails, RefreshCrash, Fault
<1>5. CASE \E w \in Workers, u \in Collectors :
               \/ RefreshRequested(w, u)
               \/ PeriodicRefresh(w, u) /\ UNCHANGED confVars
    BY <1>5 DEF AsideStep, confVars, RefreshRequested
<1>6. CASE \E u \in Collectors, s \in Slots, c \in BOOLEAN : upsertDXCCAwardProgress(u, s.dxcc, c)
    <2>1. PICK u \in Collectors, s \in Slots, c \in BOOLEAN : upsertDXCCAwardProgress(u, s.dxcc, c)
        BY <1>6
    <2> QED
        BY <2>1, DXCCStays DEF AsideStep
<1>7. CASE \E u \in Collectors, t \in Types : \E m \in MilestonesFor[t] :
               DeleteNotification(u, t, m) \/ YearPasses(u, t, m)
    BY <1>7 DEF AsideStep, DeleteNotification, YearPasses, Gone
<1> QED
    BY <1>1, <1>2, <1>3, <1>4, <1>5, <1>6, <1>7, Zenon DEF Next

LEMMA StillMoves ==
    ASSUME ConfOK, conf' = conf
    PROVE  conf' \in [Qsos -> ConfRows] /\ ConfMoves
BY DEF ConfOK, ConfMoves

\* Every step keeps the confirmations and gives none without a ground.
LEMMA ConfRowsMove ==
    ASSUME ConfInv, Next
    PROVE  /\ conf' \in [Qsos -> ConfRows] /\ ConfMoves
           /\ setup' = setup /\ verified' = verified
<1> USE DEF ConfInv
<1>1. ASSUME NEW q \in Qsos, LogStep(q)
      PROVE  conf' = conf /\ setup' = setup /\ verified' = verified
    BY <1>1 DEF LogStep, CreateQSO, UpdateQSO, DeleteQSO
<1>2. ASSUME NEW q \in Qsos, MatchStep(q)
      PROVE  conf' \in [Qsos -> ConfRows] /\ ConfMoves /\ setup' = setup /\ verified' = verified
    <2>1. setup' = setup /\ verified' = verified
        BY <1>2 DEF MatchStep, loadQSOForConfirmation, FindMatches, UpsertOurs, UpsertTheirs,
                    MatchFails, MatchGoto
    <2>2. CASE loadQSOForConfirmation(q) \/ FindMatches(q) \/ MatchFails(q)
        <3>1. conf' = conf
            BY <2>2 DEF loadQSOForConfirmation, FindMatches, MatchFails
        <3> QED
            BY <2>1, <3>1, StillMoves
    <2>3. CASE UpsertOurs(q)
        BY <2>1, <2>3, OursMoves
    <2>4. CASE UpsertTheirs(q)
        BY <2>1, <2>4, TheirsMoves
    <2> QED
        BY <1>2, <2>2, <2>3, <2>4 DEF MatchStep
<1>3. ASSUME NEW q \in Qsos, OwnerStep(q)
      PROVE  conf' \in [Qsos -> ConfRows] /\ ConfMoves /\ setup' = setup /\ verified' = verified
    BY <1>3, ConfirmMoves DEF OwnerStep, Confirm, Reject
<1>4. ASSUME NEW s \in Services, FetchStep(s)
      PROVE  conf' \in [Qsos -> ConfRows] /\ ConfMoves /\ setup' = setup /\ verified' = verified
    <2>1. CASE EnqueuePull(s) \/ PullStep(s)
        <3>1. conf' = conf /\ setup' = setup /\ verified' = verified
            BY <2>1 DEF EnqueuePull, PullStep, Download, PullFails, MatchCard, ApplyFails,
                        updateLastPull, Unmatched, PullGoto
        <3> QED
            BY <3>1, StillMoves
    <2>2. CASE applyConfirmation(s)
        <3>1. setup' = setup /\ verified' = verified
            BY <2>2 DEF applyConfirmation, PullGoto
        <3> QED
            BY <2>2, <3>1, CardMoves
    <2> QED
        BY <1>4, <2>1, <2>2 DEF FetchStep
<1>5. ASSUME NEW s \in Services, ArriveStep(s)
      PROVE  conf' = conf /\ setup' = setup /\ verified' = verified
    BY <1>5 DEF ArriveStep, CardArrives
<1>6. ASSUME Tick \/ AsideStep
      PROVE  conf' = conf /\ setup' = setup /\ verified' = verified
    BY <1>6 DEF Tick, AsideStep
<1> QED
    BY <1>1, <1>2, <1>3, <1>4, <1>5, <1>6, ConfSteps, StillMoves

\* What the rows have said only grows, and holds what they say.
SaidMoves ==
    /\ SaidOK' /\ DOMAIN qso' = Qsos /\ DOMAIN said' = Qsos
    /\ \A q \in Qsos : said[q] \subseteq said'[q]

LEMMA SameSaid ==
    ASSUME ConfInv, UNCHANGED <<qso, said>>
    PROVE  SaidMoves
BY DEF ConfInv, ConfOK, SaidOK, IsQso, SaidMoves

\* A row written by its id says what it said, or what it says now is added.
LEMMA OneSays ==
    ASSUME ConfInv, NEW q \in Qsos, NEW row, IsQso(row), qso' = [qso EXCEPT ![q] = row],
           \/ said' = said /\ (row.st = "live" => row.slot \in said[q])
           \/ said' = [said EXCEPT ![q] = @ \union {row.slot}]
    PROVE  SaidMoves
<1>1. qso'[q] = row /\ \A r \in Qsos \ {q} : qso'[r] = qso[r]
    BY DEF ConfInv, ConfOK
<1>2. /\ DOMAIN qso' = Qsos /\ DOMAIN said' = Qsos
      /\ \A r \in Qsos : said[r] \subseteq said'[r]
      /\ row.st = "live" => row.slot \in said'[q]
    BY DEF ConfInv, ConfOK
<1>3. ASSUME NEW r \in Qsos
      PROVE  IsQso(qso'[r]) /\ (qso'[r].st = "live" => qso'[r].slot \in said'[r])
    BY <1>1, <1>2 DEF ConfInv, SaidOK
<1> QED
    BY <1>2, <1>3 DEF SaidMoves, SaidOK, IsQso

LEMMA LogSays ==
    ASSUME ConfInv, NEW q \in Qsos, LogStep(q)
    PROVE  SaidMoves
<1>0. IsQso(qso[q])
    BY DEF ConfInv, SaidOK
<1>1. ASSUME NEW s, CreateQSO(q, s) PROVE SaidMoves
    <2> PICK row : row = [st |-> "live", slot |-> s, rcvd |-> {}]
        OBVIOUS
    <2>1. IsQso(row) /\ row.slot = s
        BY DEF IsQso
    <2>2. qso' = [qso EXCEPT ![q] = row] /\ said' = [said EXCEPT ![q] = @ \union {s}]
        BY <1>1 DEF CreateQSO
    <2> QED
        BY <2>1, <2>2, OneSays
<1>2. ASSUME NEW s, UpdateQSO(q, s) PROVE SaidMoves
    <2> PICK row : row = [qso[q] EXCEPT !.slot = s]
        OBVIOUS
    <2>1. IsQso(row) /\ row.slot = s
        BY <1>0 DEF IsQso
    <2>2. qso' = [qso EXCEPT ![q] = row] /\ said' = [said EXCEPT ![q] = @ \union {s}]
        BY <1>2 DEF UpdateQSO
    <2> QED
        BY <2>1, <2>2, OneSays
<1>3. CASE DeleteQSO(q)
    <2> PICK row : row = [qso[q] EXCEPT !.st = "deleted"]
        OBVIOUS
    <2>1. IsQso(row) /\ row.st = "deleted"
        BY <1>0 DEF IsQso
    <2>2. qso' = [qso EXCEPT ![q] = row] /\ said' = said
        BY <1>3 DEF DeleteQSO
    <2> QED
        BY <2>1, <2>2, OneSays
<1> QED
    BY <1>1, <1>2, <1>3 DEF LogStep

LEMMA FetchSays ==
    ASSUME ConfInv, NEW s \in Services, FetchStep(s)
    PROVE  SaidMoves
<1>1. CASE EnqueuePull(s) \/ PullStep(s)
    <2>1. UNCHANGED <<qso, said>>
        BY <1>1 DEF EnqueuePull, PullStep, Download, PullFails, MatchCard, ApplyFails,
                    updateLastPull, Unmatched, PullGoto
    <2> QED
        BY <2>1, SameSaid
<1>2. CASE applyConfirmation(s)
    <2> PICK q : q = pull[s].q
        OBVIOUS
    <2> PICK row : row = ReceivedFrom(qso[q], s)
        OBVIOUS
    <2>1. q \in Qsos /\ qso' = [qso EXCEPT ![q] = row] /\ said' = said
        BY <1>2 DEF applyConfirmation, PullGoto, ConfInv, PullsOK, PullOK, Pulled
    <2>2. IsQso(qso[q])
        BY <2>1 DEF ConfInv, SaidOK
    <2>3. IsQso(row) /\ row.st = qso[q].st /\ row.slot = qso[q].slot
        BY <2>2 DEF IsQso, ReceivedFrom
    <2>4. row.st = "live" => row.slot \in said[q]
        BY <2>1, <2>3 DEF ConfInv, SaidOK
    <2> QED
        BY <2>1, <2>3, <2>4, OneSays
<1> QED
    BY <1>1, <1>2 DEF FetchStep

LEMMA SaidKept ==
    ASSUME ConfInv, Next
    PROVE  SaidMoves
<1>1. ASSUME NEW q \in Qsos, MatchStep(q) \/ OwnerStep(q) PROVE SaidMoves
    <2>1. UNCHANGED <<qso, said>>
        BY <1>1 DEF MatchStep, OwnerStep, loadQSOForConfirmation, FindMatches, UpsertOurs,
                    UpsertTheirs, MatchFails, MatchGoto, Confirm, Reject
    <2> QED
        BY <2>1, SameSaid
<1>2. ASSUME NEW s \in Services, ArriveStep(s) PROVE SaidMoves
    <2>1. UNCHANGED <<qso, said>>
        BY <1>2 DEF ArriveStep, CardArrives
    <2> QED
        BY <2>1, SameSaid
<1>3. ASSUME Tick \/ AsideStep PROVE SaidMoves
    <2>1. UNCHANGED <<qso, said>>
        BY <1>3 DEF Tick, AsideStep
    <2> QED
        BY <2>1, SameSaid
<1> QED
    BY <1>1, <1>2, <1>3, LogSays, FetchSays, ConfSteps, Zenon

\* Logs that have agreed have agreed for ever.
LEMMA PeerStays ==
    ASSUME SaidMoves, NEW q \in Qsos, NEW r, Peer(q, r)
    PROVE  Peer(q, r)'
BY DEF SaidMoves, Peer, LogsAgree, Agree

LEMMA GroundKept ==
    ASSUME ConfInv, Next
    PROVE  Ground'
<1> SUFFICES ASSUME NEW q \in Qsos, conf'[q].status = "confirmed"
             PROVE  conf'[q].via # {} \/ Peers(q)'
    BY DEF Ground
<1>0. Peers(q) => Peers(q)'
    BY ConfRowsMove, SaidKept, PeerStays DEF Peers
<1>1. conf'[q] = conf[q] \/ RowMoves(q, conf[q], conf'[q])
    BY ConfRowsMove DEF ConfMoves
<1>2. conf[q].status = "confirmed" => conf[q].via # {} \/ Peers(q)
    BY DEF ConfInv, Ground
<1>3. conf'[q] \in ConfRows /\ conf[q] \in ConfRows
    BY ConfRowsMove DEF ConfInv, ConfOK
<1> QED
    BY <1>0, <1>1, <1>2, <1>3 DEF RowMoves, ConfRows

\* Stats counts the confirmed rows of the user.
LEMMA StatsConfirmed ==
    ASSUME NEW u \in Users
    PROVE  Stats(u).confirmed = {q \in Qsos : OwnerOf[q] = u /\ conf[q].status = "confirmed"}
BY DEF Stats, Listed

LEMMA GroundIs == ConfOK /\ Ground => ConfirmedHasGround
BY StatsConfirmed DEF Ground, Peers, Peer, ConfirmedHasGround

-----------------------------------------------------------------------------
(* Match jobs.                                                             *)

LEMMA RemembersStays ==
    ASSUME SaidMoves, NEW q \in Qsos, NEW r, Remembers(q, r)
    PROVE  Remembers(q, r)'
<1>1. r.pc = "find" => r.slot \in said'[q]
    BY DEF SaidMoves, Remembers
<1>2. r.pc \in {"ours", "theirs"} /\ Peer(q, r.best) => Peer(q, r.best)'
    BY PeerStays
<1> QED
    BY <1>1, <1>2 DEF Remembers

LEMMA SameMatch ==
    ASSUME ConfInv, Next, match' = match
    PROVE  MatchOK' /\ DOMAIN match' = Qsos
<1>1. ASSUME NEW q \in Qsos PROVE Remembers(q, match[q])'
    <2> PICK p : p = match[q]
        OBVIOUS
    <2>1. Remembers(q, p)'
        BY SaidKept, RemembersStays DEF ConfInv, MatchOK
    <2> QED
        BY <2>1 DEF Remembers
<1> QED
    BY <1>1 DEF ConfInv, ConfOK, MatchOK

LEMMA OneMatch ==
    ASSUME ConfInv, Next, NEW q \in Qsos, NEW r, match' = [match EXCEPT ![q] = r], Remembers(q, r)
    PROVE  MatchOK' /\ DOMAIN match' = Qsos
<1>1. match'[q] = r /\ DOMAIN match' = Qsos /\ \A x \in Qsos \ {q} : match'[x] = match[x]
    BY DEF ConfInv, ConfOK
<1>2. ASSUME NEW x \in Qsos PROVE Remembers(x, match[x])'
    <2> PICK p : p = match'[x]
        OBVIOUS
    <2>0. Remembers(x, p)
        BY <1>1 DEF ConfInv, MatchOK
    <2>1. Remembers(x, p)'
        BY <2>0, SaidKept, RemembersStays
    <2> QED
        BY <2>1 DEF Remembers
<1> QED
    BY <1>1, <1>2 DEF MatchOK

LEMMA MatchKept ==
    ASSUME ConfInv, Next
    PROVE  MatchOK' /\ DOMAIN match' = Qsos
<1>0. ASSUME NEW q \in Qsos, NEW r, match' = [match EXCEPT ![q] = r], Remembers(q, r)
      PROVE  MatchOK' /\ DOMAIN match' = Qsos
    BY <1>0, OneMatch
<1>1. ASSUME NEW q \in Qsos, LogStep(q)
      PROVE  MatchOK' /\ DOMAIN match' = Qsos
    <2> PICK r : r = [pc |-> "queued"]
        OBVIOUS
    <2>1. match' = match \/ match' = [match EXCEPT ![q] = r]
        BY <1>1 DEF LogStep, CreateQSO, UpdateQSO, DeleteQSO, triggerQSOMatch
    <2>2. Remembers(q, r)
        BY DEF Remembers
    <2> QED
        BY <1>0, <2>1, <2>2, SameMatch
<1>2. ASSUME NEW q \in Qsos, MatchStep(q)
      PROVE  MatchOK' /\ DOMAIN match' = Qsos
    <2>3. CASE loadQSOForConfirmation(q)
        <3> PICK r : r = [pc |-> "find", slot |-> qso[q].slot]
            OBVIOUS
        <3>1. match' = [match EXCEPT ![q] = r] /\ qso[q].slot \in said[q]
            BY <2>3 DEF loadQSOForConfirmation, MatchGoto, ConfInv, SaidOK, Live
        <3>2. Remembers(q, r)
            BY <3>1 DEF Remembers
        <3> QED
            BY <1>0, <3>1, <3>2
    <2>4. CASE FindMatches(q)
        <3>1. CASE MatchGoto(q, [pc |-> "ours", best |-> None])
            <4> PICK r : r = [pc |-> "ours", best |-> None]
                OBVIOUS
            <4>1. match' = [match EXCEPT ![q] = r] /\ Remembers(q, r)
                BY <3>1 DEF MatchGoto, Remembers
            <4> QED
                BY <1>0, <4>1
        <3>2. ASSUME NEW x \in find_qso_matches(OwnerOf[q], match[q].slot),
                     MatchGoto(q, [pc |-> "ours", best |-> x])
              PROVE  MatchOK' /\ DOMAIN match' = Qsos
            <4>1. match[q].slot \in said[q]
                BY <2>4 DEF FindMatches, ConfInv, MatchOK, Remembers
            <4>2. /\ x \in Qsos /\ OwnerOf[x] # OwnerOf[q] /\ qso[x].slot \in said[x]
                  /\ Agree(match[q].slot, qso[x].slot)
                BY DEF find_qso_matches, Live, ConfInv, SaidOK
            <4>3. Peer(q, x)
                BY <4>1, <4>2 DEF Peer, LogsAgree
            <4> PICK r : r = [pc |-> "ours", best |-> x]
                OBVIOUS
            <4>4. match' = [match EXCEPT ![q] = r] /\ Remembers(q, r)
                BY <3>2, <4>3 DEF MatchGoto, Remembers
            <4> QED
                BY <1>0, <4>4
        <3> QED
            BY <2>4, <3>1, <3>2 DEF FindMatches, BestMatch
    <2>5. CASE UpsertOurs(q)
        <3>1. CASE MatchGoto(q, Idle)
            <4> PICK r : r = Idle
                OBVIOUS
            <4>1. match' = [match EXCEPT ![q] = r] /\ Remembers(q, r)
                BY <3>1 DEF MatchGoto, Idle, Remembers
            <4> QED
                BY <1>0, <4>1
        <3>2. CASE match[q].best # None /\ MatchGoto(q, [pc |-> "theirs", best |-> match[q].best])
            <4>1. Peer(q, match[q].best)
                BY <2>5, <3>2 DEF UpsertOurs, ConfInv, MatchOK, Remembers
            <4> PICK r : r = [pc |-> "theirs", best |-> match[q].best]
                OBVIOUS
            <4>2. match' = [match EXCEPT ![q] = r] /\ Remembers(q, r)
                BY <3>2, <4>1 DEF MatchGoto, Remembers
            <4> QED
                BY <1>0, <4>2
        <3> QED
            BY <2>5, <3>1, <3>2 DEF UpsertOurs
    <2>6. CASE UpsertTheirs(q) \/ MatchFails(q)
        <3>1. PICK r \in {Idle, [pc |-> "queued"]} : match' = [match EXCEPT ![q] = r]
            BY <2>6 DEF UpsertTheirs, MatchFails, MatchGoto
        <3>2. Remembers(q, r)
            BY <3>1 DEF Idle, Remembers
        <3> QED
            BY <1>0, <3>1, <3>2
    <2> QED
        BY <1>2, <2>3, <2>4, <2>5, <2>6 DEF MatchStep
<1>4. ASSUME NEW q \in Qsos, OwnerStep(q)
      PROVE  match' = match
    BY <1>4 DEF OwnerStep, Confirm, Reject
<1>5. ASSUME NEW s \in Services, FetchStep(s)
      PROVE  match' = match
    BY <1>5 DEF FetchStep, EnqueuePull, PullStep, Download, PullFails, MatchCard, ApplyFails,
                updateLastPull, Unmatched, applyConfirmation, PullGoto
<1>6. ASSUME NEW s \in Services, ArriveStep(s)
      PROVE  match' = match
    BY <1>6 DEF ArriveStep, CardArrives
<1>7. ASSUME Tick \/ AsideStep
      PROVE  match' = match
    BY <1>7 DEF Tick, AsideStep
<1> QED
    BY <1>1, <1>2, <1>4, <1>5, <1>6, <1>7, ConfSteps, SameMatch

-----------------------------------------------------------------------------
(* Pulls.                                                                  *)

LEMMA NewestIs ==
    ASSUME NEW n \in Nat, NEW cs, cs # {}, \A c \in cs : c.at \in Nat /\ c.at <= n
    PROVE  /\ Newest(cs) \in Nat /\ Newest(cs) <= n
           /\ \A c \in cs : c.at <= Newest(cs)
<1> DEFINE D == {k \in Nat : \E c \in cs : c.at + k = n}
<1>1. D # {}
    <2> PICK c \in cs : TRUE
        OBVIOUS
    <2>1. n - c.at \in Nat /\ c.at + (n - c.at) = n
        OBVIOUS
    <2> QED
        BY <2>1
<1>2. PICK k \in D : \A y \in D : <<y, k>> \notin OpToRel(<, Nat)
    <2>1. D \in SUBSET Nat
        OBVIOUS
    <2> QED
        BY <1>1, <2>1, NatLessThanWellFounded, WFMin, Zenon
<1>3. \A y \in D : ~(y < k)
    BY <1>2, Zenon DEF OpToRel
<1>4. PICK d \in cs : d.at + k = n
    OBVIOUS
<1>5. \A c \in cs : c.at <= d.at
    <2> SUFFICES ASSUME NEW c \in cs PROVE c.at <= d.at
        OBVIOUS
    <2>1. n - c.at \in Nat /\ c.at + (n - c.at) = n
        OBVIOUS
    <2>2. n - c.at \in D
        BY <2>1
    <2>3. ~(n - c.at < k)
        BY <2>2, <1>3
    <2> QED
        BY <2>3, <1>4
<1>6. \E t \in {c.at : c \in cs} : \A c \in cs : c.at <= t
    BY <1>5
<1>7. Newest(cs) \in {c.at : c \in cs} /\ \A c \in cs : c.at <= Newest(cs)
    BY <1>6 DEF Newest
<1> QED
    BY <1>7

\* What a step leaves of the cards, the checkpoints and the pulls.
PullInv == CardsOK /\ PullsOK /\ CardsAccounted
PullDom == now \in Nat /\ DOMAIN pull = Services /\ lastPull \in [Services -> Nat]

\* The pull of s moves; what it has handled stays so.
LEMMA OnePullMoves ==
    ASSUME ConfInv, NEW s \in Services, NEW r, pull' = [pull EXCEPT ![s] = r],
           UNCHANGED <<now, cards, lastPull>>,
           applied \subseteq applied', excused \subseteq excused',
           r.pc # "idle" => r.since \in Nat /\ r.since <= lastPull[s],
           r.pc \in {"cards", "apply"} =>
              /\ r.mark # None => s = "lotw" /\ r.mark \in Nat /\ r.mark <= now
              /\ \A c \in cards : c.svc = s /\ (r.mark = None \/ c.at < r.mark)
                    => c \in r.got \union applied' \union excused',
           r.pc = "apply" => r.q \in Qsos
    PROVE  PullInv' /\ PullDom'
<1> USE DEF ConfInv, ConfOK
<1>1. pull'[s] = r /\ \A x \in Services \ {s} : pull'[x] = pull[x]
    OBVIOUS
<1>2. PullDom'
    BY DEF PullDom
<1>3. CardsOK'
    BY DEF CardsOK
<1>4. CardsAccounted'
    BY DEF CardsAccounted
<1>5. ASSUME NEW x \in Services \ {s} PROVE PullOK(x)'
    <2>1. PullOK(x)
        BY DEF PullsOK
    <2> QED
        BY <1>1, <2>1 DEF PullOK, Since, AtHand, Handled, Pulled
<1>6. PullOK(s)'
    BY <1>1 DEF PullOK, Since, AtHand, Handled, Pulled
<1> QED
    BY <1>2, <1>3, <1>4, <1>5, <1>6 DEF PullInv, PullsOK

LEMMA DownloadKeeps ==
    ASSUME ConfInv, NEW s \in Services, Download(s)
    PROVE  PullInv' /\ PullDom'
<1> USE DEF ConfInv, ConfOK
<1> PICK there : there = {c \in cards : c.svc = s /\ c.at >= pull[s].since}
    OBVIOUS
<1> PICK mark : mark = IF s = "lotw" /\ there # {} THEN Newest(there) ELSE None
    OBVIOUS
<1>0. PICK rep \in IF s = "lotw" THEN DownloadConfirmedReport(there) ELSE DownloadInboxAG(there) :
         /\ PullGoto(s, [pc |-> "cards", since |-> pull[s].since, got |-> rep.got, mark |-> rep.mark])
         /\ excused' = excused \union (there \ rep.got)
    BY Zenon DEF Download
<1>a. rep.mark = mark
    BY <1>0 DEF DownloadConfirmedReport, DownloadInboxAG
<1> PICK got : got = rep.got
    OBVIOUS
<1> PICK r : r = [pc |-> "cards", since |-> pull[s].since, got |-> got, mark |-> mark]
    OBVIOUS
<1>1. pull' = [pull EXCEPT ![s] = r] /\ excused' = excused \union (there \ got)
    BY <1>0, <1>a DEF PullGoto
<1>2. UNCHANGED <<now, cards, lastPull, applied>>
    BY DEF Download, PullGoto
<1>3. r.pc = "cards" /\ r.since = pull[s].since /\ r.got = got /\ r.mark = mark
    OBVIOUS
<1>4. pull[s].since \in Nat /\ pull[s].since <= lastPull[s]
    BY DEF Download, PullsOK, PullOK, Since
<1>5. \A c \in there : c.at \in Nat /\ c.at <= now
    BY DEF CardsOK
<1>6. mark # None => s = "lotw" /\ mark \in Nat /\ mark <= now
    BY <1>5, NewestIs
<1>7. ASSUME NEW c \in cards, c.svc = s
      PROVE  c \in got \union applied' \union excused'
    <2>1. CASE c \in there
        BY <2>1, <1>1
    <2>2. CASE c \notin there
        <3>1. c.at < lastPull[c.svc]
            BY <1>4, <1>7, <2>2 DEF CardsOK
        <3> QED
            BY <3>1, <1>1, <1>2 DEF CardsAccounted
    <2> QED
        BY <2>1, <2>2
<1> QED
    BY <1>1, <1>2, <1>3, <1>4, <1>6, <1>7, OnePullMoves

LEMMA PullMovesKeep ==
    ASSUME ConfInv, NEW s \in Services, EnqueuePull(s) \/ PullFails(s)
    PROVE  PullInv' /\ PullDom'
<1> USE DEF ConfInv, ConfOK
<1>1. UNCHANGED <<now, cards, lastPull, applied, excused>>
    BY DEF EnqueuePull, PullFails, PullGoto
<1>2. CASE EnqueuePull(s)
    <2> PICK r : r = [pc |-> "queued", since |-> lastPull[s]]
        OBVIOUS
    <2>1. pull' = [pull EXCEPT ![s] = r] /\ r.pc = "queued" /\ r.since = lastPull[s]
        BY <1>2 DEF EnqueuePull, PullGoto
    <2>2. r.since \in Nat /\ r.since <= lastPull[s]
        BY <2>1
    <2> QED
        BY <1>1, <2>1, <2>2, OnePullMoves
<1>3. CASE pull[s].pc # "queued" /\ pull[s].pc # "idle"
             /\ PullGoto(s, [pc |-> "queued", since |-> pull[s].since])
    <2> PICK r : r = [pc |-> "queued", since |-> pull[s].since]
        OBVIOUS
    <2>1. pull' = [pull EXCEPT ![s] = r] /\ r.pc = "queued" /\ r.since = pull[s].since
        BY <1>3 DEF PullGoto
    <2>2. r.since \in Nat /\ r.since <= lastPull[s]
        BY <1>3, <2>1 DEF PullsOK, PullOK, Since
    <2> QED
        BY <1>1, <2>1, <2>2, OnePullMoves
<1>4. CASE PullGoto(s, Idle)
    <2> PICK r : r = Idle
        OBVIOUS
    <2>1. pull' = [pull EXCEPT ![s] = r] /\ r.pc = "idle"
        BY <1>4 DEF PullGoto, Idle
    <2> QED
        BY <1>1, <2>1, OnePullMoves
<1> QED
    BY <1>2, <1>3, <1>4 DEF PullFails

\* A card taken from those at hand is applied or excused.
LEMMA TakenKeeps ==
    ASSUME ConfInv, NEW s \in Services, NEW c, pull[s].pc \in {"cards", "apply"},
           PullGoto(s, [pc |-> "cards", since |-> pull[s].since,
                        got |-> pull[s].got \ {c}, mark |-> pull[s].mark]),
           lastPull' = lastPull, applied \subseteq applied', excused \subseteq excused',
           c \in applied' \union excused'
    PROVE  PullInv' /\ PullDom'
<1> PICK r : r = [pc |-> "cards", since |-> pull[s].since,
                  got |-> pull[s].got \ {c}, mark |-> pull[s].mark]
    OBVIOUS
<1>1. /\ pull' = [pull EXCEPT ![s] = r] /\ UNCHANGED <<now, cards, lastPull>>
      /\ r.pc = "cards" /\ r.since = pull[s].since /\ r.got = pull[s].got \ {c}
      /\ r.mark = pull[s].mark
    BY DEF PullGoto
<1>2. PullOK(s)
    BY DEF ConfInv, PullsOK
<1> QED
    BY <1>1, <1>2, OnePullMoves DEF PullOK, Since, AtHand, Handled

LEMMA MatchCardKeeps ==
    ASSUME ConfInv, NEW s \in Services, MatchCard(s)
    PROVE  PullInv' /\ PullDom'
<1>1. ASSUME NEW c, Unmatched(s, c) PROVE PullInv' /\ PullDom'
    BY <1>1, TakenKeeps DEF Unmatched, MatchCard
<1>2. ASSUME NEW c \in pull[s].got, NEW q \in findBestMatch(c),
             PullGoto(s, [pc |-> "apply", since |-> pull[s].since,
                          got |-> pull[s].got, mark |-> pull[s].mark,
                          card |-> c, q |-> q]),
             UNCHANGED <<qso, conf, lastPull, served, applied, excused>>
      PROVE  PullInv' /\ PullDom'
    <2>1. q \in Qsos
        BY DEF findBestMatch, lotwFindBestMatch, eqslFindBestMatch, Nearest, Candidates, Live
    <2> PICK r : r = [pc |-> "apply", since |-> pull[s].since,
                      got |-> pull[s].got, mark |-> pull[s].mark, card |-> c, q |-> q]
        OBVIOUS
    <2>2. /\ pull' = [pull EXCEPT ![s] = r] /\ UNCHANGED <<now, cards, lastPull, applied, excused>>
          /\ r.pc = "apply" /\ r.since = pull[s].since /\ r.got = pull[s].got
          /\ r.mark = pull[s].mark /\ r.q = q
        BY <1>2 DEF PullGoto
    <2>3. PullOK(s) /\ pull[s].pc = "cards"
        BY DEF ConfInv, PullsOK, MatchCard
    <2> QED
        BY <2>1, <2>2, <2>3, OnePullMoves DEF PullOK, Since, AtHand, Handled
<1> QED
    BY <1>1, <1>2, Zenon DEF MatchCard

LEMMA ApplyKeeps ==
    ASSUME ConfInv, NEW s \in Services, applyConfirmation(s) \/ ApplyFails(s)
    PROVE  PullInv' /\ PullDom'
<1>1. CASE applyConfirmation(s)
    BY <1>1, TakenKeeps DEF applyConfirmation
<1>2. CASE ApplyFails(s)
    BY <1>2, TakenKeeps DEF ApplyFails, Unmatched
<1> QED
    BY <1>1, <1>2

\* The checkpoint is that of a pull that has handled every older card.
LEMMA CheckpointKeeps ==
    ASSUME ConfInv, NEW s \in Services, updateLastPull(s)
    PROVE  PullInv' /\ PullDom'
<1> USE DEF ConfInv, ConfOK
<1>1. UNCHANGED <<now, cards, applied, excused>> /\ pull' = [pull EXCEPT ![s] = Idle]
    BY DEF updateLastPull, PullGoto
<1>2. Idle.pc = "idle"
    BY DEF Idle
<1>3. CASE lastPull' = lastPull
    BY <1>1, <1>2, <1>3, OnePullMoves
<1>4. CASE lastPull' = [lastPull EXCEPT ![s] = Greatest(@, Checkpoint(s))]
    <2> PICK cp : cp = Checkpoint(s)
        OBVIOUS
    <2>1. PullOK(s) /\ pull[s].pc = "cards" /\ pull[s].got = {}
        BY DEF PullsOK, updateLastPull
    <2>2. cp = IF pull[s].mark = None THEN now ELSE pull[s].mark
        BY <2>1 DEF Checkpoint, lotwCheckpoint, eqslCheckpoint, PullOK, AtHand, Services
    <2>3. cp \in Nat /\ cp <= now
        BY <2>1, <2>2 DEF PullOK, AtHand
    <2>4. ASSUME NEW c \in cards, c.svc = s, c.at < cp
          PROVE  c \in applied \union excused
        BY <2>1, <2>2, <2>4 DEF PullOK, AtHand, Handled
    <2> PICK g : g = Greatest(lastPull[s], cp)
        OBVIOUS
    <2>5. g \in Nat /\ lastPull[s] <= g /\ g <= now /\ (g = cp \/ g = lastPull[s])
        BY <2>3 DEF Greatest, CardsOK
    <2>6. lastPull' = [lastPull EXCEPT ![s] = g]
        BY <1>4
    <2>7. /\ lastPull' \in [Services -> Nat] /\ lastPull'[s] = g
          /\ \A x \in Services \ {s} : lastPull'[x] = lastPull[x]
        BY <2>5, <2>6
    <2>8. PullDom' /\ CardsOK'
        BY <1>1, <2>5, <2>7 DEF PullDom, CardsOK
    <2>9. CardsAccounted'
        BY <1>1, <2>4, <2>5, <2>7 DEF CardsAccounted, CardsOK
    <2>10. ASSUME NEW x \in Services \ {s} PROVE PullOK(x)'
        <3>1. PullOK(x) /\ pull'[x] = pull[x]
            BY <1>1 DEF PullsOK
        <3> QED
            BY <1>1, <2>7, <3>1 DEF PullOK, Since, AtHand, Handled, Pulled
    <2>11. PullOK(s)'
        <3>1. pull'[s].pc = "idle"
            BY <1>1, <1>2
        <3> QED
            BY <3>1 DEF PullOK, Since, AtHand, Pulled
    <2> QED
        BY <2>8, <2>9, <2>10, <2>11 DEF PullInv, PullsOK
<1> QED
    BY <1>3, <1>4 DEF updateLastPull

\* A card that comes while a report is at hand is newer than its mark, or excused.
LEMMA ArriveKeeps ==
    ASSUME ConfInv, NEW s \in Services, ArriveStep(s)
    PROVE  PullInv' /\ PullDom'
<1> USE DEF ConfInv, ConfOK
<1>1. PICK x \in Slots, b \in BOOLEAN : CardArrives(s, x, b)
    BY DEF ArriveStep
<1> PICK c : c = [svc |-> s, slot |-> x, at |-> now, whole |-> b]
    OBVIOUS
<1>2. /\ cards' = cards \union {c} /\ UNCHANGED <<now, lastPull, pull, applied>>
      /\ excused' = IF Window(s) THEN excused \union {c} ELSE excused
    BY <1>1 DEF CardArrives
<1>3. c.svc = s /\ c.at = now
    OBVIOUS
<1>4. CardsOK' /\ PullDom'
    BY <1>2, <1>3 DEF CardsOK, PullDom
<1>5. CardsAccounted'
    BY <1>2, <1>3 DEF CardsAccounted, CardsOK
<1>6. ASSUME NEW y \in Services PROVE PullOK(y)'
    <2>1. PullOK(y)
        BY DEF PullsOK
    <2>2. Since(y)' /\ Pulled(y)'
        BY <1>2, <2>1 DEF PullOK, Since, Pulled
    <2>3. AtHand(y)'
        BY <1>2, <1>3, <2>1 DEF PullOK, AtHand, Handled, Window
    <2> QED
        BY <2>2, <2>3 DEF PullOK
<1> QED
    BY <1>4, <1>5, <1>6 DEF PullInv, PullsOK

LEMMA PullStillKeeps ==
    ASSUME ConfInv, UNCHANGED <<cards, lastPull, pull, applied, excused>>,
           now' = now \/ now' = now + 1
    PROVE  PullInv' /\ PullDom'
<1> USE DEF ConfInv, ConfOK
<1>1. CardsOK' /\ PullDom'
    BY DEF CardsOK, PullDom
<1>2. CardsAccounted'
    BY DEF CardsAccounted
<1>3. ASSUME NEW y \in Services PROVE PullOK(y)'
    <2>1. PullOK(y)
        BY DEF PullsOK
    <2> QED
        BY <2>1 DEF PullOK, Since, Pulled, AtHand, Handled
<1> QED
    BY <1>1, <1>2, <1>3 DEF PullInv, PullsOK

LEMMA PullsKept ==
    ASSUME ConfInv, Next
    PROVE  PullInv' /\ PullDom'
<1>1. ASSUME NEW q \in Qsos, LogStep(q) PROVE PullInv' /\ PullDom'
    <2>1. UNCHANGED <<cards, lastPull, pull, applied, excused, now>>
        BY <1>1 DEF LogStep, CreateQSO, UpdateQSO, DeleteQSO
    <2> QED
        BY <2>1, PullStillKeeps
<1>2. ASSUME NEW q \in Qsos, MatchStep(q) PROVE PullInv' /\ PullDom'
    <2>1. UNCHANGED <<cards, lastPull, pull, applied, excused, now>>
        BY <1>2 DEF MatchStep, loadQSOForConfirmation, FindMatches, UpsertOurs, UpsertTheirs,
                    MatchFails, MatchGoto
    <2> QED
        BY <2>1, PullStillKeeps
<1>3. ASSUME NEW q \in Qsos, OwnerStep(q) PROVE PullInv' /\ PullDom'
    <2>1. UNCHANGED <<cards, lastPull, pull, applied, excused, now>>
        BY <1>3 DEF OwnerStep, Confirm, Reject
    <2> QED
        BY <2>1, PullStillKeeps
<1>4. ASSUME NEW s \in Services, FetchStep(s) PROVE PullInv' /\ PullDom'
    BY <1>4, DownloadKeeps, PullMovesKeep, MatchCardKeeps, ApplyKeeps, CheckpointKeeps, Zenon
       DEF FetchStep, PullStep
<1>5. ASSUME Tick \/ AsideStep PROVE PullInv' /\ PullDom'
    <2>1. UNCHANGED <<cards, lastPull, pull, applied, excused>> /\ (now' = now \/ now' = now + 1)
        BY <1>5 DEF Tick, AsideStep
    <2> QED
        BY <2>1, PullStillKeeps
<1> QED
    BY <1>1, <1>2, <1>3, <1>4, <1>5, ArriveKeeps, ConfSteps, Zenon

-----------------------------------------------------------------------------
(* The theorems about confirmations.                                       *)

LEMMA ConfInvInit == Init => ConfInv
<1> SUFFICES ASSUME Init PROVE ConfInv
    OBVIOUS
<1> USE ConfirmationsAssumption DEF Init, ConfInit
<1>1. ConfOK
    BY DEF ConfOK, ConfRows, NoConf
<1>2. MatchOK
    BY DEF MatchOK, Remembers, Idle
<1>3. CardsOK /\ SaidOK
    BY DEF CardsOK, SaidOK, IsQso, NoQso
<1>4. PullsOK
    BY DEF PullsOK, PullOK, Since, AtHand, Pulled, Idle
<1>5. Ground
    BY DEF Ground, NoConf
<1>6. CardsAccounted
    BY DEF CardsAccounted
<1> QED
    BY <1>1, <1>2, <1>3, <1>4, <1>5, <1>6 DEF ConfInv

LEMMA ConfInvNext == ConfInv /\ [Next]_vars => ConfInv'
<1>1. ASSUME ConfInv, Next PROVE ConfInv'
    <2>1. ConfOK'
        BY <1>1, ConfRowsMove, MatchKept, SaidKept, PullsKept DEF ConfInv, ConfOK, PullDom, SaidMoves
    <2> QED
        BY <1>1, <2>1, GroundKept, MatchKept, SaidKept, PullsKept DEF ConfInv, PullInv, SaidMoves
<1>2. ASSUME ConfInv, UNCHANGED vars PROVE ConfInv'
    BY <1>2 DEF ConfInv, ConfOK, MatchOK, Remembers, Peer, LogsAgree, SaidOK, IsQso, CardsOK, PullsOK, PullOK, Since, AtHand, Handled,
                Pulled, Ground, Peers, CardsAccounted, vars, confVars
<1> QED
    BY <1>1, <1>2

LEMMA ConfHolds == Spec => []ConfInv
BY ConfInvInit, ConfInvNext, PTL DEF Spec

\* A confirmed contact has a ground: a card, its owner's word, or two
\* verified operators whose logs agree, however the match jobs, the owner's
\* requests and the pulls interleave.
THEOREM ConfirmedWithGround == Spec => []ConfirmedHasGround
<1>1. ConfInv => ConfirmedHasGround
    BY GroundIs DEF ConfInv
<1> QED
    BY <1>1, ConfHolds, PTL

\* No checkpoint passes a card unseen: a card older than last_pull_at has
\* confirmed a QSO or is excused, whatever fails or arrives in between.
THEOREM NoCardPassed == Spec => []CardsAccounted
<1>1. ConfInv => CardsAccounted
    BY DEF ConfInv
<1> QED
    BY <1>1, ConfHolds, PTL

\* A contact the statistics count as confirmed stays so through every step.
THEOREM ConfirmationsStay == Spec => ConfirmedStays
<1>1. ConfInv /\ [Next]_vars
        => [\A u \in Users : Stats(u).confirmed \subseteq Stats(u)'.confirmed]_confVars
    <2> SUFFICES ASSUME ConfInv, Next, NEW u \in Users
                 PROVE  Stats(u).confirmed \subseteq Stats(u)'.confirmed
        BY DEF vars
    <2>1. ASSUME NEW q \in Qsos, conf[q].status = "confirmed"
          PROVE  conf'[q].status = "confirmed"
        BY <2>1, ConfRowsMove DEF ConfMoves, RowMoves
    <2>2. Stats(u)'.confirmed = {q \in Qsos : OwnerOf[q] = u /\ conf'[q].status = "confirmed"}
        BY DEF Stats, Listed
    <2> QED
        BY <2>1, <2>2, StatsConfirmed
<1> QED
    BY <1>1, ConfHolds, PTL DEF Spec, ConfirmedStays

-----------------------------------------------------------------------------
(* What the log is worth.                                                  *)

\* The queries depend on the log alone.
LEMMA SameLogSameWorth ==
    ASSUME qso' = qso, NEW t
    PROVE  Progress(t)' = Progress(t)
BY DEF Progress, refreshDXCC, refreshWAS, refreshVUCC, refreshWAZ, refreshWPX, refreshPOTAHunter,
       refreshPOTAActivator, refreshSOTAChaser, refreshSOTAActivator, ListDXCCEntitiesProgress,
       ListWorkedStates, ListWorkedGridSquares, ListWorkedZones, ListWorkedWPXPrefixes,
       ListHuntedPOTAParks, ListActivatedPOTAParks, ListWorkedSOTASummits,
       ListActivatedSOTASummits, Keyed, WorkerSees, Live

OrderSet == {"dxcc", "was", "vucc", "waz", "wpx", "pota_hunter", "pota_activator",
             "sota_chaser", "sota_activator"}

\* A query returns one entry for each key.
OnePerKey(G) == \A g, h \in G : g.key = h.key => g = h

LEMMA WorthKeyed ==
    ASSUME NEW t \in OrderSet
    PROVE  OnePerKey(Progress(t))
<1>1. OnePerKey(refreshDXCC)
    BY DEF refreshDXCC, ListDXCCEntitiesProgress, Keyed, OnePerKey
<1>2. OnePerKey(refreshWAS)
    BY DEF refreshWAS, ListWorkedStates, Keyed, OnePerKey
<1>3. OnePerKey(refreshVUCC)
    BY DEF refreshVUCC, ListWorkedGridSquares, Keyed, OnePerKey
<1>4. OnePerKey(refreshWAZ)
    BY DEF refreshWAZ, ListWorkedZones, Keyed, OnePerKey
<1>5. OnePerKey(refreshWPX)
    BY DEF refreshWPX, ListWorkedWPXPrefixes, Keyed, OnePerKey
<1>6. OnePerKey(refreshPOTAHunter)
    BY DEF refreshPOTAHunter, ListHuntedPOTAParks, Keyed, OnePerKey
<1>7. OnePerKey(refreshPOTAActivator)
    BY DEF refreshPOTAActivator, ListActivatedPOTAParks, Keyed, OnePerKey
<1>8. OnePerKey(refreshSOTAChaser)
    BY DEF refreshSOTAChaser, ListWorkedSOTASummits, Keyed, OnePerKey
<1>9. OnePerKey(refreshSOTAActivator)
    BY DEF refreshSOTAActivator, ListActivatedSOTASummits, Keyed, OnePerKey
<1> QED
    BY <1>1, <1>2, <1>3, <1>4, <1>5, <1>6, <1>7, <1>8, <1>9 DEF Progress, OrderSet

\* The types kept are among those in the order, each at one place, and a
\* refresh takes them from the first on.
LEMMA OrderIs ==
    /\ \A i \in 1 .. 9 : Order[i] \in OrderSet
    /\ \A i, j \in 1 .. 9 : Order[i] = Order[j] => i = j
BY DEF Order, OrderSet

LEMMA TypesInOrder ==
    ASSUME setup \in Setups
    PROVE  /\ Types \subseteq OrderSet /\ "dxcc" \in Types
           /\ \A t \in Types : \E i \in 1 .. 9 : Order[i] = t
           /\ Collectors \subseteq Users
<1>1. Types \subseteq {Order[i] : i \in 1 .. 9} /\ "dxcc" \in Types
    BY AwardsAssumption DEF Types
<1>2. \A t \in Types : \E i \in 1 .. 9 : Order[i] = t
    BY <1>1
<1>3. Collectors \subseteq Users
    BY ConfirmationsAssumption DEF Collectors
<1> QED
    BY <1>1, <1>2, <1>3, OrderIs

LEMMA LeastFrom ==
    ASSUME NEW i \in 1 .. 10
    PROVE  /\ NextType(i) \in i .. 10
           /\ NextType(i) # 10 => Order[NextType(i)] \in Types
           /\ \A k \in i .. 9 : Order[k] \in Types => NextType(i) <= k
<1>1. CASE \E j \in i .. 9 : Order[j] \in Types
    <2> DEFINE S == {j \in i .. 9 : Order[j] \in Types}
    <2>1. S \in SUBSET Nat /\ S # {}
        BY <1>1
    <2>2. PICK x \in S : \A y \in S : <<y, x>> \notin OpToRel(<, Nat)
        BY <2>1, NatLessThanWellFounded, WFMin, Zenon
    <2>3. \A y \in S : ~(y < x)
        BY <2>1, <2>2, Zenon DEF OpToRel
    <2>4. x \in i .. 9 /\ Order[x] \in Types /\ \A k \in i .. 9 : Order[k] \in Types => x <= k
        BY <2>3
    <2> QED
        BY <1>1, <2>4 DEF NextType
<1>2. CASE ~\E j \in i .. 9 : Order[j] \in Types
    BY <1>2 DEF NextType
<1> QED
    BY <1>1, <1>2

-----------------------------------------------------------------------------
(* Rows and refreshes.                                                     *)

LEMMA RefreshFields ==
    ASSUME NEW r, RefreshOK(r), r.pc # "idle"
    PROVE  /\ r.u \in Collectors /\ r.i \in 1 .. 9 /\ Order[r.i] \in Types
           /\ r.pc \in {"delete", "select", "upsert", "check", "notify"}
BY DEF RefreshOK, Idle, Steps, Writes, Checks

LEMMA ShowsSame ==
    ASSUME NEW u, NEW t, NEW G, rows'[u][t] = rows[u][t]
    PROVE  Shows(u, t, G)' <=> Shows(u, t, G)
BY DEF Shows, ByType, ListAwardProgressByType

LEMMA CurrentSame ==
    ASSUME NEW u, NEW t, rows'[u][t] = rows[u][t], qso' = qso
    PROVE  Current(u, t)' <=> Current(u, t)
<1> PICK P : P = Progress(t)
    OBVIOUS
<1>1. Progress(t)' = P
    BY SameLogSameWorth
<1>2. Shows(u, t, P)' <=> Shows(u, t, P)
    BY ShowsSame
<1> QED
    BY <1>1, <1>2 DEF Current

LEMMA ReliableSame ==
    ASSUME NEW r, setup' = setup, qso' = qso, setup \in Setups,
           RefreshOK(r), Reliable(r), r.pc # "idle" => rows'[r.u] = rows[r.u]
    PROVE  Reliable(r)'
<1> SUFFICES ASSUME r.pc # "idle", r.ok
             PROVE  /\ \A j \in 1 .. (r.i - 1) : Order[j] \in Types => Current(r.u, Order[j])'
                    /\ Sofar(r)'
    BY DEF Reliable, Types
<1>1. \A t : Current(r.u, t)' <=> Current(r.u, t)
    BY CurrentSame
<1>2. \A t, G : Shows(r.u, t, G)' <=> Shows(r.u, t, G)
    BY ShowsSame
<1> PICK P : P = Progress(Order[r.i])
    OBVIOUS
<1>3. Progress(Order[r.i])' = P
    BY SameLogSameWorth
<1>4. Sofar(r)'
    BY <1>1, <1>2, <1>3 DEF Reliable, Sofar
<1> QED
    BY <1>1, <1>4 DEF Reliable

LEMMA RefreshOKSame ==
    ASSUME NEW r, setup' = setup, qso' = qso, RefreshOK(r)
    PROVE  RefreshOK(r)'
<1>1. Types' = Types /\ Collectors' = Collectors
    BY DEF Types, Collectors
<1>2. Steps(r)' = Steps(r) /\ Writes(r)' = Writes(r) /\ Checks(r)' = Checks(r)
    BY <1>1 DEF Steps, Writes, Checks
<1>3. Progress(Order[r.i])' = Progress(Order[r.i])
    BY SameLogSameWorth
<1> QED
    BY <1>1, <1>2, <1>3 DEF RefreshOK

\* Rows of a user and type written anew.
LEMMA WriteRows ==
    ASSUME RowsOK, setup' = setup, NEW u \in Collectors, NEW t \in Types, NEW S,
           rows' = [rows EXCEPT ![u][t] = S], \A r \in S : IsRow(r)
    PROVE  /\ RowsOK' /\ rows'[u][t] = S
           /\ \A x \in Types \ {t} : rows'[u][x] = rows[u][x]
           /\ \A v \in Collectors \ {u} : rows'[v] = rows[v]
<1>1. Types' = Types /\ Collectors' = Collectors
    BY DEF Types, Collectors
<1>2. rows'[u][t] = S /\ \A x \in Types \ {t} : rows'[u][x] = rows[u][x]
    BY DEF RowsOK
<1>3. \A v \in Collectors \ {u} : rows'[v] = rows[v]
    BY DEF RowsOK
<1>4. DOMAIN rows' = Collectors /\ DOMAIN rows'[u] = Types
    BY DEF RowsOK
<1> QED
    BY <1>1, <1>2, <1>3, <1>4 DEF RowsOK, IsRow

LEMMA DirtySame ==
    ASSUME NEW v \in Collectors, setup' = setup, rows'[v] = rows[v]
    PROVE  Dirty(v)' <=> Dirty(v)
BY DEF Dirty, Types, Collectors

Clean(u) == u \notin missed /\ ~Dirty(u) /\ Refreshing(u) = {}
LEMMA CleanIs ==
    RowsCurrent <=> \A u \in Collectors : Clean(u) => \A t \in Types : Current(u, t)
BY DEF RowsCurrent, Clean

-----------------------------------------------------------------------------
(* What each kind of step does to the cache.                               *)

\* A refresh moves: the rows of other users and what is known of them stay.
LEMMA TurnKeepsCache ==
    ASSUME CacheInv, setup \in Setups, setup' = setup, qso' = qso, NEW w \in Workers, NEW r, NEW u,
           refresh[w].pc # "idle", u = refresh[w].u,
           refresh' = [refresh EXCEPT ![w] = r],
           RowsOK', \A v \in Collectors \ {u} : rows'[v] = rows[v],
           RefreshOK(r)', r.pc # "idle" => r.u = u,
           r.pc # "idle" /\ r.ok => \A x \in Refreshing(u) : x = w,
           Reliable(r)',
           missed \ {u} \subseteq missed',
           r.pc = "idle" => u \in missed' \/ \A t \in Types : Current(u, t)'
    PROVE  CacheInv'
<1> USE DEF CacheInv
<1>1. Types' = Types /\ Collectors' = Collectors
    BY DEF Types, Collectors
<1>2. refresh'[w] = r /\ \A x \in Workers \ {w} : refresh'[x] = refresh[x]
    BY DEF RefreshesOK
<1>3. u \in Collectors /\ w \in Refreshing(u)
    BY RefreshFields DEF RefreshesOK, Refreshing
<1>4. RefreshesOK'
    <2>1. ASSUME NEW x \in Workers PROVE RefreshOK(refresh[x])'
        <3> PICK p : p = refresh'[x]
            OBVIOUS
        <3>1. RefreshOK(p)'
            BY <1>2, RefreshOKSame DEF RefreshesOK
        <3> QED
            BY <3>1
    <2>2. DOMAIN refresh' = Workers
        BY DEF RefreshesOK
    <2> QED
        BY <2>1, <2>2 DEF RefreshesOK
<1>5. \A v, x : x \in Refreshing(v)' => (x \in Refreshing(v) \/ (x = w /\ v = u /\ r.pc # "idle"))
    BY <1>2 DEF Refreshing
<1>6. OkIsAlone'
    <2> SUFFICES ASSUME NEW a \in Workers, NEW x \in Workers, refresh'[a].pc # "idle",
                        refresh'[a].ok, x \in Refreshing(refresh[a].u)'
                 PROVE  x = a
        BY DEF OkIsAlone
    <2>1. CASE a = w
        BY <2>1, <1>2, <1>5
    <2>2. CASE a # w
        BY <2>2, <1>2, <1>3, <1>5 DEF OkIsAlone
    <2> QED
        BY <2>1, <2>2
<1>7. RefreshInv'
    <2> SUFFICES ASSUME NEW x \in Workers, refresh'[x].pc # "idle", refresh'[x].ok
                 PROVE  Reliable(refresh[x])'
        BY DEF RefreshInv, Reliable
    <2>1. CASE x = w
        BY <2>1, <1>2
    <2>2. CASE x # w
        <3> PICK p : p = refresh[x]
            OBVIOUS
        <3>1. refresh'[x] = p /\ RefreshOK(p) /\ Reliable(p)
            BY <2>2, <1>2 DEF RefreshesOK, RefreshInv
        <3>2. p.u \in Collectors
            BY <3>1, RefreshFields
        <3>3. p.u # u
            BY <2>2, <3>1, <1>3 DEF OkIsAlone
        <3>4. rows'[p.u] = rows[p.u]
            BY <3>2, <3>3
        <3> QED
            BY <3>1, <3>4, ReliableSame
    <2> QED
        BY <2>1, <2>2
<1>8. ASSUME NEW v \in Collectors, Clean(v)', NEW t \in Types
      PROVE  Current(v, t)'
    <2>1. CASE v = u
        <3>1. r.pc = "idle"
            BY <1>2, <1>8, <2>1 DEF Clean, Refreshing
        <3> QED
            BY <1>8, <2>1, <3>1 DEF Clean
    <2>2. CASE v # u
        <3>1. rows'[v] = rows[v]
            BY <2>2
        <3>2. Refreshing(v)' = Refreshing(v)
            BY <1>2, <2>2 DEF Refreshing
        <3>3. Clean(v)
            BY <1>8, <2>2, <3>1, <3>2, DirtySame DEF Clean
        <3>4. Current(v, t)
            BY <3>3, CleanIs
        <3> QED
            BY <3>1, <3>4, CurrentSame
    <2> QED
        BY <2>1, <2>2
<1>9. RowsCurrent'
    <2>1. \A v \in Collectors' : Clean(v)' => \A t \in Types' : Current(v, t)'
        BY <1>1, <1>8
    <2> QED
        BY <2>1 DEF RowsCurrent, Clean
<1> QED
    BY <1>4, <1>6, <1>7, <1>9

-----------------------------------------------------------------------------
(* The steps of a refresh.                                                 *)

\* What the steps of a refresh have in common.
LEMMA Taken ==
    ASSUME CacheInv, NEW w \in Workers, refresh[w].pc # "idle"
    PROVE  /\ RefreshOK(refresh[w]) /\ Reliable(refresh[w])
           /\ refresh[w].u \in Collectors /\ refresh[w].i \in 1 .. 9
           /\ TypeOf(w) \in Types /\ TypeOf(w) = Order[refresh[w].i]
           /\ refresh[w].ok => \A x \in Refreshing(refresh[w].u) : x = w
<1>1. RefreshOK(refresh[w]) /\ Reliable(refresh[w])
    BY DEF CacheInv, RefreshesOK, RefreshInv
<1>2. refresh[w].ok => \A x \in Refreshing(refresh[w].u) : x = w
    BY DEF CacheInv, OkIsAlone, Refreshing
<1> QED
    BY <1>1, <1>2, RefreshFields DEF TypeOf

\* Rows unchanged, the type not left.
LEMMA StayKeepsCache ==
    ASSUME CacheInv, setup \in Setups, UNCHANGED <<setup, qso, rows, missed>>, NEW w \in Workers,
           NEW r, refresh[w].pc # "idle", refresh' = [refresh EXCEPT ![w] = r],
           r.pc # "idle", r.u = refresh[w].u, r.i = refresh[w].i, r.ok = refresh[w].ok,
           RefreshOK(r), Reliable(refresh[w]) => (r.ok => Sofar(r))
    PROVE  CacheInv'
<1>1. /\ Reliable(refresh[w]) /\ refresh[w].u \in Collectors
      /\ refresh[w].ok => \A x \in Refreshing(refresh[w].u) : x = w
    BY Taken
<1>2. RowsOK'
    BY DEF CacheInv, RowsOK, IsRow, Types, Collectors
<1>3. Reliable(r)
    BY <1>1 DEF Reliable
<1>4. RefreshOK(r)' /\ Reliable(r)'
    BY <1>3, RefreshOKSame, ReliableSame
<1> QED
    BY <1>1, <1>2, <1>4, TurnKeepsCache

LEMMA DeleteKeepsCache ==
    ASSUME CacheInv, setup \in Setups, UNCHANGED <<setup, qso>>, NEW w \in Workers,
           DeleteAwardProgressByType(w)
    PROVE  CacheInv'
<1>a. refresh[w].pc = "delete"
    BY DEF DeleteAwardProgressByType, At
<1>b. PICK u : u = refresh[w].u
    OBVIOUS
<1>c. PICK t : t = TypeOf(w)
    OBVIOUS
<1>d. PICK r : r = [refresh[w] EXCEPT !.pc = "select"]
    OBVIOUS
<1>1. /\ RefreshOK(refresh[w]) /\ Reliable(refresh[w])
      /\ u \in Collectors /\ refresh[w].i \in 1 .. 9 /\ t \in Types /\ t = Order[refresh[w].i]
      /\ refresh[w].ok => \A x \in Refreshing(u) : x = w
    BY <1>a, <1>b, <1>c, Taken
<1>2. refresh[w] \in Steps(refresh[w])
    BY <1>1, <1>a DEF RefreshOK, Idle, Writes, Checks
<1>3. /\ r.pc = "select" /\ r.u = u /\ r.i = refresh[w].i /\ r.ok = refresh[w].ok
      /\ r \in Steps(r)
    BY <1>2, <1>b, <1>d DEF Steps
<1>4. /\ rows' = [rows EXCEPT ![u][t] = {}] /\ refresh' = [refresh EXCEPT ![w] = r]
      /\ missed' = missed
    BY <1>b, <1>c, <1>d DEF DeleteAwardProgressByType, Put
<1>5. /\ RowsOK' /\ rows'[u][t] = {}
      /\ \A x \in Types \ {t} : rows'[u][x] = rows[u][x]
      /\ \A v \in Collectors \ {u} : rows'[v] = rows[v]
    BY <1>1, <1>4, WriteRows DEF CacheInv
<1>6. RefreshOK(r)'
    <2>1. RefreshOK(r)
        BY <1>1, <1>3 DEF RefreshOK
    <2> QED
        BY <2>1, RefreshOKSame
<1>7. Reliable(r)'
    <2> SUFFICES ASSUME r.ok
                 PROVE  /\ \A j \in 1 .. (r.i - 1) : Order[j] \in Types => Current(u, Order[j])'
                        /\ Sofar(r)'
        BY <1>3 DEF Reliable, Types
    <2>1. Shows(u, t, {})'
        BY <1>5 DEF Shows, ByType, ListAwardProgressByType, KeysOf
    <2>2. Sofar(r)'
        BY <2>1, <1>1, <1>3 DEF Sofar
    <2>3. ASSUME NEW j \in 1 .. (r.i - 1), Order[j] \in Types
          PROVE  Current(u, Order[j])'
        <3>1. Current(u, Order[j])
            BY <1>1, <1>3, <1>a, <1>b, <2>3 DEF Reliable
        <3>2. Order[j] # t
            BY <1>1, <1>3, OrderIs
        <3>3. rows'[u][Order[j]] = rows[u][Order[j]]
            BY <1>5, <2>3, <3>2
        <3> QED
            BY <3>1, <3>3, CurrentSame
    <2> QED
        BY <2>2, <2>3
<1> QED
    BY <1>a, <1>b, <1>1, <1>3, <1>4, <1>5, <1>6, <1>7, TurnKeepsCache

LEMMA QueryKeepsCache ==
    ASSUME CacheInv, setup \in Setups, UNCHANGED <<setup, qso>>, NEW w \in Workers, QueryProgress(w)
    PROVE  CacheInv'
<1>a. refresh[w].pc = "select" /\ UNCHANGED <<rows, missed>>
    BY DEF QueryProgress, At
<1>b. PICK P : P = Progress(TypeOf(w))
    OBVIOUS
<1>c. PICK r : r = [pc |-> "upsert", u |-> refresh[w].u, i |-> refresh[w].i, ok |-> refresh[w].ok,
                    todo |-> P, n |-> Cardinality(P)]
    OBVIOUS
<1>1. /\ RefreshOK(refresh[w]) /\ Reliable(refresh[w])
      /\ refresh[w].u \in Collectors /\ refresh[w].i \in 1 .. 9
      /\ TypeOf(w) \in Types /\ TypeOf(w) = Order[refresh[w].i]
    BY <1>a, Taken
<1>2. refresh' = [refresh EXCEPT ![w] = r]
    BY <1>b, <1>c DEF QueryProgress, Put
<1>3. /\ r.pc = "upsert" /\ r.u = refresh[w].u /\ r.i = refresh[w].i /\ r.ok = refresh[w].ok
      /\ r.todo = P /\ r \in Writes(r)
    BY <1>c, <1>1 DEF Writes
<1>4. RefreshOK(r)
    BY <1>1, <1>3, <1>b DEF RefreshOK
<1>5. P \ r.todo = {}
    BY <1>3
<1>6. Reliable(refresh[w]) => (r.ok => Sofar(r))
    BY <1>1, <1>3, <1>5, <1>a, <1>b DEF Reliable, Sofar
<1> QED
    BY <1>a, <1>2, <1>3, <1>4, <1>6, StayKeepsCache

\* An entry written: the rows show it as well.
LEMMA UpsertShows ==
    ASSUME NEW u, NEW t, NEW P, NEW todo, OnePerKey(P), todo \subseteq P, NEW g \in todo,
           Shows(u, t, P \ todo),
           rows'[u][t] = UpsertAwardProgress(rows[u][t], g)
    PROVE  Shows(u, t, P \ (todo \ {g}))'
<1>a. PICK old : old = rows[u][t]
    OBVIOUS
<1>b. PICK new : new = rows'[u][t]
    OBVIOUS
<1>c. PICK row : row = [key |-> g.key, worked |-> TRUE, conf |-> g.conf, dirty |-> FALSE]
    OBVIOUS
<1>1. new = {x \in old : x.key # g.key} \union {row}
    BY <1>a, <1>b, <1>c DEF UpsertAwardProgress
<1>2. row.key = g.key /\ row.worked /\ row.conf = g.conf
    BY <1>c
<1>3. {x.key : x \in {y \in old : y.worked}} = {k.key : k \in P \ todo}
    BY <1>a DEF Shows, ByType, ListAwardProgressByType, KeysOf
<1>4. {x.key : x \in {y \in new : y.worked}} = {k.key : k \in P \ (todo \ {g})}
    <2>1. ASSUME NEW x \in new, x.worked
          PROVE  x.key \in {k.key : k \in P \ (todo \ {g})}
        <3>1. CASE x = row
            BY <3>1, <1>2
        <3>2. CASE x # row
            <4>1. x.key \in {k.key : k \in P \ todo}
                BY <1>1, <1>3, <2>1, <3>2
            <4> QED
                BY <4>1
        <3> QED
            BY <3>1, <3>2
    <2>2. ASSUME NEW k \in P \ (todo \ {g})
          PROVE  k.key \in {x.key : x \in {y \in new : y.worked}}
        <3>1. CASE k.key = g.key
            BY <3>1, <1>1, <1>2
        <3>2. CASE k.key # g.key
            <4>1. k \in P \ todo
                BY <3>2
            <4>2. PICK x \in old : x.worked /\ x.key = k.key
                BY <4>1, <1>3
            <4> QED
                BY <4>2, <3>2, <1>1
        <3> QED
            BY <3>1, <3>2
    <2> QED
        BY <2>1, <2>2
<1>5. ASSUME NEW k \in P \ (todo \ {g}), k.conf
      PROVE  \E x \in new : x.key = k.key /\ x.conf
    <2>1. CASE k = g
        BY <2>1, <1>1, <1>2, <1>5
    <2>2. CASE k # g
        <3>1. k \in P \ todo /\ k.key # g.key
            BY <2>2 DEF OnePerKey
        <3>2. PICK x \in old : x.key = k.key /\ x.conf
            BY <3>1, <1>5, <1>a DEF Shows
        <3> QED
            BY <3>1, <3>2, <1>1
    <2> QED
        BY <2>1, <2>2
<1> QED
    BY <1>4, <1>5, <1>b DEF Shows, ByType, ListAwardProgressByType, KeysOf

LEMMA UpsertKeepsCache ==
    ASSUME CacheInv, setup \in Setups, UNCHANGED <<setup, qso>>, NEW w \in Workers, UpsertRow(w)
    PROVE  CacheInv'
<1>a. refresh[w].pc = "upsert" /\ missed' = missed
    BY DEF UpsertRow, At
<1>b. PICK u : u = refresh[w].u
    OBVIOUS
<1>c. PICK t : t = TypeOf(w)
    OBVIOUS
<1>d. PICK todo : todo = refresh[w].todo
    OBVIOUS
<1>e. PICK P : P = Progress(t)
    OBVIOUS
<1>1. /\ RefreshOK(refresh[w]) /\ Reliable(refresh[w])
      /\ u \in Collectors /\ refresh[w].i \in 1 .. 9 /\ t \in Types /\ t = Order[refresh[w].i]
      /\ refresh[w].ok => \A x \in Refreshing(u) : x = w
    BY <1>a, <1>b, <1>c, Taken
<1>f. PICK g \in todo :
         /\ rows' = [rows EXCEPT ![refresh[w].u][TypeOf(w)] = UpsertAwardProgress(@, g)]
         /\ Put(w, [refresh[w] EXCEPT !.todo = @ \ {g}])
    BY <1>d DEF UpsertRow
<1>g. PICK r : r = [refresh[w] EXCEPT !.todo = @ \ {g}]
    OBVIOUS
<1>2. /\ refresh[w] \in Writes(refresh[w])
      /\ refresh[w].ok => todo \subseteq P
    BY <1>1, <1>a, <1>d, <1>e DEF RefreshOK, Idle, Steps, Checks
<1>3. /\ r.pc = "upsert" /\ r.u = u /\ r.i = refresh[w].i /\ r.ok = refresh[w].ok
      /\ r.todo = todo \ {g} /\ r \in Writes(r)
    BY <1>2, <1>b, <1>d, <1>g DEF Writes
<1>4. PICK S : S = UpsertAwardProgress(rows[u][t], g)
    OBVIOUS
<1>5. rows' = [rows EXCEPT ![u][t] = S] /\ refresh' = [refresh EXCEPT ![w] = r]
    BY <1>b, <1>c, <1>4, <1>f, <1>g DEF Put
<1>6. \A x \in S : IsRow(x)
    BY <1>1, <1>4 DEF UpsertAwardProgress, CacheInv, RowsOK, IsRow
<1>7. /\ RowsOK' /\ rows'[u][t] = S
      /\ \A x \in Types \ {t} : rows'[u][x] = rows[u][x]
      /\ \A v \in Collectors \ {u} : rows'[v] = rows[v]
    <2>1. RowsOK
        BY DEF CacheInv
    <2>2. u \in Collectors /\ t \in Types /\ setup' = setup
        BY <1>1
    <2>3. rows' = [rows EXCEPT ![u][t] = S]
        BY <1>5
    <2> QED
        BY <1>6, <2>1, <2>2, <2>3, WriteRows, Zenon
<1>8. RefreshOK(r)'
    <2>1. RefreshOK(r)
        BY <1>1, <1>2, <1>3, <1>e DEF RefreshOK
    <2> QED
        BY <2>1, RefreshOKSame
<1>9. Reliable(r)'
    <2> SUFFICES ASSUME r.ok
                 PROVE  /\ \A j \in 1 .. (r.i - 1) : Order[j] \in Types => Current(u, Order[j])'
                        /\ Sofar(r)'
        BY <1>3 DEF Reliable, Types
    <2>1. Shows(u, t, P \ todo) /\ todo \subseteq P
        BY <1>1, <1>2, <1>3, <1>a, <1>b, <1>d, <1>e DEF Reliable, Sofar
    <2>2. OnePerKey(P)
        BY <1>1, <1>e, WorthKeyed, TypesInOrder
    <2>3. Shows(u, t, P \ (todo \ {g}))'
        BY <2>1, <2>2, <1>4, <1>7, UpsertShows
    <2>4. Progress(t)' = P
        BY <1>e, SameLogSameWorth
    <2>5. Sofar(r)'
        BY <2>3, <2>4, <1>1, <1>3 DEF Sofar
    <2>6. ASSUME NEW j \in 1 .. (r.i - 1), Order[j] \in Types
          PROVE  Current(u, Order[j])'
        <3>1. Current(u, Order[j])
            BY <1>1, <1>3, <1>a, <1>b, <2>6 DEF Reliable
        <3>2. Order[j] # t
            BY <1>1, <1>3, OrderIs
        <3>3. rows'[u][Order[j]] = rows[u][Order[j]]
            BY <1>7, <2>6, <3>2
        <3> QED
            BY <3>1, <3>3, CurrentSame
    <2> QED
        BY <2>5, <2>6
<1> QED
    BY <1>a, <1>b, <1>1, <1>3, <1>5, <1>7, <1>8, <1>9, TurnKeepsCache

LEMMA MilestonesKeepCache ==
    ASSUME CacheInv, setup \in Setups, UNCHANGED <<setup, qso>>, NEW w \in Workers,
           checkMilestones(w) \/ CheckSent(w) \/ CreateWorkerNotification(w)
    PROVE  CacheInv'
<1>a. UNCHANGED <<rows, missed>> /\ refresh[w].pc \in {"upsert", "check", "notify"}
    BY DEF checkMilestones, CheckSent, CreateWorkerNotification, At
<1>1. /\ RefreshOK(refresh[w]) /\ Reliable(refresh[w])
      /\ refresh[w].u \in Collectors /\ refresh[w].i \in 1 .. 9
      /\ TypeOf(w) \in Types /\ TypeOf(w) = Order[refresh[w].i]
    BY <1>a, Taken
<1>2. CASE checkMilestones(w)
    <2>a. PICK r : r = [pc |-> "check", u |-> refresh[w].u, i |-> refresh[w].i, ok |-> refresh[w].ok,
                        due |-> {m \in MilestonesFor[TypeOf(w)] : m <= refresh[w].n}]
        OBVIOUS
    <2>1. refresh' = [refresh EXCEPT ![w] = r] /\ refresh[w].pc = "upsert" /\ refresh[w].todo = {}
        BY <1>2, <2>a DEF checkMilestones, Put, At
    <2>2. /\ r.pc = "check" /\ r.u = refresh[w].u /\ r.i = refresh[w].i /\ r.ok = refresh[w].ok
          /\ r.due \subseteq MilestonesFor[TypeOf(w)] /\ r \in Checks(r)
        BY <2>a, <1>1 DEF Checks
    <2>3. RefreshOK(r)
        BY <1>1, <2>2 DEF RefreshOK
    <2>4. Progress(TypeOf(w)) \ refresh[w].todo = Progress(TypeOf(w))
        BY <2>1
    <2>5. Reliable(refresh[w]) => (r.ok => Sofar(r))
        BY <1>1, <2>1, <2>2, <2>4 DEF Reliable, Sofar, Current
    <2> QED
        BY <1>a, <2>1, <2>2, <2>3, <2>5, StayKeepsCache
<1>3. CASE CheckSent(w) \/ CreateWorkerNotification(w)
    <2>a. PICK m : m = Lowest(refresh[w].due)
        OBVIOUS
    <2>1. refresh[w].pc \in {"check", "notify"} /\ refresh[w].due # {}
        <3>1. CASE CheckSent(w)
            BY <3>1 DEF CheckSent, At
        <3>2. CASE CreateWorkerNotification(w)
            <4>1. refresh[w].pc = "notify"
                BY <3>2 DEF CreateWorkerNotification, At
            <4>2. PICK x : x = refresh[w]
                OBVIOUS
            <4>3. RefreshOK(x) /\ x.pc = "notify"
                BY <1>1, <4>1, <4>2
            <4>4. x.due # {}
                BY <4>3 DEF RefreshOK, Idle, Steps, Writes
            <4> QED BY <4>1, <4>2, <4>4
        <3> QED BY <1>3, <3>1, <3>2
    <2>2. refresh[w] \in Checks(refresh[w]) /\ refresh[w].due \subseteq MilestonesFor[TypeOf(w)]
        BY <1>1, <2>1 DEF RefreshOK, Idle, Steps, Writes
    <2>3. PICK r \in {[refresh[w] EXCEPT !.due = @ \ {m}], [refresh[w] EXCEPT !.pc = "notify"],
                      [refresh[w] EXCEPT !.pc = "check", !.due = @ \ {m}]} :
             /\ refresh' = [refresh EXCEPT ![w] = r]
             /\ r = [refresh[w] EXCEPT !.due = @ \ {m}] => refresh[w].pc = "check"
        <3>1. CASE CheckSent(w) /\ AlreadySent(refresh[w].u, TypeOf(w), m)
            BY <3>1, <2>a DEF CheckSent, Put, At
        <3>2. CASE CheckSent(w) /\ ~AlreadySent(refresh[w].u, TypeOf(w), m)
            <4>1. refresh' = [refresh EXCEPT ![w] = [refresh[w] EXCEPT !.pc = "notify"]]
                BY <3>2, <2>a DEF CheckSent, Put
            <4>2. refresh[w].pc = "check"
                BY <3>2 DEF CheckSent, At
            <4> QED
                BY <4>1, <4>2
        <3>3. CASE CreateWorkerNotification(w)
            <4>1. refresh' = [refresh EXCEPT ![w] = [refresh[w] EXCEPT !.pc = "check", !.due = @ \ {m}]]
                BY <3>3, <2>a DEF CreateWorkerNotification, Put
            <4>2. [refresh[w] EXCEPT !.pc = "check", !.due = @ \ {m}].pc = "check"
                BY <2>2 DEF Checks
            <4>3. [refresh[w] EXCEPT !.pc = "check", !.due = @ \ {m}] = [refresh[w] EXCEPT !.due = @ \ {m}]
                    => refresh[w].pc = "check"
                BY <2>2, <4>2 DEF Checks
            <4> QED
                BY <4>1, <4>3
        <3> QED
            BY <1>3, <3>1, <3>2, <3>3
    <2>4. /\ r.pc \in {"check", "notify"} /\ r.u = refresh[w].u /\ r.i = refresh[w].i
          /\ r.ok = refresh[w].ok /\ r.due \subseteq refresh[w].due /\ r \in Checks(r)
          /\ r.pc = "notify" => r.due # {}
        BY <2>1, <2>2, <2>3 DEF Checks
    <2>5. RefreshOK(r)
        BY <1>1, <2>2, <2>4 DEF RefreshOK
    <2>6. Reliable(refresh[w]) => (r.ok => Sofar(r))
        BY <1>1, <2>1, <2>4 DEF Reliable, Sofar
    <2> QED
        BY <1>a, <2>3, <2>4, <2>5, <2>6, StayKeepsCache
<1> QED
    BY <1>2, <1>3

\* On to the next type, or done with the last.
LEMMA OnwardKeepsCache ==
    ASSUME CacheInv, setup \in Setups, UNCHANGED <<setup, qso, rows>>, NEW w \in Workers, NEW ok,
           refresh[w].pc # "idle", Onward(w, ok),
           refresh[w].ok /\ ok => Current(refresh[w].u, TypeOf(w))
    PROVE  CacheInv'
<1>a. PICK u : u = refresh[w].u
    OBVIOUS
<1>b. PICK k : k = refresh[w].i
    OBVIOUS
<1>c. PICK i : i = NextType(k + 1)
    OBVIOUS
<1>1. /\ Reliable(refresh[w]) /\ u \in Collectors /\ k \in 1 .. 9 /\ TypeOf(w) = Order[k]
      /\ refresh[w].ok => \A x \in Refreshing(u) : x = w
    BY <1>a, <1>b, Taken
<1>2. /\ i \in (k + 1) .. 10
      /\ i # 10 => Order[i] \in Types
      /\ \A j \in (k + 1) .. 9 : Order[j] \in Types => i <= j
    <2>1. k + 1 \in 1 .. 10
        BY <1>1
    <2> QED
        BY <2>1, <1>c, LeastFrom
<1>3. RowsOK' /\ Types' = Types
    BY DEF CacheInv, RowsOK, IsRow, Types, Collectors
<1>4. ASSUME refresh[w].ok /\ ok, NEW j \in 1 .. 9, j < i, Order[j] \in Types
      PROVE  Current(u, Order[j])'
    <2>1. Current(u, Order[j])
        <3>1. CASE j < k
            BY <3>1, <1>1, <1>4, <1>a, <1>b DEF Reliable
        <3>2. CASE j = k
            BY <3>2, <1>1, <1>4, <1>a
        <3>3. CASE j > k
            BY <3>3, <1>1, <1>2, <1>4
        <3> QED
            BY <3>1, <3>2, <3>3, <1>1
    <2> QED
        BY <2>1, CurrentSame
<1>5. CASE i # 10
    <2>a. PICK r : r = [pc |-> "delete", u |-> u, i |-> i, ok |-> (refresh[w].ok /\ ok)]
        OBVIOUS
    <2>1. refresh' = [refresh EXCEPT ![w] = r] /\ missed' = missed
        BY <1>5, <1>a, <1>b, <1>c, <2>a DEF Onward, Put
    <2>2. r.pc = "delete" /\ r.u = u /\ r.i = i /\ (r.ok <=> (refresh[w].ok /\ ok))
        BY <2>a
    <2>3. i \in 1 .. 9
        BY <1>1, <1>2, <1>5
    <2>4. r \in Steps(r)
        BY <1>1, <2>3, <2>a DEF Steps
    <2>5. RefreshOK(r)'
        <3>1. RefreshOK(r)
            BY <1>2, <1>5, <2>2, <2>4 DEF RefreshOK
        <3> QED
            BY <3>1, RefreshOKSame
    <2>6. Reliable(r)'
        <3>1. ASSUME r.ok, NEW j \in 1 .. (i - 1), Order[j] \in Types
              PROVE  Current(u, Order[j])'
            BY <1>4, <2>2, <2>3, <3>1
        <3> QED
            BY <3>1, <2>2, <1>3 DEF Reliable, Sofar
    <2> QED
        BY <1>1, <1>3, <1>a, <2>1, <2>2, <2>5, <2>6, TurnKeepsCache
<1>6. CASE i = 10
    <2>a. PICK r : r = Idle
        OBVIOUS
    <2>1. /\ refresh' = [refresh EXCEPT ![w] = r]
          /\ missed' = IF refresh[w].ok /\ ok THEN missed \ {u} ELSE missed \union {u}
        BY <1>6, <1>a, <1>b, <1>c, <2>a DEF Onward, Put
    <2>2. r.pc = "idle"
        BY <2>a DEF Idle
    <2>3. RefreshOK(r)' /\ Reliable(r)'
        BY <2>2, <2>a DEF RefreshOK, Reliable, Idle
    <2>4. ASSUME refresh[w].ok /\ ok, NEW t \in Types
          PROVE  Current(u, t)'
        <3>1. PICK j \in 1 .. 9 : Order[j] = t
            BY TypesInOrder
        <3> QED
            BY <3>1, <1>4, <1>6, <2>4
    <2> QED
        BY <1>1, <1>3, <1>a, <2>1, <2>2, <2>3, <2>4, TurnKeepsCache
<1> QED
    BY <1>5, <1>6

LEMMA LeaveKeepsCache ==
    ASSUME CacheInv, setup \in Setups, UNCHANGED <<setup, qso>>, NEW w \in Workers,
           TypeDone(w) \/ TypeFails(w)
    PROVE  CacheInv'
<1>1. CASE TypeDone(w)
    <2>1. refresh[w].pc = "check" /\ rows' = rows
        BY <1>1 DEF TypeDone, At
    <2>2. refresh[w].ok => Current(refresh[w].u, TypeOf(w))
        BY <2>1, Taken DEF Reliable, Sofar
    <2>a. PICK ok : ok = TRUE
        OBVIOUS
    <2>3. Onward(w, ok)
        BY <1>1, <2>a, Zenon DEF TypeDone
    <2> QED
        BY <2>1, <2>2, <2>3, OnwardKeepsCache
<1>2. CASE TypeFails(w)
    <2>1. refresh[w].pc # "idle" /\ rows' = rows
        BY <1>2 DEF TypeFails, At
    <2>a. PICK ok : ok = FALSE
        OBVIOUS
    <2>2. Onward(w, ok) /\ ~ok
        BY <1>2, <2>a, Zenon DEF TypeFails
    <2> QED
        BY <2>1, <2>2, OnwardKeepsCache
<1> QED
    BY <1>1, <1>2

LEMMA StartIs ==
    ASSUME setup \in Setups, NEW u \in Collectors, NEW ok, NEW r, r = Start(u, ok)
    PROVE  /\ r.pc = "delete" /\ r.u = u /\ r.i = 1 /\ r.ok = ok
           /\ RefreshOK(r) /\ Reliable(r)
<1>1. Order[1] = "dxcc"
    BY DEF Order
<1>2. Order[1] \in Types
    BY <1>1, TypesInOrder
<1>3. NextType(1) = 1
    <2>1. NextType(1) \in 1 .. 10 /\ NextType(1) <= 1
        BY <1>2, LeastFrom
    <2> QED
        BY <2>1
<1>4. r.pc = "delete" /\ r.u = u /\ r.i = 1 /\ r.ok = ok
    BY <1>3 DEF Start
<1>5. r \in Steps(r)
    BY <1>3 DEF Start, Steps
<1>6. RefreshOK(r)
    BY <1>2, <1>4, <1>5 DEF RefreshOK
<1>7. Reliable(r)
    BY <1>4 DEF Reliable, Sofar
<1> QED
    BY <1>4, <1>6, <1>7

LEMMA CrashKeepsCache ==
    ASSUME CacheInv, setup \in Setups, NEW w \in Workers, RefreshCrash(w)
    PROVE  CacheInv'
<1>a. PICK u : u = refresh[w].u
    OBVIOUS
<1>b. PICK ok : ok = (Refreshing(u) = {w})
    OBVIOUS
<1>1. /\ UNCHANGED <<setup, qso, rows>> /\ missed' = missed \union {u} /\ refresh[w].pc # "idle"
      /\ Put(w, Idle) \/ Put(w, Start(u, ok))
    BY <1>a, <1>b DEF RefreshCrash, Fault
<1>2. RowsOK'
    BY <1>1 DEF CacheInv, RowsOK, IsRow, Types, Collectors
<1>3. u \in Collectors
    BY <1>1, <1>a, Taken
<1>4. CASE Put(w, Idle)
    <2>a. PICK r : r = Idle
        OBVIOUS
    <2>1. refresh' = [refresh EXCEPT ![w] = r] /\ r.pc = "idle"
        BY <1>4, <2>a DEF Put, Idle
    <2>2. RefreshOK(r)' /\ Reliable(r)'
        BY <2>1, <2>a DEF RefreshOK, Reliable, Idle
    <2> QED
        BY <1>1, <1>2, <1>a, <2>1, <2>2, TurnKeepsCache
<1>5. CASE Put(w, Start(u, ok))
    <2>a. PICK r : r = Start(u, ok)
        OBVIOUS
    <2>1. refresh' = [refresh EXCEPT ![w] = r]
        BY <1>5, <2>a DEF Put
    <2>2. r.pc = "delete" /\ r.u = u /\ r.ok = ok /\ RefreshOK(r) /\ Reliable(r)
        BY <1>3, <2>a, StartIs
    <2>3. RefreshOK(r)' /\ Reliable(r)'
        BY <1>1, <2>2, RefreshOKSame, ReliableSame
    <2>4. r.ok => \A x \in Refreshing(u) : x = w
        BY <1>b, <2>2
    <2> QED
        BY <1>1, <1>2, <1>a, <2>1, <2>2, <2>3, <2>4, TurnKeepsCache
<1> QED
    BY <1>1, <1>4, <1>5

\* A refresh begins: those of the same user are no longer relied upon.
LEMMA BeginKeepsCache ==
    ASSUME CacheInv, setup \in Setups, UNCHANGED <<setup, qso>>, NEW w \in Workers,
           NEW u \in Collectors, RefreshUser(w, u)
    PROVE  CacheInv'
<1>a. PICK ok : ok = (Refreshing(u) = {})
    OBVIOUS
<1>b. PICK r : r = Start(u, ok)
    OBVIOUS
<1>1. /\ refresh[w].pc = "idle" /\ UNCHANGED <<rows, missed>>
      /\ DOMAIN refresh' = Workers /\ refresh'[w] = r
      /\ \A x \in Workers \ {w} : refresh'[x] = IF x \in Refreshing(u)
                                               THEN [refresh[x] EXCEPT !.ok = FALSE]
                                               ELSE refresh[x]
    BY <1>a, <1>b DEF RefreshUser
<1>2. r.pc = "delete" /\ r.u = u /\ r.ok = ok /\ RefreshOK(r) /\ Reliable(r)
    BY <1>b, StartIs
<1>3. RowsOK'
    BY <1>1 DEF CacheInv, RowsOK, IsRow, Types, Collectors
<1>4. ASSUME NEW x \in Refreshing(u), NEW p, p = [refresh[x] EXCEPT !.ok = FALSE]
      PROVE  p.pc = refresh[x].pc /\ p.u = refresh[x].u /\ ~p.ok /\ RefreshOK(p)
    <2>1. RefreshOK(refresh[x]) /\ refresh[x].pc # "idle" /\ x \in Workers
        BY DEF CacheInv, RefreshesOK, Refreshing
    <2>2. CASE refresh[x] \in Steps(refresh[x])
        BY <1>4, <2>1, <2>2 DEF RefreshOK, Steps, Idle
    <2>3. CASE refresh[x] \in Writes(refresh[x])
        BY <1>4, <2>1, <2>3 DEF RefreshOK, Writes, Idle
    <2>4. CASE refresh[x] \in Checks(refresh[x]) /\ refresh[x].due \subseteq MilestonesFor[Order[refresh[x].i]]
                 /\ (refresh[x].pc = "notify" => refresh[x].due # {})
        BY <1>4, <2>1, <2>4 DEF RefreshOK, Checks, Idle
    <2> QED
        BY <2>1, <2>2, <2>3, <2>4 DEF RefreshOK, Idle
<1>5. ASSUME NEW x \in Workers
      PROVE  RefreshOK(refresh[x])' /\ Reliable(refresh[x])'
    <2>a. PICK p : p = refresh'[x]
        OBVIOUS
    <2>1. RefreshOK(p) /\ Reliable(p)
        <3>1. CASE x = w
            BY <3>1, <1>1, <1>2, <2>a
        <3>2. CASE x # w /\ x \in Refreshing(u)
            BY <3>2, <1>1, <1>4, <2>a DEF Reliable
        <3>3. CASE x # w /\ x \notin Refreshing(u)
            BY <3>3, <1>1, <2>a DEF CacheInv, RefreshesOK, RefreshInv
        <3> QED
            BY <3>1, <3>2, <3>3
    <2>2. RefreshOK(p)' /\ Reliable(p)'
        BY <1>1, <2>1, RefreshOKSame, ReliableSame
    <2> QED
        BY <2>a, <2>2
<1>6. RefreshesOK' /\ RefreshInv'
    BY <1>1, <1>5 DEF RefreshesOK, RefreshInv
<1>7. \A x \in Workers \ {w} : /\ refresh'[x].pc = refresh[x].pc
                               /\ refresh[x].pc # "idle" => refresh'[x].u = refresh[x].u
    BY <1>1, <1>4 DEF Refreshing
<1>8. OkIsAlone'
    <2> SUFFICES ASSUME NEW a \in Workers, NEW x \in Workers, refresh'[a].pc # "idle",
                        refresh'[a].ok, x \in Refreshing(refresh[a].u)'
                 PROVE  x = a
        BY DEF OkIsAlone
    <2>0. refresh'[x].pc # "idle" /\ refresh'[x].u = refresh'[a].u
        BY DEF Refreshing
    <2>1. CASE a = w
        <3>1. ok
            BY <2>1, <1>1, <1>2
        <3>2. Refreshing(u) = {}
            BY <3>1, <1>a
        <3>3. refresh'[x].u = u
            BY <2>0, <2>1, <1>1, <1>2
        <3> QED
            BY <2>0, <2>1, <3>2, <3>3, <1>7 DEF Refreshing
    <2>2. CASE a # w
        <3>1. a \notin Refreshing(u) /\ refresh'[a] = refresh[a]
            BY <2>2, <1>1, <1>4
        <3>2. x # w
            BY <2>0, <2>2, <3>1, <1>1, <1>2, <1>7 DEF Refreshing
        <3>3. x \in Refreshing(refresh[a].u)
            BY <2>0, <3>1, <3>2, <1>7 DEF Refreshing
        <3> QED
            BY <3>1, <3>3 DEF CacheInv, OkIsAlone
    <2> QED
        BY <2>1, <2>2
<1>9. ASSUME NEW v \in Collectors, Clean(v)', NEW t \in Types
      PROVE  Current(v, t)'
    <2>1. v # u
        BY <1>1, <1>2, <1>9 DEF Clean, Refreshing
    <2>2. Refreshing(v) = {}
        BY <1>1, <1>7, <1>9 DEF Clean, Refreshing
    <2>3. Clean(v)
        BY <1>1, <1>9, <2>2, DirtySame DEF Clean
    <2>4. Current(v, t)
        BY <2>3, CleanIs DEF CacheInv
    <2> QED
        BY <1>1, <2>4, CurrentSame
<1>10. RowsCurrent'
    <2>1. \A v \in Collectors' : Clean(v)' => \A t \in Types' : Current(v, t)'
        BY <1>9 DEF Types, Collectors
    <2> QED
        BY <2>1 DEF RowsCurrent, Clean
<1> QED
    BY <1>3, <1>6, <1>8, <1>10 DEF CacheInv

-----------------------------------------------------------------------------
(* Changes of the log, and Club Log's poll.                                *)

\* When the log changes no refresh in flight is relied upon any more.
LEMMA SpoiledKeeps ==
    ASSUME CacheInv, setup' = setup, refresh' = Spoiled
    PROVE  /\ RefreshesOK' /\ OkIsAlone' /\ RefreshInv'
           /\ \A v : Refreshing(v)' = Refreshing(v)
<1>1. Types' = Types /\ Collectors' = Collectors
    BY DEF Types, Collectors
<1>2. ASSUME NEW x \in Workers, NEW p, p = refresh'[x]
      PROVE  /\ p.pc = refresh[x].pc /\ (p.pc # "idle" => p.u = refresh[x].u /\ ~p.ok)
             /\ RefreshOK(p)'
    <2>1. RefreshOK(refresh[x])
        BY DEF CacheInv, RefreshesOK
    <2>2. CASE refresh[x].pc = "idle"
        <3>1. p = Idle
            BY <1>2, <2>2 DEF Spoiled
        <3> QED
            BY <2>2, <3>1 DEF Idle, RefreshOK
    <2>3. CASE refresh[x].pc # "idle"
        <3>1. p = [refresh[x] EXCEPT !.ok = FALSE]
            BY <1>2, <2>3 DEF Spoiled
        <3>2. CASE refresh[x] \in Steps(refresh[x])
            BY <1>1, <2>1, <2>3, <3>1, <3>2 DEF RefreshOK, Steps, Idle
        <3>3. CASE refresh[x] \in Writes(refresh[x])
            BY <1>1, <2>1, <2>3, <3>1, <3>3 DEF RefreshOK, Writes, Idle
        <3>4. CASE refresh[x] \in Checks(refresh[x])
                     /\ refresh[x].due \subseteq MilestonesFor[Order[refresh[x].i]]
                     /\ (refresh[x].pc = "notify" => refresh[x].due # {})
            BY <1>1, <2>1, <2>3, <3>1, <3>4 DEF RefreshOK, Checks, Idle
        <3> QED
            BY <2>1, <2>3, <3>2, <3>3, <3>4 DEF RefreshOK, Idle
    <2> QED
        BY <2>2, <2>3
<1>3. \A x \in Workers : /\ refresh'[x].pc = refresh[x].pc
                         /\ refresh'[x].pc # "idle" => refresh'[x].u = refresh[x].u /\ ~refresh'[x].ok
    BY <1>2
<1>4. RefreshesOK'
    <2>1. ASSUME NEW x \in Workers PROVE RefreshOK(refresh[x])'
        <3> PICK p : p = refresh'[x]
            OBVIOUS
        <3>1. RefreshOK(p)'
            BY <1>2
        <3> QED
            BY <3>1
    <2>2. DOMAIN refresh' = Workers
        BY DEF Spoiled
    <2> QED
        BY <2>1, <2>2 DEF RefreshesOK
<1>5. OkIsAlone' /\ RefreshInv'
    BY <1>3 DEF OkIsAlone, RefreshInv, Reliable
<1>6. \A v : Refreshing(v)' = Refreshing(v)
    BY <1>3 DEF Refreshing
<1> QED
    BY <1>4, <1>5, <1>6

LEMMA UnflaggedKeepsCache ==
    ASSUME CacheInv, setup' = setup, Unflagged
    PROVE  CacheInv'
<1>1. RefreshesOK' /\ OkIsAlone' /\ RefreshInv'
    BY SpoiledKeeps DEF Unflagged
<1>2. RowsOK'
    BY DEF CacheInv, RowsOK, IsRow, Types, Collectors, Unflagged
<1>3. RowsCurrent'
    BY DEF RowsCurrent, Unflagged, Collectors
<1> QED
    BY <1>1, <1>2, <1>3 DEF CacheInv

LEMMA MarkIs ==
    ASSUME RowsOK, setup' = setup, NEW u \in Collectors, rows' = MarkUserAwardsDirty(u)
    PROVE  /\ RowsOK'
           /\ HasRows(u) => Dirty(u)'
<1>1. Types' = Types /\ Collectors' = Collectors
    BY DEF Types, Collectors
<1>2. /\ DOMAIN rows' = Collectors /\ DOMAIN rows'[u] = Types
      /\ \A t \in Types : rows'[u][t] = {[r EXCEPT !.dirty = TRUE] : r \in rows[u][t]}
      /\ \A v \in Collectors \ {u} : rows'[v] = rows[v]
    BY DEF RowsOK, MarkUserAwardsDirty
<1>3. ASSUME NEW t \in Types, NEW r \in rows[u][t], NEW n, n = [r EXCEPT !.dirty = TRUE]
      PROVE  IsRow(n) /\ n.dirty
    <2>1. IsRow(r)
        BY DEF RowsOK
    <2> QED
        BY <1>3, <2>1 DEF IsRow
<1>4. \A t \in Types : \A n \in rows'[u][t] : IsRow(n) /\ n.dirty
    BY <1>2, <1>3
<1>5. RowsOK'
    BY <1>1, <1>2, <1>4 DEF RowsOK, IsRow
<1>6. ASSUME HasRows(u) PROVE Dirty(u)'
    <2>1. PICK t \in Types : rows[u][t] # {}
        BY <1>6 DEF HasRows
    <2>a. PICK r : r \in rows[u][t]
        BY <2>1
    <2>b. PICK n : n = [r EXCEPT !.dirty = TRUE]
        OBVIOUS
    <2>2. n \in rows'[u][t] /\ n.dirty
        BY <1>2, <1>3, <2>a, <2>b
    <2> QED
        BY <1>1, <2>2 DEF Dirty
<1> QED
    BY <1>5, <1>6

LEMMA FlaggedKeepsCache ==
    ASSUME CacheInv, setup' = setup, NEW u, Flagged(u)
    PROVE  CacheInv'
<1>1. RefreshesOK' /\ OkIsAlone' /\ RefreshInv' /\ Refreshing(u)' = Refreshing(u)
    BY SpoiledKeeps DEF Flagged
<1>2. RowsOK' /\ (u \in Collectors /\ HasRows(u) => Dirty(u)')
    <2>1. CASE u \in Collectors
        BY <2>1, MarkIs DEF Flagged, CacheInv
    <2>2. CASE u \notin Collectors
        BY <2>2 DEF Flagged, CacheInv, RowsOK, IsRow, Types, Collectors
    <2> QED
        BY <2>1, <2>2
<1>3. Collectors' = Collectors
    BY DEF Collectors
<1>4. ASSUME NEW v \in Collectors, Clean(v)' PROVE FALSE
    <2>1. v = u /\ HasRows(u)
        BY <1>4 DEF Clean, Flagged
    <2> QED
        BY <2>1, <1>2, <1>4 DEF Clean
<1>5. RowsCurrent'
    BY <1>3, <1>4 DEF RowsCurrent, Clean
<1> QED
    BY <1>1, <1>2, <1>5 DEF CacheInv

\* Rows flagged again show what they showed.
LEMMA MarkKeepsCache ==
    ASSUME CacheInv, setup \in Setups, NEW u \in Collectors, HasRows(u),
           rows' = MarkUserAwardsDirty(u), UNCHANGED <<setup, qso, refresh, missed>>
    PROVE  CacheInv'
<1>1. Types' = Types /\ Collectors' = Collectors
    BY DEF Types, Collectors
<1>2. RowsOK' /\ Dirty(u)'
    BY MarkIs DEF CacheInv
<1>3. \A v \in Collectors \ {u} : rows'[v] = rows[v]
    BY DEF CacheInv, RowsOK, MarkUserAwardsDirty
<1>4. ASSUME NEW t \in Types, NEW G, Shows(u, t, G) PROVE Shows(u, t, G)'
    <2> PICK old : old = rows[u][t]
        OBVIOUS
    <2> PICK new : new = rows'[u][t]
        OBVIOUS
    <2>1. new = {[r EXCEPT !.dirty = TRUE] : r \in old}
        BY DEF CacheInv, RowsOK, MarkUserAwardsDirty
    <2>2. ASSUME NEW r \in old, NEW n, n = [r EXCEPT !.dirty = TRUE]
          PROVE  n \in new /\ n.key = r.key /\ n.worked = r.worked /\ n.conf = r.conf
        <3>1. IsRow(r)
            BY DEF CacheInv, RowsOK
        <3> QED
            BY <2>1, <2>2, <3>1 DEF IsRow
    <2>a. \A r \in old : \E n \in new : n.key = r.key /\ n.worked = r.worked /\ n.conf = r.conf
        BY <2>2
    <2>b. ASSUME NEW n \in new
          PROVE  \E r \in old : n.key = r.key /\ n.worked = r.worked /\ n.conf = r.conf
        <3>1. PICK r \in old : n = [r EXCEPT !.dirty = TRUE]
            BY <2>1
        <3> QED
            BY <2>2, <3>1
    <2>3. /\ \A r \in old : \E n \in new : n.key = r.key /\ n.worked = r.worked /\ n.conf = r.conf
          /\ \A n \in new : \E r \in old : n.key = r.key /\ n.worked = r.worked /\ n.conf = r.conf
        BY <2>a, <2>b
    <2>4. {x.key : x \in {y \in new : y.worked}} = {x.key : x \in {y \in old : y.worked}}
        BY <2>3
    <2>5. \A g \in G : g.conf => \E r \in new : r.key = g.key /\ r.conf
        BY <1>4, <2>3 DEF Shows
    <2>6. ByType(u, t)' = KeysOf(G)
        BY <1>4, <2>4 DEF Shows, ByType, ListAwardProgressByType
    <2> QED
        BY <2>5, <2>6 DEF Shows, KeysOf
<1>5. ASSUME NEW v \in Collectors, NEW t \in Types, NEW G, Shows(v, t, G) PROVE Shows(v, t, G)'
    BY <1>3, <1>4, <1>5, ShowsSame
<1>6. ASSUME NEW v \in Collectors, NEW t \in Types, Current(v, t) PROVE Current(v, t)'
    <2> PICK P : P = Progress(t)
        OBVIOUS
    <2>1. Progress(t)' = P
        BY SameLogSameWorth
    <2> QED
        BY <1>5, <1>6, <2>1 DEF Current
<1>7. ASSUME NEW x \in Workers PROVE RefreshOK(refresh[x])' /\ Reliable(refresh[x])'
    <2> PICK p : p = refresh[x]
        OBVIOUS
    <2>1. RefreshOK(p) /\ Reliable(p)
        BY DEF CacheInv, RefreshesOK, RefreshInv
    <2>2. RefreshOK(p)'
        BY <2>1, RefreshOKSame
    <2>3. ASSUME p.pc # "idle", p.ok PROVE Reliable(p)'
        <3>1. p.u \in Collectors /\ Order[p.i] \in Types
            BY <2>1, <2>3, RefreshFields
        <3>2. \A j \in 1 .. (p.i - 1) : Order[j] \in Types => Current(p.u, Order[j])'
            BY <1>6, <2>1, <2>3, <3>1 DEF Reliable
        <3> PICK P : P = Progress(Order[p.i])
            OBVIOUS
        <3>3. Progress(Order[p.i])' = P
            BY SameLogSameWorth
        <3>4. Sofar(p)'
            BY <1>5, <1>6, <2>1, <2>3, <3>1, <3>3 DEF Reliable, Sofar
        <3> QED
            BY <1>1, <3>2, <3>4 DEF Reliable
    <2>4. Reliable(p)'
        BY <2>3 DEF Reliable
    <2> QED
        BY <2>2, <2>4
<1>8. RefreshesOK' /\ RefreshInv' /\ OkIsAlone'
    BY <1>7 DEF CacheInv, RefreshesOK, RefreshInv, OkIsAlone, Refreshing
<1>9. RowsCurrent'
    <2>1. \A v \in Collectors : Clean(v)' => v # u /\ Clean(v)
        BY <1>2, <1>3, DirtySame DEF Clean, Refreshing
    <2>2. \A v \in Collectors' : Clean(v)' => \A t \in Types' : Current(v, t)'
        BY <1>1, <1>6, <2>1, CleanIs DEF CacheInv
    <2> QED
        BY <2>2 DEF RowsCurrent, Clean
<1> QED
    BY <1>2, <1>8, <1>9 DEF CacheInv

\* The poll takes no worked entry and no confirmation away.
LEMMA PollShows ==
    ASSUME NEW u, NEW k, NEW confirmed, NEW G, NEW rs, NEW old, NEW rs2, rs = rows[u]["dxcc"],
           \A r \in rs : IsRow(r), old = {r \in rs : r.key = k},
           \/ old = {} /\ rs2 = rs \union {[key |-> k, worked |-> FALSE, conf |-> confirmed,
                                            dirty |-> FALSE]}
           \/ rs2 = (rs \ old) \union {[r EXCEPT !.conf = TRUE, !.dirty = FALSE] : r \in old},
           rows'[u]["dxcc"] = rs2, Shows(u, "dxcc", G)
    PROVE  Shows(u, "dxcc", G)' /\ \A r \in rs2 : IsRow(r)
<1>1. /\ {x.key : x \in {y \in rs : y.worked}} = KeysOf(G)
      /\ \A g \in G : g.conf => \E r \in rs : r.key = g.key /\ r.conf
    BY DEF Shows, ByType, ListAwardProgressByType
<1>2. CASE old = {} /\ rs2 = rs \union {[key |-> k, worked |-> FALSE, conf |-> confirmed,
                                         dirty |-> FALSE]}
    <2>a. PICK n : n = [key |-> k, worked |-> FALSE, conf |-> confirmed, dirty |-> FALSE]
        OBVIOUS
    <2>1. rs2 = rs \union {n} /\ ~n.worked /\ IsRow(n)
        BY <1>2, <2>a DEF IsRow
    <2>2. {y \in rs2 : y.worked} = {y \in rs : y.worked}
        BY <2>1
    <2>3. \A g \in G : g.conf => \E r \in rs2 : r.key = g.key /\ r.conf
        BY <1>1, <2>1
    <2>4. {x.key : x \in {y \in rs2 : y.worked}} = KeysOf(G)
        BY <1>1, <2>2
    <2> QED
        BY <2>1, <2>3, <2>4 DEF Shows, ByType, ListAwardProgressByType
<1>3. CASE rs2 = (rs \ old) \union {[r EXCEPT !.conf = TRUE, !.dirty = FALSE] : r \in old}
    <2>1. ASSUME NEW r \in old, NEW n, n = [r EXCEPT !.conf = TRUE, !.dirty = FALSE]
          PROVE  IsRow(n) /\ n.key = r.key /\ n.worked = r.worked /\ n.conf = TRUE
        <3>1. IsRow(r)
            OBVIOUS
        <3> QED
            BY <2>1, <3>1 DEF IsRow
    <2>2. \A r \in rs : \E n \in rs2 : n.key = r.key /\ n.worked = r.worked /\ (r.conf => n.conf)
        <3> SUFFICES ASSUME NEW r \in rs
                     PROVE  \E n \in rs2 : n.key = r.key /\ n.worked = r.worked /\ (r.conf => n.conf)
            OBVIOUS
        <3>1. CASE r \in old
            <4>a. PICK n : n = [r EXCEPT !.conf = TRUE, !.dirty = FALSE]
                OBVIOUS
            <4>1. n.key = r.key /\ n.worked = r.worked /\ n.conf = TRUE
                BY <2>1, <3>1, <4>a
            <4>2. n \in rs2
                BY <1>3, <3>1, <4>a
            <4> QED
                BY <4>1, <4>2
        <3>2. CASE r \notin old
            BY <1>3, <3>2
        <3> QED
            BY <3>1, <3>2
    <2>3. \A n \in rs2 : IsRow(n) /\ \E r \in rs : n.key = r.key /\ n.worked = r.worked
        <3> SUFFICES ASSUME NEW n \in rs2
                     PROVE  IsRow(n) /\ \E r \in rs : n.key = r.key /\ n.worked = r.worked
            OBVIOUS
        <3>1. CASE n \in rs
            BY <3>1
        <3>2. CASE n \notin rs
            <4>1. PICK r \in old : n = [r EXCEPT !.conf = TRUE, !.dirty = FALSE]
                BY <1>3, <3>2
            <4> QED
                BY <2>1, <4>1
        <3> QED
            BY <3>1, <3>2
    <2>4. {x.key : x \in {y \in rs2 : y.worked}} = {x.key : x \in {y \in rs : y.worked}}
        <3>1. ASSUME NEW x \in rs2, x.worked
              PROVE  x.key \in {z.key : z \in {y \in rs : y.worked}}
            <4>1. PICK r \in rs : x.key = r.key /\ x.worked = r.worked
                BY <2>3
            <4>2. r.worked
                BY <3>1, <4>1
            <4> QED
                BY <4>1, <4>2
        <3>2. ASSUME NEW x \in rs, x.worked
              PROVE  x.key \in {z.key : z \in {y \in rs2 : y.worked}}
            <4>1. PICK n \in rs2 : n.key = x.key /\ n.worked = x.worked
                BY <2>2
            <4>2. n.worked
                BY <3>2, <4>1
            <4> QED
                BY <4>1, <4>2
        <3> DEFINE A == {y \in rs2 : y.worked}
                   B == {y \in rs : y.worked}
                   KA == {x.key : x \in A}
                   KB == {x.key : x \in B}
        <3>3. \A x \in A : x.key \in KB
            BY <3>1
        <3>4. \A x \in B : x.key \in KA
            BY <3>2
        <3>5. KA \subseteq KB
            <4> HIDE DEF A, B, KB
            <4> QED
                BY <3>3
        <3>6. KB \subseteq KA
            <4> HIDE DEF A, B, KA
            <4> QED
                BY <3>4
        <3> QED
            BY <3>5, <3>6
    <2>5. ASSUME NEW g \in G, g.conf
          PROVE  \E r \in rs2 : r.key = g.key /\ r.conf
        <3>1. PICK r \in rs : r.key = g.key /\ r.conf
            BY <1>1, <2>5
        <3>2. PICK n \in rs2 : n.key = r.key /\ (r.conf => n.conf)
            BY <2>2
        <3> QED
            BY <3>1, <3>2
    <2> QED
        BY <1>1, <2>3, <2>4, <2>5 DEF Shows, ByType, ListAwardProgressByType
<1> QED
    BY <1>2, <1>3

LEMMA PollKeepsCache ==
    ASSUME CacheInv, setup \in Setups, NEW u \in Collectors, NEW k, NEW confirmed,
           upsertDXCCAwardProgress(u, k, confirmed)
    PROVE  CacheInv'
<1> DEFINE Rs == rows[u]["dxcc"]
           Old == {r \in Rs : r.key = k}
           New == IF Old = {}
                  THEN {[key |-> k, worked |-> FALSE, conf |-> confirmed, dirty |-> FALSE]}
                  ELSE {[r EXCEPT !.conf = TRUE, !.dirty = FALSE] : r \in Old}
           Rs2 == IF Old # {} /\ ~confirmed THEN Rs ELSE (Rs \ Old) \union New
<1>0. Rs2 # Rs /\ rows' = [rows EXCEPT ![u]["dxcc"] = Rs2]
    BY Zenon DEF upsertDXCCAwardProgress
<1>i. missed' = IF Dirty(u) /\ (\A r \in Rs2 : ~r.dirty)
                     /\ \A t \in Types \ {"dxcc"} : \A x \in rows[u][t] : ~x.dirty
                THEN missed \union {u} ELSE missed
    BY Zenon DEF upsertDXCCAwardProgress
<1>j. UNCHANGED <<setup, qso, refresh>>
    BY Zenon DEF upsertDXCCAwardProgress
<1>a. PICK rs : rs = Rs
    OBVIOUS
<1>b. PICK old : old = {r \in rs : r.key = k}
    OBVIOUS
<1>c. PICK new : new = IF old = {}
                       THEN {[key |-> k, worked |-> FALSE, conf |-> confirmed, dirty |-> FALSE]}
                       ELSE {[r EXCEPT !.conf = TRUE, !.dirty = FALSE] : r \in old}
    OBVIOUS
<1>d. PICK rs2 : rs2 = IF old # {} /\ ~confirmed THEN rs ELSE (rs \ old) \union new
    OBVIOUS
<1>e. old = Old
    BY <1>a, <1>b
<1>f. new = New
    BY <1>c, <1>e
<1>g. rs2 = Rs2
    BY <1>a, <1>d, <1>e, <1>f
<1> HIDE DEF Rs, Old, New, Rs2
<1>1. /\ rs2 # rs /\ rows' = [rows EXCEPT ![u]["dxcc"] = rs2]
      /\ missed' = IF Dirty(u) /\ (\A r \in rs2 : ~r.dirty)
                        /\ \A t \in Types \ {"dxcc"} : \A x \in rows[u][t] : ~x.dirty
                   THEN missed \union {u} ELSE missed
      /\ UNCHANGED <<setup, qso, refresh>>
    BY <1>0, <1>i, <1>j, <1>a, <1>g
<1>h. rs = rows[u]["dxcc"]
    BY <1>a DEF Rs
<1>2. \/ old = {} /\ rs2 = rs \union {[key |-> k, worked |-> FALSE, conf |-> confirmed,
                                       dirty |-> FALSE]}
      \/ rs2 = (rs \ old) \union {[r EXCEPT !.conf = TRUE, !.dirty = FALSE] : r \in old}
    BY <1>1, <1>c, <1>d
<1>3. RowsOK /\ "dxcc" \in Types
    BY TypesInOrder DEF CacheInv
<1>4. \A r \in rs : IsRow(r)
    BY <1>3, <1>h DEF RowsOK
<1>5. \A r \in rs2 : IsRow(r)
    <2>1. CASE old = {} /\ rs2 = rs \union {[key |-> k, worked |-> FALSE, conf |-> confirmed,
                                             dirty |-> FALSE]}
        BY <1>4, <2>1 DEF IsRow
    <2>2. CASE rs2 = (rs \ old) \union {[r EXCEPT !.conf = TRUE, !.dirty = FALSE] : r \in old}
        <3>1. ASSUME NEW r \in old, NEW n, n = [r EXCEPT !.conf = TRUE, !.dirty = FALSE]
              PROVE  IsRow(n)
            <4>1. IsRow(r)
                BY <1>4, <1>b
            <4> QED
                BY <3>1, <4>1 DEF IsRow
        <3> QED
            BY <1>4, <2>2, <3>1
    <2> QED
        BY <1>2, <2>1, <2>2
<1>6. /\ RowsOK' /\ rows'[u]["dxcc"] = rs2
      /\ \A x \in Types \ {"dxcc"} : rows'[u][x] = rows[u][x]
      /\ \A v \in Collectors \ {u} : rows'[v] = rows[v]
    BY <1>1, <1>3, <1>5, WriteRows, Zenon
<1>7. ASSUME NEW v \in Collectors, NEW t \in Types, NEW G, Shows(v, t, G)
      PROVE  Shows(v, t, G)'
    <2>1. CASE v = u /\ t = "dxcc"
        <3>1. Shows(u, "dxcc", G) /\ rows'[u]["dxcc"] = rs2
            BY <1>6, <1>7, <2>1
        <3>2. Shows(u, "dxcc", G)'
            BY <1>2, <1>4, <1>b, <1>h, <3>1, PollShows, ZenonT(40)
        <3> QED
            BY <2>1, <3>2
    <2>2. CASE ~(v = u /\ t = "dxcc")
        <3>1. rows'[v][t] = rows[v][t]
            BY <1>6, <2>2
        <3> QED
            BY <1>7, <3>1, ShowsSame
    <2> QED
        BY <2>1, <2>2
<1>8. ASSUME NEW v \in Collectors, NEW t \in Types, Current(v, t)
      PROVE  Current(v, t)'
    <2> PICK P : P = Progress(t)
        OBVIOUS
    <2>1. Progress(t)' = P
        BY <1>1, SameLogSameWorth
    <2> QED
        BY <1>7, <1>8, <2>1 DEF Current
<1>9. RefreshesOK'
    <2>1. ASSUME NEW x \in Workers PROVE RefreshOK(refresh[x])'
        <3> PICK p : p = refresh[x]
            OBVIOUS
        <3>1. RefreshOK(p)'
            BY <1>1, RefreshOKSame DEF CacheInv, RefreshesOK
        <3> QED
            BY <1>1, <3>1
    <2> QED
        BY <1>1, <2>1 DEF RefreshesOK, CacheInv
<1>10. OkIsAlone'
    BY <1>1 DEF CacheInv, OkIsAlone, Refreshing
<1>11. RefreshInv'
    <2> SUFFICES ASSUME NEW x \in Workers PROVE Reliable(refresh[x])'
        BY DEF RefreshInv
    <2> PICK p : p = refresh[x]
        OBVIOUS
    <2>1. refresh'[x] = p /\ RefreshOK(p) /\ Reliable(p)
        BY <1>1 DEF CacheInv, RefreshesOK, RefreshInv
    <2>2. ASSUME p.pc # "idle", p.ok
          PROVE  /\ \A j \in 1 .. (p.i - 1) : Order[j] \in Types => Current(p.u, Order[j])'
                 /\ Sofar(p)'
        <3>1. p.u \in Collectors /\ Order[p.i] \in Types
            BY <2>1, <2>2, RefreshFields
        <3> PICK P : P = Progress(Order[p.i])
            OBVIOUS
        <3>2. Progress(Order[p.i])' = P
            BY <1>1, SameLogSameWorth
        <3>3. Sofar(p)'
            BY <1>7, <1>8, <2>1, <2>2, <3>1, <3>2 DEF Reliable, Sofar
        <3> QED
            BY <1>8, <2>1, <2>2, <3>1, <3>3 DEF Reliable
    <2>3. Reliable(p)'
        BY <1>1, <2>2 DEF Reliable, Types
    <2> QED
        BY <2>1, <2>3
<1>12. ASSUME NEW v \in Collectors, Clean(v)' PROVE Clean(v)
    <2>1. Refreshing(v) = {} /\ v \notin missed
        BY <1>1, <1>12 DEF Clean, Refreshing
    <2>2. CASE v # u
        <3>1. rows'[v] = rows[v]
            BY <1>6, <2>2
        <3> QED
            BY <1>1, <1>12, <2>1, <3>1, DirtySame DEF Clean
    <2>3. CASE v = u
        <3>1. \A t \in Types : \A r \in rows'[u][t] : ~r.dirty
            BY <1>1, <1>12, <2>3 DEF Clean, Dirty, Types, Collectors
        <3>2. (\A r \in rs2 : ~r.dirty) /\ \A t \in Types \ {"dxcc"} : \A x \in rows[u][t] : ~x.dirty
            BY <1>3, <1>6, <3>1
        <3>3. ~Dirty(u)
            BY <1>1, <1>12, <2>3, <3>2 DEF Clean
        <3> QED
            BY <2>1, <2>3, <3>3 DEF Clean
    <2> QED
        BY <2>2, <2>3
<1>13. RowsCurrent'
    <2>1. \A v \in Collectors' : Clean(v)' => \A t \in Types' : Current(v, t)'
        BY <1>1, <1>8, <1>12, CleanIs DEF Types, Collectors, CacheInv
    <2> QED
        BY <2>1 DEF RowsCurrent, Clean
<1> QED
    BY <1>6, <1>9, <1>10, <1>11, <1>13 DEF CacheInv

LEMMA QuietKeepsCache ==
    ASSUME CacheInv, setup \in Setups, UNCHANGED <<setup, qso, rows, refresh, missed>>
    PROVE  CacheInv'
<1>1. Types' = Types /\ Collectors' = Collectors
    BY DEF Types, Collectors
<1>2. RowsOK'
    BY <1>1 DEF CacheInv, RowsOK, IsRow
<1>3. OkIsAlone'
    BY DEF CacheInv, OkIsAlone, Refreshing
<1>4. ASSUME NEW x \in Workers PROVE RefreshOK(refresh[x])' /\ Reliable(refresh[x])'
    <2> PICK p : p = refresh[x]
        OBVIOUS
    <2>1. RefreshOK(p)' /\ Reliable(p)'
        BY RefreshOKSame, ReliableSame DEF CacheInv, RefreshesOK, RefreshInv
    <2> QED
        BY <2>1
<1>5. RefreshesOK' /\ RefreshInv'
    BY <1>4 DEF CacheInv, RefreshesOK, RefreshInv
<1>6. RowsCurrent'
    <2>1. \A v \in Collectors : Clean(v)' => Clean(v)
        BY DirtySame DEF Clean, Refreshing
    <2>2. \A v \in Collectors' : Clean(v)' => \A t \in Types' : Current(v, t)'
        BY <1>1, <2>1, CleanIs, CurrentSame DEF CacheInv
    <2> QED
        BY <2>2 DEF RowsCurrent, Clean
<1> QED
    BY <1>2, <1>3, <1>5, <1>6 DEF CacheInv

-----------------------------------------------------------------------------
(* The steps, as the cache sees them.                                      *)

QuietStep == UNCHANGED <<setup, qso, awardVars>>
LogChange == setup' = setup /\ (Unflagged \/ \E u \in Users : Flagged(u))
WorkStep(w) == UNCHANGED <<setup, qso>> /\ (RefreshStep(w) \/ TypeFails(w) \/ RefreshCrash(w))
BeginStep(w, u) == UNCHANGED <<setup, qso>> /\ RefreshUser(w, u)
MarkStep(u) == /\ HasRows(u) /\ rows' = MarkUserAwardsDirty(u)
               /\ UNCHANGED <<setup, qso, refresh, notes, raced, missed>>

LEMMA AwardSteps ==
    ASSUME ConfInv, Next
    PROVE  \/ QuietStep \/ LogChange
           \/ \E w \in Workers : WorkStep(w)
           \/ \E w \in Workers, u \in Collectors : BeginStep(w, u)
           \/ \E u \in Collectors : MarkStep(u)
           \/ \E u \in Collectors, t \in Types : \E m \in MilestonesFor[t] : Gone(u, t, m)
           \/ \E u \in Collectors, s \in Slots, c \in BOOLEAN :
                  upsertDXCCAwardProgress(u, s.dxcc, c)
<1>0. setup' = setup
    BY ConfRowsMove
<1>1. CASE \E q \in Qsos : \/ \E s \in Slots : CreateQSO(q, s) /\ Unflagged
                           \/ \E s \in Slots : UpdateQSO(q, s) /\ Flagged(OwnerOf[q])
                           \/ DeleteQSO(q) /\ Flagged(OwnerOf[q])
                           \/ loadQSOForConfirmation(q) /\ UNCHANGED awardVars
                           \/ FindMatches(q) /\ UNCHANGED awardVars
                           \/ UpsertOurs(q) /\ UNCHANGED awardVars
                           \/ UpsertTheirs(q) /\ UNCHANGED awardVars
                           \/ MatchFails(q) /\ UNCHANGED awardVars
                           \/ Confirm(q) /\ UNCHANGED awardVars
                           \/ Reject(q) /\ UNCHANGED awardVars
    <2>1. \A q \in Qsos : OwnerOf[q] \in Users
        BY ConfirmationsAssumption
    <2>2. ASSUME NEW q \in Qsos, MatchStep(q) \/ OwnerStep(q)
          PROVE  qso' = qso
        BY <2>2 DEF MatchStep, OwnerStep, loadQSOForConfirmation, FindMatches, UpsertOurs,
                    UpsertTheirs, MatchFails, MatchGoto, Confirm, Reject
    <2> QED
        BY <1>0, <1>1, <2>1, <2>2, Zenon DEF MatchStep, OwnerStep, QuietStep, LogChange
<1>2. CASE \/ \E s \in Services, x \in Slots, b \in BOOLEAN :
                 CardArrives(s, x, b) /\ UNCHANGED awardVars
           \/ EnqueueLoTWConfirmationPull /\ UNCHANGED awardVars
           \/ EnqueueEQSLConfirmationPull /\ UNCHANGED awardVars
           \/ LoTWConfirmationPullWork /\ UNCHANGED awardVars
           \/ EQSLConfirmationPullWork /\ UNCHANGED awardVars
           \/ \E s \in Services : applyConfirmation(s) /\ Unflagged
    <2>1. ASSUME NEW s, PullStep(s) \/ EnqueuePull(s)
          PROVE  qso' = qso
        BY <2>1 DEF PullStep, EnqueuePull, Download, PullFails, MatchCard, ApplyFails,
                    updateLastPull, Unmatched, PullGoto
    <2>2. ASSUME NEW s, NEW x, NEW b, CardArrives(s, x, b)
          PROVE  qso' = qso
        BY <2>2 DEF CardArrives
    <2> QED
        BY <1>0, <1>2, <2>1, <2>2, Zenon
           DEF EnqueueLoTWConfirmationPull, EnqueueEQSLConfirmationPull, LoTWConfirmationPullWork,
               EQSLConfirmationPullWork, QuietStep, LogChange
<1>3. CASE Tick /\ UNCHANGED awardVars
    BY <1>3 DEF Tick, QuietStep
<1>4. CASE \E w \in Workers : \/ RefreshStep(w) /\ UNCHANGED confVars
                              \/ TypeFails(w) \/ RefreshCrash(w)
    BY <1>4 DEF WorkStep, confVars, TypeFails, RefreshCrash, Fault
<1>5. CASE \E w \in Workers, u \in Collectors :
               \/ RefreshRequested(w, u)
               \/ PeriodicRefresh(w, u) /\ UNCHANGED confVars
    BY <1>5 DEF BeginStep, MarkStep, confVars, RefreshRequested, PeriodicRefresh
<1>6. CASE \E u \in Collectors, s \in Slots, c \in BOOLEAN : upsertDXCCAwardProgress(u, s.dxcc, c)
    BY <1>6
<1>7. CASE \E u \in Collectors, t \in Types : \E m \in MilestonesFor[t] :
               DeleteNotification(u, t, m) \/ YearPasses(u, t, m)
    BY <1>7 DEF DeleteNotification, YearPasses
<1> QED
    BY <1>1, <1>2, <1>3, <1>4, <1>5, <1>6, <1>7, Zenon DEF Next

LEMMA CacheInvInit == Init => CacheInv
<1> SUFFICES ASSUME Init PROVE CacheInv
    OBVIOUS
<1>1. setup \in Setups
    BY DEF Init, ConfInit
<1>2. /\ \A u \in Collectors : \A t \in Types : rows[u][t] = {}
      /\ \A w \in Workers : refresh[w] = Idle
      /\ DOMAIN rows = Collectors /\ DOMAIN refresh = Workers
      /\ \A u \in Collectors : DOMAIN rows[u] = Types
    BY DEF Init
<1>3. RowsOK /\ RefreshesOK
    BY <1>2 DEF RowsOK, RefreshesOK, RefreshOK
<1>4. OkIsAlone /\ RefreshInv
    BY <1>2 DEF OkIsAlone, RefreshInv, Reliable, Idle
<1>5. WorkerSees = {}
    BY DEF Init, ConfInit, WorkerSees, Live, NoQso
<1>6. ASSUME NEW t \in OrderSet PROVE Progress(t) = {}
    BY <1>5 DEF Progress, refreshDXCC, refreshWAS, refreshVUCC, refreshWAZ, refreshWPX,
           refreshPOTAHunter, refreshPOTAActivator, refreshSOTAChaser, refreshSOTAActivator,
           ListDXCCEntitiesProgress, ListWorkedStates, ListWorkedGridSquares, ListWorkedZones,
           ListWorkedWPXPrefixes, ListHuntedPOTAParks, ListActivatedPOTAParks,
           ListWorkedSOTASummits, ListActivatedSOTASummits, Keyed, OrderSet
<1>7. ASSUME NEW u \in Collectors, NEW t \in Types PROVE Current(u, t)
    <2>1. Progress(t) = {} /\ rows[u][t] = {}
        BY <1>1, <1>2, <1>6, TypesInOrder
    <2> QED
        BY <2>1 DEF Current, Shows, ByType, ListAwardProgressByType, KeysOf
<1>8. RowsCurrent
    BY <1>7, CleanIs
<1> QED
    BY <1>3, <1>4, <1>8 DEF CacheInv

LEMMA CacheInvNext == ConfInv /\ CacheInv /\ [Next]_vars => CacheInv'
<1>1. ASSUME ConfInv, CacheInv, Next PROVE CacheInv'
    <2>0. setup \in Setups
        BY <1>1 DEF ConfInv, ConfOK
    <2>1. CASE QuietStep
        BY <1>1, <2>0, <2>1, QuietKeepsCache DEF QuietStep, awardVars
    <2>2. CASE LogChange
        BY <1>1, <2>2, UnflaggedKeepsCache, FlaggedKeepsCache DEF LogChange
    <2>3. ASSUME NEW w \in Workers, WorkStep(w) PROVE CacheInv'
        BY <1>1, <2>0, <2>3, DeleteKeepsCache, QueryKeepsCache, UpsertKeepsCache,
           MilestonesKeepCache, LeaveKeepsCache, CrashKeepsCache, Zenon DEF WorkStep, RefreshStep
    <2>4. ASSUME NEW w \in Workers, NEW u \in Collectors, BeginStep(w, u) PROVE CacheInv'
        BY <1>1, <2>0, <2>4, BeginKeepsCache DEF BeginStep
    <2>5. ASSUME NEW u \in Collectors, NEW s \in Slots, NEW c \in BOOLEAN,
                 upsertDXCCAwardProgress(u, s.dxcc, c)
          PROVE  CacheInv'
        BY <1>1, <2>0, <2>5, PollKeepsCache, Zenon
    <2>6. ASSUME NEW u \in Collectors, MarkStep(u) PROVE CacheInv'
        BY <1>1, <2>0, <2>6, MarkKeepsCache DEF MarkStep
    <2>7. ASSUME NEW u, NEW t, NEW m, Gone(u, t, m) PROVE CacheInv'
        BY <1>1, <2>0, <2>7, QuietKeepsCache DEF Gone
    <2> QED
        BY <1>1, <2>1, <2>2, <2>3, <2>4, <2>5, <2>6, <2>7, AwardSteps, Zenon
<1>2. ASSUME ConfInv, CacheInv, UNCHANGED vars PROVE CacheInv'
    BY <1>2, QuietKeepsCache DEF ConfInv, ConfOK, vars, confVars, awardVars
<1> QED
    BY <1>1, <1>2

LEMMA CacheHolds == Spec => []CacheInv
<1>1. ConfInv /\ CacheInv /\ [Next]_vars => CacheInv'
    BY CacheInvNext
<1> QED
    BY <1>1, CacheInvInit, ConfHolds, PTL DEF Spec

\* The user's own QSOs are among those the worker sees, and give no key that
\* these do not.
LEMMA PagesFollow ==
    ASSUME setup \in Setups, NEW u \in Collectors, \A t \in Types : Current(u, t)
    PROVE  PagesAgree(u)
<1>1. \A t \in Types : ByType(u, t) = KeysOf(Progress(t))
    BY DEF Current, Shows
<1>2. Own(u) \subseteq WorkerSees
    BY DEF Own, WorkerSees
<1>3. "dxcc" \in Types
    BY TypesInOrder
<1>a. ASSUME NEW Q, NEW R, Q \subseteq R
      PROVE  /\ KeysOf(ListDXCCEntitiesProgress(Q)) \subseteq KeysOf(ListDXCCEntitiesProgress(R))
             /\ KeysOf(ListWorkedGridSquares(Q)) \subseteq KeysOf(ListWorkedGridSquares(R))
             /\ KeysOf(ListWorkedSOTASummits(Q)) \subseteq KeysOf(ListWorkedSOTASummits(R))
             /\ KeysOf(ListWorkedStates(Q)) \subseteq KeysOf(ListWorkedStates(R))
    <2>1. ASSUME NEW k \in KeysOf(ListDXCCEntitiesProgress(Q)) PROVE k \in KeysOf(ListDXCCEntitiesProgress(R))
        <3>1. PICK g \in ListDXCCEntitiesProgress(Q) : g.key = k
            BY DEF KeysOf
        <3>2. PICK q \in Q : k = qso[q].slot.dxcc /\ k # None
            BY <3>1 DEF ListDXCCEntitiesProgress, Keyed
        <3>3. q \in R
            BY <1>a
        <3>4. PICK h : h = [key |-> k, conf |-> \E x \in R : qso[x].slot.dxcc = k /\ qso[x].rcvd # {}]
            OBVIOUS
        <3>5. k \in {qso[x].slot.dxcc : x \in R} \ {None} /\ h.key = k
            BY <3>2, <3>3, <3>4
        <3>6. h \in ListDXCCEntitiesProgress(R)
            <4>1. ListDXCCEntitiesProgress(R) =
                    {[key |-> j, conf |-> \E x \in R : qso[x].slot.dxcc = j /\ qso[x].rcvd # {}] :
                       j \in {qso[x].slot.dxcc : x \in R} \ {None}}
                BY DEF ListDXCCEntitiesProgress, Keyed
            <4> QED BY <3>4, <3>5, <4>1, Zenon
        <3> QED
            BY <3>5, <3>6 DEF KeysOf
    <2>2. KeysOf(ListWorkedGridSquares(Q)) \subseteq KeysOf(ListWorkedGridSquares(R))
        BY <1>a DEF KeysOf, ListWorkedGridSquares, Keyed
    <2>3. ASSUME NEW k \in KeysOf(ListWorkedSOTASummits(Q)) PROVE k \in KeysOf(ListWorkedSOTASummits(R))
        <3>1. PICK g \in ListWorkedSOTASummits(Q) : g.key = k
            BY DEF KeysOf
        <3>2. PICK q \in Q : k = qso[q].slot.summit /\ k # None
            BY <3>1 DEF ListWorkedSOTASummits, Keyed
        <3>3. q \in R
            BY <1>a
        <3>4. PICK h : h = [key |-> k, conf |-> \E x \in R : qso[x].slot.summit = k /\ qso[x].rcvd # {}]
            OBVIOUS
        <3>5. k \in {qso[x].slot.summit : x \in R} \ {None} /\ h.key = k
            BY <3>2, <3>3, <3>4
        <3>6. h \in ListWorkedSOTASummits(R)
            <4>1. ListWorkedSOTASummits(R) =
                    {[key |-> j, conf |-> \E x \in R : qso[x].slot.summit = j /\ qso[x].rcvd # {}] :
                       j \in {qso[x].slot.summit : x \in R} \ {None}}
                BY DEF ListWorkedSOTASummits, Keyed
            <4> QED BY <3>4, <3>5, <4>1, Zenon
        <3> QED
            BY <3>5, <3>6 DEF KeysOf
    <2>4. KeysOf(ListWorkedStates(Q)) \subseteq KeysOf(ListWorkedStates(R))
        BY <1>a DEF KeysOf, ListWorkedStates, Keyed
    <2> QED
        BY <1>a, <2>1, <2>2, <2>3, <2>4
<1>4. DXCC(u) \subseteq KeysOf(Progress("dxcc"))
    BY <1>2, <1>a DEF DXCC, Progress, refreshDXCC
<1>5. Grids(u) \subseteq KeysOf(Progress("vucc"))
    BY <1>2, <1>a DEF Grids, Progress, refreshVUCC
<1>6. SOTA(u) \subseteq KeysOf(Progress("sota_chaser"))
    BY <1>2, <1>a DEF SOTA, Progress, refreshSOTAChaser
<1>7. WAS(u) \subseteq KeysOf(Progress("was"))
    BY <1>2, <1>a DEF WAS, Progress, refreshWAS
<1>8. "was" \in Types => WAS(u) \cap Needs(u, "was") = {}
    BY <1>1, <1>7 DEF Needs
<1> QED
    BY <1>1, <1>3, <1>4, <1>5, <1>6, <1>8 DEF PagesAgree

\* Award rows that are not dirty tell what the log is worth and miss nothing
\* the live pages show, unless a change was missed: for every log, every
\* number of refreshes at a time, and every failure between two of their
\* statements.
THEOREM CleanRowsCurrent == Spec => []CleanIsCurrent
<1>1. ASSUME ConfInv, CacheInv PROVE CleanIsCurrent
    <2> SUFFICES ASSUME NEW u \in Collectors, Clean(u)
                 PROVE  (\A t \in Types : Current(u, t)) /\ PagesAgree(u)
        BY DEF CleanIsCurrent, Clean, Current, Shows
    <2>1. \A t \in Types : Current(u, t)
        BY <1>1, CleanIs DEF CacheInv
    <2> QED
        BY <1>1, <2>1, PagesFollow DEF ConfInv, ConfOK
<1> QED
    BY <1>1, ConfHolds, CacheHolds, PTL

-----------------------------------------------------------------------------
(* Milestones.                                                             *)

LEMMA LowestIn ==
    ASSUME NEW S \in SUBSET Nat, S # {}
    PROVE  Lowest(S) \in S
<1>1. PICK x \in S : \A y \in S : <<y, x>> \notin OpToRel(<, Nat)
    BY NatLessThanWellFounded, WFMin, Zenon
<1>2. \A y \in S : ~(y < x)
    BY <1>1, Zenon DEF OpToRel
<1>3. \A y \in S : x <= y
    BY <1>2
<1> QED
    BY <1>3 DEF Lowest

LEMMA DueLowest ==
    ASSUME CacheInv, setup \in Setups, NEW w \in Workers, refresh[w].pc \in {"check", "notify"},
           refresh[w].due # {}
    PROVE  Lowest(refresh[w].due) \in MilestonesFor[TypeOf(w)]
<1>1. RefreshOK(refresh[w]) /\ TypeOf(w) \in Types /\ TypeOf(w) = Order[refresh[w].i]
    BY Taken
<1>2. refresh[w].due \subseteq MilestonesFor[TypeOf(w)]
    BY <1>1 DEF RefreshOK, Idle, Steps, Writes
<1>3. MilestonesFor[TypeOf(w)] \subseteq Nat
    BY <1>1, AwardsAssumption DEF Types
<1> QED
    BY <1>2, <1>3, LowestIn

\* What a refresh is about is the same after the step.
Alike(x) ==
    /\ refresh'[x].pc = refresh[x].pc
    /\ refresh[x].pc # "idle" => refresh'[x].u = refresh[x].u /\ refresh'[x].i = refresh[x].i
    /\ refresh[x].pc = "notify" => refresh'[x].due = refresh[x].due

LEMMA NotifiersAre ==
    ASSUME NEW u, NEW t, NEW m
    PROVE  /\ IsFiniteSet(Notifiers(u, t, m)) /\ Cardinality(Notifiers(u, t, m)) \in Nat
           /\ Cardinality(Workers) \in Nat
           /\ Cardinality(Notifiers(u, t, m)) <= Cardinality(Workers)
<1>1. Notifiers(u, t, m) \subseteq Workers
    BY DEF Notifiers
<1> QED
    BY <1>1, WorkersAssumption, FS_Subset, FS_CardinalityType

\* Fewer announcements at hand, and no more of them made.
LEMMA FewerCounted ==
    ASSUME NoteInv, NotesOK', setup' = setup,
           \A u \in Collectors : \A t \in Types : \A m \in MilestonesFor[t] :
               /\ Notifiers(u, t, m)' \subseteq Notifiers(u, t, m)
               /\ notes'[u][t][m] <= notes[u][t][m]
    PROVE  Counted'
<1>1. Types' = Types /\ Collectors' = Collectors
    BY DEF Types, Collectors
<1>2. ASSUME NEW u \in Collectors, NEW t \in Types, NEW m \in MilestonesFor[t]
      PROVE  notes'[u][t][m] + Cardinality(Notifiers(u, t, m)') <= Cardinality(Workers)
    <2> PICK a : a = Cardinality(Notifiers(u, t, m))
        OBVIOUS
    <2> PICK b : b = Cardinality(Notifiers(u, t, m)')
        OBVIOUS
    <2> PICK n : n = Cardinality(Workers)
        OBVIOUS
    <2>1. IsFiniteSet(Notifiers(u, t, m)) /\ a \in Nat /\ n \in Nat
        BY NotifiersAre
    <2>2. b \in Nat /\ b <= a
        BY <2>1, FS_Subset, FS_CardinalityType
    <2>3. notes[u][t][m] \in Nat /\ notes'[u][t][m] \in Nat /\ notes[u][t][m] + a <= n
        BY <1>1 DEF NoteInv, NotesOK, Counted
    <2>4. notes'[u][t][m] + b <= n
        BY <2>1, <2>2, <2>3
    <2> QED
        BY <2>4
<1> QED
    BY <1>1, <1>2 DEF Counted

LEMMA AlikeKeepsNotes ==
    ASSUME NoteInv, setup' = setup, notes' = notes, raced \subseteq raced',
           \A x \in Workers : Alike(x)
    PROVE  NoteInv'
<1>1. Types' = Types /\ Collectors' = Collectors
    BY DEF Types, Collectors
<1>2. NotesOK' /\ OnceAlone'
    BY <1>1 DEF NoteInv, NotesOK, OnceAlone
<1>3. NotRacedIsAlone'
    BY DEF NoteInv, NotRacedIsAlone, Refreshing, Alike
<1>4. NotYetSent'
    BY DEF NoteInv, NotYetSent, Alike, TypeOf
<1>5. \A u \in Collectors : \A t \in Types : \A m \in MilestonesFor[t] :
          /\ Notifiers(u, t, m)' \subseteq Notifiers(u, t, m)
          /\ notes'[u][t][m] <= notes[u][t][m]
    <2>1. \A u \in Collectors : \A t \in Types : \A m \in MilestonesFor[t] : notes[u][t][m] \in Nat
        BY DEF NoteInv, NotesOK
    <2> QED
        BY <2>1 DEF Notifiers, Alike, TypeOf
<1>6. Counted'
    BY <1>2, <1>5, FewerCounted
<1> QED
    BY <1>2, <1>3, <1>4, <1>6 DEF NoteInv

\* A refresh in flight moves.
LEMMA TurnKeepsNotes ==
    ASSUME NoteInv, CacheInv, setup' = setup, NEW w \in Workers, NEW r, NEW u,
           refresh[w].pc # "idle", u = refresh[w].u, refresh' = [refresh EXCEPT ![w] = r],
           r.pc # "idle" => r.u = u, raced' = raced,
           \A v \in Collectors \ {u} : notes'[v] = notes[v],
           r.pc = "notify" /\ u \notin raced => notes'[u][Order[r.i]][Lowest(r.due)] = 0,
           NotesOK', OnceAlone', Counted'
    PROVE  NoteInv'
<1>1. refresh'[w] = r /\ \A x \in Workers \ {w} : refresh'[x] = refresh[x]
    BY DEF CacheInv, RefreshesOK
<1>2. w \in Refreshing(u)
    BY DEF Refreshing
<1>3. NotRacedIsAlone'
    BY <1>1, <1>2 DEF NoteInv, NotRacedIsAlone, Refreshing
<1>4. NotYetSent'
    <2> SUFFICES ASSUME NEW x \in Workers, refresh'[x].pc = "notify", refresh'[x].u \notin raced
                 PROVE  notes'[refresh'[x].u][Order[refresh'[x].i]][Lowest(refresh'[x].due)] = 0
        BY DEF NotYetSent, TypeOf
    <2>1. CASE x = w
        BY <1>1, <2>1
    <2>2. CASE x # w
        <3>1. refresh'[x] = refresh[x]
            BY <1>1, <2>2
        <3>2. refresh[x].u # u
            BY <1>2, <2>2, <3>1 DEF NoteInv, NotRacedIsAlone
        <3>3. refresh[x].u \in Collectors
            BY <3>1, Taken
        <3> QED
            BY <3>1, <3>2, <3>3 DEF NoteInv, NotYetSent, TypeOf
    <2> QED
        BY <2>1, <2>2
<1> QED
    BY <1>3, <1>4 DEF NoteInv

\* A refresh moves, and not to an announcement.
LEMMA PlainTurnKeepsNotes ==
    ASSUME NoteInv, CacheInv, UNCHANGED <<setup, notes, raced>>, NEW w \in Workers, NEW r,
           refresh[w].pc # "idle", refresh' = [refresh EXCEPT ![w] = r],
           r.pc # "idle" => r.u = refresh[w].u, r.pc # "notify"
    PROVE  NoteInv'
<1>1. NotesOK' /\ OnceAlone'
    BY DEF NoteInv, NotesOK, OnceAlone, Types, Collectors
<1>2. \A u \in Collectors : \A t \in Types : \A m \in MilestonesFor[t] :
          /\ Notifiers(u, t, m)' \subseteq Notifiers(u, t, m)
          /\ notes'[u][t][m] <= notes[u][t][m]
    <2>1. \A u \in Collectors : \A t \in Types : \A m \in MilestonesFor[t] : notes[u][t][m] \in Nat
        BY DEF NoteInv, NotesOK
    <2>2. refresh'[w] = r /\ \A x \in Workers \ {w} : refresh'[x] = refresh[x]
        BY DEF CacheInv, RefreshesOK
    <2> QED
        BY <2>1, <2>2 DEF Notifiers, TypeOf
<1>3. Counted'
    BY <1>1, <1>2, FewerCounted
<1> QED
    BY <1>1, <1>3, TurnKeepsNotes

LEMMA AnnounceKeepsNotes ==
    ASSUME NoteInv, CacheInv, setup \in Setups, setup' = setup, NEW w \in Workers,
           CreateWorkerNotification(w)
    PROVE  NoteInv'
<1>a. PICK u : u = refresh[w].u
    OBVIOUS
<1>b. PICK t : t = TypeOf(w)
    OBVIOUS
<1>c. PICK m : m = Lowest(refresh[w].due)
    OBVIOUS
<1>d. PICK r : r = [refresh[w] EXCEPT !.pc = "check", !.due = @ \ {m}]
    OBVIOUS
<1>1. refresh[w].pc = "notify" /\ raced' = raced /\ refresh' = [refresh EXCEPT ![w] = r]
    BY <1>c, <1>d DEF CreateWorkerNotification, At, Put
<1>2. /\ RefreshOK(refresh[w]) /\ u \in Collectors /\ t \in Types /\ t = Order[refresh[w].i]
    BY <1>1, <1>a, <1>b, Taken
<1>3. refresh[w] \in Checks(refresh[w]) /\ refresh[w].due # {}
    BY <1>1, <1>2 DEF RefreshOK, Idle, Steps, Writes
<1>4. m \in MilestonesFor[t]
    BY <1>1, <1>3, <1>b, <1>c, DueLowest
<1>5. r.pc = "check" /\ r.u = u
    BY <1>3, <1>a, <1>d DEF Checks
<1>6. CASE notes' = notes
    BY <1>1, <1>5, <1>6, <1>a, PlainTurnKeepsNotes
<1>7. CASE notes' = [notes EXCEPT ![u][t][m] = @ + 1]
    <2>1. /\ notes[u][t] \in [MilestonesFor[t] -> Nat]
          /\ DOMAIN notes = Collectors /\ DOMAIN notes[u] = Types
        BY <1>2 DEF NoteInv, NotesOK
    <2>a. PICK f : f = [notes[u][t] EXCEPT ![m] = @ + 1]
        OBVIOUS
    <2>2. f \in [MilestonesFor[t] -> Nat] /\ f[m] = notes[u][t][m] + 1
          /\ \A k \in MilestonesFor[t] \ {m} : f[k] = notes[u][t][k]
        BY <1>4, <2>1, <2>a
    <2>3. notes' = [notes EXCEPT ![u] = [notes[u] EXCEPT ![t] = f]]
        BY <1>7, <2>a
    <2>4. /\ \A v \in Collectors \ {u} : notes'[v] = notes[v]
          /\ DOMAIN notes' = Collectors /\ DOMAIN notes'[u] = Types /\ notes'[u][t] = f
          /\ \A x \in Types \ {t} : notes'[u][x] = notes[u][x]
        BY <1>2, <2>1, <2>3
    <2>5. NotesOK'
        <3>1. Types' = Types /\ Collectors' = Collectors
            BY DEF Types, Collectors
        <3> QED
            BY <3>1, <2>2, <2>4 DEF NoteInv, NotesOK
    <2>6. u \notin raced => notes[u][t][m] = 0
        BY <1>1, <1>a, <1>b, <1>c DEF NoteInv, NotYetSent
    <2>7. OnceAlone'
        <3> SUFFICES ASSUME NEW v \in Collectors, v \notin raced, NEW x \in Types,
                            NEW k \in MilestonesFor[x]
                     PROVE  notes'[v][x][k] <= 1
            BY <1>1 DEF OnceAlone, Types, Collectors
        <3>1. notes[v][x][k] <= 1
            BY DEF NoteInv, OnceAlone
        <3>2. CASE v = u /\ x = t /\ k = m
            <4>1. notes'[v][x][k] = notes[u][t][m] + 1
                BY <2>2, <2>4, <3>2
            <4> QED
                BY <2>6, <3>2, <4>1
        <3>3. CASE v = u /\ x = t /\ k # m
            BY <2>2, <2>4, <3>1, <3>3
        <3>4. CASE ~(v = u /\ x = t)
            BY <2>4, <3>1, <3>4
        <3> QED
            BY <3>2, <3>3, <3>4
    <2>8. Counted'
        <3>0. refresh'[w] = r /\ \A x \in Workers \ {w} : refresh'[x] = refresh[x]
            BY <1>1 DEF CacheInv, RefreshesOK
        <3> SUFFICES ASSUME NEW v \in Collectors, NEW x \in Types, NEW k \in MilestonesFor[x]
                     PROVE  notes'[v][x][k] + Cardinality(Notifiers(v, x, k)') <= Cardinality(Workers)
            BY DEF Counted, Types, Collectors
        <3>a. PICK A : A = Notifiers(v, x, k)
            OBVIOUS
        <3>b. PICK B : B = Notifiers(v, x, k)'
            OBVIOUS
        <3>1. B \subseteq A /\ w \notin B
            BY <1>5, <3>0, <3>a, <3>b DEF Notifiers, TypeOf
        <3>2. IsFiniteSet(A) /\ Cardinality(A) \in Nat /\ Cardinality(Workers) \in Nat
            BY <3>a, NotifiersAre
        <3>3. notes[v][x][k] \in Nat /\ notes[v][x][k] + Cardinality(A) <= Cardinality(Workers)
            BY <3>a DEF NoteInv, NotesOK, Counted
        <3>4. CASE v = u /\ x = t /\ k = m
            <4>1. w \in A
                BY <1>1, <1>a, <1>b, <1>c, <3>a, <3>4 DEF Notifiers
            <4>2. IsFiniteSet(A \ {w}) /\ Cardinality(A \ {w}) = Cardinality(A) - 1
                BY <3>2, <4>1, FS_RemoveElement
            <4>3. B \subseteq A \ {w}
                BY <3>1
            <4>4. Cardinality(B) \in Nat /\ Cardinality(B) <= Cardinality(A) - 1
                BY <4>2, <4>3, FS_Subset, FS_CardinalityType
            <4>5. notes'[v][x][k] = notes[v][x][k] + 1
                BY <2>2, <2>4, <3>4
            <4> QED
                BY <3>2, <3>3, <3>b, <4>4, <4>5
        <3>5. CASE ~(v = u /\ x = t /\ k = m)
            <4>1. Cardinality(B) \in Nat /\ Cardinality(B) <= Cardinality(A)
                BY <3>1, <3>2, FS_Subset, FS_CardinalityType
            <4>2. notes'[v][x][k] = notes[v][x][k]
                BY <2>2, <2>4, <3>5
            <4> QED
                BY <3>2, <3>3, <3>b, <4>1, <4>2
        <3> QED
            BY <3>4, <3>5
    <2> QED
        BY <1>1, <1>5, <1>a, <2>4, <2>5, <2>7, <2>8, TurnKeepsNotes
<1> QED
    BY <1>6, <1>7, <1>a, <1>b, <1>c DEF CreateWorkerNotification

\* The check before an announcement finds none.
LEMMA CheckKeepsNotes ==
    ASSUME NoteInv, CacheInv, setup \in Setups, setup' = setup, NEW w \in Workers, CheckSent(w)
    PROVE  NoteInv'
<1>a. PICK m : m = Lowest(refresh[w].due)
    OBVIOUS
<1>1. refresh[w].pc = "check" /\ refresh[w].due # {} /\ UNCHANGED <<notes, raced>>
    BY DEF CheckSent, At
<1>2. /\ RefreshOK(refresh[w]) /\ refresh[w].u \in Collectors
      /\ TypeOf(w) \in Types /\ TypeOf(w) = Order[refresh[w].i]
    BY <1>1, Taken
<1>3. refresh[w] \in Checks(refresh[w])
    BY <1>1, <1>2 DEF RefreshOK, Idle, Steps, Writes
<1>4. m \in MilestonesFor[TypeOf(w)]
    BY <1>1, <1>a, DueLowest
<1>5. CASE AlreadySent(refresh[w].u, TypeOf(w), m)
    <2>a. PICK r : r = [refresh[w] EXCEPT !.due = @ \ {m}]
        OBVIOUS
    <2>1. refresh' = [refresh EXCEPT ![w] = r]
        BY <1>5, <1>a, <2>a DEF CheckSent, Put
    <2>2. r.pc = "check" /\ r.u = refresh[w].u
        BY <1>1, <1>3, <2>a DEF Checks
    <2> QED
        BY <1>1, <2>1, <2>2, PlainTurnKeepsNotes
<1>6. CASE ~AlreadySent(refresh[w].u, TypeOf(w), m)
    <2>a. PICK r : r = [refresh[w] EXCEPT !.pc = "notify"]
        OBVIOUS
    <2>1. refresh' = [refresh EXCEPT ![w] = r]
        BY <1>6, <1>a, <2>a DEF CheckSent, Put
    <2>2. r.pc = "notify" /\ r.u = refresh[w].u /\ r.i = refresh[w].i /\ r.due = refresh[w].due
        BY <1>3, <2>a DEF Checks
    <2>3. notes[refresh[w].u][TypeOf(w)][m] \in Nat
        BY <1>2, <1>4 DEF NoteInv, NotesOK
    <2>4. notes[refresh[w].u][TypeOf(w)][m] = 0
        BY <1>6, <2>3 DEF AlreadySent
    <2>5. NotesOK' /\ OnceAlone'
        BY <1>1 DEF NoteInv, NotesOK, OnceAlone, Types, Collectors
    <2>6. Counted'
        <3>0. refresh'[w] = r /\ \A x \in Workers \ {w} : refresh'[x] = refresh[x]
            BY <2>1 DEF CacheInv, RefreshesOK
        <3> SUFFICES ASSUME NEW v \in Collectors, NEW x \in Types, NEW k \in MilestonesFor[x]
                     PROVE  notes[v][x][k] + Cardinality(Notifiers(v, x, k)') <= Cardinality(Workers)
            BY <1>1 DEF Counted, Types, Collectors
        <3>a. PICK A : A = Notifiers(v, x, k)
            OBVIOUS
        <3>b. PICK B : B = Notifiers(v, x, k)'
            OBVIOUS
        <3>1. IsFiniteSet(A) /\ Cardinality(A) \in Nat /\ Cardinality(Workers) \in Nat
            BY <3>a, NotifiersAre
        <3>2. notes[v][x][k] \in Nat /\ notes[v][x][k] + Cardinality(A) <= Cardinality(Workers)
            BY <3>a DEF NoteInv, NotesOK, Counted
        <3>3. CASE v = refresh[w].u /\ x = TypeOf(w) /\ k = m
            <4>1. notes[v][x][k] = 0
                BY <2>4, <3>3
            <4>2. B \subseteq Workers
                BY <3>b DEF Notifiers
            <4>3. Cardinality(B) \in Nat /\ Cardinality(B) <= Cardinality(Workers)
                BY <4>2, WorkersAssumption, FS_Subset, FS_CardinalityType
            <4> QED
                BY <3>1, <3>b, <4>1, <4>3
        <3>4. CASE ~(v = refresh[w].u /\ x = TypeOf(w) /\ k = m)
            <4>1. B \subseteq A
                BY <1>a, <2>2, <3>0, <3>4, <3>a, <3>b DEF Notifiers, TypeOf
            <4>2. Cardinality(B) \in Nat /\ Cardinality(B) <= Cardinality(A)
                BY <3>1, <4>1, FS_Subset, FS_CardinalityType
            <4> QED
                BY <3>1, <3>2, <3>b, <4>2
        <3> QED
            BY <3>3, <3>4
    <2> QED
        BY <1>1, <1>2, <1>a, <2>1, <2>2, <2>4, <2>5, <2>6, TurnKeepsNotes
<1> QED
    BY <1>5, <1>6

LEMMA OnwardTurns ==
    ASSUME NEW w \in Workers, NEW ok, Onward(w, ok)
    PROVE  \E r : /\ refresh' = [refresh EXCEPT ![w] = r] /\ r.pc \in {"delete", "idle"}
                  /\ r.pc # "idle" => r.u = refresh[w].u
<1>a. PICK i : i = NextType(refresh[w].i + 1)
    OBVIOUS
<1>1. CASE i # 10
    <2>a. PICK r : r = [pc |-> "delete", u |-> refresh[w].u, i |-> i, ok |-> (refresh[w].ok /\ ok)]
        OBVIOUS
    <2>1. refresh' = [refresh EXCEPT ![w] = r]
        BY <1>1, <1>a, <2>a DEF Onward, Put
    <2>2. r.pc = "delete" /\ r.u = refresh[w].u
        BY <2>a
    <2> QED
        BY <2>1, <2>2
<1>2. CASE i = 10
    <2>1. refresh' = [refresh EXCEPT ![w] = Idle] /\ Idle.pc = "idle"
        BY <1>2, <1>a DEF Onward, Put, Idle
    <2> QED
        BY <2>1
<1> QED
    BY <1>1, <1>2

LEMMA WorkKeepsNotes ==
    ASSUME NoteInv, CacheInv, setup \in Setups, NEW w \in Workers, WorkStep(w)
    PROVE  NoteInv'
<1>0. setup' = setup
    BY DEF WorkStep
<1>1. ASSUME UNCHANGED <<notes, raced>>, refresh[w].pc # "idle",
             NEW r, refresh' = [refresh EXCEPT ![w] = r],
             r.pc # "idle" => r.u = refresh[w].u, r.pc # "notify"
      PROVE  NoteInv'
    BY <1>0, <1>1, PlainTurnKeepsNotes
<1>2. CASE DeleteAwardProgressByType(w)
    <2>a. PICK r : r = [refresh[w] EXCEPT !.pc = "select"]
        OBVIOUS
    <2>1. refresh[w].pc = "delete" /\ UNCHANGED <<notes, raced>> /\ refresh' = [refresh EXCEPT ![w] = r]
        BY <1>2, <2>a DEF DeleteAwardProgressByType, At, Put
    <2>2. refresh[w] \in Steps(refresh[w])
        BY <2>1 DEF CacheInv, RefreshesOK, RefreshOK, Idle, Writes, Checks
    <2>3. r.pc = "select" /\ r.u = refresh[w].u
        BY <2>2, <2>a DEF Steps
    <2> QED
        BY <1>1, <2>1, <2>3
<1>3. CASE QueryProgress(w)
    <2>a. PICK P : P = Progress(TypeOf(w))
        OBVIOUS
    <2>b. PICK r : r = [pc |-> "upsert", u |-> refresh[w].u, i |-> refresh[w].i,
                        ok |-> refresh[w].ok, todo |-> P, n |-> Cardinality(P)]
        OBVIOUS
    <2>1. refresh[w].pc = "select" /\ UNCHANGED <<notes, raced>> /\ refresh' = [refresh EXCEPT ![w] = r]
        BY <1>3, <2>a, <2>b DEF QueryProgress, At, Put
    <2>2. r.pc = "upsert" /\ r.u = refresh[w].u
        BY <2>b
    <2> QED
        BY <1>1, <2>1, <2>2
<1>4. CASE UpsertRow(w)
    <2>1. PICK g \in refresh[w].todo : Put(w, [refresh[w] EXCEPT !.todo = @ \ {g}])
        BY <1>4 DEF UpsertRow
    <2>a. PICK r : r = [refresh[w] EXCEPT !.todo = @ \ {g}]
        OBVIOUS
    <2>2. refresh[w].pc = "upsert" /\ UNCHANGED <<notes, raced>> /\ refresh' = [refresh EXCEPT ![w] = r]
        BY <1>4, <2>1, <2>a DEF UpsertRow, At, Put
    <2>3. refresh[w] \in Writes(refresh[w])
        BY <2>2 DEF CacheInv, RefreshesOK, RefreshOK, Idle, Steps, Checks
    <2>4. r.pc = "upsert" /\ r.u = refresh[w].u
        BY <2>3, <2>a DEF Writes
    <2> QED
        BY <1>1, <2>2, <2>4
<1>5. CASE checkMilestones(w)
    <2>a. PICK r : r = [pc |-> "check", u |-> refresh[w].u, i |-> refresh[w].i, ok |-> refresh[w].ok,
                        due |-> {m \in MilestonesFor[TypeOf(w)] : m <= refresh[w].n}]
        OBVIOUS
    <2>1. refresh[w].pc = "upsert" /\ UNCHANGED <<notes, raced>> /\ refresh' = [refresh EXCEPT ![w] = r]
        BY <1>5, <2>a DEF checkMilestones, At, Put
    <2>2. r.pc = "check" /\ r.u = refresh[w].u
        BY <2>a
    <2> QED
        BY <1>1, <2>1, <2>2
<1>6. CASE CheckSent(w) \/ CreateWorkerNotification(w)
    BY <1>0, <1>6, CheckKeepsNotes, AnnounceKeepsNotes
<1>7. CASE TypeDone(w) \/ TypeFails(w)
    <2>1. refresh[w].pc # "idle" /\ UNCHANGED <<notes, raced>>
        BY <1>7 DEF TypeDone, TypeFails, At
    <2>2. PICK ok : Onward(w, ok)
        BY <1>7, Zenon DEF TypeDone, TypeFails
    <2>3. PICK r : /\ refresh' = [refresh EXCEPT ![w] = r] /\ r.pc \in {"delete", "idle"}
                   /\ r.pc # "idle" => r.u = refresh[w].u
        BY <2>2, OnwardTurns
    <2> QED
        BY <1>1, <2>1, <2>3
<1>8. CASE RefreshCrash(w)
    <2>a. PICK u : u = refresh[w].u
        OBVIOUS
    <2>b. PICK ok : ok = (Refreshing(u) = {w})
        OBVIOUS
    <2>1. refresh[w].pc # "idle" /\ UNCHANGED <<notes, raced>>
          /\ (Put(w, Idle) \/ Put(w, Start(u, ok)))
        BY <1>8, <2>a, <2>b DEF RefreshCrash
    <2>2. PICK r \in {Idle, Start(u, ok)} : refresh' = [refresh EXCEPT ![w] = r]
        BY <2>1 DEF Put
    <2>3. r.pc \in {"idle", "delete"} /\ (r.pc # "idle" => r.u = refresh[w].u)
        BY <2>2, <2>a DEF Idle, Start
    <2> QED
        BY <1>1, <2>1, <2>2, <2>3
<1> QED
    BY <1>2, <1>3, <1>4, <1>5, <1>6, <1>7, <1>8 DEF WorkStep, RefreshStep

\* The flag that a refresh is no longer relied upon changes nothing else.
LEMMA SpoilAlike ==
    ASSUME CacheInv, NEW x \in Workers, refresh[x].pc # "idle",
           refresh'[x] = [refresh[x] EXCEPT !.ok = FALSE]
    PROVE  Alike(x)
<1>1. RefreshOK(refresh[x])
    BY DEF CacheInv, RefreshesOK
<1>2. CASE refresh[x] \in Steps(refresh[x])
    BY <1>2 DEF Alike, Steps
<1>3. CASE refresh[x] \in Writes(refresh[x])
    BY <1>3 DEF Alike, Writes
<1>4. CASE refresh[x] \in Checks(refresh[x])
    BY <1>4 DEF Alike, Checks
<1> QED
    BY <1>1, <1>2, <1>3, <1>4 DEF RefreshOK, Idle

LEMMA LogKeepsNotes ==
    ASSUME NoteInv, CacheInv, LogChange
    PROVE  NoteInv'
<1>1. refresh' = Spoiled /\ UNCHANGED <<setup, notes, raced>>
    BY DEF LogChange, Unflagged, Flagged
<1>2. ASSUME NEW x \in Workers PROVE Alike(x)
    <2>1. CASE refresh[x].pc = "idle"
        BY <1>1, <2>1 DEF Spoiled, Alike, Idle
    <2>2. CASE refresh[x].pc # "idle"
        BY <1>1, <2>2, SpoilAlike DEF Spoiled
    <2> QED
        BY <2>1, <2>2
<1> QED
    BY <1>1, <1>2, AlikeKeepsNotes

\* A second refresh of a user marks the user as raced.
LEMMA BeginKeepsNotes ==
    ASSUME NoteInv, CacheInv, setup \in Setups, NEW w \in Workers, NEW u \in Collectors,
           BeginStep(w, u)
    PROVE  NoteInv'
<1>a. PICK ok : ok = (Refreshing(u) = {})
    OBVIOUS
<1>b. PICK r : r = Start(u, ok)
    OBVIOUS
<1>1. /\ UNCHANGED <<setup, notes>> /\ refresh[w].pc = "idle" /\ refresh'[w] = r
      /\ raced' = IF Refreshing(u) = {} THEN raced ELSE raced \union {u}
      /\ \A x \in Workers \ {w} : refresh'[x] = IF x \in Refreshing(u)
                                               THEN [refresh[x] EXCEPT !.ok = FALSE]
                                               ELSE refresh[x]
    BY <1>a, <1>b DEF BeginStep, RefreshUser
<1>2. r.pc = "delete" /\ r.u = u
    BY <1>b DEF Start
<1>3. ASSUME NEW x \in Workers \ {w} PROVE Alike(x)
    <2>1. CASE x \in Refreshing(u)
        BY <1>1, <2>1, SpoilAlike DEF Refreshing
    <2>2. CASE x \notin Refreshing(u)
        BY <1>1, <2>2 DEF Alike
    <2> QED
        BY <2>1, <2>2
<1>4. NotesOK' /\ OnceAlone'
    BY <1>1 DEF NoteInv, NotesOK, OnceAlone, Types, Collectors
<1>5. NotYetSent'
    BY <1>1, <1>2, <1>3 DEF NoteInv, NotYetSent, Alike, TypeOf
<1>6. NotRacedIsAlone'
    <2> SUFFICES ASSUME NEW a \in Workers, NEW x \in Workers, refresh'[a].pc # "idle",
                        refresh'[a].u \notin raced', refresh'[x].pc # "idle",
                        refresh'[x].u = refresh'[a].u
                 PROVE  x = a
        BY DEF NotRacedIsAlone, Refreshing
    <2>1. CASE a # w /\ x # w
        BY <1>1, <1>3, <2>1 DEF NoteInv, NotRacedIsAlone, Refreshing, Alike
    <2>2. CASE a = w /\ x # w
        <3>1. x \in Refreshing(u)
            BY <1>1, <1>2, <1>3, <2>2 DEF Alike, Refreshing
        <3> QED
            BY <1>1, <1>2, <2>2, <3>1
    <2>3. CASE a # w /\ x = w
        <3>1. a \in Refreshing(u)
            BY <1>1, <1>2, <1>3, <2>3 DEF Alike, Refreshing
        <3> QED
            BY <1>1, <1>2, <2>3, <3>1
    <2> QED
        BY <2>1, <2>2, <2>3
<1>7. \A v \in Collectors : \A t \in Types : \A m \in MilestonesFor[t] :
          /\ Notifiers(v, t, m)' \subseteq Notifiers(v, t, m)
          /\ notes'[v][t][m] <= notes[v][t][m]
    <2>1. \A v \in Collectors : \A t \in Types : \A m \in MilestonesFor[t] : notes[v][t][m] \in Nat
        BY DEF NoteInv, NotesOK
    <2> QED
        BY <1>1, <1>2, <1>3, <2>1 DEF Notifiers, Alike, TypeOf
<1>8. Counted'
    BY <1>1, <1>4, <1>7, FewerCounted
<1> QED
    BY <1>4, <1>5, <1>6, <1>8 DEF NoteInv

\* A notification that is gone was one more than there are.
LEMMA GoneKeepsNotes ==
    ASSUME NoteInv, CacheInv, setup \in Setups, NEW u \in Collectors, NEW t \in Types,
           NEW m \in MilestonesFor[t], Gone(u, t, m)
    PROVE  NoteInv'
<1>1. Types' = Types /\ Collectors' = Collectors /\ setup' = setup
    BY DEF Types, Collectors, Gone
<1>2. /\ notes[u][t] \in [MilestonesFor[t] -> Nat] /\ notes[u][t][m] > 0
      /\ DOMAIN notes = Collectors /\ DOMAIN notes[u] = Types
      /\ UNCHANGED <<refresh, raced>>
    BY DEF NoteInv, NotesOK, Gone
<1>a. PICK f : f = [notes[u][t] EXCEPT ![m] = @ - 1]
    OBVIOUS
<1>3. f \in [MilestonesFor[t] -> Nat] /\ f[m] = notes[u][t][m] - 1
      /\ \A k \in MilestonesFor[t] \ {m} : f[k] = notes[u][t][k]
    BY <1>2, <1>a
<1>4. notes' = [notes EXCEPT ![u] = [notes[u] EXCEPT ![t] = f]]
    BY <1>a DEF Gone
<1>5. /\ \A v \in Collectors \ {u} : notes'[v] = notes[v]
      /\ DOMAIN notes' = Collectors /\ DOMAIN notes'[u] = Types /\ notes'[u][t] = f
      /\ \A x \in Types \ {t} : notes'[u][x] = notes[u][x]
    BY <1>2, <1>4
<1>6. NotesOK'
    BY <1>1, <1>3, <1>5 DEF NoteInv, NotesOK
<1>7. ASSUME NEW v \in Collectors, NEW x \in Types, NEW k \in MilestonesFor[x]
      PROVE  notes'[v][x][k] \in Nat /\ notes[v][x][k] \in Nat /\ notes'[v][x][k] <= notes[v][x][k]
    BY <1>2, <1>3, <1>5 DEF NoteInv, NotesOK
<1>8. OnceAlone'
    <2> SUFFICES ASSUME NEW v \in Collectors, v \notin raced, NEW x \in Types,
                        NEW k \in MilestonesFor[x]
                 PROVE  notes'[v][x][k] <= 1
        BY <1>1, <1>2 DEF OnceAlone
    <2>1. notes[v][x][k] <= 1
        BY DEF NoteInv, OnceAlone
    <2> QED
        BY <1>7, <2>1
<1>9. NotRacedIsAlone'
    BY <1>2 DEF NoteInv, NotRacedIsAlone, Refreshing
<1>10. Counted'
    <2>1. \A v, x, k : Notifiers(v, x, k)' = Notifiers(v, x, k)
        BY <1>2 DEF Notifiers, TypeOf
    <2> QED
        BY <1>1, <1>6, <1>7, <2>1, FewerCounted
<1>11. NotYetSent'
    <2> SUFFICES ASSUME NEW w \in Workers, refresh[w].pc = "notify", refresh[w].u \notin raced
                 PROVE  notes'[refresh[w].u][TypeOf(w)][Lowest(refresh[w].due)] = 0
        BY <1>2 DEF NotYetSent, TypeOf
    <2>1. refresh[w].u \in Collectors /\ TypeOf(w) \in Types /\ RefreshOK(refresh[w])
        BY Taken
    <2>2. refresh[w].due # {}
        BY <2>1 DEF RefreshOK, Idle, Steps, Writes
    <2>3. Lowest(refresh[w].due) \in MilestonesFor[TypeOf(w)]
        BY <2>2, DueLowest
    <2>4. notes[refresh[w].u][TypeOf(w)][Lowest(refresh[w].due)] = 0
        BY DEF NoteInv, NotYetSent
    <2> QED
        BY <1>7, <2>1, <2>3, <2>4
<1> QED
    BY <1>6, <1>8, <1>9, <1>10, <1>11 DEF NoteInv

LEMMA NoteInvInit == Init => NoteInv
<1> SUFFICES ASSUME Init PROVE NoteInv
    OBVIOUS
<1>1. NotesOK /\ NotRacedIsAlone /\ NotYetSent /\ OnceAlone
    BY DEF Init, NotesOK, NotRacedIsAlone, NotYetSent, OnceAlone, Idle, Refreshing
<1>2. \A u \in Collectors : \A t \in Types : \A m \in MilestonesFor[t] : notes[u][t][m] = 0
    BY DEF Init
<1>3. Counted
    BY <1>2, NotifiersAre DEF Counted
<1> QED
    BY <1>1, <1>3 DEF NoteInv

LEMMA NoteInvNext == ConfInv /\ CacheInv /\ NoteInv /\ [Next]_vars => NoteInv'
<1>0. ASSUME UNCHANGED <<setup, refresh, notes, raced>>, NoteInv PROVE NoteInv'
    BY <1>0, AlikeKeepsNotes DEF Alike
<1>1. ASSUME ConfInv, CacheInv, NoteInv, Next PROVE NoteInv'
    <2>0. setup \in Setups
        BY <1>1 DEF ConfInv, ConfOK
    <2>1. CASE QuietStep
        BY <1>0, <1>1, <2>1 DEF QuietStep, awardVars
    <2>2. CASE \E u \in Collectors, s \in Slots, c \in BOOLEAN :
                   upsertDXCCAwardProgress(u, s.dxcc, c)
        <3>1. UNCHANGED <<setup, refresh, notes, raced>>
            <4>1. PICK u \in Collectors, s \in Slots, c \in BOOLEAN :
                      upsertDXCCAwardProgress(u, s.dxcc, c)
                BY <2>2
            <4> QED
                BY <4>1, DXCCStays
        <3> QED
            BY <1>0, <1>1, <3>1
    <2>3. ASSUME NEW u \in Collectors, MarkStep(u) PROVE NoteInv'
        BY <1>0, <1>1, <2>3 DEF MarkStep
    <2> QED
        BY <1>1, <2>0, <2>1, <2>2, <2>3, LogKeepsNotes, WorkKeepsNotes, BeginKeepsNotes,
           GoneKeepsNotes, AwardSteps, Zenon
<1>2. ASSUME NoteInv, UNCHANGED vars PROVE NoteInv'
    BY <1>0, <1>2 DEF vars, confVars, awardVars
<1> QED
    BY <1>1, <1>2

\* A milestone is announced once to a user none of whose refreshes overlap,
\* until its notification is deleted or a year old, whatever crashes and
\* starts again between the check and the announcement; refreshes that
\* overlap announce it once each at most.
THEOREM MilestonesOnce == Spec => []MilestoneOnce
<1>1. ASSUME NoteInv PROVE MilestoneOnce
    <2> SUFFICES ASSUME NEW u \in Collectors, NEW t \in Types, NEW m \in MilestonesFor[t]
                 PROVE  /\ notes[u][t][m] <= Cardinality(Workers)
                        /\ u \notin raced => notes[u][t][m] <= 1
        BY DEF MilestoneOnce
    <2>1. notes[u][t][m] \in Nat /\ notes[u][t][m] + Cardinality(Notifiers(u, t, m)) <= Cardinality(Workers)
        BY <1>1 DEF NoteInv, NotesOK, Counted
    <2>2. u \notin raced => notes[u][t][m] <= 1
        BY <1>1 DEF NoteInv, OnceAlone
    <2> QED
        BY <2>1, <2>2, NotifiersAre
<1>2. ConfInv /\ CacheInv /\ NoteInv /\ [Next]_vars => NoteInv'
    BY NoteInvNext
<1> QED
    BY <1>1, <1>2, NoteInvInit, ConfHolds, CacheHolds, PTL DEF Spec
=============================================================================
