------------------------------- MODULE Awards -------------------------------
(***************************************************************************)
(* Award progress: award_progress caches what the log is worth.  An edit   *)
(* or a deletion flags the owner's rows dirty, the periodic job refreshes  *)
(* the users with dirty rows, and POST /v1/awards/refresh refreshes one.   *)
(* A refresh goes through the award types; of each it deletes the rows,    *)
(* queries the log and writes the rows again, all in autocommit, and sends *)
(* a notification for each milestone it reaches.                           *)
(***************************************************************************)
EXTENDS Confirmations

CONSTANTS
    Workers,        \* refreshes that can run at a time
    MilestonesFor,  \* worked counts that are announced, for each type
    USStates,       \* states NormalizeUSState knows
    WPXPrefix       \* prefix of a callsign

\* The types in the order a refresh takes them.
Order == <<"dxcc", "was", "vucc", "waz", "wpx", "pota_hunter",
           "pota_activator", "sota_chaser", "sota_activator">>

ASSUME AwardsAssumption ==
    \A s \in Setups :
        /\ "dxcc" \in s.types /\ s.types \subseteq {Order[i] : i \in 1 .. 9}
        /\ \A t \in s.types : MilestonesFor[t] \subseteq Nat
ASSUME WorkersAssumption == IsFiniteSet(Workers)

VARIABLES
    rows,       \* award_progress rows of each user and type
    refresh,    \* the refreshes in flight
    notes,      \* award_milestone notifications of the last 365 days
                \* that are there: how many of each
    raced,      \* history: users two of whose refreshes overlapped
    missed      \* history: users whose dirty flags may not tell that the
                \* log has changed

Collectors == setup.collectors
Types == setup.types

awardVars == <<rows, refresh, notes, raced, missed>>
vars == <<confVars, awardVars>>

Init ==
    /\ ConfInit
    /\ rows = [u \in Collectors |-> [t \in Types |-> {}]]
    /\ refresh = [w \in Workers |-> Idle]
    /\ notes = [u \in Collectors |-> [t \in Types |-> [m \in MilestonesFor[t] |-> 0]]]
    /\ raced = {}
    /\ missed = {}

---------------------------------------------------------------------------
(* What the log is worth: the queries, over the QSOs the caller sees.      *)

\* The keys a field gives, with whether a card for one of the QSOs is there.
\* TRUE only where the query or the refresh looks at the cards.
Keyed(Q, Key(_), counts) ==
    {[key |-> k, conf |-> counts /\ \E q \in Q : Key(qso[q].slot) = k
                                                   /\ qso[q].rcvd # {}]
       : k \in {Key(qso[q].slot) : q \in Q} \ {None}}

ListDXCCEntitiesProgress(Q) == LET K(s) == s.dxcc IN Keyed(Q, K, TRUE)
ListWorkedStates(Q) ==
    LET K(s) == IF s.state \in USStates THEN s.state ELSE None
    IN  Keyed(Q, K, FALSE)
ListWorkedGridSquares(Q) == LET K(s) == s.grid IN Keyed(Q, K, FALSE)
ListWorkedZones(Q) ==
    LET K(s) == IF s.zone \in 1 .. 40 THEN s.zone ELSE None IN Keyed(Q, K, TRUE)
ListWorkedWPXPrefixes(Q) == LET K(s) == WPXPrefix[s.call] IN Keyed(Q, K, TRUE)
ListHuntedPOTAParks(Q) == LET K(s) == s.park IN Keyed(Q, K, TRUE)
ListActivatedPOTAParks(Q) == LET K(s) == s.my_park IN Keyed(Q, K, FALSE)
ListWorkedSOTASummits(Q) == LET K(s) == s.summit IN Keyed(Q, K, TRUE)
ListActivatedSOTASummits(Q) == LET K(s) == s.my_summit IN Keyed(Q, K, FALSE)

\* The worker's queries run as radioledger_worker, whose policies let it
\* read every logbook; none of them filters by user.
WorkerSees == Live
refreshDXCC == ListDXCCEntitiesProgress(WorkerSees)
refreshWAS == ListWorkedStates(WorkerSees)
refreshVUCC == ListWorkedGridSquares(WorkerSees)
refreshWAZ == ListWorkedZones(WorkerSees)
refreshWPX == ListWorkedWPXPrefixes(WorkerSees)
refreshPOTAHunter == ListHuntedPOTAParks(WorkerSees)
refreshPOTAActivator == ListActivatedPOTAParks(WorkerSees)
refreshSOTAChaser == ListWorkedSOTASummits(WorkerSees)
refreshSOTAActivator == ListActivatedSOTASummits(WorkerSees)
Progress(t) ==
    CASE t = "dxcc"           -> refreshDXCC
      [] t = "was"            -> refreshWAS
      [] t = "vucc"           -> refreshVUCC
      [] t = "waz"            -> refreshWAZ
      [] t = "wpx"            -> refreshWPX
      [] t = "pota_hunter"    -> refreshPOTAHunter
      [] t = "pota_activator" -> refreshPOTAActivator
      [] t = "sota_chaser"    -> refreshSOTAChaser
      [] t = "sota_activator" -> refreshSOTAActivator

---------------------------------------------------------------------------
(* The dirty flag. *)

Dirty(u) == u \in Collectors /\ \E t \in Types : \E r \in rows[u][t] : r.dirty
HasRows(u) == u \in Collectors /\ \E t \in Types : rows[u][t] # {}
Refreshing(u) == {w \in Workers : refresh[w].pc # "idle" /\ refresh[w].u = u}

MarkUserAwardsDirty(u) ==
    [rows EXCEPT ![u] = [t \in Types |->
        {[r EXCEPT !.dirty = TRUE] : r \in rows[u][t]}]]

\* The refreshes in flight may have read the log before it changed.
Spoiled == [w \in Workers |->
              IF refresh[w].pc = "idle" THEN Idle
                                        ELSE [refresh[w] EXCEPT !.ok = FALSE]]

\* A change of the log that flags nothing.
Unflagged ==
    /\ missed' = Collectors /\ refresh' = Spoiled
    /\ UNCHANGED <<rows, notes, raced>>
\* A change by u, which flags u's rows: those that are there.
Flagged(u) ==
    /\ rows' = IF u \in Collectors THEN MarkUserAwardsDirty(u) ELSE rows
    /\ missed' = missed \cup (Collectors \ {u})
                   \cup (IF HasRows(u) /\ Refreshing(u) = {} THEN {}
                         ELSE Collectors \cap {u})
    /\ refresh' = Spoiled
    /\ UNCHANGED <<notes, raced>>

---------------------------------------------------------------------------
(* A refresh. *)

\* The types of a refresh from the i-th on, in order.
NextType(i) == IF \E j \in i .. 9 : Order[j] \in Types
               THEN CHOOSE j \in i .. 9 : Order[j] \in Types
                        /\ \A k \in i .. 9 : Order[k] \in Types => j <= k
               ELSE 10

Start(u, ok) == [pc |-> "delete", u |-> u, i |-> NextType(1), ok |-> ok]
Put(w, r) == refresh' = [refresh EXCEPT ![w] = r]
At(w, pc) == refresh[w].pc = pc
TypeOf(w) == Order[refresh[w].i]

\* On to the next type; ok tells whether all of them were written.
Onward(w, ok) ==
    LET r == refresh[w]
        i == NextType(r.i + 1)
        good == r.ok /\ ok
    IN  IF i # 10
        THEN /\ Put(w, [pc |-> "delete", u |-> r.u, i |-> i, ok |-> good])
             /\ missed' = missed
        ELSE /\ Put(w, Idle)
             /\ missed' = IF good THEN missed \ {r.u} ELSE missed \cup {r.u}

\* Of two refreshes of a user that overlap neither can be relied upon: one
\* deletes what the other has written.
RefreshUser(w, u) ==
    /\ refresh[w].pc = "idle"
    /\ refresh' = [x \in Workers |->
                     CASE x = w -> Start(u, Refreshing(u) = {})
                       [] x # w /\ x \in Refreshing(u) ->
                            [refresh[x] EXCEPT !.ok = FALSE]
                       [] OTHER -> refresh[x]]
    /\ raced' = IF Refreshing(u) = {} THEN raced ELSE raced \cup {u}
    /\ UNCHANGED <<rows, notes, missed>>

\* POST /v1/awards/refresh enqueues a job for the user, or flags the rows
\* that are there in a server without a job queue.
RefreshRequested(w, u) ==
    /\ Request
    /\ \/ RefreshUser(w, u)
       \/ /\ HasRows(u) /\ rows' = MarkUserAwardsDirty(u)
          /\ UNCHANGED <<refresh, notes, raced, missed>>
    /\ UNCHANGED <<setup, qso, said, conf, verified, match, now, cards, lastPull, pull,
                   applied, excused>>
\* The periodic job looks for users with dirty rows.
PeriodicRefresh(w, u) == Dirty(u) /\ RefreshUser(w, u)

\* Mutant: stale rows are not deleted first.
DeleteAwardProgressByTypeSkipped(w) ==
    /\ At(w, "delete")
    /\ Put(w, [refresh[w] EXCEPT !.pc = "select"])
    /\ UNCHANGED <<rows, notes, raced, missed>>

DeleteAwardProgressByType(w) ==
    LET r == refresh[w]
    IN  /\ At(w, "delete")
        /\ rows' = [rows EXCEPT ![r.u][TypeOf(w)] = {}]
        /\ Put(w, [r EXCEPT !.pc = "select"])
        /\ UNCHANGED <<notes, raced, missed>>

QueryProgress(w) ==
    LET r == refresh[w]
        got == Progress(TypeOf(w))
    IN  /\ At(w, "select")
        /\ Put(w, [pc |-> "upsert", u |-> r.u, i |-> r.i, ok |-> r.ok,
                   todo |-> got, n |-> Cardinality(got)])
        /\ UNCHANGED <<rows, notes, raced, missed>>

UpsertAwardProgress(rs, g) ==
    {x \in rs : x.key # g.key}
      \cup {[key |-> g.key, worked |-> TRUE, conf |-> g.conf, dirty |-> FALSE]}

UpsertRow(w) ==
    LET r == refresh[w]
    IN  /\ At(w, "upsert")
        /\ \E g \in r.todo :
            /\ rows' = [rows EXCEPT ![r.u][TypeOf(w)] = UpsertAwardProgress(@, g)]
            /\ Put(w, [r EXCEPT !.todo = @ \ {g}])
        /\ UNCHANGED <<notes, raced, missed>>

checkMilestones(w) ==
    LET r == refresh[w]
    IN  /\ At(w, "upsert") /\ r.todo = {}
        /\ Put(w, [pc |-> "check", u |-> r.u, i |-> r.i, ok |-> r.ok,
                   due |-> {m \in MilestonesFor[TypeOf(w)] : m <= r.n}])
        /\ UNCHANGED <<rows, notes, raced, missed>>

Lowest(S) == CHOOSE m \in S : \A x \in S : m <= x
\* Mutant: an off-by-one in the duplicate check.
AlreadySentTwice(u, t, m) == notes[u][t][m] > 1

\* Only a notification that is there and less than 365 days old counts.
AlreadySent(u, t, m) == notes[u][t][m] > 0
CheckSent(w) ==
    LET r == refresh[w]
        m == Lowest(r.due)
    IN  /\ At(w, "check") /\ r.due # {}
        /\ Put(w, IF AlreadySent(r.u, TypeOf(w), m)
                  THEN [r EXCEPT !.due = @ \ {m}]
                  ELSE [r EXCEPT !.pc = "notify"])
        /\ UNCHANGED <<rows, notes, raced, missed>>
\* A notification that cannot be written is only logged.
CreateWorkerNotification(w) ==
    LET r == refresh[w]
        m == Lowest(r.due)
    IN  /\ At(w, "notify")
        /\ \/ notes' = [notes EXCEPT ![r.u][TypeOf(w)][m] = @ + 1]
           \/ notes' = notes
        /\ Put(w, [r EXCEPT !.pc = "check", !.due = @ \ {m}])
        /\ UNCHANGED <<rows, raced, missed>>
TypeDone(w) ==
    /\ At(w, "check") /\ refresh[w].due = {}
    /\ Onward(w, TRUE)
    /\ UNCHANGED <<rows, notes, raced>>

Gone(u, t, m) ==
    /\ Request /\ notes[u][t][m] > 0
    /\ notes' = [notes EXCEPT ![u][t][m] = @ - 1]
    /\ UNCHANGED <<setup, qso, said, conf, verified, match, now, cards, lastPull, pull,
                   applied, excused, rows, refresh, raced, missed>>
\* The owner deletes a notification.
DeleteNotification(u, t, m) == Gone(u, t, m)
\* A notification becomes a year old.
YearPasses(u, t, m) == Gone(u, t, m)

Fault ==
    /\ Request
    /\ UNCHANGED <<setup, qso, said, conf, verified, match, now, cards, lastPull, pull,
                   applied, excused>>
\* A statement of one type fails: the refresh goes on with the next type.
TypeFails(w) ==
    /\ At(w, "delete") \/ At(w, "select") \/ At(w, "upsert")
    /\ Onward(w, FALSE) /\ Fault
    /\ UNCHANGED <<rows, notes, raced>>
\* The process stops: the job runs again from the start, or not at all.
RefreshCrash(w) ==
    LET u == refresh[w].u
    IN  /\ refresh[w].pc # "idle" /\ Fault
        /\ Put(w, Idle) \/ Put(w, Start(u, Refreshing(u) = {w}))
        /\ missed' = missed \cup {u}
        /\ UNCHANGED <<rows, notes, raced>>

RefreshStep(w) ==
    \/ DeleteAwardProgressByType(w) \/ QueryProgress(w) \/ UpsertRow(w)
    \/ checkMilestones(w) \/ CheckSent(w) \/ CreateWorkerNotification(w)
    \/ TypeDone(w)

\* Club Log's DXCC poll confirms or adds a row of its own, and clears the
\* dirty flag of the row it confirms.
upsertDXCCAwardProgress(u, k, confirmed) ==
    LET rs == rows[u]["dxcc"]
        old == {r \in rs : r.key = k}
        new == IF old = {}
               THEN {[key |-> k, worked |-> FALSE, conf |-> confirmed,
                      dirty |-> FALSE]}
               ELSE {[r EXCEPT !.conf = TRUE, !.dirty = FALSE] : r \in old}
        rs2 == IF old # {} /\ ~confirmed THEN rs ELSE (rs \ old) \cup new
        cleared == Dirty(u) /\ (\A r \in rs2 : ~r.dirty)
                     /\ \A t \in Types \ {"dxcc"} : \A x \in rows[u][t] : ~x.dirty
    IN  /\ Request /\ rs2 # rs
        /\ rows' = [rows EXCEPT ![u]["dxcc"] = rs2]
        /\ missed' = IF cleared THEN missed \cup {u} ELSE missed
        /\ UNCHANGED <<setup, qso, said, conf, verified, match, now, cards, lastPull, pull,
                       applied, excused, refresh, notes, raced>>

---------------------------------------------------------------------------

Next ==
    \/ \E q \in Qsos : \/ \E s \in Slots : CreateQSO(q, s) /\ Unflagged
                       \/ \E s \in Slots : UpdateQSO(q, s) /\ Flagged(OwnerOf[q])
                       \/ DeleteQSO(q) /\ Flagged(OwnerOf[q])
                       \/ loadQSOForConfirmation(q) /\ UNCHANGED awardVars
                       \/ FindMatches(q) /\ UNCHANGED awardVars
                       \/ UpsertOurs(q) /\ UNCHANGED awardVars
                       \/ UpsertTheirs(q) /\ UNCHANGED awardVars
                       \/ MatchFails(q) /\ UNCHANGED awardVars
                       \/ Confirm(q) /\ UNCHANGED awardVars
                       \/ Reject(q) /\ UNCHANGED awardVars
    \/ \E s \in Services, x \in Slots, b \in BOOLEAN :
           CardArrives(s, x, b) /\ UNCHANGED awardVars
    \/ EnqueueLoTWConfirmationPull /\ UNCHANGED awardVars
    \/ EnqueueEQSLConfirmationPull /\ UNCHANGED awardVars
    \/ LoTWConfirmationPullWork /\ UNCHANGED awardVars
    \/ EQSLConfirmationPullWork /\ UNCHANGED awardVars
    \/ \E s \in Services : applyConfirmation(s) /\ Unflagged
    \/ Tick /\ UNCHANGED awardVars
    \/ \E w \in Workers : \/ RefreshStep(w) /\ UNCHANGED confVars
                          \/ TypeFails(w) \/ RefreshCrash(w)
    \/ \E w \in Workers, u \in Collectors :
           \/ RefreshRequested(w, u)
           \/ PeriodicRefresh(w, u) /\ UNCHANGED confVars
    \/ \E u \in Collectors, t \in Types : \E m \in MilestonesFor[t] :
           DeleteNotification(u, t, m) \/ YearPasses(u, t, m)
    \/ \E u \in Collectors, s \in Slots, c \in BOOLEAN : upsertDXCCAwardProgress(u, s.dxcc, c)

Spec == Init /\ [][Next]_vars

---------------------------------------------------------------------------
(* What the award pages show. *)

ListAwardProgressByType(u, t) == rows[u][t]
ByType(u, t) == {r.key : r \in {x \in ListAwardProgressByType(u, t) : x.worked}}
Needs(u, t) == CASE t = "was" -> USStates \ ByType(u, t)
                 [] t = "waz" -> (1 .. 40) \ ByType(u, t)
                 [] OTHER     -> {}

\* The pages computed from the log itself, which row security restricts to
\* the user's own logbooks.
Own(u) == {q \in Live : OwnerOf[q] = u}
KeysOf(ks) == {k.key : k \in ks}
DXCC(u) == KeysOf(ListDXCCEntitiesProgress(Own(u)))
WAS(u) == KeysOf(ListWorkedStates(Own(u)))
Grids(u) == KeysOf(ListWorkedGridSquares(Own(u)))
SOTA(u) == KeysOf(ListWorkedSOTASummits(Own(u)))

\* What the user's live pages show is in the cache too.
PagesAgree(u) ==
    /\ DXCC(u) \subseteq ByType(u, "dxcc")
    /\ "vucc" \in Types => Grids(u) \subseteq ByType(u, "vucc")
    /\ "sota_chaser" \in Types => SOTA(u) \subseteq ByType(u, "sota_chaser")
    /\ "was" \in Types => WAS(u) \cap Needs(u, "was") = {}

\* Rows that are not dirty tell what the log is worth, no confirmation is
\* missing from them, and nothing the live pages show is, unless a change
\* was missed: one that flags no row, one that fell into a refresh or before
\* the first one, one of another user, a refresh that failed half-way, or
\* two that overlapped.
CleanIsCurrent ==
    \A u \in Collectors :
        u \notin missed /\ ~Dirty(u) /\ Refreshing(u) = {} =>
            /\ \A t \in Types :
                /\ ByType(u, t) = KeysOf(Progress(t))
                /\ \A g \in Progress(t) : g.conf =>
                    \E r \in rows[u][t] : r.key = g.key /\ r.conf
            /\ PagesAgree(u)

\* A milestone is announced once, until its notification is a year old or its
\* owner deletes it; refreshes of a user that overlap announce it once each
\* at most, however often they run.
MilestoneOnce ==
    \A u \in Collectors : \A t \in Types : \A m \in MilestonesFor[t] :
        /\ notes[u][t][m] <= Cardinality(Workers)
        /\ u \notin raced => notes[u][t][m] <= 1
=============================================================================
