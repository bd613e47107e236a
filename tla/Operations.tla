----------------------------- MODULE Operations -----------------------------
(***************************************************************************)
(* What an operator keeps beside the log: station locations and callsigns  *)
(* of which one is the default, contest sessions that number their         *)
(* contacts and score each station once, and POTA and SOTA activations.    *)
(*                                                                         *)
(* The requests of one account are served by Procs, in READ COMMITTED      *)
(* transactions: a statement sees what was committed when it began, waits  *)
(* for rows another transaction has written and then looks at those rows   *)
(* again.  A transaction is split where another one can come between two   *)
(* of its statements and be noticed; its last write and its commit are one *)
(* step, because until the commit the others only wait.                    *)
(***************************************************************************)
EXTENDS Naturals, FiniteSets

CONSTANTS
    Procs,          \* requests in flight at a time
    Rows,           \* ids of station_locations and user_callsigns rows
    Sessions,       \* contest sessions
    Acts,           \* activations
    Refs,           \* a park or summit on a date
    Qsos,           \* ids of qsos rows, drawn in increasing order
    Slots,          \* a station on a band, as the dupe check compares them
    CallOf,         \* the callsign of a slot
    Minimum,        \* contacts a program asks for (POTA 10, SOTA 4)
    MaxRequests,    \* bound: requests served
    Keep,           \* a field the body of a request leaves out
    None

ASSUME OperationsAssumption ==
    /\ Qsos \subseteq Nat /\ Rows \subseteq Nat /\ IsFiniteSet(Qsos)
    /\ Minimum \in [{"POTA", "SOTA"} -> Nat]

Tables == {"station_locations", "user_callsigns", "station_callsigns"}
Templates == {"serial", "grid"}
\* A stored "valid" is read like "in_progress": it is computed afresh.
Statuses == {"in_progress", "submitted"}

VARIABLES
    rows,     \* rows[t][r]: the rows of the two tables with a default
    sess,     \* contest_sessions rows
    qso,      \* qsos rows with their contest_qso_exchange rows
    act,      \* activations rows
    req,      \* the requests in flight
    served,   \* requests begun
    given     \* history: tables whose default the user set and kept

vars == <<rows, sess, qso, act, req, served, given>>

NoRow == [st |-> "none", flag |-> FALSE]
NoSession == [st |-> "none", template |-> "serial", counter |-> 0]
NoQso == [st |-> "none", sess |-> None, slot |-> None, serial |-> 0,
          dupe |-> FALSE, padded |-> FALSE, seen |-> {}, edited |-> FALSE,
          ref |-> None, grid |-> FALSE]
NoAct == [st |-> "none", program |-> None, status |-> "in_progress",
          loc |-> None, ref |-> None]
Idle == [pc |-> "idle"]

Init ==
    /\ rows = [t \in Tables |-> [r \in Rows |-> NoRow]]
    /\ sess = [s \in Sessions |-> NoSession]
    /\ qso = [q \in Qsos |-> NoQso]
    /\ act = [a \in Acts |-> NoAct]
    /\ req = [p \in Procs |-> Idle]
    /\ served = 0
    /\ given = {}

---------------------------------------------------------------------------
(* Requests. *)

Begin(p, r) ==
    /\ req[p].pc = "idle" /\ served < MaxRequests
    /\ served' = served + 1
    /\ req' = [req EXCEPT ![p] = r]
AtOnce(p) == Begin(p, Idle)      \* a transaction that is one step
Goto(p, r) == req' = [req EXCEPT ![p] = r] /\ served' = served
Done(p) == Goto(p, Idle)
At(p, pc) == req[p].pc = pc

\* The transaction is rolled back: an invalid body, a row that is gone, a
\* violated index, a deadlock PostgreSQL breaks, a client that went away.
Rollback(p) ==
    /\ req[p].pc # "idle" /\ Done(p)
    /\ UNCHANGED <<rows, sess, qso, act, given>>

---------------------------------------------------------------------------
(* Station locations, the user's callsigns and the callsigns on the air.   *)
(* is_default and is_primary are flags of which a user has one, and active *)
(* one of which a callsign has one, by partial unique indexes.  The rows   *)
(* of station_callsigns are those of one callsign.                         *)

Listed(t) == {r \in Rows : rows[t][r].st = "live"}
ListStationLocations == Listed("station_locations")
ListUserCallsigns == Listed("user_callsigns")
ListStationCallsigns == Listed("station_callsigns")
Flagged(t) == {r \in Listed(t) : rows[t][r].flag}

\* Rows of t that a transaction other than p's has written.
LockedFor(p, t) ==
    UNION {req[o].done : o \in {o \in Procs \ {p} :
                                  At(o, "write") /\ req[o].t = t}}
Taken(t) == {r \in Rows : rows[t][r].st # "none"}
              \cup {req[p].r : p \in {p \in Procs :
                      (At(p, "clear") \/ At(p, "write")) /\ req[p].t = t}}
Fresh(t) == {r \in Rows \ Taken(t) : \A x \in Rows : x < r => x \in Taken(t)}

\* The rows whose flag the handlers clear before they set that of row r.
ClearLocations(r) == ListStationLocations \ {r}
ClearCallsigns == {r \in ListUserCallsigns : rows["user_callsigns"][r].flag}
Clears(t, r) == CASE t = "station_locations" -> ClearLocations(r)
                  [] t = "user_callsigns"    -> ClearCallsigns
                  [] t = "station_callsigns" -> {}

\* The rows the queries write.
CreateStationLocation(f) == [st |-> "live", flag |-> f]
CreateUserCallsign(f) == [st |-> "live", flag |-> f]
CreateStationCallsign == [st |-> "live", flag |-> TRUE]
UpdateStationLocation(row, f) == [row EXCEPT !.flag = f]
UpdateUserCallsign(row, f) == [row EXCEPT !.flag = f]
UpdateStationCallsign(row, f) == [row EXCEPT !.flag = f]
DeleteStationLocation(row) == [row EXCEPT !.st = "gone"]
DeleteUserCallsign(row) == [st |-> "gone", flag |-> FALSE]
DeleteStationCallsign(row) == [row EXCEPT !.flag = FALSE]
Inserted(t, f) == CASE t = "station_locations" -> CreateStationLocation(f)
                    [] t = "user_callsigns"    -> CreateUserCallsign(f)
                    [] t = "station_callsigns" -> CreateStationCallsign
Updated(t, row, f) == CASE t = "station_locations" -> UpdateStationLocation(row, f)
                        [] t = "user_callsigns"    -> UpdateUserCallsign(row, f)
                        [] t = "station_callsigns" -> UpdateStationCallsign(row, f)
Written(t, row, f) == IF row.st = "none" THEN Inserted(t, f) ELSE Updated(t, row, f)

\* Create or Update with the flag set: the first UPDATE takes its snapshot.
SetFlag(p, t, r) ==
    /\ Begin(p, [pc |-> "clear", t |-> t, r |-> r, snap |-> Clears(t, r),
                 done |-> {}])
    /\ UNCHANGED <<rows, sess, qso, act, given>>

\* Without the flag the row is written at once; a PUT replaces the row and
\* so clears a flag it does not name.
Unset(t, r) == given' = IF r \in Flagged(t) THEN given \ {t} ELSE given
WriteAtOnce(p, t, r, row) ==
    /\ AtOnce(p) /\ r \notin LockedFor(p, t)
    /\ rows' = [rows EXCEPT ![t][r] = row]
    /\ Unset(t, r)
    /\ UNCHANGED <<sess, qso, act>>

CreateLocation(p) ==
    LET t == "station_locations" IN
      \E r \in Fresh(t) : SetFlag(p, t, r) \/ WriteAtOnce(p, t, r, Inserted(t, FALSE))
UpdateLocation(p) ==
    LET t == "station_locations" IN
      \E r \in Listed(t) :
        SetFlag(p, t, r) \/ WriteAtOnce(p, t, r, Updated(t, rows[t][r], FALSE))
DeleteLocation(p) ==
    LET t == "station_locations" IN
      \E r \in Listed(t) : WriteAtOnce(p, t, r, DeleteStationLocation(rows[t][r]))

CreateCallsign(p) ==
    LET t == "user_callsigns" IN
      \E r \in Fresh(t) : SetFlag(p, t, r) \/ WriteAtOnce(p, t, r, Inserted(t, FALSE))
UpdateCallsign(p) ==
    LET t == "user_callsigns" IN
      \E r \in Listed(t) :
        SetFlag(p, t, r) \/ WriteAtOnce(p, t, r, Updated(t, rows[t][r], FALSE))
DeleteCallsign(p) ==
    LET t == "user_callsigns" IN
      \E r \in Listed(t) : WriteAtOnce(p, t, r, DeleteUserCallsign(rows[t][r]))

CreateOnAir(p) ==
    \E r \in Fresh("station_callsigns") : SetFlag(p, "station_callsigns", r)
UpdateOnAir(p) ==
    LET t == "station_callsigns" IN
      \E r \in Listed(t) :
        SetFlag(p, t, r) \/ WriteAtOnce(p, t, r, Updated(t, rows[t][r], FALSE))
DeleteOnAir(p) ==
    LET t == "station_callsigns" IN
      \E r \in Listed(t) : WriteAtOnce(p, t, r, DeleteStationCallsign(rows[t][r]))

\* Mutant: the old flag is cleared in a transaction of its own.
ClearFlagsCommitted(p) ==
    /\ At(p, "clear")
    /\ LET t == req[p].t IN
         /\ req[p].snap \cap LockedFor(p, t) = {}
         /\ Goto(p, [req[p] EXCEPT !.pc = "write"])
         /\ rows' = [rows EXCEPT ![t] = [x \in Rows |->
                       IF x \in req[p].snap THEN [rows[t][x] EXCEPT !.flag = FALSE]
                       ELSE rows[t][x]]]
    /\ UNCHANGED <<sess, qso, act, given>>

\* It waits for the rows it found and changes those that still match.
ClearFlags(p) ==
    /\ At(p, "clear")
    /\ LET t == req[p].t IN
         /\ req[p].snap \cap LockedFor(p, t) = {}
         /\ Goto(p, [req[p] EXCEPT !.pc = "write",
                                   !.done = req[p].snap \cap Clears(t, req[p].r)])
    /\ UNCHANGED <<rows, sess, qso, act, given>>

\* The unique index: no other row of the table has the flag.
IndexFree(t, r, done) == Flagged(t) \subseteq done \cup {r}

\* The row is written and the transaction commits.
WriteFlag(p) ==
    /\ At(p, "write")
    /\ LET t == req[p].t
           r == req[p].r
           done == req[p].done IN
         /\ r \notin LockedFor(p, t) /\ rows[t][r].st # "gone"
         /\ IndexFree(t, r, done)
         /\ rows' = [rows EXCEPT ![t] = [x \in Rows |->
                       IF x = r THEN Written(t, rows[t][x], TRUE)
                       ELSE IF x \in done THEN [rows[t][x] EXCEPT !.flag = FALSE]
                       ELSE rows[t][x]]]
         /\ given' = given \cup {t}
    /\ Done(p) /\ UNCHANGED <<sess, qso, act>>

---------------------------------------------------------------------------
(* Contests. *)

Logged(s) == {q \in Qsos : qso[q].st # "none" /\ qso[q].sess = s}
LiveQsos == {q \in Qsos : qso[q].st = "live"}
NextQso == {q \in Qsos : qso[q].st = "none"
                       /\ \A x \in Qsos : x < q => qso[x].st # "none"}

\* Mutant: only the last contact of the session is looked at.
CheckDupeLast(s, c, padded) ==
    ~padded /\ \E q \in Logged(s) \cap LiveQsos :
      qso[q].slot = c /\ ~qso[q].dupe /\ \A x \in Logged(s) : x <= q

\* A non-dupe of the station on this band is in the session.  The callsign
\* is compared as it was entered, and stored without the blanks around it:
\* one that is entered with blanks equals none that is stored.
CheckDupe(s, c, padded) ==
    ~padded /\ \E q \in Logged(s) \cap LiveQsos : qso[q].slot = c /\ ~qso[q].dupe
ContestRowFree(p, s) ==
    \A o \in Procs \ {p} : ~(At(o, "insert") /\ req[o].s = s)

CreateContestSession(x) == [NoSession EXCEPT !.st = "live", !.template = x]
UpdateContestSession(row, x) == [row EXCEPT !.template = x]
ContestSessionFound(s) == sess[s].st = "live"

CreateContest(p) ==
    /\ AtOnce(p)
    /\ \E s \in Sessions, x \in Templates :
         /\ sess[s].st = "none"
         /\ sess' = [sess EXCEPT ![s] = CreateContestSession(x)]
    /\ UNCHANGED <<rows, qso, act, given>>

\* Every field a PUT leaves out gets its default: the template "serial".
\* No handler looks at the status of a session.
UpdateContest(p) ==
    /\ AtOnce(p)
    /\ \E s \in Sessions, x \in Templates :
         /\ ContestSessionFound(s) /\ ContestRowFree(p, s)
         /\ sess' = [sess EXCEPT ![s] = UpdateContestSession(sess[s], x)]
    /\ UNCHANGED <<rows, qso, act, given>>

\* LogQSO reads the session and looks for a dupe, ...
LogQSO(p) ==
    /\ \E s \in Sessions, c \in Slots, padded \in BOOLEAN :
         /\ ContestSessionFound(s)
         /\ Begin(p, [pc |-> "number", s |-> s, slot |-> c, serial |-> 0,
                      template |-> sess[s].template, padded |-> padded,
                      dupe |-> CheckDupe(s, c, padded), seen |-> LiveQsos])
    /\ UNCHANGED <<rows, sess, qso, act, given>>

\* Mutant: the counter is read and written back, without a row lock.
IncrementSerialCounterUnlocked(p) ==
    /\ At(p, "number") /\ req[p].template = "serial"
    /\ Goto(p, [req[p] EXCEPT !.pc = "insert",
                              !.serial = sess[req[p].s].counter + 1])
    /\ UNCHANGED <<rows, sess, qso, act, given>>

\* ... takes a number, which locks the session's row until it commits, ...
IncrementSerialCounter(p) ==
    /\ At(p, "number") /\ req[p].template = "serial"
    /\ LET s == req[p].s IN
         /\ ContestRowFree(p, s)
         /\ Goto(p, [req[p] EXCEPT !.pc = "insert",
                                   !.serial = sess[s].counter + 1])
    /\ UNCHANGED <<rows, sess, qso, act, given>>
AfterIncrement(s, n) ==
    [sess EXCEPT ![s].counter = IF n = 0 THEN sess[s].counter ELSE n]

ContestQSO(r) == [NoQso EXCEPT !.st = "live", !.sess = r.s, !.slot = r.slot]
WithExchange(row, r) == [row EXCEPT !.serial = r.serial, !.dupe = r.dupe,
                                    !.padded = r.padded, !.seen = r.seen]
\* ... inserts the contact with its exchange, and commits.
InsertContestQSO(p) ==
    /\ \/ At(p, "insert")
       \/ At(p, "number") /\ req[p].template # "serial"
    /\ \E q \in NextQso :
         qso' = [qso EXCEPT ![q] = WithExchange(ContestQSO(req[p]), req[p])]
    /\ sess' = AfterIncrement(req[p].s, req[p].serial)
    /\ Done(p) /\ UNCHANGED <<rows, act, given>>

\* What the exports, the statistics and the session's page show.
ContestQSOsForExport(s) == Logged(s) \cap LiveQsos
BuildCabrillo(s) == {q \in ContestQSOsForExport(s) : ~qso[q].dupe}
ContestStats(s) == [total |-> Cardinality(BuildCabrillo(s)),
                    dupes |-> Cardinality(ContestQSOsForExport(s) \ BuildCabrillo(s)),
                    counter |-> sess[s].counter]
ContestSessionResponse(s) == [template |-> sess[s].template,
                              counter |-> sess[s].counter]

---------------------------------------------------------------------------
(* The contacts that an import adds and the QSO handler changes. *)

\* A contact made from a park or summit, with or without a grid.  The QSO
\* handler has no field for the reference.
ImportQSO(p) ==
    /\ AtOnce(p)
    /\ \E q \in NextQso, c \in Slots, x \in Refs, g \in BOOLEAN :
         qso' = [qso EXCEPT ![q] = [NoQso EXCEPT !.st = "live", !.slot = c,
                                                 !.ref = x, !.grid = g]]
    /\ UNCHANGED <<rows, sess, act, given>>
PatchQSO(p) ==
    /\ AtOnce(p)
    /\ \E q \in LiveQsos, c \in Slots, g \in BOOLEAN :
         qso' = [qso EXCEPT ![q].slot = c, ![q].grid = g, ![q].edited = TRUE]
    /\ UNCHANGED <<rows, sess, act, given>>
DeleteQSO(p) ==
    /\ AtOnce(p)
    /\ \E q \in LiveQsos : qso' = [qso EXCEPT ![q].st = "deleted"]
    /\ UNCHANGED <<rows, sess, act, given>>

---------------------------------------------------------------------------
(* Activations. *)

InsertedActivation(prog, l, x) == [NoAct EXCEPT !.st = "live", !.loc = l,
                                                !.program = prog, !.ref = x]
CreateActivation(p, prog) ==
    /\ AtOnce(p)
    /\ \E a \in Acts, l \in ListStationLocations \cup {None}, x \in Refs :
         /\ act[a].st = "none"
         /\ act' = [act EXCEPT ![a] = InsertedActivation(prog, l, x)]
    /\ UNCHANGED <<rows, sess, qso, given>>
CreatePOTA(p) == CreateActivation(p, "POTA")
CreateSOTA(p) == CreateActivation(p, "SOTA")

\* Update reads the row and keeps what the body leaves out, ...
ActivationFound(a, prog) == act[a].st = "live" /\ act[a].program = prog
UpdateActivation(p, prog) ==
    /\ \E a \in Acts, st \in Statuses \cup {Keep},
          l \in ListStationLocations \cup {None, Keep}, x \in Refs \cup {Keep} :
         /\ ActivationFound(a, prog)
         /\ Begin(p, [pc |-> "act", a |-> a, old |-> act[a],
                      status |-> st, loc |-> l, ref |-> x])
    /\ UNCHANGED <<rows, sess, qso, act, given>>
UpdatePOTA(p) == UpdateActivation(p, "POTA")
UpdateSOTA(p) == UpdateActivation(p, "SOTA")
ParseActivationStatus(value, fallback) ==
    IF value = Keep THEN fallback ELSE value
ResolveStationLocation(raw, fallback) ==
    IF raw = Keep THEN fallback ELSE raw
NewReference(raw, fallback) == IF raw = Keep THEN fallback ELSE raw
\* ... and writes all of its fields.
WriteActivation(p) ==
    /\ At(p, "act")
    /\ LET r == req[p] IN
         act' = [act EXCEPT
                   ![r.a].status = ParseActivationStatus(r.status, r.old.status),
                   ![r.a].loc = ResolveStationLocation(r.loc, r.old.loc),
                   ![r.a].ref = NewReference(r.ref, r.old.ref)]
    /\ Done(p) /\ UNCHANGED <<rows, sess, qso, given>>

\* A location gives its grid to the activation, deleted or not.
LocationGrid(a) == act[a].loc # None
ActivationQSOs(a) == {q \in LiveQsos : qso[q].ref = act[a].ref}
UniqueCallsigns(qs) == Cardinality({CallOf[qso[q].slot] : q \in qs})

\* Mutant: a station counts again on every band.
ActivationStatusSlots(a) ==
    [unique  |-> Cardinality({qso[q].slot : q \in ActivationQSOs(a)}),
     missing |-> {q \in ActivationQSOs(a) : ~(qso[q].grid \/ LocationGrid(a))}]

\* The query of Status.  It takes the first grid that is not NULL and the
\* export's query the first that is not blank: the same, because no blank
\* grid is stored.  A logbook always has a callsign.
ActivationStatus(a) ==
    [unique  |-> UniqueCallsigns(ActivationQSOs(a)),
     missing |-> {q \in ActivationQSOs(a) : ~(qso[q].grid \/ LocationGrid(a))}]
ComputeActivationValidation(a) ==
    LET s == ActivationStatus(a) IN
      \/ act[a].status = "submitted"
      \/ /\ s.unique >= Minimum[act[a].program]
         /\ act[a].program = "POTA" => s.missing = {}
POTAStatus(a) == ActivationFound(a, "POTA") /\ ComputeActivationValidation(a)
SOTAStatus(a) == ActivationFound(a, "SOTA") /\ ComputeActivationValidation(a)

\* Export computes the status, ...
ExportStatus(p) ==
    /\ \E a \in Acts :
         /\ ActivationFound(a, "POTA")
         /\ Begin(p, [pc |-> "export", a |-> a, old |-> act[a],
                      ready |-> POTAStatus(a),
                      counted |-> [q \in ActivationQSOs(a) |-> qso[q]]])
    /\ UNCHANGED <<rows, sess, qso, act, given>>
\* ... and lists the contacts in a second statement.  One without any grid
\* is a NULL that cannot be scanned into a string, and an activation without
\* contacts is not exported: the request fails.
ListActivationQSOs(a) == ActivationQSOs(a)
ListScans(a) == \A q \in ActivationQSOs(a) : qso[q].grid \/ LocationGrid(a)
POTAExport(p) ==
    /\ At(p, "export")
    /\ ListActivationQSOs(req[p].a) # {} /\ ListScans(req[p].a)
    /\ Done(p) /\ UNCHANGED <<rows, sess, qso, act, given>>

---------------------------------------------------------------------------

Next == \E p \in Procs :
    \/ Rollback(p)
    \/ CreateLocation(p) \/ UpdateLocation(p) \/ DeleteLocation(p)
    \/ CreateCallsign(p) \/ UpdateCallsign(p) \/ DeleteCallsign(p)
    \/ CreateOnAir(p) \/ UpdateOnAir(p) \/ DeleteOnAir(p)
    \/ ClearFlags(p) \/ WriteFlag(p)
    \/ CreateContest(p) \/ UpdateContest(p)
    \/ LogQSO(p) \/ IncrementSerialCounter(p) \/ InsertContestQSO(p)
    \/ ImportQSO(p) \/ PatchQSO(p) \/ DeleteQSO(p)
    \/ CreatePOTA(p) \/ CreateSOTA(p)
    \/ UpdatePOTA(p) \/ UpdateSOTA(p) \/ WriteActivation(p)
    \/ ExportStatus(p) \/ POTAExport(p)

Spec == Init /\ [][Next]_vars

---------------------------------------------------------------------------
(* Properties. *)

\* A user who made a location or callsign the default, and has not unset or
\* deleted it, has exactly one: no failed or overlapping request of the
\* handlers that clear the old flag before they set the new one takes it
\* away or leaves two.
OneDefault ==
    \A t \in Tables : /\ Cardinality(Flagged(t)) <= 1
                      /\ t \in given => Flagged(t) # {}

\* The serial numbers LogQSO sent in a session are 1, 2, ... up to its
\* serial_counter, each once: no failed request uses one up, no two
\* concurrent ones share one, and a change of the template loses none.
SerialsGapless ==
    \A s \in Sessions :
      LET sent == {q \in Logged(s) : qso[q].serial # 0} IN
        /\ {qso[q].serial : q \in sent} = 1..ContestSessionResponse(s).counter
        /\ Cardinality(sent) = ContestStats(s).counter

\* A Cabrillo log holds two contacts with a station on a band only where
\* neither was there yet when LogQSO checked the other, one was edited, or
\* the later one was entered with blanks around the callsign, which the
\* check does not remove and the insert does.
CabrilloScoresOnce ==
    \A s \in Sessions : \A q1, q2 \in BuildCabrillo(s) :
      (qso[q1].slot = qso[q2].slot /\ q1 \in qso[q2].seen)
        => qso[q1].edited \/ qso[q2].edited \/ qso[q2].padded

HonestExport(p) ==
    LET r == req[p] IN
      /\ POTAExport(p) /\ r.ready /\ r.old.status # "submitted"
      /\ act[r.a] = r.old /\ \A q \in DOMAIN r.counted : qso[q] = r.counted[q]
      => UniqueCallsigns(ListActivationQSOs(r.a)) >= Minimum["POTA"]

\* An export that answers ready_to_submit, of an activation the user has not
\* declared to be submitted, has in its ADIF the stations POTA asks for:
\* contacts that are added and locations that are changed or deleted between
\* its two queries do no harm, only a contact that was deleted or edited, or
\* an update of the activation.
ExportHonest == [][\A p \in Procs : HonestExport(p)]_vars
=============================================================================
