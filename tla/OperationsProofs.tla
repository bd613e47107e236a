-------------------------- MODULE OperationsProofs --------------------------
(***************************************************************************)
(* Proofs about Operations, for every number of requests at a time and in  *)
(* all, and every set of rows, sessions, contacts and activations: a user  *)
(* has one default, a session numbers its contacts without gaps, a         *)
(* Cabrillo log scores a station once, and an export says what it holds.   *)
(***************************************************************************)
EXTENDS Operations, FiniteSetTheorems, TLAPS

-----------------------------------------------------------------------------
(* Types. *)

FlagRows == [st : {"none", "live", "gone"}, flag : BOOLEAN]
SessionRows == [st : {"none", "live"}, template : Templates, counter : Nat]
QsoRows == [st : {"none", "live", "deleted"}, sess : Sessions \cup {None},
            slot : Slots \cup {None}, serial : Nat, dupe : BOOLEAN,
            padded : BOOLEAN, seen : SUBSET Qsos, edited : BOOLEAN, ref : Refs \cup {None},
            grid : BOOLEAN]
ActRows == [st : {"none", "live"}, program : {"POTA", "SOTA", None}, status : Statuses,
            loc : Rows \cup {None}, ref : Refs \cup {None}]

\* A request sets a flag, logs a contact, updates or exports an activation or
\* is over.
FlagReqs == [pc : {"clear", "write"}, t : Tables, r : Rows, snap : SUBSET Rows,
             done : SUBSET Rows]
LogReqs == [pc : {"number", "insert"}, s : Sessions, slot : Slots, serial : Nat,
            template : Templates, padded : BOOLEAN, dupe : BOOLEAN, seen : SUBSET Qsos]
ActReqs == [pc : {"act"}, a : Acts, old : ActRows, status : Statuses \cup {Keep},
            loc : Rows \cup {None, Keep}, ref : Refs \cup {Keep}]
ExportReqs == [pc : {"export"}, a : Acts, old : ActRows, ready : BOOLEAN,
               counted : UNION {[D -> QsoRows] : D \in SUBSET Qsos}]
Reqs == FlagReqs \cup LogReqs \cup ActReqs \cup ExportReqs \cup {Idle}

TypeOK ==
    /\ rows \in [Tables -> [Rows -> FlagRows]]
    /\ sess \in [Sessions -> SessionRows]
    /\ qso \in [Qsos -> QsoRows]
    /\ act \in [Acts -> ActRows]
    /\ req \in [Procs -> Reqs]
    /\ served \in Nat
    /\ given \subseteq Tables

-----------------------------------------------------------------------------
(***************************************************************************)
(* The inductive invariant.                                                *)
(***************************************************************************)
SoleFlag ==
    \A t \in Tables : /\ \A x, y \in Flagged(t) : x = y
                      /\ t \in given => Flagged(t) # {}

\* A request that logs a contact found its session, and its number is the
\* next one: it has the session's row locked since it took it.
Logs(p) == At(p, "number") \/ At(p, "insert")
NumberIsNext ==
    \A p \in Procs : Logs(p) =>
        /\ sess[req[p].s].st = "live"
        /\ At(p, "number") => req[p].serial = 0
        /\ At(p, "insert") => req[p].serial = sess[req[p].s].counter + 1
OneNumbers ==
    \A p, o \in Procs : At(p, "insert") /\ At(o, "insert") /\ req[p].s = req[o].s => p = o

\* The contacts with a number, whose numbers are all there are.
Sent(s) == {q \in Logged(s) : qso[q].serial # 0}
Numbers(s) == {qso[q].serial : q \in Sent(s)}
Gapless ==
    \A s \in Sessions : /\ IsFiniteSet(Sent(s)) /\ Cardinality(Sent(s)) = sess[s].counter
                        /\ Numbers(s) = 1 .. sess[s].counter
NewIsEmpty == \A s \in Sessions : sess[s].st = "none" => sess[s].counter = 0

\* What a check for dupes has seen are contacts, and a request that found no
\* dupe among them has none, unless it was edited since.
InUse == {q \in Qsos : qso[q].st # "none"}
SeenInUse ==
    /\ \A q \in Qsos : qso[q].seen \subseteq InUse
    /\ \A p \in Procs : Logs(p) => req[p].seen \subseteq InUse
Scored(q, s, c) ==
    qso[q].st = "live" /\ qso[q].sess = s /\ ~qso[q].dupe /\ qso[q].slot = c
CheckHolds ==
    \A p \in Procs : Logs(p) /\ ~req[p].dupe /\ ~req[p].padded =>
        \A q \in req[p].seen : Scored(q, req[p].s, req[p].slot) => qso[q].edited
ScoresOnce ==
    \A s \in Sessions : \A q1, q2 \in Qsos :
        Scored(q1, s, qso[q2].slot) /\ Scored(q2, s, qso[q2].slot) /\ q1 \in qso[q2].seen
            => qso[q1].edited \/ qso[q2].edited \/ qso[q2].padded

\* An export that found its activation ready counted the stations it needs.
CountedCalls(r) == {CallOf[r.counted[q].slot] : q \in DOMAIN r.counted}
ReadyCounted ==
    \A p \in Procs : At(p, "export") =>
        LET r == req[p] IN
            r.ready /\ r.old.status # "submitted" =>
                /\ Cardinality(CountedCalls(r)) >= Minimum["POTA"]
                /\ \A q \in DOMAIN r.counted : /\ r.counted[q].st = "live"
                                               /\ r.counted[q].ref = r.old.ref

NumberInv == NumberIsNext /\ OneNumbers /\ Gapless /\ NewIsEmpty
ScoreInv == SeenInUse /\ CheckHolds /\ ScoresOnce

-----------------------------------------------------------------------------
(* Requests. *)

LEMMA ReqForms ==
    ASSUME req \in [Procs -> Reqs], NEW p \in Procs
    PROVE  /\ At(p, "clear") \/ At(p, "write") => req[p] \in FlagReqs
           /\ Logs(p) => req[p] \in LogReqs
           /\ At(p, "act") => req[p] \in ActReqs
           /\ At(p, "export") => req[p] \in ExportReqs
  <1>1. req[p] \in Reqs
    OBVIOUS
  <1> QED BY <1>1 DEF Reqs, FlagReqs, LogReqs, ActReqs, ExportReqs, Idle, At, Logs

LEMMA BeginType ==
    ASSUME req \in [Procs -> Reqs], served \in Nat, NEW p \in Procs, NEW r \in Reqs,
           Begin(p, r) \/ Goto(p, r)
    PROVE  /\ req' \in [Procs -> Reqs] /\ served' \in Nat
           /\ req'[p] = r /\ \A o \in Procs \ {p} : req'[o] = req[o]
  BY DEF Begin, Goto

LEMMA IdleType == Idle \in Reqs /\ Idle.pc = "idle"
  BY DEF Reqs, Idle

\* A step after which p has no transaction.
LEMMA EndType ==
    ASSUME req \in [Procs -> Reqs], served \in Nat, NEW p \in Procs, AtOnce(p) \/ Done(p)
    PROVE  /\ req' \in [Procs -> Reqs] /\ served' \in Nat
           /\ req'[p].pc = "idle" /\ \A o \in Procs \ {p} : req'[o] = req[o]
  BY BeginType, IdleType DEF AtOnce, Done

-----------------------------------------------------------------------------
(* The rows with a flag. *)

Quits(p, t, r, row) == WriteAtOnce(p, t, r, row) /\ (row.st = "live" => row.flag = FALSE)

LEMMA RowForms ==
    ASSUME NEW row \in FlagRows, NEW t \in Tables, row.st = "live"
    PROVE  /\ Updated(t, row, FALSE) \in FlagRows /\ Updated(t, row, FALSE).flag = FALSE
           /\ DeleteStationLocation(row) \in FlagRows
           /\ DeleteStationLocation(row).st = "gone"
           /\ DeleteUserCallsign(row) \in FlagRows /\ DeleteUserCallsign(row).st = "gone"
           /\ DeleteStationCallsign(row) \in FlagRows /\ DeleteStationCallsign(row).flag = FALSE
  <1>1. Updated(t, row, FALSE) = [row EXCEPT !.flag = FALSE]
    BY DEF Updated, UpdateStationLocation, UpdateUserCallsign, UpdateStationCallsign, Tables
  <1> QED BY <1>1 DEF FlagRows, DeleteStationLocation, DeleteUserCallsign, DeleteStationCallsign

LEMMA InsertForms ==
    ASSUME NEW t \in {"station_locations", "user_callsigns"}
    PROVE  Inserted(t, FALSE) \in FlagRows /\ Inserted(t, FALSE).flag = FALSE
  BY DEF Inserted, CreateStationLocation, CreateUserCallsign, FlagRows

LEMMA FlagSet ==
    ASSUME NEW row \in FlagRows, NEW f \in BOOLEAN
    PROVE  /\ [row EXCEPT !.flag = f] \in FlagRows
           /\ [row EXCEPT !.flag = f].flag = f /\ [row EXCEPT !.flag = f].st = row.st
  BY DEF FlagRows

LEMMA WrittenForms ==
    ASSUME NEW t \in Tables, NEW row \in FlagRows, row.st # "gone"
    PROVE  /\ Written(t, row, TRUE) \in FlagRows
           /\ Written(t, row, TRUE).st = "live" /\ Written(t, row, TRUE).flag = TRUE
  <1>1. Inserted(t, TRUE) = [st |-> "live", flag |-> TRUE]
    BY DEF Inserted, CreateStationLocation, CreateUserCallsign, CreateStationCallsign, Tables
  <1>2. Updated(t, row, TRUE) = [row EXCEPT !.flag = TRUE]
    BY DEF Updated, UpdateStationLocation, UpdateUserCallsign, UpdateStationCallsign, Tables
  <1>3. /\ [row EXCEPT !.flag = TRUE] \in FlagRows
        /\ [row EXCEPT !.flag = TRUE].flag = TRUE /\ [row EXCEPT !.flag = TRUE].st = row.st
    BY FlagSet
  <1>4. CASE row.st = "none"
    <2>1. [st |-> "live", flag |-> TRUE] \in FlagRows
      BY DEF FlagRows
    <2>2. Written(t, row, TRUE) = [st |-> "live", flag |-> TRUE]
      BY <1>1, <1>4 DEF Written
    <2>3. [st |-> "live", flag |-> TRUE].st = "live"
      OBVIOUS
    <2>4. [st |-> "live", flag |-> TRUE].flag = TRUE
      OBVIOUS
    <2> QED BY <2>1, <2>2, <2>3, <2>4, Zenon
  <1>5. CASE row.st = "live"
    BY <1>2, <1>3, <1>5 DEF Written
  <1> QED BY <1>4, <1>5 DEF FlagRows

\* The requests for rows with a flag begin to set one, or write a row that
\* has none at once.
LEMMA FlagSteps ==
    ASSUME TypeOK, NEW p \in Procs,
           \/ CreateLocation(p) \/ UpdateLocation(p) \/ DeleteLocation(p)
           \/ CreateCallsign(p) \/ UpdateCallsign(p) \/ DeleteCallsign(p)
           \/ CreateOnAir(p) \/ UpdateOnAir(p) \/ DeleteOnAir(p)
    PROVE  \E t \in Tables, r \in Rows :
              SetFlag(p, t, r) \/ \E row \in FlagRows : Quits(p, t, r, row)
  <1>1. \A t \in Tables : /\ Fresh(t) \subseteq Rows /\ Listed(t) \subseteq Rows
                          /\ \A r \in Listed(t) : rows[t][r] \in FlagRows /\ rows[t][r].st = "live"
    BY DEF Fresh, Listed, TypeOK
  <1>2. {"station_locations", "user_callsigns", "station_callsigns"} = Tables
    BY DEF Tables
  <1>3. ASSUME NEW t \in {"station_locations", "user_callsigns"}, NEW r \in Fresh(t),
               SetFlag(p, t, r) \/ WriteAtOnce(p, t, r, Inserted(t, FALSE))
        PROVE  SetFlag(p, t, r) \/ \E row \in FlagRows : Quits(p, t, r, row)
    BY <1>3, InsertForms DEF Quits
  <1>4. ASSUME NEW t \in Tables, NEW r \in Listed(t),
               SetFlag(p, t, r) \/ WriteAtOnce(p, t, r, Updated(t, rows[t][r], FALSE))
        PROVE  SetFlag(p, t, r) \/ \E row \in FlagRows : Quits(p, t, r, row)
    BY <1>1, <1>4, RowForms DEF Quits
  <1>5. ASSUME NEW t \in Tables, NEW r \in Listed(t),
               \/ WriteAtOnce(p, t, r, DeleteStationLocation(rows[t][r]))
               \/ WriteAtOnce(p, t, r, DeleteUserCallsign(rows[t][r]))
               \/ WriteAtOnce(p, t, r, DeleteStationCallsign(rows[t][r]))
        PROVE  \E row \in FlagRows : Quits(p, t, r, row)
    BY <1>1, <1>5, RowForms DEF Quits
  <1>6. CASE CreateLocation(p) \/ CreateCallsign(p) \/ CreateOnAir(p)
    BY <1>1, <1>2, <1>3, <1>6 DEF CreateLocation, CreateCallsign, CreateOnAir
  <1>7. CASE UpdateLocation(p) \/ UpdateCallsign(p) \/ UpdateOnAir(p)
    BY <1>1, <1>2, <1>4, <1>7 DEF UpdateLocation, UpdateCallsign, UpdateOnAir
  <1>8. CASE DeleteLocation(p) \/ DeleteCallsign(p) \/ DeleteOnAir(p)
    BY <1>1, <1>2, <1>5, <1>8 DEF DeleteLocation, DeleteCallsign, DeleteOnAir
  <1> QED BY <1>6, <1>7, <1>8

\* A step that touches the rows with a flag only.
FlagStep(p) ==
    /\ UNCHANGED <<sess, qso, act>>
    /\ ~Logs(p)' /\ \A o \in Procs \ {p} : req'[o] = req[o]

LEMMA SetFlagKeeps ==
    ASSUME TypeOK, SoleFlag, NEW p \in Procs, NEW t \in Tables, NEW r \in Rows, SetFlag(p, t, r)
    PROVE  TypeOK' /\ SoleFlag' /\ FlagStep(p)
  <1> DEFINE R == [pc |-> "clear", t |-> t, r |-> r, snap |-> Clears(t, r), done |-> {}]
  <1>1. Clears(t, r) \subseteq Rows
    BY DEF Clears, ClearLocations, ClearCallsigns, ListStationLocations, ListUserCallsigns,
           Listed, Tables
  <1>2. R \in Reqs /\ R.pc = "clear"
    BY <1>1 DEF Reqs, FlagReqs
  <1>3. Begin(p, R) /\ UNCHANGED <<rows, sess, qso, act, given>>
    BY DEF SetFlag
  <1> HIDE DEF R
  <1>4. /\ req' \in [Procs -> Reqs] /\ served' \in Nat
        /\ req'[p] = R /\ \A o \in Procs \ {p} : req'[o] = req[o]
    BY <1>2, <1>3, BeginType DEF TypeOK
  <1> QED BY <1>2, <1>3, <1>4 DEF TypeOK, SoleFlag, Flagged, Listed, FlagStep, Logs, At

LEMMA QuitsKeeps ==
    ASSUME TypeOK, SoleFlag, NEW p \in Procs, NEW t \in Tables, NEW r \in Rows,
           NEW row \in FlagRows, Quits(p, t, r, row)
    PROVE  TypeOK' /\ SoleFlag' /\ FlagStep(p)
  <1>1. /\ rows' = [rows EXCEPT ![t][r] = row] /\ UNCHANGED <<sess, qso, act>>
        /\ given' = IF r \in Flagged(t) THEN given \ {t} ELSE given
        /\ row.st = "live" => row.flag = FALSE
    BY DEF Quits, WriteAtOnce, Unset
  <1>2. /\ req' \in [Procs -> Reqs] /\ served' \in Nat
        /\ req'[p].pc = "idle" /\ \A o \in Procs \ {p} : req'[o] = req[o]
    BY EndType DEF Quits, WriteAtOnce, TypeOK
  <1>3. TypeOK'
    BY <1>1, <1>2 DEF TypeOK
  <1>4. Flagged(t)' = Flagged(t) \ {r} /\ \A x \in Tables \ {t} : Flagged(x)' = Flagged(x)
    BY <1>1 DEF Flagged, Listed, TypeOK
  <1>5. SoleFlag'
    BY <1>1, <1>4 DEF SoleFlag
  <1> QED BY <1>1, <1>2, <1>3, <1>5 DEF FlagStep, Logs, At

LEMMA ClearFlagsKeeps ==
    ASSUME TypeOK, SoleFlag, NEW p \in Procs, ClearFlags(p)
    PROVE  TypeOK' /\ SoleFlag' /\ FlagStep(p)
  <1>1. req[p] \in FlagReqs
    BY ReqForms DEF ClearFlags, TypeOK
  <1>2. PICK d : d = req[p].snap \cap Clears(req[p].t, req[p].r)
    OBVIOUS
  <1>3. d \subseteq Rows
    BY <1>1, <1>2 DEF FlagReqs
  <1>4. PICK R : R = [req[p] EXCEPT !.pc = "write", !.done = d]
    OBVIOUS
  <1>5. R \in Reqs /\ R.pc = "write"
    BY <1>1, <1>3, <1>4 DEF Reqs, FlagReqs
  <1>6. Goto(p, R) /\ UNCHANGED <<rows, sess, qso, act, given>>
    BY <1>2, <1>4 DEF ClearFlags
  <1>7. /\ req' \in [Procs -> Reqs] /\ served' \in Nat
        /\ req'[p] = R /\ \A o \in Procs \ {p} : req'[o] = req[o]
    BY <1>5, <1>6, BeginType DEF TypeOK
  <1> QED BY <1>5, <1>6, <1>7 DEF TypeOK, SoleFlag, Flagged, Listed, FlagStep, Logs, At

\* Those who had the flag gave it up, so that the row written is the only
\* one with it.
LEMMA WriteFlagKeeps ==
    ASSUME TypeOK, SoleFlag, NEW p \in Procs, WriteFlag(p)
    PROVE  TypeOK' /\ SoleFlag' /\ FlagStep(p)
  <1>1. req[p] \in FlagReqs
    BY ReqForms DEF WriteFlag, TypeOK
  <1>2. PICK t \in Tables, r \in Rows, done \in SUBSET Rows :
            t = req[p].t /\ r = req[p].r /\ done = req[p].done
    BY <1>1 DEF FlagReqs
  <1>3. /\ rows[t][r].st # "gone" /\ Flagged(t) \subseteq done \cup {r}
        /\ rows' = [rows EXCEPT ![t] = [x \in Rows |->
                       IF x = r THEN Written(t, rows[t][x], TRUE)
                       ELSE IF x \in done THEN [rows[t][x] EXCEPT !.flag = FALSE]
                       ELSE rows[t][x]]]
        /\ given' = given \cup {t}
        /\ Done(p) /\ UNCHANGED <<sess, qso, act>>
    BY <1>2 DEF WriteFlag, IndexFree
  <1>4. /\ req' \in [Procs -> Reqs] /\ served' \in Nat
        /\ req'[p].pc = "idle" /\ \A o \in Procs \ {p} : req'[o] = req[o]
    BY <1>3, EndType DEF TypeOK
  <1>5. PICK w \in FlagRows : w = Written(t, rows[t][r], TRUE) /\ w.st = "live" /\ w.flag = TRUE
    BY <1>3, WrittenForms DEF TypeOK
  <1>6. PICK N : N = [x \in Rows |->
                       IF x = r THEN Written(t, rows[t][x], TRUE)
                       ELSE IF x \in done THEN [rows[t][x] EXCEPT !.flag = FALSE]
                       ELSE rows[t][x]]
    OBVIOUS
  <1>7. \A x \in Rows : rows[t][x] \in FlagRows
    BY DEF TypeOK
  <1>8. /\ \A x \in Rows : [rows[t][x] EXCEPT !.flag = FALSE] \in FlagRows
        /\ \A x \in Rows : [rows[t][x] EXCEPT !.flag = FALSE].flag = FALSE
    BY <1>7, FlagSet
  <1>9. /\ N \in [Rows -> FlagRows] /\ N[r] = w
        /\ \A x \in Rows \ {r} : x \in done => N[x].flag = FALSE
        /\ \A x \in Rows \ {r} : x \notin done => N[x] = rows[t][x]
    BY <1>5, <1>6, <1>8, <1>7
  <1>10. /\ rows' \in [Tables -> [Rows -> FlagRows]]
        /\ rows'[t] = N /\ \A x \in Tables \ {t} : rows'[x] = rows[x]
    BY <1>3, <1>6, <1>9 DEF TypeOK
  <1>11. /\ r \in Flagged(t)'
        /\ \A x \in Rows \ {r} : x \notin Flagged(t)'
    <2>1. r \in Flagged(t)'
      BY <1>5, <1>10, <1>9 DEF Flagged, Listed
    <2>2. ASSUME NEW x \in Rows \ {r} PROVE x \notin Flagged(t)'
      <3>1. CASE x \in done
        BY <1>10, <1>9, <3>1 DEF Flagged
      <3>2. CASE x \notin done
        BY <1>3, <1>10, <1>9, <3>2 DEF Flagged, Listed
      <3> QED BY <3>1, <3>2
    <2> QED BY <2>1, <2>2
  <1>12. Flagged(t)' = {r} /\ \A x \in Tables \ {t} : Flagged(x)' = Flagged(x)
    BY <1>10, <1>11 DEF Flagged, Listed
  <1>13. SoleFlag'
    BY <1>3, <1>12 DEF SoleFlag
  <1> QED BY <1>3, <1>4, <1>10, <1>13 DEF TypeOK, FlagStep, Logs, At

-----------------------------------------------------------------------------
(* Contests. *)

SessKept ==
    \A s \in Sessions : /\ sess'[s].counter = sess[s].counter
                        /\ sess[s].st = "live" => sess'[s].st = "live"
                        /\ sess'[s].st = "none" => sess[s].st = "none"

\* A step that leaves the contacts, the counters and the requests that log
\* as they are.
LEMMA QuietKeeps ==
    ASSUME TypeOK, NumberInv, ScoreInv, qso' = qso, SessKept,
           \A p \in Procs : req'[p] = req[p] \/ ~Logs(p)'
    PROVE  NumberInv' /\ ScoreInv'
  <1>1. \A p \in Procs : Logs(p)' =>
            /\ Logs(p) /\ req'[p] = req[p] /\ req[p].s \in Sessions
            /\ At(p, "number")' = At(p, "number") /\ At(p, "insert")' = At(p, "insert")
    BY ReqForms DEF Logs, At, LogReqs, TypeOK
  <1>2. NumberIsNext'
    <2> SUFFICES ASSUME NEW p \in Procs, Logs(p)'
                 PROVE  /\ sess'[req'[p].s].st = "live"
                        /\ At(p, "number")' => req'[p].serial = 0
                        /\ At(p, "insert")' => req'[p].serial = sess'[req'[p].s].counter + 1
      BY DEF NumberIsNext
    <2>1. /\ sess[req[p].s].st = "live"
          /\ At(p, "number") => req[p].serial = 0
          /\ At(p, "insert") => req[p].serial = sess[req[p].s].counter + 1
      BY <1>1 DEF NumberInv, NumberIsNext
    <2> QED BY <1>1, <2>1 DEF SessKept
  <1>3. OneNumbers'
    BY <1>1 DEF NumberInv, OneNumbers, Logs
  <1>4. \A s \in Sessions : Sent(s)' = Sent(s) /\ Numbers(s)' = Numbers(s)
    BY DEF Sent, Logged, Numbers
  <1>5. Gapless' /\ NewIsEmpty'
    BY <1>4 DEF NumberInv, Gapless, NewIsEmpty, SessKept
  <1>6. SeenInUse' /\ CheckHolds' /\ ScoresOnce'
    BY <1>1 DEF ScoreInv, SeenInUse, InUse, CheckHolds, ScoresOnce, Scored
  <1> QED BY <1>2, <1>3, <1>5, <1>6 DEF NumberInv, ScoreInv

LEMMA ContestKeeps ==
    ASSUME TypeOK, NumberInv, ScoreInv, NEW p \in Procs, CreateContest(p) \/ UpdateContest(p)
    PROVE  TypeOK' /\ NumberInv' /\ ScoreInv'
  <1>1. /\ req' \in [Procs -> Reqs] /\ served' \in Nat
        /\ req'[p].pc = "idle" /\ \A o \in Procs \ {p} : req'[o] = req[o]
    BY EndType DEF CreateContest, UpdateContest, TypeOK
  <1>2. PICK s \in Sessions, x \in Templates :
            \/ /\ sess[s].st = "none"
               /\ sess' = [sess EXCEPT ![s] = CreateContestSession(x)]
            \/ /\ sess[s].st = "live"
               /\ sess' = [sess EXCEPT ![s] = UpdateContestSession(sess[s], x)]
    BY DEF CreateContest, UpdateContest, ContestSessionFound
  <1>3. sess[s] \in SessionRows /\ (sess[s].st = "none" => sess[s].counter = 0)
    BY DEF TypeOK, NumberInv, NewIsEmpty
  <1>4. \E new \in SessionRows : /\ sess' = [sess EXCEPT ![s] = new]
                                 /\ new.st = "live" /\ new.counter = sess[s].counter
    BY <1>2, <1>3 DEF CreateContestSession, UpdateContestSession, NoSession, SessionRows, Templates
  <1>5. sess' \in [Sessions -> SessionRows] /\ SessKept
    BY <1>4 DEF TypeOK, SessKept
  <1>6. UNCHANGED <<rows, qso, act, given>>
    BY DEF CreateContest, UpdateContest
  <1>7. TypeOK'
    BY <1>1, <1>5, <1>6 DEF TypeOK
  <1>8. \A o \in Procs : req'[o] = req[o] \/ ~Logs(o)'
    BY <1>1 DEF Logs, At
  <1> QED BY <1>5, <1>6, <1>7, <1>8, QuietKeeps

LEMMA SameContacts ==
    ASSUME Gapless, NewIsEmpty, ScoresOnce, UNCHANGED <<sess, qso>>
    PROVE  Gapless' /\ NewIsEmpty' /\ ScoresOnce'
  <1>1. \A s \in Sessions : Sent(s)' = Sent(s) /\ Numbers(s)' = Numbers(s)
    BY DEF Sent, Logged, Numbers
  <1>2. Gapless' /\ NewIsEmpty'
    BY <1>1 DEF Gapless, NewIsEmpty
  <1>3. ScoresOnce'
    BY DEF ScoresOnce, Scored
  <1> QED BY <1>2, <1>3

LEMMA LogQSOKeeps ==
    ASSUME TypeOK, NumberInv, ScoreInv, NEW p \in Procs, LogQSO(p)
    PROVE  TypeOK' /\ NumberInv' /\ ScoreInv'
  <1>1. PICK s \in Sessions, c \in Slots, b \in BOOLEAN :
            /\ sess[s].st = "live"
            /\ Begin(p, [pc |-> "number", s |-> s, slot |-> c, serial |-> 0,
                         template |-> sess[s].template, padded |-> b,
                         dupe |-> CheckDupe(s, c, b), seen |-> LiveQsos])
    BY DEF LogQSO, ContestSessionFound
  <1>2. PICK d \in BOOLEAN : d = CheckDupe(s, c, b)
    BY Zenon DEF CheckDupe
  <1>3. PICK R : R = [pc |-> "number", s |-> s, slot |-> c, serial |-> 0,
                      template |-> sess[s].template, padded |-> b, dupe |-> d,
                      seen |-> LiveQsos]
    OBVIOUS
  <1>4. R \in LogReqs /\ R \in Reqs
    <2>1. sess[s].template \in Templates /\ LiveQsos \in SUBSET Qsos
      BY DEF TypeOK, SessionRows, LiveQsos
    <2> QED BY <1>3, <2>1 DEF LogReqs, Reqs
  <1>5. Begin(p, R)
    BY <1>1, <1>2, <1>3, Zenon
  <1>6. /\ req' \in [Procs -> Reqs] /\ served' \in Nat
        /\ req'[p] = R /\ \A o \in Procs \ {p} : req'[o] = req[o]
    BY <1>4, <1>5, BeginType DEF TypeOK
  <1>7. UNCHANGED <<rows, sess, qso, act, given>>
    BY DEF LogQSO
  <1>8. TypeOK'
    BY <1>6, <1>7 DEF TypeOK
  <1>9. \A o \in Procs : req'[o] = req[o] \/ (o = p /\ req'[o] = R)
    BY <1>6
  <1>10. /\ R.pc = "number" /\ R.s = s /\ R.slot = c /\ R.serial = 0
         /\ R.padded = b /\ R.dupe = d /\ R.seen = LiveQsos
    BY <1>3
  <1>11. NumberIsNext' /\ OneNumbers'
    BY <1>1, <1>7, <1>9, <1>10 DEF NumberInv, NumberIsNext, OneNumbers, Logs, At
  <1>12. Gapless' /\ NewIsEmpty' /\ ScoresOnce'
    BY <1>7, SameContacts DEF NumberInv, ScoreInv
  <1>13. SeenInUse'
    BY <1>7, <1>9, <1>10 DEF ScoreInv, SeenInUse, InUse, LiveQsos, Logs, At
  <1>14. d = FALSE /\ b = FALSE => \A q \in LiveQsos : ~Scored(q, s, c)
    BY <1>2 DEF CheckDupe, Logged, LiveQsos, Scored
  <1>15. CheckHolds'
    <2> SUFFICES ASSUME NEW o \in Procs, Logs(o)', ~req'[o].dupe, ~req'[o].padded,
                        NEW q \in req'[o].seen, Scored(q, req[o].s, req[o].slot)'
                 PROVE  qso'[q].edited
      BY DEF CheckHolds
    <2>1. CASE req'[o] = R
      BY <1>7, <1>10, <1>14, <2>1 DEF Scored
    <2>2. CASE req'[o] = req[o]
      BY <1>7, <2>2 DEF ScoreInv, CheckHolds, Scored, Logs, At
    <2> QED BY <1>9, <2>1, <2>2
  <1> QED BY <1>8, <1>11, <1>12, <1>13, <1>15 DEF NumberInv, ScoreInv

\* The number is the next one, and nobody else has taken it: the session's
\* row is free.
LEMMA IncrementKeeps ==
    ASSUME TypeOK, NumberInv, ScoreInv, NEW p \in Procs, IncrementSerialCounter(p)
    PROVE  TypeOK' /\ NumberInv' /\ ScoreInv'
  <1>1. At(p, "number") /\ req[p] \in LogReqs /\ req[p].s \in Sessions
    BY ReqForms DEF IncrementSerialCounter, Logs, TypeOK, LogReqs
  <1>2. PICK n \in Nat : n = sess[req[p].s].counter + 1
    BY <1>1 DEF TypeOK, SessionRows
  <1>3. PICK R : R = [req[p] EXCEPT !.pc = "insert", !.serial = n]
    OBVIOUS
  <1>4. /\ R \in Reqs /\ R.pc = "insert" /\ R.serial = n
        /\ R.s = req[p].s /\ R.slot = req[p].slot /\ R.dupe = req[p].dupe
        /\ R.padded = req[p].padded /\ R.seen = req[p].seen
    BY <1>1, <1>3 DEF LogReqs, Reqs
  <1>5. Goto(p, R) /\ UNCHANGED <<rows, sess, qso, act, given>>
    BY <1>2, <1>3 DEF IncrementSerialCounter
  <1>6. /\ req' \in [Procs -> Reqs] /\ served' \in Nat
        /\ req'[p] = R /\ \A o \in Procs \ {p} : req'[o] = req[o]
    BY <1>4, <1>5, BeginType DEF TypeOK
  <1>7. TypeOK'
    BY <1>5, <1>6 DEF TypeOK
  <1>8. NumberIsNext'
    BY <1>1, <1>2, <1>4, <1>5, <1>6 DEF NumberInv, NumberIsNext, Logs, At
  <1>9. OneNumbers'
    <2>1. \A o \in Procs \ {p} : ~(At(o, "insert") /\ req[o].s = R.s)
      BY <1>4 DEF IncrementSerialCounter, ContestRowFree
    <2> QED BY <1>6, <2>1 DEF NumberInv, OneNumbers, At
  <1>10. Gapless' /\ NewIsEmpty' /\ ScoresOnce'
    BY <1>5, SameContacts DEF NumberInv, ScoreInv
  <1>11. SeenInUse' /\ CheckHolds'
    BY <1>1, <1>4, <1>5, <1>6 DEF ScoreInv, SeenInUse, CheckHolds, InUse, Scored, Logs, At
  <1> QED BY <1>7, <1>8, <1>9, <1>10, <1>11 DEF NumberInv, ScoreInv

\* The contact that InsertContestQSO writes.
LEMMA ContestRow ==
    ASSUME NEW R \in LogReqs
    PROVE  LET N == WithExchange(ContestQSO(R), R) IN
              /\ N \in QsoRows /\ N.st = "live" /\ N.sess = R.s /\ N.slot = R.slot
              /\ N.serial = R.serial /\ N.dupe = R.dupe /\ N.padded = R.padded /\ N.seen = R.seen
  BY DEF WithExchange, ContestQSO, NoQso, QsoRows, LogReqs

LEMMA InsertKeeps ==
    ASSUME TypeOK, NumberInv, ScoreInv, NEW p \in Procs, InsertContestQSO(p)
    PROVE  TypeOK' /\ NumberInv' /\ ScoreInv'
  <1>1. /\ Logs(p) /\ req[p] \in LogReqs
        /\ UNCHANGED <<rows, act, given>>
    BY ReqForms DEF InsertContestQSO, Logs, TypeOK
  <1>2. PICK s \in Sessions, n \in Nat, c \in Slots, d \in BOOLEAN, b \in BOOLEAN,
             seen \in SUBSET Qsos :
            /\ s = req[p].s /\ n = req[p].serial /\ c = req[p].slot /\ d = req[p].dupe
            /\ b = req[p].padded /\ seen = req[p].seen
    BY <1>1 DEF LogReqs
  <1>3. PICK q \in Qsos : /\ qso[q].st = "none"
                          /\ qso' = [qso EXCEPT ![q] = WithExchange(ContestQSO(req[p]), req[p])]
    BY DEF InsertContestQSO, NextQso
  <1>4. PICK N \in QsoRows :
            /\ N = WithExchange(ContestQSO(req[p]), req[p])
            /\ N.st = "live" /\ N.sess = s /\ N.slot = c
            /\ N.serial = n /\ N.dupe = d /\ N.padded = b /\ N.seen = seen
    BY <1>1, <1>2, ContestRow
  <1>5. /\ qso' \in [Qsos -> QsoRows] /\ qso'[q] = N
        /\ \A x \in Qsos \ {q} : qso'[x] = qso[x]
    BY <1>3, <1>4 DEF TypeOK
  <1>6. /\ req' \in [Procs -> Reqs] /\ served' \in Nat
        /\ req'[p].pc = "idle" /\ \A o \in Procs \ {p} : req'[o] = req[o]
    BY EndType DEF InsertContestQSO, TypeOK
  <1>7. /\ sess' \in [Sessions -> SessionRows]
        /\ sess'[s].st = sess[s].st
        /\ sess'[s].counter = IF n = 0 THEN sess[s].counter ELSE n
        /\ \A x \in Sessions \ {s} : sess'[x] = sess[x]
    <2>1. sess' = [sess EXCEPT ![s].counter = IF n = 0 THEN sess[s].counter ELSE n]
      BY <1>2 DEF InsertContestQSO, AfterIncrement
    <2> QED BY <2>1 DEF TypeOK, SessionRows
  <1>8. TypeOK'
    BY <1>1, <1>5, <1>6, <1>7 DEF TypeOK
  <1>9. /\ sess[s].st = "live" /\ sess[s].counter \in Nat
        /\ n = 0 \/ (At(p, "insert") /\ n = sess[s].counter + 1)
    BY <1>1, <1>2 DEF NumberInv, NumberIsNext, Logs, TypeOK, SessionRows
  <1>10. \A o \in Procs : Logs(o)' =>
            /\ o # p /\ Logs(o) /\ req'[o] = req[o] /\ req[o].s \in Sessions
            /\ At(o, "number")' = At(o, "number") /\ At(o, "insert")' = At(o, "insert")
    BY <1>6, ReqForms DEF Logs, At, LogReqs, TypeOK
  <1>11. NumberIsNext'
    <2> SUFFICES ASSUME NEW o \in Procs, Logs(o)'
                 PROVE  /\ sess'[req'[o].s].st = "live"
                        /\ At(o, "number")' => req'[o].serial = 0
                        /\ At(o, "insert")' => req'[o].serial = sess'[req'[o].s].counter + 1
      BY DEF NumberIsNext
    <2>1. /\ sess[req[o].s].st = "live"
          /\ At(o, "number") => req[o].serial = 0
          /\ At(o, "insert") => req[o].serial = sess[req[o].s].counter + 1
      BY <1>10 DEF NumberInv, NumberIsNext
    <2>2. CASE req[o].s # s
      BY <1>7, <1>10, <2>1, <2>2
    <2>3. CASE req[o].s = s
      <3>1. At(o, "insert") => n = 0
        BY <1>2, <1>9, <1>10, <2>3 DEF NumberInv, OneNumbers
      <3> QED BY <1>7, <1>10, <2>1, <2>3, <3>1
    <2> QED BY <2>2, <2>3
  <1>12. OneNumbers'
    BY <1>10 DEF NumberInv, OneNumbers, Logs
  <1>13. NewIsEmpty'
    BY <1>7, <1>9 DEF NumberInv, NewIsEmpty
  <1>14. \A x \in Sessions : q \notin Sent(x)
    BY <1>3 DEF Sent, Logged
  <1>15. ASSUME NEW x \in Sessions, x # s \/ n = 0
         PROVE  Sent(x)' = Sent(x) /\ Numbers(x)' = Numbers(x)
    <2>1. \A y \in Qsos : y \in Sent(x)' <=> y \in Sent(x)
      BY <1>4, <1>5, <1>14, <1>15 DEF Sent, Logged
    <2>2. Sent(x)' = Sent(x)
      BY <2>1 DEF Sent, Logged
    <2>3. \A y \in Sent(x) : qso'[y].serial = qso[y].serial
      BY <1>5, <1>14 DEF Sent, Logged
    <2> QED BY <2>2, <2>3 DEF Numbers
  <1>16. ASSUME n # 0 PROVE Gapless'
    <2>1. Sent(s)' = Sent(s) \cup {q}
      <3>1. \A y \in Qsos : y \in Sent(s)' <=> y \in Sent(s) \cup {q}
        BY <1>4, <1>5, <1>14, <1>16 DEF Sent, Logged
      <3> QED BY <3>1 DEF Sent, Logged
    <2>2. IsFiniteSet(Sent(s)') /\ Cardinality(Sent(s)') = sess[s].counter + 1
      <3>1. IsFiniteSet(Sent(s)) /\ Cardinality(Sent(s)) = sess[s].counter
        BY DEF NumberInv, Gapless
      <3> QED BY <1>14, <2>1, <3>1, FS_AddElement
    <2>3. Numbers(s)' = Numbers(s) \cup {n}
      <3>1. \A y \in Sent(s) : qso'[y].serial = qso[y].serial
        BY <1>5, <1>14 DEF Sent, Logged
      <3> QED BY <1>4, <1>5, <2>1, <3>1 DEF Numbers
    <2>4. Numbers(s)' = 1 .. n
      <3>1. Numbers(s) = 1 .. sess[s].counter
        BY DEF NumberInv, Gapless
      <3> QED BY <1>9, <1>16, <2>3, <3>1
    <2> QED BY <1>7, <1>9, <1>15, <1>16, <2>2, <2>4 DEF NumberInv, Gapless
  <1>17. ASSUME n = 0 PROVE Gapless'
    BY <1>7, <1>15, <1>17 DEF NumberInv, Gapless
  <1>18. q \notin seen /\ seen \subseteq InUse /\ \A x \in Qsos : q \notin qso[x].seen
    BY <1>1, <1>2, <1>3 DEF ScoreInv, SeenInUse, InUse
  <1>19. SeenInUse'
    <2>1. InUse \subseteq InUse'
      BY <1>4, <1>5 DEF InUse
    <2> QED BY <1>4, <1>5, <1>10, <1>18, <2>1 DEF ScoreInv, SeenInUse
  <1>20. CheckHolds'
    BY <1>3, <1>5, <1>10 DEF ScoreInv, CheckHolds, SeenInUse, InUse, Scored
  <1>21. d = FALSE /\ b = FALSE => \A x \in seen : Scored(x, s, c) => qso[x].edited
    BY <1>1, <1>2 DEF ScoreInv, CheckHolds
  <1>22. ScoresOnce'
    <2> SUFFICES ASSUME NEW x \in Sessions, NEW q1 \in Qsos, NEW q2 \in Qsos,
                        Scored(q1, x, qso[q2].slot)', Scored(q2, x, qso[q2].slot)',
                        q1 \in qso'[q2].seen
                 PROVE  qso'[q1].edited \/ qso'[q2].edited \/ qso'[q2].padded
      BY DEF ScoresOnce
    <2>1. CASE q2 = q
      <3>1. q1 \in seen /\ q1 # q
        BY <1>4, <1>5, <1>18, <2>1
      <3>2. x = s /\ d = FALSE /\ Scored(q1, s, c)
        BY <1>4, <1>5, <2>1, <3>1 DEF Scored
      <3> QED BY <1>4, <1>5, <1>21, <2>1, <3>1, <3>2
    <2>2. CASE q2 # q
      <3>1. q1 # q
        BY <1>5, <1>18, <2>2
      <3> QED BY <1>5, <2>2, <3>1 DEF ScoreInv, ScoresOnce, Scored
    <2> QED BY <2>1, <2>2
  <1> QED BY <1>8, <1>11, <1>12, <1>13, <1>16, <1>17, <1>19, <1>20, <1>22 DEF NumberInv, ScoreInv

-----------------------------------------------------------------------------
(* The contacts that an import adds and the QSO handler changes. *)

\* A contact that is new has no number, one that is edited says so, and one
\* that is deleted counts no more.
Moves(old, new) ==
    \/ old.st = "none" /\ new.st = "live" /\ new.serial = 0 /\ new.seen = {}
    \/ /\ old.st = "live" /\ new.st = "live" /\ new.edited
       /\ new.sess = old.sess /\ new.serial = old.serial /\ new.dupe = old.dupe
       /\ new.padded = old.padded /\ new.seen = old.seen
    \/ /\ old.st = "live" /\ new.st = "deleted" /\ new.sess = old.sess
       /\ new.serial = old.serial /\ new.seen = old.seen

LEMMA QSOForms ==
    ASSUME TypeOK, NEW p \in Procs, ImportQSO(p) \/ PatchQSO(p) \/ DeleteQSO(p)
    PROVE  \E q \in Qsos, new \in QsoRows : qso' = [qso EXCEPT ![q] = new] /\ Moves(qso[q], new)
  <1>1. CASE ImportQSO(p)
    <2>1. PICK q \in NextQso, c \in Slots, x \in Refs, g \in BOOLEAN :
            qso' = [qso EXCEPT ![q] = [NoQso EXCEPT !.st = "live", !.slot = c,
                                                    !.ref = x, !.grid = g]]
      BY <1>1 DEF ImportQSO
    <2>4. q \in Qsos /\ qso[q].st = "none"
      BY DEF NextQso
    <2>2. PICK new : new = [NoQso EXCEPT !.st = "live", !.slot = c, !.ref = x, !.grid = g]
      OBVIOUS
    <2>3. new \in QsoRows /\ new.st = "live" /\ new.serial = 0 /\ new.seen = {}
      BY <2>2 DEF NoQso, QsoRows
    <2> QED BY <2>1, <2>2, <2>3, <2>4 DEF Moves
  <1>2. CASE PatchQSO(p)
    <2>1. PICK q \in Qsos, c \in Slots, g \in BOOLEAN :
            /\ qso[q].st = "live"
            /\ qso' = [qso EXCEPT ![q].slot = c, ![q].grid = g, ![q].edited = TRUE]
      BY <1>2 DEF PatchQSO, LiveQsos
    <2>2. PICK new : new = [qso[q] EXCEPT !.slot = c, !.grid = g, !.edited = TRUE]
      OBVIOUS
    <2>3. qso[q] \in QsoRows
      BY DEF TypeOK
    <2>4. /\ new \in QsoRows /\ new.st = "live" /\ new.edited = TRUE
          /\ new.sess = qso[q].sess /\ new.serial = qso[q].serial /\ new.dupe = qso[q].dupe
          /\ new.padded = qso[q].padded /\ new.seen = qso[q].seen
      BY <2>1, <2>2, <2>3 DEF QsoRows
    <2>5. qso' = [qso EXCEPT ![q] = new]
      BY <2>1, <2>2 DEF TypeOK
    <2> QED BY <2>1, <2>4, <2>5 DEF Moves
  <1>3. CASE DeleteQSO(p)
    <2>1. PICK q \in Qsos : qso[q].st = "live" /\ qso' = [qso EXCEPT ![q].st = "deleted"]
      BY <1>3 DEF DeleteQSO, LiveQsos
    <2>2. PICK new : new = [qso[q] EXCEPT !.st = "deleted"]
      OBVIOUS
    <2>3. qso[q] \in QsoRows
      BY DEF TypeOK
    <2>4. /\ new \in QsoRows /\ new.st = "deleted" /\ new.sess = qso[q].sess
          /\ new.serial = qso[q].serial /\ new.seen = qso[q].seen
      BY <2>2, <2>3 DEF QsoRows
    <2>5. qso' = [qso EXCEPT ![q] = new]
      BY <2>1, <2>2 DEF TypeOK
    <2> QED BY <2>1, <2>4, <2>5 DEF Moves
  <1> QED BY <1>1, <1>2, <1>3

LEMMA QSOKeeps ==
    ASSUME TypeOK, NumberInv, ScoreInv, NEW p \in Procs,
           ImportQSO(p) \/ PatchQSO(p) \/ DeleteQSO(p)
    PROVE  TypeOK' /\ NumberInv' /\ ScoreInv'
  <1>1. /\ req' \in [Procs -> Reqs] /\ served' \in Nat
        /\ req'[p].pc = "idle" /\ \A o \in Procs \ {p} : req'[o] = req[o]
    BY EndType DEF ImportQSO, PatchQSO, DeleteQSO, TypeOK
  <1>2. UNCHANGED <<rows, sess, act, given>>
    BY DEF ImportQSO, PatchQSO, DeleteQSO
  <1>3. PICK q \in Qsos, new \in QsoRows :
            qso' = [qso EXCEPT ![q] = new] /\ Moves(qso[q], new)
    BY QSOForms
  <1>4. /\ qso' \in [Qsos -> QsoRows] /\ qso'[q] = new
        /\ \A x \in Qsos \ {q} : qso'[x] = qso[x]
    BY <1>3 DEF TypeOK
  <1>5. TypeOK'
    BY <1>1, <1>2, <1>4 DEF TypeOK
  <1>6. \A o \in Procs : Logs(o)' =>
            /\ Logs(o) /\ req'[o] = req[o]
            /\ At(o, "number")' = At(o, "number") /\ At(o, "insert")' = At(o, "insert")
    BY <1>1 DEF Logs, At
  <1>7. NumberIsNext' /\ OneNumbers' /\ NewIsEmpty'
    BY <1>2, <1>6 DEF NumberInv, NumberIsNext, OneNumbers, NewIsEmpty, Logs
  <1>8. \A x \in Sessions : Sent(x)' = Sent(x) /\ Numbers(x)' = Numbers(x)
    <2> TAKE x \in Sessions
    <2>1. \A y \in Qsos : y \in Sent(x)' <=> y \in Sent(x)
      BY <1>3, <1>4 DEF Sent, Logged, Moves
    <2>2. Sent(x)' = Sent(x)
      BY <2>1 DEF Sent, Logged
    <2>3. \A y \in Sent(x) : qso'[y].serial = qso[y].serial
      BY <1>3, <1>4 DEF Sent, Logged, Moves
    <2> QED BY <2>2, <2>3 DEF Numbers
  <1>9. Gapless'
    BY <1>2, <1>8 DEF NumberInv, Gapless
  <1>10. InUse \subseteq InUse'
    BY <1>3, <1>4 DEF InUse, Moves
  <1>11. SeenInUse'
    <2>1. \A x \in Qsos : qso'[x].seen \subseteq qso[x].seen
      BY <1>3, <1>4 DEF Moves
    <2> QED BY <1>6, <1>10, <2>1 DEF ScoreInv, SeenInUse
  \* What counts now did so before, or is edited, or is a new contact.
  <1>12. \A x \in Qsos, y \in Sessions \cup {None}, c \in Slots \cup {None} : Scored(x, y, c)' =>
            \/ Scored(x, y, c) /\ qso'[x] = qso[x]
            \/ qso'[x].edited
            \/ qso[x].st = "none" /\ qso'[x].seen = {}
    BY <1>3, <1>4 DEF Scored, Moves
  <1>13. CheckHolds'
    <2> SUFFICES ASSUME NEW o \in Procs, Logs(o)', ~req'[o].dupe, ~req'[o].padded,
                        NEW x \in req'[o].seen, Scored(x, req[o].s, req[o].slot)'
                 PROVE  qso'[x].edited
      BY DEF CheckHolds
    <2>1. /\ Logs(o) /\ req'[o] = req[o] /\ req[o] \in LogReqs
          /\ x \in InUse /\ x \in Qsos
      BY <1>6, ReqForms DEF ScoreInv, SeenInUse, InUse, TypeOK
    <2>2. Scored(x, req[o].s, req[o].slot) => qso[x].edited
      BY <2>1 DEF ScoreInv, CheckHolds
    <2>3. req[o].s \in Sessions /\ req[o].slot \in Slots
      BY <2>1 DEF LogReqs
    <2>4. PICK y \in Sessions, c \in Slots : y = req[o].s /\ c = req[o].slot
      BY <2>3
    <2>5. Scored(x, y, c)'
      BY <2>1, <2>4 DEF Scored
    <2> QED BY <1>12, <2>1, <2>2, <2>4, <2>5 DEF InUse
  <1>14. ScoresOnce'
    <2> SUFFICES ASSUME NEW y \in Sessions, NEW q1 \in Qsos, NEW q2 \in Qsos,
                        Scored(q1, y, qso[q2].slot)', Scored(q2, y, qso[q2].slot)',
                        q1 \in qso'[q2].seen
                 PROVE  qso'[q1].edited \/ qso'[q2].edited \/ qso'[q2].padded
      BY DEF ScoresOnce
    <2>1. PICK c \in Slots \cup {None} : c = qso'[q2].slot
      BY <1>4 DEF QsoRows
    <2>2. Scored(q1, y, c)' /\ Scored(q2, y, c)'
      BY <2>1 DEF Scored
    <2>3. q1 \in qso[q2].seen => qso[q1].st # "none"
      BY DEF ScoreInv, SeenInUse, InUse
    <2>4. CASE qso'[q2] = qso[q2] /\ qso'[q1] = qso[q1]
      BY <2>1, <2>4 DEF ScoreInv, ScoresOnce, Scored
    <2> QED BY <1>12, <2>2, <2>3, <2>4
  <1> QED BY <1>5, <1>7, <1>9, <1>11, <1>13, <1>14 DEF NumberInv, ScoreInv

-----------------------------------------------------------------------------
(* Activations. *)

ActStep(p) ==
    /\ UNCHANGED <<rows, sess, qso, given>>
    /\ ~Logs(p)' /\ \A o \in Procs \ {p} : req'[o] = req[o]

LEMMA CreateActKeeps ==
    ASSUME TypeOK, NEW p \in Procs, CreatePOTA(p) \/ CreateSOTA(p)
    PROVE  TypeOK' /\ ActStep(p)
  <1>1. PICK prog \in {"POTA", "SOTA"} : CreateActivation(p, prog)
    BY DEF CreatePOTA, CreateSOTA
  <1>2. PICK a \in Acts, l \in Rows \cup {None}, x \in Refs :
            act' = [act EXCEPT ![a] = InsertedActivation(prog, l, x)]
    BY <1>1 DEF CreateActivation, ListStationLocations, Listed
  <1>3. InsertedActivation(prog, l, x) \in ActRows
    BY DEF InsertedActivation, NoAct, ActRows, Statuses
  <1>4. act' \in [Acts -> ActRows]
    BY <1>2, <1>3 DEF TypeOK
  <1>5. /\ req' \in [Procs -> Reqs] /\ served' \in Nat
        /\ req'[p].pc = "idle" /\ \A o \in Procs \ {p} : req'[o] = req[o]
    BY <1>1, EndType DEF CreateActivation, TypeOK
  <1>6. UNCHANGED <<rows, sess, qso, given>>
    BY <1>1 DEF CreateActivation
  <1> QED BY <1>4, <1>5, <1>6 DEF TypeOK, ActStep, Logs, At

LEMMA UpdateActKeeps ==
    ASSUME TypeOK, NEW p \in Procs, UpdatePOTA(p) \/ UpdateSOTA(p)
    PROVE  TypeOK' /\ ActStep(p)
  <1>1. PICK prog \in {"POTA", "SOTA"} : UpdateActivation(p, prog)
    BY DEF UpdatePOTA, UpdateSOTA
  <1>2. PICK a \in Acts, st \in Statuses \cup {Keep}, l \in Rows \cup {None, Keep},
             x \in Refs \cup {Keep} :
            Begin(p, [pc |-> "act", a |-> a, old |-> act[a],
                      status |-> st, loc |-> l, ref |-> x])
    BY <1>1 DEF UpdateActivation, ListStationLocations, Listed
  <1>3. PICK R : R = [pc |-> "act", a |-> a, old |-> act[a], status |-> st, loc |-> l, ref |-> x]
    OBVIOUS
  <1>4. R \in Reqs /\ R.pc = "act"
    BY <1>3 DEF Reqs, ActReqs, TypeOK
  <1>5. /\ req' \in [Procs -> Reqs] /\ served' \in Nat
        /\ req'[p] = R /\ \A o \in Procs \ {p} : req'[o] = req[o]
    BY <1>2, <1>3, <1>4, BeginType DEF TypeOK
  <1>6. UNCHANGED <<rows, sess, qso, act, given>>
    BY <1>1 DEF UpdateActivation
  <1> QED BY <1>4, <1>5, <1>6 DEF TypeOK, ActStep, Logs, At

LEMMA WriteActKeeps ==
    ASSUME TypeOK, NEW p \in Procs, WriteActivation(p)
    PROVE  TypeOK' /\ ActStep(p)
  <1>1. req[p] \in ActReqs
    BY ReqForms DEF WriteActivation, TypeOK
  <1>2. PICK a \in Acts, old \in ActRows, st \in Statuses \cup {Keep},
             l \in Rows \cup {None, Keep}, x \in Refs \cup {Keep} :
            /\ a = req[p].a /\ old = req[p].old /\ st = req[p].status
            /\ l = req[p].loc /\ x = req[p].ref
    BY <1>1 DEF ActReqs
  <1>3. PICK st2 \in Statuses : st2 = ParseActivationStatus(st, old.status)
    BY DEF ParseActivationStatus, ActRows
  <1>4. PICK l2 \in Rows \cup {None} : l2 = ResolveStationLocation(l, old.loc)
    BY DEF ResolveStationLocation, ActRows
  <1>5. PICK x2 \in Refs \cup {None} : x2 = NewReference(x, old.ref)
    BY DEF NewReference, ActRows
  <1>6. act' = [act EXCEPT ![a].status = st2, ![a].loc = l2, ![a].ref = x2]
    BY <1>2, <1>3, <1>4, <1>5 DEF WriteActivation
  <1>7. act' \in [Acts -> ActRows]
    <2>1. PICK new : new = [act[a] EXCEPT !.status = st2, !.loc = l2, !.ref = x2]
      OBVIOUS
    <2>2. act[a] \in ActRows
      BY DEF TypeOK
    <2>3. new \in ActRows
      BY <2>1, <2>2 DEF ActRows
    <2>4. act' = [act EXCEPT ![a] = new]
      BY <1>6, <2>1 DEF TypeOK
    <2> QED BY <2>3, <2>4 DEF TypeOK
  <1>8. /\ req' \in [Procs -> Reqs] /\ served' \in Nat
        /\ req'[p].pc = "idle" /\ \A o \in Procs \ {p} : req'[o] = req[o]
    BY EndType DEF WriteActivation, TypeOK
  <1>9. UNCHANGED <<rows, sess, qso, given>>
    BY DEF WriteActivation
  <1> QED BY <1>7, <1>8, <1>9 DEF TypeOK, ActStep, Logs, At

\* An export first computes the status, ...
LEMMA ExportReq ==
    ASSUME TypeOK, NEW p \in Procs, ExportStatus(p)
    PROVE  \E R \in ExportReqs :
              /\ Begin(p, R) /\ R.old = act[R.a] /\ act[R.a].program = "POTA"
              /\ R.ready = POTAStatus(R.a)
              /\ R.counted = [q \in ActivationQSOs(R.a) |-> qso[q]]
  <1>1. PICK a \in Acts :
            /\ act[a].program = "POTA"
            /\ Begin(p, [pc |-> "export", a |-> a, old |-> act[a], ready |-> POTAStatus(a),
                         counted |-> [q \in ActivationQSOs(a) |-> qso[q]]])
    BY DEF ExportStatus, ActivationFound
  <1>2. PICK b \in BOOLEAN : b = POTAStatus(a)
    BY Zenon DEF POTAStatus, ActivationFound, ComputeActivationValidation
  <1>3. PICK f : f = [q \in ActivationQSOs(a) |-> qso[q]]
    OBVIOUS
  <1>4. ActivationQSOs(a) \in SUBSET Qsos /\ f \in [ActivationQSOs(a) -> QsoRows]
    BY <1>3 DEF ActivationQSOs, LiveQsos, TypeOK
  <1>5. f \in UNION {[D -> QsoRows] : D \in SUBSET Qsos}
    BY <1>4
  <1>6. PICK R : R = [pc |-> "export", a |-> a, old |-> act[a], ready |-> b, counted |-> f]
    OBVIOUS
  <1>7. act[a] \in ActRows
    BY DEF TypeOK
  <1>8. /\ R \in ExportReqs
        /\ R.a = a /\ R.old = act[a] /\ R.ready = b /\ R.counted = f
    BY <1>5, <1>6, <1>7 DEF ExportReqs
  <1>9. Begin(p, R)
    BY <1>1, <1>2, <1>3, <1>6, Zenon
  <1> QED BY <1>1, <1>2, <1>3, <1>8, <1>9

LEMMA ExportKeeps ==
    ASSUME TypeOK, NEW p \in Procs, ExportStatus(p) \/ POTAExport(p)
    PROVE  TypeOK' /\ ActStep(p)
  <1>1. UNCHANGED <<rows, sess, qso, act, given>>
    BY DEF ExportStatus, POTAExport
  <1>2. /\ req' \in [Procs -> Reqs] /\ served' \in Nat
        /\ req'[p].pc \in {"idle", "export"} /\ \A o \in Procs \ {p} : req'[o] = req[o]
    <2>1. CASE ExportStatus(p)
      <3>1. PICK R \in ExportReqs : Begin(p, R)
        BY <2>1, ExportReq
      <3>2. R \in Reqs /\ R.pc = "export"
        BY DEF Reqs, ExportReqs
      <3> QED BY <3>1, <3>2, BeginType DEF TypeOK
    <2>2. CASE POTAExport(p)
      BY <2>2, EndType DEF POTAExport, TypeOK
    <2> QED BY <2>1, <2>2
  <1> QED BY <1>1, <1>2 DEF TypeOK, ActStep, Logs, At

\* ... and what it counted are the stations of the contacts it found.
LEMMA ExportCounts ==
    ASSUME TypeOK, ReadyCounted, NEW p \in Procs, ExportStatus(p)
    PROVE  ReadyCounted'
  <1>1. PICK R \in ExportReqs :
            /\ Begin(p, R) /\ R.old = act[R.a] /\ act[R.a].program = "POTA"
            /\ R.ready = POTAStatus(R.a)
            /\ R.counted = [q \in ActivationQSOs(R.a) |-> qso[q]]
    BY ExportReq
  <1>2. R \in Reqs
    BY DEF Reqs
  <1>3. req'[p] = R /\ \A o \in Procs \ {p} : req'[o] = req[o]
    BY <1>1, <1>2, BeginType DEF TypeOK
  <1>4. DOMAIN R.counted = ActivationQSOs(R.a) /\ \A q \in ActivationQSOs(R.a) : R.counted[q] = qso[q]
    BY <1>1
  <1>5. CountedCalls(R) = {CallOf[qso[q].slot] : q \in ActivationQSOs(R.a)}
    BY <1>4 DEF CountedCalls
  <1>6. ASSUME R.ready, R.old.status # "submitted"
        PROVE  /\ Cardinality(CountedCalls(R)) >= Minimum["POTA"]
               /\ \A q \in DOMAIN R.counted : /\ R.counted[q].st = "live"
                                              /\ R.counted[q].ref = R.old.ref
    <2>1. ActivationStatus(R.a).unique >= Minimum["POTA"]
      <3>1. POTAStatus(R.a)
        BY <1>1, <1>6, Zenon
      <3> QED BY <1>1, <1>6, <3>1 DEF POTAStatus, ComputeActivationValidation
    <2>2. ActivationStatus(R.a).unique = Cardinality(CountedCalls(R))
      BY <1>5 DEF ActivationStatus, UniqueCallsigns
    <2>3. \A q \in ActivationQSOs(R.a) : qso[q].st = "live" /\ qso[q].ref = R.old.ref
      BY <1>1 DEF ActivationQSOs, LiveQsos
    <2> QED BY <1>4, <2>1, <2>2, <2>3
  <1>7. ASSUME NEW o \in Procs, At(o, "export")',
               req'[o].ready, req'[o].old.status # "submitted"
        PROVE  /\ Cardinality(CountedCalls(req'[o])) >= Minimum["POTA"]
               /\ \A q \in DOMAIN req'[o].counted : /\ req'[o].counted[q].st = "live"
                                                    /\ req'[o].counted[q].ref = req'[o].old.ref
    <2>1. CASE o = p
      BY <1>3, <1>6, <1>7, <2>1
    <2>2. CASE o # p
      BY <1>3, <1>7, <2>2 DEF ReadyCounted, At
    <2> QED BY <2>1, <2>2
  <1> QED BY <1>7 DEF ReadyCounted, CountedCalls

\* No other step begins an export.
LEMMA OtherReqs ==
    ASSUME TypeOK, NEW p \in Procs,
           \/ Rollback(p)
           \/ CreateLocation(p) \/ UpdateLocation(p) \/ DeleteLocation(p)
           \/ CreateCallsign(p) \/ UpdateCallsign(p) \/ DeleteCallsign(p)
           \/ CreateOnAir(p) \/ UpdateOnAir(p) \/ DeleteOnAir(p)
           \/ ClearFlags(p) \/ WriteFlag(p)
           \/ CreateContest(p) \/ UpdateContest(p)
           \/ LogQSO(p) \/ IncrementSerialCounter(p) \/ InsertContestQSO(p)
           \/ ImportQSO(p) \/ PatchQSO(p) \/ DeleteQSO(p)
           \/ CreatePOTA(p) \/ CreateSOTA(p)
           \/ UpdatePOTA(p) \/ UpdateSOTA(p) \/ WriteActivation(p) \/ POTAExport(p)
    PROVE  \A o \in Procs : req'[o] = req[o] \/ req'[o].pc # "export"
  <1>1. ASSUME NEW r, Begin(p, r) \/ Goto(p, r), r.pc # "export"
        PROVE  \A o \in Procs : req'[o] = req[o] \/ req'[o].pc # "export"
    BY <1>1 DEF Begin, Goto, TypeOK
  <1>2. AtOnce(p) \/ Done(p) => \A o \in Procs : req'[o] = req[o] \/ req'[o].pc # "export"
    BY EndType DEF TypeOK
  <1>3. CASE \/ Rollback(p) \/ WriteFlag(p) \/ CreateContest(p) \/ UpdateContest(p)
             \/ InsertContestQSO(p) \/ ImportQSO(p) \/ PatchQSO(p) \/ DeleteQSO(p)
             \/ CreatePOTA(p) \/ CreateSOTA(p) \/ WriteActivation(p) \/ POTAExport(p)
    BY <1>2, <1>3 DEF Rollback, WriteFlag, CreateContest, UpdateContest, InsertContestQSO,
                      ImportQSO, PatchQSO, DeleteQSO, CreatePOTA, CreateSOTA, CreateActivation,
                      WriteActivation, POTAExport
  <1>4. CASE \/ CreateLocation(p) \/ UpdateLocation(p) \/ DeleteLocation(p)
             \/ CreateCallsign(p) \/ UpdateCallsign(p) \/ DeleteCallsign(p)
             \/ CreateOnAir(p) \/ UpdateOnAir(p) \/ DeleteOnAir(p)
    <2>1. PICK t \in Tables, r \in Rows :
              SetFlag(p, t, r) \/ \E row \in FlagRows : Quits(p, t, r, row)
      BY <1>4, FlagSteps
    <2> QED BY <1>1, <1>2, <2>1 DEF SetFlag, Quits, WriteAtOnce
  <1>5. CASE ClearFlags(p)
    <2>1. req[p] \in FlagReqs
      BY <1>5, ReqForms DEF ClearFlags, TypeOK
    <2>2. PICK r : /\ r = [req[p] EXCEPT !.pc = "write",
                             !.done = req[p].snap \cap Clears(req[p].t, req[p].r)]
                   /\ Goto(p, r)
      BY <1>5 DEF ClearFlags
    <2>3. r.pc = "write"
      BY <2>1, <2>2 DEF FlagReqs
    <2> QED BY <1>1, <2>2, <2>3
  <1>6. CASE LogQSO(p)
    BY <1>1, <1>6 DEF LogQSO
  <1>7. CASE IncrementSerialCounter(p)
    <2>1. req[p] \in LogReqs
      BY <1>7, ReqForms DEF IncrementSerialCounter, Logs, TypeOK
    <2>2. PICK r : /\ r = [req[p] EXCEPT !.pc = "insert",
                                         !.serial = sess[req[p].s].counter + 1]
                   /\ Goto(p, r)
      BY <1>7 DEF IncrementSerialCounter
    <2>3. r.pc = "insert"
      BY <2>1, <2>2 DEF LogReqs
    <2> QED BY <1>1, <2>2, <2>3
  <1>8. CASE UpdatePOTA(p) \/ UpdateSOTA(p)
    <2>1. PICK prog : UpdateActivation(p, prog)
      BY <1>8 DEF UpdatePOTA, UpdateSOTA
    <2>2. PICK a, st, l, x : Begin(p, [pc |-> "act", a |-> a, old |-> act[a],
                                       status |-> st, loc |-> l, ref |-> x])
      BY <2>1 DEF UpdateActivation
    <2> QED BY <1>1, <2>2
  <1> QED BY <1>3, <1>4, <1>5, <1>6, <1>7, <1>8

\* The contacts that were counted and are unchanged are listed, and so are
\* at least their stations.
LEMMA CountListed ==
    ASSUME TypeOK, ReadyCounted, NEW p \in Procs, POTAExport(p), req[p].ready,
           req[p].old.status # "submitted", act[req[p].a] = req[p].old,
           \A q \in DOMAIN req[p].counted : qso[q] = req[p].counted[q]
    PROVE  UniqueCallsigns(ListActivationQSOs(req[p].a)) >= Minimum["POTA"]
  <1> DEFINE L == ListActivationQSOs(req[p].a)
             C == DOMAIN req[p].counted
             Calls(S) == {CallOf[qso[q].slot] : q \in S}
  <1>1. req[p] \in ExportReqs
    BY ReqForms DEF POTAExport, TypeOK
  <1>2. C \subseteq Qsos
    BY <1>1 DEF ExportReqs
  <1>3. /\ Cardinality(CountedCalls(req[p])) >= Minimum["POTA"]
        /\ \A q \in C : req[p].counted[q].st = "live" /\ req[p].counted[q].ref = req[p].old.ref
    BY DEF ReadyCounted, POTAExport
  <1>4. C \subseteq L
    BY <1>2, <1>3 DEF ListActivationQSOs, ActivationQSOs, LiveQsos
  <1>5. CountedCalls(req[p]) = Calls(C)
    BY DEF CountedCalls
  <1>6. Calls(C) \subseteq Calls(L)
    BY <1>4
  <1>7. IsFiniteSet(L)
    <2>1. L \subseteq Qsos
      BY DEF ListActivationQSOs, ActivationQSOs, LiveQsos
    <2> QED BY <2>1, FS_Subset, OperationsAssumption
  <1>8. IsFiniteSet(Calls(L))
    <2>1. PICK f : f = [q \in L |-> CallOf[qso[q].slot]]
      OBVIOUS
    <2>2. f \in Surjection(L, Calls(L))
      BY <2>1 DEF Surjection
    <2> QED BY <1>7, <2>2, FS_Surjection
  <1>9. Cardinality(Calls(C)) <= Cardinality(Calls(L))
    BY <1>6, <1>8, FS_Subset
  <1>10. Cardinality(Calls(C)) \in Nat /\ Cardinality(Calls(L)) \in Nat
    BY <1>6, <1>8, FS_Subset, FS_CardinalityType
  <1>11. Minimum["POTA"] \in Nat
    BY OperationsAssumption
  <1> QED BY <1>3, <1>5, <1>9, <1>10, <1>11 DEF UniqueCallsigns

-----------------------------------------------------------------------------
(* The invariants hold, and with them the properties. *)

CoreInv == TypeOK /\ SoleFlag /\ NumberInv /\ ScoreInv

LEMMA InitCore == Init => CoreInv
  <1> SUFFICES ASSUME Init PROVE CoreInv
    OBVIOUS
  <1>1. NoRow \in FlagRows /\ NoSession \in SessionRows /\ NoQso \in QsoRows /\ NoAct \in ActRows
    BY DEF NoRow, FlagRows, NoSession, SessionRows, Templates, NoQso, QsoRows, NoAct, ActRows,
           Statuses
  <1>2. TypeOK
    BY <1>1, IdleType DEF Init, TypeOK
  <1>3. SoleFlag
    BY DEF Init, SoleFlag, Flagged, Listed, NoRow
  <1>4. \A p \in Procs : ~Logs(p) /\ ~At(p, "insert")
    BY IdleType DEF Init, Logs, At
  <1>5. \A s \in Sessions : Sent(s) = {} /\ Numbers(s) = {} /\ sess[s].counter = 0
    BY DEF Init, Sent, Logged, Numbers, NoQso, NoSession
  <1>6. Gapless
    <2>1. 1 .. 0 = {}
      OBVIOUS
    <2> QED BY <1>5, <2>1, FS_EmptySet DEF Gapless
  <1>7. NumberInv
    BY <1>4, <1>5, <1>6 DEF NumberInv, NumberIsNext, OneNumbers, NewIsEmpty
  <1>8. \A q \in Qsos : qso[q].st = "none" /\ qso[q].seen = {}
    BY DEF Init, NoQso
  <1>9. ScoreInv
    BY <1>4, <1>8 DEF ScoreInv, SeenInUse, CheckHolds, ScoresOnce
  <1> QED BY <1>2, <1>3, <1>7, <1>9 DEF CoreInv

LEMMA NextCore == CoreInv /\ [Next]_vars => CoreInv'
  <1> SUFFICES ASSUME CoreInv, [Next]_vars PROVE CoreInv'
    OBVIOUS
  <1> USE DEF CoreInv
  <1>0. sess' = sess => SessKept
    BY DEF SessKept
  <1>1. CASE UNCHANGED vars
    <2>1. TypeOK' /\ SoleFlag'
      BY <1>1 DEF vars, TypeOK, SoleFlag, Flagged, Listed
    <2> QED BY <1>0, <1>1, <2>1, QuietKeeps DEF vars
  <1>2. ASSUME NEW p \in Procs, FlagStep(p), TypeOK', SoleFlag' PROVE CoreInv'
    BY <1>0, <1>2, QuietKeeps DEF FlagStep
  <1>3. ASSUME NEW p \in Procs, ActStep(p), TypeOK' PROVE CoreInv'
    <2>1. SoleFlag'
      BY <1>3 DEF ActStep, SoleFlag, Flagged, Listed
    <2> QED BY <1>0, <1>3, <2>1, QuietKeeps DEF ActStep
  <1>4. ASSUME NEW p \in Procs, rows' = rows, given' = given PROVE SoleFlag'
    BY <1>4 DEF SoleFlag, Flagged, Listed
  <1>5. ASSUME NEW p \in Procs, Rollback(p) PROVE CoreInv'
    <2>1. /\ req' \in [Procs -> Reqs] /\ served' \in Nat
          /\ req'[p].pc = "idle" /\ \A o \in Procs \ {p} : req'[o] = req[o]
      BY <1>5, EndType DEF Rollback, TypeOK
    <2>2. TypeOK' /\ ActStep(p)
      BY <1>5, <2>1 DEF Rollback, TypeOK, ActStep, Logs, At
    <2> QED BY <1>3, <2>2
  <1>6. ASSUME NEW p \in Procs,
               \/ CreateLocation(p) \/ UpdateLocation(p) \/ DeleteLocation(p)
               \/ CreateCallsign(p) \/ UpdateCallsign(p) \/ DeleteCallsign(p)
               \/ CreateOnAir(p) \/ UpdateOnAir(p) \/ DeleteOnAir(p)
        PROVE  CoreInv'
    <2>1. PICK t \in Tables, r \in Rows :
              SetFlag(p, t, r) \/ \E row \in FlagRows : Quits(p, t, r, row)
      BY <1>6, FlagSteps
    <2> QED BY <1>2, <2>1, SetFlagKeeps, QuitsKeeps
  <1>7. ASSUME NEW p \in Procs, ClearFlags(p) \/ WriteFlag(p) PROVE CoreInv'
    BY <1>2, <1>7, ClearFlagsKeeps, WriteFlagKeeps
  <1>8. ASSUME NEW p \in Procs, CreateContest(p) \/ UpdateContest(p) \/ LogQSO(p) PROVE CoreInv'
    <2>1. rows' = rows /\ given' = given
      BY <1>8 DEF CreateContest, UpdateContest, LogQSO
    <2> QED BY <1>4, <1>8, <2>1, ContestKeeps, LogQSOKeeps
  <1>9. ASSUME NEW p \in Procs, IncrementSerialCounter(p) \/ InsertContestQSO(p) PROVE CoreInv'
    <2>1. rows' = rows /\ given' = given
      BY <1>9 DEF IncrementSerialCounter, InsertContestQSO
    <2> QED BY <1>4, <1>9, <2>1, IncrementKeeps, InsertKeeps
  <1>10. ASSUME NEW p \in Procs, ImportQSO(p) \/ PatchQSO(p) \/ DeleteQSO(p) PROVE CoreInv'
    <2>1. rows' = rows /\ given' = given
      BY <1>10 DEF ImportQSO, PatchQSO, DeleteQSO
    <2> QED BY <1>4, <1>10, <2>1, QSOKeeps
  <1>11. ASSUME NEW p \in Procs, CreatePOTA(p) \/ CreateSOTA(p) \/ UpdatePOTA(p) \/ UpdateSOTA(p)
                                   \/ WriteActivation(p) \/ ExportStatus(p) \/ POTAExport(p)
         PROVE  CoreInv'
    BY <1>3, <1>11, CreateActKeeps, UpdateActKeeps, WriteActKeeps, ExportKeeps
  <1> QED BY <1>1, <1>5, <1>6, <1>7, <1>8, <1>9, <1>10, <1>11 DEF Next

OpsInv == CoreInv /\ ReadyCounted

LEMMA InitInv == Init => OpsInv
  <1>1. Init => ReadyCounted
    BY IdleType DEF Init, ReadyCounted, At
  <1> QED BY <1>1, InitCore DEF OpsInv

LEMMA NextInv == OpsInv /\ [Next]_vars => OpsInv'
  <1> SUFFICES ASSUME OpsInv, [Next]_vars PROVE OpsInv'
    OBVIOUS
  <1>1. CoreInv'
    BY NextCore DEF OpsInv
  <1> DEFINE NoneBegins == \A o \in Procs : req'[o] = req[o] \/ req'[o].pc # "export"
  <1>2. NoneBegins => ReadyCounted'
    <2> SUFFICES ASSUME NoneBegins, NEW p \in Procs, At(p, "export")',
                        req'[p].ready, req'[p].old.status # "submitted"
                 PROVE  /\ Cardinality(CountedCalls(req'[p])) >= Minimum["POTA"]
                        /\ \A q \in DOMAIN req'[p].counted :
                             /\ req'[p].counted[q].st = "live"
                             /\ req'[p].counted[q].ref = req'[p].old.ref
      BY DEF ReadyCounted, CountedCalls
    <2>1. req'[p] = req[p] /\ At(p, "export")
      BY DEF At
    <2> QED BY <2>1, Zenon DEF OpsInv, ReadyCounted
  <1>3. ASSUME NEW p \in Procs, ExportStatus(p) PROVE ReadyCounted'
    BY <1>3, ExportCounts DEF OpsInv, CoreInv
  <1>4. CASE UNCHANGED vars
    <2>1. NoneBegins
      BY <1>4 DEF vars
    <2> QED BY <1>1, <1>2, <2>1 DEF OpsInv
  <1>5. CASE Next
    <2>1. PICK p \in Procs : NoneBegins \/ ExportStatus(p)
      BY <1>5, OtherReqs DEF OpsInv, CoreInv, Next
    <2> QED BY <1>1, <1>2, <1>3, <2>1 DEF OpsInv
  <1> QED BY <1>4, <1>5

\* The tables, the requests in flight and the counters keep their types,
\* however the transactions of an account's requests interleave.
THEOREM TypeCorrect == Spec => []TypeOK
  <1>1. OpsInv => TypeOK
    BY DEF OpsInv, CoreInv
  <1> QED BY <1>1, InitInv, NextInv, PTL DEF Spec

\* Whatever requests fail or overlap between the UPDATE that clears the old
\* default and the statement that sets the new one, a user who has set a
\* default has exactly one.
THEOREM DefaultUnique == Spec => []OneDefault
  <1>1. ASSUME OpsInv, NEW t \in Tables PROVE Cardinality(Flagged(t)) <= 1
    <2>1. CASE Flagged(t) = {}
      BY <2>1, FS_EmptySet
    <2>2. ASSUME NEW x \in Flagged(t) PROVE Cardinality(Flagged(t)) <= 1
      <3>1. Flagged(t) = {x}
        BY <1>1 DEF OpsInv, CoreInv, SoleFlag
      <3> QED BY <3>1, FS_Singleton
    <2> QED BY <2>1, <2>2
  <1>2. OpsInv => OneDefault
    BY <1>1 DEF OpsInv, CoreInv, SoleFlag, OneDefault
  <1> QED BY <1>2, InitInv, NextInv, PTL DEF Spec

\* The serial numbers of a session are 1, 2, ... up to its counter, each
\* once, although LogQSO reads, numbers and inserts in three statements.
THEOREM NumbersGapless == Spec => []SerialsGapless
  <1>1. OpsInv => SerialsGapless
    BY DEF OpsInv, CoreInv, NumberInv, Gapless, Numbers, Sent, SerialsGapless, ContestSessionResponse,
           ContestStats
  <1> QED BY <1>1, InitInv, NextInv, PTL DEF Spec

\* Two contacts with a station on a band score only where neither was there
\* when the other was checked, or one was edited.
THEOREM StationScoresOnce == Spec => []CabrilloScoresOnce
  <1>1. OpsInv => CabrilloScoresOnce
    BY DEF OpsInv, CoreInv, ScoreInv, ScoresOnce, Scored, CabrilloScoresOnce, BuildCabrillo,
           ContestQSOsForExport, Logged, LiveQsos
  <1> QED BY <1>1, InitInv, NextInv, PTL DEF Spec

\* An export that answers ready holds the stations POTA asks for, whatever
\* contacts were added or locations changed between its two queries.
THEOREM ExportsHonest == Spec => ExportHonest
  <1>1. OpsInv => [\A p \in Procs : HonestExport(p)]_vars
    BY CountListed DEF OpsInv, CoreInv, HonestExport
  <1> QED BY <1>1, InitInv, NextInv, PTL DEF Spec, ExportHonest
=============================================================================
