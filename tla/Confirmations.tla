---------------------------- MODULE Confirmations ----------------------------
(***************************************************************************)
(* How a contact gets confirmed: a job that looks for the same contact in  *)
(* the other station's log after a QSO is created, the owner's own Confirm *)
(* and Reject, and the pulls that fetch LoTW's report and eQSL's inbox     *)
(* from the last checkpoint on and confirm the QSO each card is for.       *)
(*                                                                         *)
(* Jobs and requests run on their own connections in autocommit, so every  *)
(* statement is a step; applyConfirmation is one transaction and one step. *)
(***************************************************************************)
EXTENDS Naturals, FiniteSets

CONSTANTS
    Users,
    Qsos,           \* ids of qsos rows
    OwnerOf,        \* the user of a row's logbook
    Slots,          \* what a qsos row says of a contact
    Puller,         \* the user whose cards are pulled
    Setups,         \* configurations: the services linked, whether the API
                    \* has a job queue for matches, whose awards of which types
                    \* are kept, and the bound on requests, jobs, cards and
                    \* failures
    ReportLimit,    \* cards of a LoTW report that are read (2 MiB)
    InboxLimit,     \* cards of an eQSL inbox that are read (10 MiB)
    MaxTime,        \* bound: the clock
    None

ASSUME ConfirmationsAssumption ==
    /\ Qsos \subseteq Nat /\ OwnerOf \in [Qsos -> Users] /\ Puller \in Users
    /\ None \notin Qsos /\ ReportLimit \in Nat /\ InboxLimit \in Nat
    /\ Setups \subseteq [linked : SUBSET {"lotw", "eqsl"}, matching : BOOLEAN,
                          collectors : SUBSET Users, types : SUBSET STRING,
                          budget : Nat]

Services == {"lotw", "eqsl"}

VARIABLES
    setup,      \* the configuration
    qso,        \* qsos rows
    said,       \* history: what each row has said of its contact
    conf,       \* qso_confirmations rows
    verified,   \* users with a verified operator_verifications row
    match,      \* the qso_match job of each QSO
    now,        \* the clock
    cards,      \* cards at the services
    lastPull,   \* last_pull_at of lotw_sync_status and eqsl_sync_status
    pull,       \* the confirmation pull job of each service
    served,     \* requests, jobs, cards and failures so far
    applied,    \* history: cards that confirmed a QSO
    excused     \* history: cards a pull saw and could not apply, that were
                \* cut off, or that came while a pull without a high-water
                \* mark ran

confVars == <<setup, qso, said, conf, verified, match, now, cards, lastPull, pull, served,
              applied, excused>>

NoQso == [st |-> "none", slot |-> None, rcvd |-> {}]
NoConf == [status |-> "none", matched |-> None, via |-> {}, ours |-> FALSE,
           theirs |-> FALSE]
Idle == [pc |-> "idle"]

ConfInit ==
    /\ setup \in Setups
    /\ qso = [q \in Qsos |-> NoQso] /\ said = [q \in Qsos |-> {}]
    /\ conf = [q \in Qsos |-> NoConf]
    /\ verified \in IF setup.matching THEN SUBSET Users ELSE {{}}
    /\ match = [q \in Qsos |-> Idle]
    /\ now = 1
    /\ cards = {}
    /\ lastPull = [s \in Services |-> 0]
    /\ pull = [s \in Services |-> Idle]
    /\ served = 0
    /\ applied = {} /\ excused = {}

Live == {q \in Qsos : qso[q].st = "live"}
Request == served < setup.budget /\ served' = served + 1

---------------------------------------------------------------------------
(* The log, as far as confirmations depend on it. *)

\* The goroutine that enqueues the match job may die before it does so.
triggerQSOMatch(q) ==
    \/ setup.matching /\ match' = [match EXCEPT ![q] = [pc |-> "queued"]]
    \/ match' = match

CreateQSO(q, s) ==
    /\ Request /\ qso[q].st = "none"
    /\ \A r \in Qsos : r < q /\ OwnerOf[r] = OwnerOf[q] => qso[r].st # "none"
    /\ qso' = [qso EXCEPT ![q] = [st |-> "live", slot |-> s, rcvd |-> {}]]
    /\ said' = [said EXCEPT ![q] = @ \cup {s}]
    /\ triggerQSOMatch(q)
    /\ UNCHANGED <<setup, conf, verified, now, cards, lastPull, pull, applied, excused>>

\* Neither an edit nor a deletion touches qso_confirmations or matches again.
UpdateQSO(q, s) ==
    /\ Request /\ q \in Live /\ s # qso[q].slot
    /\ qso' = [qso EXCEPT ![q].slot = s]
    /\ said' = [said EXCEPT ![q] = @ \cup {s}]
    /\ UNCHANGED <<setup, conf, verified, match, now, cards, lastPull, pull, applied,
                   excused>>

DeleteQSO(q) ==
    /\ Request /\ q \in Live
    /\ qso' = [qso EXCEPT ![q].st = "deleted"]
    /\ UNCHANGED <<setup, said, conf, verified, match, now, cards, lastPull, pull, applied,
                   excused>>

---------------------------------------------------------------------------
(* Matching. *)

NormalizeModeGroup(mode) ==
    CASE mode \in {"USB", "LSB", "AM", "SSB"} -> "SSB"
      [] mode \in {"CW", "CWR"}               -> "CW"
      [] mode \in {"RTTY", "BAUDOT"}          -> "RTTY"
      [] OTHER                                -> mode

\* contact stands for both callsigns, the band and half an hour of time; a
\* row that names no callsign of its own is of any contact with the other.
Agree(s, t) == /\ s.contact = t.contact
               /\ NormalizeModeGroup(s.mode) = NormalizeModeGroup(t.mode)

\* Mutant: the half hour is a day.
find_qso_matchesDay(user, s) ==
    {r \in Live : OwnerOf[r] # user /\ qso[r].slot.day = s.day}

find_qso_matches(user, s) ==
    {r \in Live : OwnerOf[r] # user /\ Agree(s, qso[r].slot)}
Exact(r, s) == qso[r].slot.mode = NormalizeModeGroup(s.mode)
\* The highest confidence; of two equal ones the nearest in time, which
\* contact does not tell apart.
BestMatch(rs, s) == {r \in rs : Exact(r, s) \/ \A x \in rs : ~Exact(x, s)}

DetermineConfirmationStatus(ours, theirs) ==
    IF ours /\ theirs THEN "confirmed" ELSE "matched"
OperatorVerified(user) == user \in verified

\* Mutant: the conflict clause takes the new status.
UpsertedStatusPlain(old, status) == status

\* ON CONFLICT keeps a confirmed row confirmed and overwrites the rest.
UpsertedStatus(old, status) ==
    IF old.status = "confirmed" THEN "confirmed" ELSE status
upsertConfirmation(q, status, matched, ours, theirs) ==
    conf' = [conf EXCEPT ![q] = [status |-> UpsertedStatus(conf[q], status),
                                 matched |-> matched, via |-> conf[q].via,
                                 ours |-> ours, theirs |-> theirs]]

MatchGoto(q, r) ==
    /\ match' = [match EXCEPT ![q] = r]
    /\ UNCHANGED <<setup, qso, said, verified, now, cards, lastPull, pull, applied, excused>>

\* A row that is gone is an error here (ErrNoRows), not the skip the caller
\* has for it: the job is retried until River discards it.
loadQSOForConfirmation(q) ==
    /\ match[q].pc = "queued" /\ q \in Live
    /\ MatchGoto(q, [pc |-> "find", slot |-> qso[q].slot])
    /\ UNCHANGED <<conf, served>>
MatchFails(q) ==
    /\ Request /\ match[q].pc # "idle"
    /\ \/ match[q].pc # "queued" /\ MatchGoto(q, [pc |-> "queued"])
       \/ MatchGoto(q, Idle)
    /\ conf' = conf

FindMatches(q) ==
    LET s == match[q].slot
        found == find_qso_matches(OwnerOf[q], s)
    IN  /\ match[q].pc = "find"
        /\ \/ /\ found = {}
              /\ MatchGoto(q, [pc |-> "ours", best |-> None])
           \/ \E r \in BestMatch(found, s) :
                MatchGoto(q, [pc |-> "ours", best |-> r])
        /\ UNCHANGED <<conf, served>>

UpsertOurs(q) ==
    LET r == match[q].best
        ours == OperatorVerified(OwnerOf[q])
        theirs == r # None /\ OperatorVerified(OwnerOf[r])
    IN  /\ match[q].pc = "ours"
        /\ \/ /\ r = None
              /\ upsertConfirmation(q, "unconfirmed", None, ours, FALSE)
              /\ MatchGoto(q, Idle)
           \/ /\ r # None
              /\ upsertConfirmation(q, DetermineConfirmationStatus(ours, theirs),
                                    r, ours, theirs)
              /\ MatchGoto(q, [pc |-> "theirs", best |-> r])
        /\ served' = served

\* A failure to write the other side is logged and forgotten.
UpsertTheirs(q) ==
    LET r == match[q].best
        ours == OperatorVerified(OwnerOf[r])
        theirs == OperatorVerified(OwnerOf[q])
    IN  /\ match[q].pc = "theirs"
        /\ \/ upsertConfirmation(r, DetermineConfirmationStatus(ours, theirs),
                                 q, ours, theirs)
           \/ conf' = conf
        /\ MatchGoto(q, Idle) /\ served' = served

---------------------------------------------------------------------------
(* The owner's word. *)

Confirm(q) ==
    /\ Request /\ conf[q].status \in {"matched", "pending"}
    /\ conf' = [conf EXCEPT ![q].status = "confirmed", ![q].via = @ \cup {"rl"}]
    /\ UNCHANGED <<setup, qso, said, verified, match, now, cards, lastPull, pull, applied,
                   excused>>
Reject(q) ==
    /\ Request /\ conf[q].status \notin {"none", "rejected", "confirmed"}
    /\ conf' = [conf EXCEPT ![q].status = "rejected"]
    /\ UNCHANGED <<setup, qso, said, verified, match, now, cards, lastPull, pull, applied,
                   excused>>

---------------------------------------------------------------------------
(* Pulling cards. *)

PullGoto(s, r) ==
    /\ pull' = [pull EXCEPT ![s] = r]
    /\ UNCHANGED <<setup, said, verified, match, now, cards>>

Tick ==
    /\ setup.linked # {} /\ now < MaxTime /\ now' = now + 1
    /\ UNCHANGED <<setup, qso, said, conf, verified, match, cards, lastPull, pull, served,
                   applied, excused>>

\* A pull that has its report and will write the clock as its checkpoint.
Window(s) == pull[s].pc \in {"cards", "apply"} /\ pull[s].mark = None

\* A card that is not whole lacks a field its reader needs.
CardArrives(s, slot, whole) ==
    LET c == [svc |-> s, slot |-> slot, at |-> now, whole |-> whole]
    IN  /\ Request /\ s \in setup.linked /\ c \notin cards
        /\ cards' = cards \cup {c}
        /\ excused' = IF Window(s) THEN excused \cup {c} ELSE excused
        /\ UNCHANGED <<setup, qso, said, conf, verified, match, now, lastPull, pull, applied>>

\* The job carries the checkpoint read when it is enqueued.  River takes no
\* second job with the same arguments, the checkpoint among them, while one
\* waits or runs; a second one with another date, or beside one that waits
\* for its retry, is left out.
EnqueuePull(s) ==
    /\ Request /\ s \in setup.linked /\ pull[s].pc = "idle"
    /\ PullGoto(s, [pc |-> "queued", since |-> lastPull[s]])
    /\ UNCHANGED <<qso, conf, lastPull, applied, excused>>

EnqueueLoTWConfirmationPull == EnqueuePull("lotw")
EnqueueEQSLConfirmationPull == EnqueuePull("eqsl")

Newest(cs) == CHOOSE t \in {c.at : c \in cs} : \A c \in cs : c.at <= t

\* Both readers drop the records that are not whole.
parseReportResponse(got) == {c \in got : c.whole}
parseInboxADIFAG(got) == {c \in got : c.whole}

\* What is read of a file of cards, in whatever order it lists them: one
\* that is too long is cut, and the cut ends it as its end would.
LimitReader(there, limit) ==
    IF Cardinality(there) <= limit THEN {there}
    ELSE {kept \in SUBSET there : Cardinality(kept) = limit}

\* LoTW's report names its newest card in the header, which no cut takes
\* away; eQSL's inbox has no such mark.
DownloadConfirmedReport(there) ==
    {[got |-> parseReportResponse(kept),
      mark |-> IF there = {} THEN None ELSE Newest(there)]
       : kept \in LimitReader(there, ReportLimit)}
DownloadInboxAG(there) ==
    {[got |-> parseInboxADIFAG(kept), mark |-> None]
       : kept \in LimitReader(there, InboxLimit)}
Download(s) ==
    LET there == {c \in cards : c.svc = s /\ c.at >= pull[s].since}
    IN  /\ pull[s].pc = "queued"
        /\ \E rep \in IF s = "lotw" THEN DownloadConfirmedReport(there)
                                     ELSE DownloadInboxAG(there) :
            /\ PullGoto(s, [pc |-> "cards", since |-> pull[s].since,
                            got |-> rep.got, mark |-> rep.mark])
            /\ excused' = excused \cup (there \ rep.got)
        /\ UNCHANGED <<qso, conf, lastPull, served, applied>>

\* Refused credentials end the job, a closed circuit, a spent rate limit, a
\* failed download or a crash run it again from the same date.
PullFails(s) ==
    /\ Request /\ pull[s].pc # "idle"
    /\ \/ pull[s].pc # "queued"
          /\ PullGoto(s, [pc |-> "queued", since |-> pull[s].since])
       \/ pull[s].pc = "queued" /\ PullGoto(s, Idle)
    /\ UNCHANGED <<qso, conf, lastPull, applied, excused>>

\* The QSOs of the day with the card's call, band and mode group; the one
\* nearest in time is that of the card's own contact, if it is there.
Candidates(c) ==
    {q \in Live : /\ OwnerOf[q] = Puller /\ qso[q].slot.day = c.slot.day
                  /\ NormalizeModeGroup(qso[q].slot.mode)
                       = NormalizeModeGroup(c.slot.mode)}
Nearest(c, qs) ==
    {q \in qs : \/ qso[q].slot.contact = c.slot.contact
                \/ \A x \in qs : qso[x].slot.contact # c.slot.contact}
lotwFindBestMatch(c) == Nearest(c, Candidates(c))
eqslFindBestMatch(c) == Nearest(c, Candidates(c))
findBestMatch(c) == IF c.svc = "lotw" THEN lotwFindBestMatch(c)
                                      ELSE eqslFindBestMatch(c)

Unmatched(s, c) ==
    /\ excused' = excused \cup {c}
    /\ PullGoto(s, [pc |-> "cards", since |-> pull[s].since,
                    got |-> pull[s].got \ {c}, mark |-> pull[s].mark])
    /\ UNCHANGED <<qso, conf, lastPull, served, applied>>

MatchCard(s) ==
    /\ pull[s].pc = "cards"
    /\ \E c \in pull[s].got :
        \/ findBestMatch(c) = {} /\ Unmatched(s, c)
        \/ \E q \in findBestMatch(c) :
            /\ PullGoto(s, [pc |-> "apply", since |-> pull[s].since,
                            got |-> pull[s].got, mark |-> pull[s].mark,
                            card |-> c, q |-> q])
            /\ UNCHANGED <<qso, conf, lastPull, served, applied, excused>>

\* The row a card leaves, whatever stood there, a rejection too.
ConfirmedBy(row, s) ==
    [status |-> "confirmed", matched |-> row.matched, via |-> row.via \cup {s},
     ours |-> TRUE, theirs |-> TRUE]
lotwConfirmation(row) == ConfirmedBy(row, "lotw")
eqslConfirmation(row) == ConfirmedBy(row, "eqsl")
ReceivedFrom(row, s) == [row EXCEPT !.rcvd = @ \cup {s}]

\* By the QSO's id alone: it may be deleted or edited since it was matched.
applyConfirmation(s) ==
    LET q == pull[s].q
        c == pull[s].card
    IN  /\ pull[s].pc = "apply"
        /\ qso' = [qso EXCEPT ![q] = ReceivedFrom(qso[q], s)]
        /\ conf' = [conf EXCEPT ![q] = IF s = "lotw" THEN lotwConfirmation(conf[q])
                                                    ELSE eqslConfirmation(conf[q])]
        /\ applied' = applied \cup {c}
        /\ PullGoto(s, [pc |-> "cards", since |-> pull[s].since,
                        got |-> pull[s].got \ {c}, mark |-> pull[s].mark])
        /\ UNCHANGED <<lastPull, served, excused>>
ApplyFails(s) == pull[s].pc = "apply" /\ Unmatched(s, pull[s].card)

\* Mutant: the clock is the checkpoint whatever the report says.
lotwCheckpointNow == now

lotwCheckpoint == IF pull["lotw"].mark = None THEN now ELSE pull["lotw"].mark
eqslCheckpoint == now
Checkpoint(s) == IF s = "lotw" THEN lotwCheckpoint ELSE eqslCheckpoint
Greatest(a, b) == IF a < b THEN b ELSE a
\* A failure to write the checkpoint is only logged.
updateLastPull(s) ==
    /\ pull[s].pc = "cards" /\ pull[s].got = {}
    /\ \/ lastPull' = [lastPull EXCEPT ![s] = Greatest(@, Checkpoint(s))]
       \/ lastPull' = lastPull
    /\ PullGoto(s, Idle)
    /\ UNCHANGED <<qso, conf, served, applied, excused>>

PullStep(s) ==
    \/ Download(s) \/ PullFails(s) \/ MatchCard(s) \/ ApplyFails(s)
    \/ updateLastPull(s)
LoTWConfirmationPullWork == PullStep("lotw")
EQSLConfirmationPullWork == PullStep("eqsl")

---------------------------------------------------------------------------
(* What the handlers show and what must hold. *)

Listed(u) == {q \in Qsos : OwnerOf[q] = u /\ conf[q].status # "none"}
Stats(u) == [total     |-> Listed(u),
             confirmed |-> {q \in Listed(u) : conf[q].status = "confirmed"},
             rl_native |-> {q \in Listed(u) : "rl" \in conf[q].via}]

\* A contact counted as confirmed stays so: no job that read the row's
\* neighbourhood before, no rejection and no retry takes it back.
ConfirmedStays ==
    [][\A u \in Users : Stats(u).confirmed \subseteq Stats(u)'.confirmed]_confVars

\* A contact is confirmed by a card, by its owner, or because both operators
\* are verified and their logs agree: a row of the one and a row of the other
\* have said the same of it, whatever was edited since.
LogsAgree(q, r) == \E s \in said[q], t \in said[r] : Agree(s, t)
ConfirmedHasGround ==
    \A u \in Users : \A q \in Stats(u).confirmed :
        \/ conf[q].via # {}
        \/ /\ u \in verified
           /\ \E r \in Qsos : /\ OwnerOf[r] \in verified \ {u}
                               /\ LogsAgree(q, r)

\* The checkpoint passes no card unseen: an older card has confirmed a QSO,
\* or a pull found no QSO for it or failed to write it, or it was cut off a
\* file that is too long, or it came while a pull ran whose report names no
\* newest card.
CardsAccounted ==
    \A c \in cards : c.at < lastPull[c.svc] => c \in applied \cup excused
=============================================================================
