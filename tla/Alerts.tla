------------------------------- MODULE Alerts -------------------------------
(***************************************************************************)
(* The notifications of an account and the two jobs that post to it: the   *)
(* spot poller, which stores what the POTA and SOTA feeds report and is to *)
(* tell the owners of matching watch rules, and the certificate check,     *)
(* which warns before a LoTW certificate expires.                          *)
(*                                                                         *)
(* A poll is one transaction as radioledger_worker.  What it has written   *)
(* is kept in its record until it commits; the rows it has written make    *)
(* the others wait.  The role may not update spot_watch_rules, so that the *)
(* statement that follows every alert fails and dooms the transaction.     *)
(* River starts a poll every minute, whether or not the last one is done,  *)
(* so that polls overlap.  The check writes each warning in a statement of *)
(* its own.  Time is counted in ticks for both.                            *)
(***************************************************************************)
EXTENDS Naturals, Sequences, FiniteSets

CONSTANTS
    Polls,          \* polls under way at a time
    Rules,          \* ids of spot_watch_rules rows, each used once
    Refs,           \* a source (pota, sota), a park or summit, a callsign
    Modes,          \* a mode or a band: the filters of a rule
    Callsigns,      \* callsigns of the account's station locations
    Dates,          \* days a certificate may expire
    Thresholds,     \* certExpiryThresholds
    Window,         \* ticks in which a warning is not repeated (25 days)
    Retention,      \* ticks a spot is kept (24 hours)
    MaxFeed,        \* bound: spots in the feeds
    MaxTime,        \* bound: ticks
    MaxJobs,        \* bound: polls and checks started
    MaxRequests,    \* bound: requests of the user
    Keep,           \* a field the body of a request leaves out
    None

ASSUME AlertsAssumption ==
    /\ Dates \cup Thresholds \subseteq Nat
    /\ {Window, Retention, MaxFeed, MaxTime, MaxJobs, MaxRequests} \subseteq Nat
    /\ None \notin Nat     \* lotw_cert_expiry is NULL or a date

VARIABLES
    now,        \* the clock
    pref,       \* spot_notification_preferences.enabled, or its default
    rule,       \* spot_watch_rules rows
    spots,      \* spots rows
    notes,      \* notifications rows
    posted,     \* notifications posted so far: the next id
    poll,       \* the polls under way
    expiry,     \* station_locations.lotw_cert_expiry by callsign
    scan,       \* the certificate check under way
    jobs,       \* jobs started
    requests    \* requests served

vars == <<now, pref, rule, spots, notes, posted, poll, expiry, scan, jobs, requests>>

SpotWatchRule == [st |-> "none", ref |-> None, mode |-> None, enabled |-> FALSE]
DefaultPreference == TRUE
NoPoll == [st |-> "idle"]
NoScan == [st |-> "idle"]

Init ==
    /\ now = 0 /\ posted = 0 /\ jobs = 0 /\ requests = 0
    /\ pref = DefaultPreference
    /\ rule = [r \in Rules |-> SpotWatchRule]
    /\ spots = {} /\ notes = {}
    /\ poll = [p \in Polls |-> NoPoll]
    /\ expiry = [c \in Callsigns |-> None]
    /\ scan = NoScan

Tick ==
    /\ now < MaxTime /\ now' = now + 1
    /\ UNCHANGED <<pref, rule, spots, notes, posted, poll, expiry, scan, jobs, requests>>

---------------------------------------------------------------------------
(* The spot poller. *)

\* The unique key of a spot: source, callsign, reference and time.
Key(s) == <<s.ref, s.at>>
KeysOf(S) == {Key(s) : s \in S}
\* What a feed may report: entries without a reference, a callsign or a
\* readable time are left out; a mode or band it does not give is NULL.
fetchSpots == [ref : Refs, mode : Modes \cup {None}, at : {now, now - 1} \cap Nat]
Feeds == UNION {[1..n -> fetchSpots] : n \in 1..MaxFeed}

\* Polls whose transaction is not over; a doomed one keeps its locks.
Running == {p \in Polls : poll[p].st # "idle"}

\* Work fetches both feeds; one that fails counts as empty, and with no spot
\* at all the job ends.  Then it begins its transaction and reads the clock.
FetchSpots(p, feed) ==
    /\ p \notin Running /\ jobs < MaxJobs
    /\ jobs' = jobs + 1
    /\ poll' = [poll EXCEPT ![p] = [st |-> "run", now |-> now, todo |-> feed,
                                    matches |-> {}, up |-> {}]]
    /\ UNCHANGED <<now, pref, rule, spots, notes, posted, expiry, scan, requests>>

\* The mode of a spot or of a rule that is NULL matches everything.
Matches(s, r) ==
    /\ rule[r].st = "live" /\ rule[r].enabled /\ rule[r].ref = s.ref
    /\ s.mode = None \/ rule[r].mode = None \/ rule[r].mode = s.mode
ListMatchingSpotWatchRules(s) ==
    {[rule |-> r, spot |-> Key(s), enabled |-> pref] : r \in {r \in Rules : Matches(s, r)}}
\* Notifications are off.  A rule is not cooling down: that is told by its
\* last_notified_at, which nothing can write.
Muted(m) == ~ m.enabled
\* The row to store.  watchers is history: the rules whose owner is to be told.
Row(s, matches) ==
    [ref |-> s.ref, mode |-> s.mode, at |-> s.at,
     watchers |-> {m.rule : m \in {m \in matches : ~ Muted(m)}}]

\* The rows S after those of new are inserted, or updated where the key is there.
StoreSpots(S, new) == {s \in S : Key(s) \notin KeysOf(new)} \cup new

Goto(p, new) == poll' = [poll EXCEPT ![p] = new]
\* The next spot is stored, after a poll that has written the same row, and
\* the rules that match it are read.
UpsertSpot(p) ==
    /\ poll[p].st = "run" /\ poll[p].matches = {} /\ poll[p].todo # <<>>
    /\ LET s == Head(poll[p].todo)
           found == ListMatchingSpotWatchRules(s)
       IN  /\ \A o \in Running \ {p} : Key(s) \notin KeysOf(poll[o].up)
           /\ Goto(p, [poll[p] EXCEPT !.todo = Tail(@),
                                      !.up = StoreSpots(@, {Row(s, found)}),
                                      !.matches = found])
    /\ UNCHANGED <<now, pref, rule, spots, notes, posted, expiry, scan, jobs, requests>>

\* The statement fails, also as the victim of a deadlock: the savepoint is
\* rolled back and the spot left out.
UpsertFails(p) ==
    /\ poll[p].st = "run" /\ poll[p].matches = {} /\ poll[p].todo # <<>>
    /\ Goto(p, [poll[p] EXCEPT !.todo = Tail(@)])
    /\ UNCHANGED <<now, pref, rule, spots, notes, posted, expiry, scan, jobs, requests>>

\* Mutant: as the log says, the alert is given up and the poll goes on.
StampPassedOver(me, m) == [me EXCEPT !.matches = @ \ {m}]

\* CreateWorkerNotification, then UpdateSpotWatchRuleLastNotified, which is
\* denied.  The error is logged, but the transaction is doomed: what it wrote,
\* the notification among it, goes with it, and its next statement outside
\* this loop makes Work return.
AlertOwner(me, m) == [me EXCEPT !.st = "doomed"]
\* One match: nothing if it is muted, and else the alert.
AlertMatch(p) ==
    /\ poll[p].st = "run"
    /\ \E m \in poll[p].matches :
         Goto(p, IF Muted(m) THEN [poll[p] EXCEPT !.matches = @ \ {m}] ELSE AlertOwner(poll[p], m))
    /\ UNCHANGED <<now, pref, rule, spots, notes, posted, expiry, scan, jobs, requests>>

\* The transaction is doomed, another statement outside the savepoint or the
\* commit fails, or the job runs out of time or dies: nothing is left of it.
PollFails(p) ==
    /\ p \in Running /\ Goto(p, NoPoll)
    /\ UNCHANGED <<now, pref, rule, spots, notes, posted, expiry, scan, jobs, requests>>

\* Spots older than a day are deleted, also rows another poll has just
\* written, for which the statement waits; then the commit.
Old(t, s) == s.at + Retention < t
DeleteSpotsOlderThan(t, S) == {s \in S : ~ Old(t, s)}
PollCommits(p) ==
    /\ poll[p].st = "run" /\ poll[p].matches = {} /\ poll[p].todo = <<>>
    /\ \A o \in Running \ {p} : \A s \in spots :
          Old(poll[p].now, s) => Key(s) \notin KeysOf(poll[o].up)
    /\ spots' = DeleteSpotsOlderThan(poll[p].now, StoreSpots(spots, poll[p].up))
    /\ Goto(p, NoPoll)
    /\ UNCHANGED <<now, pref, rule, notes, posted, expiry, scan, jobs, requests>>

---------------------------------------------------------------------------
(* Watch rules and preferences. *)

Request == requests < MaxRequests /\ requests' = requests + 1
ListSpotWatchRules == {r \in Rules : rule[r].st = "live"}
\* The unique index on source, reference, mode and band.
Clash(r, new) ==
    \E o \in ListSpotWatchRules \ {r} : rule[o].ref = new.ref /\ rule[o].mode = new.mode
Given(field, old) == IF field = Keep THEN old ELSE field

\* enabled is TRUE when the body does not give it.
CreateSpotWatchRule(ref, mode, enabled) ==
    [st |-> "live", ref |-> ref, mode |-> mode, enabled |-> Given(enabled, TRUE)]
CreateWatchRule(r, ref, mode, enabled) ==
    LET new == CreateSpotWatchRule(ref, mode, enabled)
    IN  /\ rule[r].st = "none" /\ ~ Clash(r, new) /\ Request
        /\ rule' = [rule EXCEPT ![r] = new]
        /\ UNCHANGED <<now, pref, spots, notes, posted, poll, expiry, scan, jobs>>
\* A field the body leaves out keeps its value.
UpdateSpotWatchRuleByUUID(r, ref, mode, enabled) ==
    [rule[r] EXCEPT !.ref = Given(ref, @), !.mode = Given(mode, @),
                    !.enabled = Given(enabled, @)]
UpdateWatchRule(r, ref, mode, enabled) ==
    LET new == UpdateSpotWatchRuleByUUID(r, ref, mode, enabled)
    IN  /\ r \in ListSpotWatchRules /\ ~ Clash(r, new) /\ Request
        /\ rule' = [rule EXCEPT ![r] = new]
        /\ UNCHANGED <<now, pref, spots, notes, posted, poll, expiry, scan, jobs>>
DeleteSpotWatchRuleByUUID == [SpotWatchRule EXCEPT !.st = "gone"]
DeleteWatchRule(r) ==
    /\ r \in ListSpotWatchRules /\ Request
    /\ rule' = [rule EXCEPT ![r] = DeleteSpotWatchRuleByUUID]
    /\ UNCHANGED <<now, pref, spots, notes, posted, poll, expiry, scan, jobs>>
\* The cooldown stored with it decides nothing (see Muted).
PutPreferences(enabled) ==
    /\ Request
    /\ pref' = enabled
    /\ UNCHANGED <<now, rule, spots, notes, posted, poll, expiry, scan, jobs>>

---------------------------------------------------------------------------
(* The feed of notifications. *)

Notification(type, key, gap) ==
    [id |-> posted + 1, type |-> type, key |-> key, at |-> now, gap |-> gap, read |-> FALSE]
ListNotifications == notes
ListUnreadNotifications == {n \in notes : ~ n.read}
Seen(n) == [n EXCEPT !.read = TRUE]
MarkNotificationRead(n) == (notes \ {n}) \cup {Seen(n)}
MarkRead(n) ==
    /\ n \in ListNotifications /\ Request
    /\ notes' = MarkNotificationRead(n)
    /\ UNCHANGED <<now, pref, rule, spots, posted, poll, expiry, scan, jobs>>
MarkAllNotificationsRead ==
    {Seen(n) : n \in ListUnreadNotifications} \cup (notes \ ListUnreadNotifications)
MarkAllRead ==
    /\ Request
    /\ notes' = MarkAllNotificationsRead
    /\ UNCHANGED <<now, pref, rule, spots, posted, poll, expiry, scan, jobs>>
DeleteNotification(n) == notes \ {n}
Delete(n) ==
    /\ n \in ListNotifications /\ Request
    /\ notes' = DeleteNotification(n)
    /\ UNCHANGED <<now, pref, rule, spots, posted, poll, expiry, scan, jobs>>
\* A client may post a notification of its own, of the types allowed it; a
\* warning of a certificate is not one of them.
CreateNotification == notes \cup {Notification("sync_complete", None, 0)}
Create ==
    /\ Request
    /\ notes' = CreateNotification
    /\ posted' = posted + 1
    /\ UNCHANGED <<now, pref, rule, spots, poll, expiry, scan, jobs>>

---------------------------------------------------------------------------
(* Certificates. *)

UpdateCertExpiryByCallsign(c, date) == [expiry EXCEPT ![c] = date]
\* The desktop client reports the date the certificate of c expires.
CertExpiry(c, date) ==
    /\ Request
    /\ expiry' = UpdateCertExpiryByCallsign(c, date)
    /\ UNCHANGED <<now, pref, rule, spots, notes, posted, poll, scan, jobs>>

ListAllExpiringCerts == {c \in Callsigns : expiry[c] # None}
ShouldNotify(w) == w[2] <= now + w[3]
\* The check lists the certificates, and warns of each threshold passed: a
\* date that lies in the past has passed them all.
ScanStart ==
    /\ scan = NoScan /\ jobs < MaxJobs /\ jobs' = jobs + 1
    /\ scan' = [st |-> "run",
                todo |-> {w \in ListAllExpiringCerts \X Dates \X Thresholds :
                            w[2] = expiry[w[1]] /\ ShouldNotify(w)}]
    /\ UNCHANGED <<now, pref, rule, spots, notes, posted, poll, expiry, requests>>
\* Mutant: a warning that was read is looked over.
HasUnreadCertExpiryNotification(w) ==
    \E n \in notes : n.type = "cert_expiry" /\ n.key = w /\ ~ n.read /\ now < n.at + Window

HasRecentCertExpiryNotification(w) ==
    \E n \in notes : n.type = "cert_expiry" /\ n.key = w /\ now < n.at + Window
CreateWorkerNotification(w) == notes \cup {Notification("cert_expiry", w, Window)}
Warn(w) ==
    IF HasRecentCertExpiryNotification(w) THEN UNCHANGED <<notes, posted>>
    ELSE /\ notes' = CreateWorkerNotification(w)
         /\ posted' = posted + 1
\* The query or the insert may fail; the check goes on with the next one.
ScanWarn ==
    /\ scan.st = "run"
    /\ \E w \in scan.todo :
         /\ scan' = [scan EXCEPT !.todo = @ \ {w}]
         /\ Warn(w) \/ UNCHANGED <<notes, posted>>
    /\ UNCHANGED <<now, pref, rule, spots, poll, expiry, jobs, requests>>
\* The check is done, or its process died and the job is tried again.
ScanEnds ==
    /\ scan.st = "run" /\ scan' = NoScan
    /\ UNCHANGED <<now, pref, rule, spots, notes, posted, poll, expiry, jobs, requests>>

---------------------------------------------------------------------------
Next ==
    \/ Tick
    \/ \E p \in Polls :
         \/ \E feed \in Feeds : FetchSpots(p, feed)
         \/ UpsertSpot(p) \/ UpsertFails(p) \/ AlertMatch(p)
         \/ PollFails(p) \/ PollCommits(p)
    \/ \E r \in Rules, ref \in Refs, mode \in Modes \cup {None},
         enabled \in BOOLEAN \cup {Keep} : CreateWatchRule(r, ref, mode, enabled)
    \/ \E r \in Rules, ref \in Refs \cup {Keep}, mode \in Modes \cup {None, Keep},
         enabled \in BOOLEAN \cup {Keep} : UpdateWatchRule(r, ref, mode, enabled)
    \/ \E r \in Rules : DeleteWatchRule(r)
    \/ \E enabled \in BOOLEAN : PutPreferences(enabled)
    \/ \E n \in notes : MarkRead(n) \/ Delete(n)
    \/ MarkAllRead \/ Create
    \/ \E c \in Callsigns, date \in Dates : CertExpiry(c, date)
    \/ ScanStart \/ ScanWarn \/ ScanEnds

Spec == Init /\ [][Next]_vars

---------------------------------------------------------------------------
(* Properties. *)

\* No spot stands in the list whose watchers were to be told of it when it was
\* stored and were not: a poll works on after the statements of an alert have
\* failed, but the spots it has stored by then or stores later go as well.
WatchersTold == \A s \in spots : s.watchers = {}

\* While a warning of a certificate, a date and a threshold stands in the
\* feed, read or not, it is not repeated within the window, although the
\* check may die and be run again after any of its statements.
WarningsSpaced ==
    \A a, b \in notes :
        (/\ a.type = "cert_expiry" /\ b.type = "cert_expiry"
         /\ a.key = b.key /\ a.id < b.id)
            => b.at >= a.at + b.gap
=============================================================================
