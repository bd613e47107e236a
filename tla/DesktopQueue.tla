---------------------------- MODULE DesktopQueue ----------------------------
(***************************************************************************)
(* The offline queue of the desktop application.  Contacts and edits wait  *)
(* in qso_queue; a sync cycle pushes the oldest of them one by one and     *)
(* then pulls the log from the server into cached_qsos.  The sync loop and *)
(* "Sync Now" run cycles at the same time.  The application may be quit,   *)
(* or die, between any two steps; the two tables and the configuration     *)
(* survive that, and so does what the server has done.                     *)
(*                                                                         *)
(* A statement on SQLite is a step, and so is a request with its answer.   *)
(***************************************************************************)
EXTENDS Naturals, Sequences, FiniteSets, FiniteSetsExt

CONSTANTS
    Contacts,   \* contacts the operator makes
    Heard,      \* those WSJT-X reports; the others are typed
    Listed,     \* those with a callsign of the server's registers
    Storable,   \* those whose power, reports and grid the table qsos takes
    Cycles,     \* calls of run_sync_cycle at a time
    Loop,       \* the one of run_sync_loop
    Limit,      \* pending_qsos(50)
    MaxEvents,  \* bound: edits, logouts, cycles of "Sync Now", restarts, lost
                \* answers and marks, tokens that expire
    None

ASSUME DesktopQueueAssumption ==
    /\ Heard \subseteq Contacts /\ Listed \subseteq Contacts /\ Storable \subseteq Contacts
    /\ Loop \in Cycles /\ Limit \in Nat \ {0}
    /\ MaxEvents \in Nat

VARIABLES
    queue,      \* qso_queue, by id (AUTOINCREMENT: no id is used again)
    server,     \* qsos rows of the account's logbook: the contact, and the
                \* edit it shows
    cached,     \* uuids in cached_qsos (the index of a server row)
    token,      \* the stored access token
    book,       \* TRUE when config.yaml has logbook.default_uuid
    stuck,      \* the SyncState lock is held by a task that waits for it
    cyc,        \* the sync cycles
    posts,      \* contacts whose try_immediate_post runs
    edits,      \* edits made
    events,     \* events so far that MaxEvents bounds
    twice,      \* history: contacts two cycles had at a time, or whose
                \* answer or mark was lost
    latest      \* history: latest[u], the last edit of u that was enqueued

vars == <<queue, server, cached, token, book, stuck, cyc, posts, edits, events,
          twice, latest>>

NoCycle == [pc |-> "idle", todo |-> {}, fresh |-> FALSE, res |-> None, page |-> {}]

Init ==
    /\ queue = <<>> /\ server = <<>> /\ cached = {}
    /\ token = "none" /\ book = FALSE
    /\ stuck = FALSE
    /\ cyc = [c \in Cycles |-> NoCycle]
    /\ posts = {} /\ edits = 0 /\ events = 0
    /\ twice = {} /\ latest = [u \in {} |-> 0]

-----------------------------------------------------------------------------
(* The tables.                                                             *)

Waiting == {i \in DOMAIN queue : queue[i].st = "waiting"}

enqueue_qso(q) ==
    Append(queue, [q |-> q, u |-> 0, v |-> 0, st |-> "waiting",
                   source |-> IF q \in Heard THEN "wsjtx" ELSE "manual"])

\* The DELETE of enqueue_qso_update.
WithoutUpdates(rows, u) ==
    [i \in DOMAIN rows |->
        IF rows[i].st = "waiting" /\ rows[i].source = "update" /\ rows[i].u = u
        THEN [rows[i] EXCEPT !.st = "deleted"] ELSE rows[i]]

\* Mutant: the older updates are deleted after the new one is inserted.
enqueue_qso_update_swapped(rows, u, v) ==
    WithoutUpdates(Append(rows, [q |-> server[u].q, u |-> u, v |-> v,
                                 st |-> "waiting", source |-> "update"]), u)

enqueue_qso_update(rows, u, v) ==
    Append(WithoutUpdates(rows, u), [q |-> server[u].q, u |-> u, v |-> v,
                                     st |-> "waiting", source |-> "update"])

\* Mutant: the newest rows first.
pending_qsos_newest == {i \in Waiting : Cardinality({j \in Waiting : j > i}) < Limit}

\* The ids of the oldest Limit rows; a cycle takes them in their order.  (The
\* order is that of created_at, a text with the time of the insert: that of
\* the ids as long as the clock is not set back.)
pending_qsos == {i \in Waiting : Cardinality({j \in Waiting : j < i}) < Limit}

mark_synced(i) == IF queue[i].st = "waiting"
                  THEN [queue EXCEPT ![i].st = "synced"] ELSE queue

-----------------------------------------------------------------------------
(* What is sent, and what the server takes.                                *)

\* The fields of a QSO the server's Create and Update know; decodeJSONBody
\* refuses a body with any other.
qsoUpsertRequest ==
    {"callsign", "name", "qth", "band", "mode", "submode", "frequency_hz",
     "datetime_on", "rst_sent", "rst_rcvd", "tx_power", "gridsquare",
     "my_gridsquare", "dxcc", "comment", "notes"}
\* Mutant: unknown fields are passed over.
decodeJSONBodyLenient(fields) == TRUE

decodeJSONBody(fields) == fields \subseteq qsoUpsertRequest

\* The CHECKs on tx_power, the reports and the grid.  What is typed may fail
\* them, a power of 0 W for one, and then the INSERT fails every time.
chk_qso(q) == q \in Storable

Required == {"callsign", "band", "mode", "datetime_on"}
prepare_update_qso ==
    Required \cup {"name", "qth", "rst_sent", "rst_rcvd", "gridsquare", "dxcc",
                   "country", "cq_zone", "itu_zone", "continent", "comment", "notes"}
build_sync_payload(row) ==
    IF row.source = "update" THEN prepare_update_qso
    ELSE Required \cup {"name", "qth", "frequency_hz", "tx_power", "rst_sent",
                        "rst_rcvd", "gridsquare", "notes"}

\* The register's answer has a country and no zones.
merge_callsign_lookup_into_payload(fields) ==
    fields \cup {"name", "gridsquare", "country", "qth"}

\* The bodies that can come of a row: the lookup of a contact WSJT-X
\* reported may fail, and is then left out.
hydrate_wsjtx_payload_if_needed(row) ==
    {build_sync_payload(row)} \cup
        (IF row.source = "wsjtx" /\ row.q \in Listed
         THEN {merge_callsign_lookup_into_payload(build_sync_payload(row))} ELSE {})

\* try_immediate_post sends the message as it is, with the client's uuid.
ImmediateBody == Required \cup {"client_uuid", "datetime_off", "freq_mhz", "source"}

Create(q) == Append(server, [q |-> q, v |-> 0])
Store(row) == IF row.source = "update" THEN [server EXCEPT ![row.u].v = row.v]
              ELSE Create(row.q)

-----------------------------------------------------------------------------
(* What the operator does.                                                 *)

Event == events < MaxEvents /\ events' = events + 1

LogQSO(q) ==
    /\ \A i \in DOMAIN queue : queue[i].q # q
    /\ queue' = enqueue_qso(q)
    /\ posts' = IF q \in Heard THEN posts \cup {q} ELSE posts
    /\ UNCHANGED <<server, cached, token, book, stuck, cyc, edits, events, twice, latest>>

\* The task of its own that posts a contact at once.  The queued row stays
\* as it is, whatever the answer.
try_immediate_post(q) ==
    /\ q \in posts
    /\ posts' = posts \ {q}
    /\ \/ UNCHANGED <<book, server>>
       \/ /\ token = "good"
          /\ book' = TRUE
          /\ server' = IF decodeJSONBody(ImmediateBody) /\ chk_qso(q)
                     THEN Create(q) ELSE server
    /\ UNCHANGED <<queue, cached, token, stuck, cyc, edits, events, twice, latest>>

\* The cached row is changed, and an update enqueued that replaces the one
\* that waits.
update_qso(u) ==
    /\ Event
    /\ u \in cached
    /\ edits' = edits + 1
    /\ queue' = enqueue_qso_update(queue, u, edits')
    /\ latest' = [w \in DOMAIN latest \cup {u} |->
                    IF w = u THEN edits' ELSE latest[w]]
    /\ UNCHANGED <<server, cached, token, book, stuck, cyc, posts, twice>>

\* login and login_local: the logbook may not be found at once.
Login ==
    /\ token # "good"
    /\ token' = "good"
    /\ book' \in {book, TRUE}
    /\ UNCHANGED <<queue, server, cached, stuck, cyc, posts, edits, events, twice, latest>>

Logout ==
    /\ Event
    /\ token # "none"
    /\ token' = "none" /\ book' = FALSE
    /\ UNCHANGED <<queue, server, cached, stuck, cyc, posts, edits, twice, latest>>

\* The access token expires, also in the hands of the cycles.
Expire ==
    /\ Event
    /\ token = "good" /\ token' = "stale"
    /\ cyc' = [c \in Cycles |-> [cyc[c] EXCEPT !.fresh = FALSE]]
    /\ UNCHANGED <<queue, server, cached, book, stuck, posts, edits, twice, latest>>

\* The row cycle c is at: the oldest of those it has still to push.
Row(c) == Min(cyc[c].todo)

\* The contacts of cycle c that were pushed and are not marked.
Unmarked(c) ==
    IF cyc[c].pc = "mark" /\ cyc[c].res = "ok" THEN {queue[Row(c)].q} ELSE {}

\* The application ends and is started again; in enqueue_qso_update the
\* DELETE may be done and the INSERT not.
Restart ==
    /\ Event
    /\ cyc' = [c \in Cycles |-> NoCycle]
    /\ stuck' = FALSE /\ posts' = {}
    /\ twice' = twice \cup UNION {Unmarked(c) : c \in Cycles}
    /\ \/ UNCHANGED <<queue, latest>>
       \/ \E u \in cached :
            /\ queue' = WithoutUpdates(queue, u)
            /\ latest' = [w \in DOMAIN latest \ {u} |-> latest[w]]
    /\ UNCHANGED <<server, cached, token, book, edits>>

-----------------------------------------------------------------------------
(* run_sync_cycle.                                                         *)

At(c, pc) == cyc[c].pc = pc
Goto(c, pc) == cyc' = [cyc EXCEPT ![c].pc = pc]

\* The rows to push, none if the token or the rows cannot be read, and the
\* token that is used for all of them.
Begin(c) ==
    /\ At(c, "idle") /\ ~stuck
    /\ IF c = Loop THEN UNCHANGED events ELSE Event
    /\ \E rows \in {{}, IF token = "none" THEN {} ELSE pending_qsos} :
       LET others == UNION {cyc[d].todo : d \in Cycles \ {c}}
       IN  /\ cyc' = [cyc EXCEPT ![c] =
                        [NoCycle EXCEPT !.pc = IF rows = {} THEN "pull" ELSE "resolve",
                                        !.todo = rows, !.fresh = token = "good"]]
           /\ twice' = twice \cup {queue[i].q : i \in rows \cap others}
    /\ UNCHANGED <<queue, server, cached, token, book, stuck, posts, edits, latest>>

\* get_primary_logbook_uuid.  When it fails the cycle keeps the lock and
\* calls emit_status, which waits for the lock.
Resolve(c) ==
    /\ At(c, "resolve")
    /\ \/ book /\ Goto(c, "push") /\ UNCHANGED <<book, stuck>>
       \/ ~book /\ cyc[c].fresh /\ Goto(c, "push") /\ book' = TRUE /\ UNCHANGED stuck
       \/ ~book /\ ~stuck /\ Goto(c, "held") /\ stuck' = TRUE /\ UNCHANGED book
    /\ UNCHANGED <<queue, server, cached, token, posts, edits, events, twice, latest>>

\* The configuration cannot be read: the cycle is over, without a pull.
ConfigFails(c) ==
    /\ At(c, "resolve") /\ ~stuck
    /\ cyc' = [cyc EXCEPT ![c] = NoCycle]
    /\ UNCHANGED <<queue, server, cached, token, book, stuck, posts, edits, events, twice, latest>>

Answer(c, res) == cyc' = [cyc EXCEPT ![c].pc = "mark", ![c].res = res]

\* sync_single_qso: the server stores the row, and the answer arrives or not.
PushStored(c) ==
    /\ At(c, "push") /\ cyc[c].todo # {} /\ cyc[c].fresh
    /\ LET row == queue[Row(c)] IN
         /\ \E body \in hydrate_wsjtx_payload_if_needed(row) : decodeJSONBody(body)
         /\ chk_qso(row.q)
         /\ server' = Store(row)
         /\ \/ Answer(c, "ok") /\ UNCHANGED <<events, twice>>
            \/ Answer(c, "failed") /\ Event /\ twice' = twice \cup {row.q}
    /\ UNCHANGED <<queue, cached, token, book, stuck, posts, edits, latest>>

\* The request does not arrive, fails (also because of the account's plan), or
\* its body or its values are refused; or the token has expired.
PushFails(c) ==
    /\ At(c, "push") /\ cyc[c].todo # {}
    /\ \/ /\ cyc[c].fresh
          /\ \E body \in hydrate_wsjtx_payload_if_needed(queue[Row(c)]) :
                Answer(c, IF decodeJSONBody(body) /\ chk_qso(queue[Row(c)].q)
                          THEN "failed" ELSE "refused")
       \/ ~cyc[c].fresh /\ Answer(c, "failed")
       \/ ~cyc[c].fresh /\ token # "none" /\ Goto(c, "refresh")
    /\ UNCHANGED <<queue, server, cached, token, book, stuck, posts, edits, events,
                   twice, latest>>

\* refresh_access_token: the new token is stored, also when the user has
\* logged out meanwhile; the cycle goes on with the old one.
Refresh(c) ==
    /\ At(c, "refresh")
    /\ \/ Answer(c, "refreshed") /\ token' = "good"
       \/ Answer(c, "failed") /\ UNCHANGED token
    /\ UNCHANGED <<queue, server, cached, book, stuck, posts, edits, events, twice, latest>>

\* Mutant: any answer of the server settles the row.
SettledByAnswer(res) == res \in {"ok", "refused"}

Settled(res) == res = "ok"

\* The result is written; a failure is put into the shared state as well.
Mark(c) ==
    /\ At(c, "mark")
    /\ LET i == Row(c)  res == cyc[c].res IN
         \/ Settled(res) /\ queue' = mark_synced(i) /\ UNCHANGED <<events, twice>>
         \/ /\ Settled(res) /\ Event
            /\ twice' = twice \cup {queue[i].q} /\ UNCHANGED queue
         \/ res = "refreshed" /\ UNCHANGED <<queue, events, twice>>
         \/ ~Settled(res) /\ res # "refreshed" /\ ~stuck /\ UNCHANGED <<queue, events, twice>>
    /\ cyc' = [cyc EXCEPT ![c].pc = "push", ![c].todo = @ \ {Row(c)}, ![c].res = None]
    /\ UNCHANGED <<server, cached, token, book, stuck, posts, edits, latest>>

PushDone(c) ==
    /\ At(c, "push") /\ cyc[c].todo = {} /\ ~stuck
    /\ Goto(c, "pull")
    /\ UNCHANGED <<queue, server, cached, token, book, stuck, posts, edits, events,
                   twice, latest>>

\* pull_logbook: the log (of one page) is read, and its rows are upserted
\* under the lock.
PullPage(c) ==
    /\ At(c, "pull") /\ token = "good"
    /\ book' = TRUE
    /\ cyc' = [cyc EXCEPT ![c].pc = "apply", ![c].page = DOMAIN server]
    /\ UNCHANGED <<queue, server, cached, token, stuck, posts, edits, events, twice, latest>>

UpsertPage(c) ==
    /\ At(c, "apply") /\ ~stuck
    /\ cached' = cached \cup cyc[c].page
    /\ cyc' = [cyc EXCEPT ![c] = NoCycle]
    /\ UNCHANGED <<queue, server, token, book, stuck, posts, edits, events, twice, latest>>

\* Nobody is logged in, or the pull fails, perhaps after the logbook was
\* found: the token is not refreshed here.
PullFails(c) ==
    /\ At(c, "pull") /\ ~stuck
    /\ cyc' = [cyc EXCEPT ![c] = NoCycle]
    /\ book' \in IF token = "good" THEN {book, TRUE} ELSE {book}
    /\ UNCHANGED <<queue, server, cached, token, stuck, posts, edits, events, twice, latest>>

Step(c) ==
    \/ Resolve(c) \/ ConfigFails(c) \/ PushStored(c) \/ PushFails(c) \/ Refresh(c)
    \/ Mark(c) \/ PushDone(c) \/ PullPage(c) \/ UpsertPage(c) \/ PullFails(c)

Next ==
    \/ \E q \in Contacts : LogQSO(q) \/ try_immediate_post(q)
    \/ \E u \in DOMAIN server : update_qso(u)
    \/ Login \/ Logout \/ Expire \/ Restart
    \/ \E c \in Cycles : Begin(c) \/ Step(c)

Spec == Init /\ [][Next]_vars

\* Contacts that no lookup adds a field to, and that the table lets in.
Welcome == {q \in Contacts : chk_qso(q) /\ q \notin Heard \cap Listed}

Heads(c, q) == At(c, "push") /\ cyc[c].todo # {} /\ queue[Row(c)].q = q

\* The loop runs cycles while there are rows to push, and its cycles go on.
\* Nothing fails for ever: local files that are read again and again are
\* read, requests get through, a token is refreshed, and the account's plan is
\* not at its limit for good.  The server need not take what it refuses for
\* its fields or its values.  (Lost answers and marks are bounded by MaxEvents.)
FairSpec ==
    /\ Spec
    /\ WF_vars(Step(Loop))
    /\ SF_vars(Begin(Loop) /\ cyc'[Loop].pc = "resolve")
    /\ SF_vars(Resolve(Loop)) /\ SF_vars(Resolve(Loop) /\ cyc'[Loop].pc = "push")
    /\ SF_vars(PushFails(Loop) /\ cyc'[Loop].pc = "refresh")
    /\ SF_vars(Refresh(Loop) /\ token' = "good")
    /\ \A q \in Welcome :
         SF_vars(Heads(Loop, q) /\ PushStored(Loop) /\ cyc'[Loop].res = "ok")

-----------------------------------------------------------------------------
(* Properties. *)

Copies(q) == {u \in DOMAIN server : server[u].q = q}

\* A contact that was logged waits in the queue or is on the server, whatever
\* requests fail, tokens expire, cycles overlap and restarts there are.
NothingLost ==
    \A i \in DOMAIN queue : queue[i].source # "update" =>
        i \in Waiting \/ Copies(queue[i].q) # {}

\* A contact is on the server twice only where two cycles had it at a time or
\* the answer or the mark of its first push was lost.  The immediate post of
\* a WSJT-X contact never adds a copy.
TwiceOnlyByLoss ==
    \A q \in Contacts : Cardinality(Copies(q)) <= 1 \/ q \in twice

\* The last edit of a QSO that was enqueued waits until the server has it,
\* unless the application dies while the next edit replaces it.
EditWaits ==
    \A u \in DOMAIN latest :
        \/ server[u].v = latest[u]
        \/ \E i \in Waiting : queue[i].u = u /\ queue[i].v = latest[u]

\* Rows before row i that the server may refuse every time.
RefusedBefore(i) ==
    {j \in Waiting : j < i /\ (queue[j].source = "update" \/ queue[j].q \notin Welcome)}

Waits(q) == \E i \in Waiting : queue[i].q = q /\ queue[i].source # "update"
Open(q) ==
    /\ ~stuck
    /\ \A i \in Waiting : queue[i].q = q => Cardinality(RefusedBefore(i)) < Limit

\* A contact the server would take does not wait for ever, also when its token
\* expired or rows before it are refused, while the user is logged in, the
\* lock is not stuck, and fewer than Limit refused rows wait before it: those
\* are never given up, and are fetched first.
WaitingIsPushed ==
    \A q \in Welcome : []<>~(Waits(q) /\ Open(q) /\ token # "none")
=============================================================================
