------------------------- MODULE DesktopQueueProofs --------------------------
(***************************************************************************)
(* Proofs about DesktopQueue, for every set of contacts, every number of   *)
(* cycles at a time, every limit and every number of events: no contact is *)
(* lost, none is on the server twice without a loss or an overlap, and the *)
(* last edit of a QSO waits.                                               *)
(***************************************************************************)
EXTENDS DesktopQueue, FiniteSetTheorems, WellFoundedInduction, TLAPS

Rows == [q : Contacts, u : Nat, v : Nat, st : {"waiting", "synced", "deleted"},
         source : {"wsjtx", "manual", "update"}]

Steps == {"idle", "resolve", "held", "push", "refresh", "mark", "pull", "apply"}
Results == {None, "ok", "failed", "refused", "refreshed"}
CycleStates == [pc : Steps, todo : SUBSET Nat, fresh : BOOLEAN, res : Results,
                page : SUBSET Nat]

ServerRows == [q : Contacts, v : Nat]

\* What a cycle has in hand are rows of the tables.
HandsOK ==
    \A c \in Cycles : /\ cyc[c].todo \subseteq DOMAIN queue
                      /\ cyc[c].page \subseteq DOMAIN server
                      /\ cyc[c].pc \in {"refresh", "mark"} => cyc[c].todo # {}

LatestOK == DOMAIN latest \subseteq DOMAIN server /\ latest \in [DOMAIN latest -> Nat]

TypeOK ==
    /\ queue \in Seq(Rows)
    /\ server \in Seq(ServerRows)
    /\ cached \subseteq DOMAIN server
    /\ token \in {"none", "good", "stale"}
    /\ book \in BOOLEAN /\ stuck \in BOOLEAN
    /\ cyc \in [Cycles -> CycleStates]
    /\ HandsOK
    /\ posts \subseteq Contacts
    /\ edits \in Nat /\ events \in Nat
    /\ twice \subseteq Contacts
    /\ LatestOK

(***************************************************************************)
(* The invariants.  What is lost or doubled depends on what a cycle will   *)
(* do with the rows it has read some time ago: Stored(c) says that its     *)
(* row is on the server and the mark is still to come.                     *)
(***************************************************************************)
Stored(c) == cyc[c].pc = "mark" /\ cyc[c].res = "ok"
Contact(i) == queue[i].source # "update"

\* An update is refused, so what was pushed with success is a contact.
StoredIsThere ==
    \A c \in Cycles : Stored(c) =>
        Contact(Row(c)) /\ Copies(queue[Row(c)].q) # {}

EditIsQueued ==
    \A u \in DOMAIN latest : \E i \in Waiting :
        ~Contact(i) /\ queue[i].u = u /\ queue[i].v = latest[u]

\* A contact has one row, and is on the server only if it has.
SoleRow == \A i, j \in DOMAIN queue : Contact(i) /\ Contact(j) /\ queue[i].q = queue[j].q => i = j
HasRow == \A u \in DOMAIN server : \E i \in DOMAIN queue : Contact(i) /\ queue[i].q = server[u].q

\* Two cycles share only rows of contacts in twice, and the contacts a cycle
\* has in hand wait until it marks them itself.
SharedNoted ==
    \A c, d \in Cycles : \A i \in cyc[c].todo \cap cyc[d].todo : c = d \/ queue[i].q \in twice
InHandWaits ==
    \A c \in Cycles : \A i \in cyc[c].todo : Contact(i) => i \in Waiting \/ queue[i].q \in twice

\* A contact that waits is not on the server, but for the one step between
\* the answer and the mark.
WaitingIsNew ==
    \A i \in Waiting : Contact(i) /\ queue[i].q \notin twice =>
        Copies(queue[i].q) = {} \/ \E c \in Cycles : Stored(c) /\ Row(c) = i

OneCopy == \A q \in Contacts \ twice : \A u, w \in Copies(q) : u = w

QueueInv ==
    /\ TypeOK /\ NothingLost /\ StoredIsThere /\ EditIsQueued /\ SoleRow /\ HasRow
    /\ SharedNoted /\ InHandWaits /\ WaitingIsNew /\ OneCopy
-----------------------------------------------------------------------------
\* The oldest of some rows is one of them.
LEMMA MinIn ==
    ASSUME NEW S \in SUBSET Nat, S # {}
    PROVE  Min(S) \in S
  <1>1. PICK x \in S : \A y \in S : <<y, x>> \notin OpToRel(<, Nat)
    BY NatLessThanWellFounded, WFMin, Zenon
  <1>2. \A y \in S : ~(y < x)
    BY <1>1, Zenon DEF OpToRel
  <1>3. \A y \in S : x <= y
    BY <1>2
  <1> QED BY <1>3 DEF Min

\* What the server refuses: updates, which name a country, and immediate
\* posts, which name the client's uuid.
LEMMA Refused ==
    /\ ~decodeJSONBody(ImmediateBody)
    /\ \A row : row.source = "update" =>
          \A body \in hydrate_wsjtx_payload_if_needed(row) : ~decodeJSONBody(body)
  <1>1. "client_uuid" \notin qsoUpsertRequest /\ "country" \notin qsoUpsertRequest
    BY DEF qsoUpsertRequest
  <1>2. "client_uuid" \in ImmediateBody /\ "country" \in prepare_update_qso
    BY DEF ImmediateBody, prepare_update_qso
  <1>3. ASSUME NEW row, row.source = "update"
        PROVE  hydrate_wsjtx_payload_if_needed(row) = {prepare_update_qso}
    BY <1>3 DEF hydrate_wsjtx_payload_if_needed, build_sync_payload
  <1> QED BY <1>1, <1>2, <1>3 DEF decodeJSONBody

LEMMA RowIn ==
    ASSUME TypeOK, NEW c \in Cycles, cyc[c].todo # {}
    PROVE  Row(c) \in cyc[c].todo /\ Row(c) \in DOMAIN queue /\ queue[Row(c)] \in Rows
  <1>1. cyc[c].todo \in SUBSET Nat /\ cyc[c].todo \subseteq DOMAIN queue
    BY DEF TypeOK, HandsOK, CycleStates
  <1>2. Row(c) \in cyc[c].todo
    BY <1>1, MinIn DEF Row
  <1> QED BY <1>1, <1>2 DEF TypeOK

\* What the two ways of a cycle's steps do to its record.
LEMMA GotoEffect ==
    ASSUME TypeOK, NEW c \in Cycles, NEW pc \in Steps, Goto(c, pc)
    PROVE  /\ cyc' \in [Cycles -> CycleStates]
           /\ cyc'[c].pc = pc /\ cyc'[c].todo = cyc[c].todo
           /\ cyc'[c].res = cyc[c].res /\ cyc'[c].page = cyc[c].page
           /\ \A d \in Cycles \ {c} : cyc'[d] = cyc[d]
  BY DEF TypeOK, CycleStates, Goto

LEMMA AnswerEffect ==
    ASSUME TypeOK, NEW c \in Cycles, NEW res \in Results, Answer(c, res)
    PROVE  /\ cyc' \in [Cycles -> CycleStates]
           /\ cyc'[c].pc = "mark" /\ cyc'[c].todo = cyc[c].todo
           /\ cyc'[c].res = res /\ cyc'[c].page = cyc[c].page
           /\ \A d \in Cycles \ {c} : cyc'[d] = cyc[d]
  BY DEF TypeOK, CycleStates, Answer, Steps

LEMMA NoCycleType == NoCycle \in CycleStates /\ NoCycle.todo = {} /\ NoCycle.page = {} /\ NoCycle.pc = "idle"
  BY DEF NoCycle, CycleStates, Steps, Results

\* The DELETE of the older updates keeps the contacts as they are, and the
\* updates of other QSOs.
LEMMA WithoutUpdatesEffect ==
    ASSUME queue \in Seq(Rows), NEW u
    PROVE  /\ WithoutUpdates(queue, u) \in Seq(Rows)
           /\ DOMAIN WithoutUpdates(queue, u) = DOMAIN queue
           /\ Len(WithoutUpdates(queue, u)) = Len(queue)
           /\ \A i \in DOMAIN queue :
                 /\ WithoutUpdates(queue, u)[i].q = queue[i].q
                 /\ WithoutUpdates(queue, u)[i].source = queue[i].source
                 /\ queue[i].source # "update" \/ queue[i].u # u
                      => WithoutUpdates(queue, u)[i] = queue[i]
  <1>1. \A i \in DOMAIN queue : queue[i] \in Rows
    OBVIOUS
  <1>2. \A r \in Rows : [r EXCEPT !.st = "deleted"] \in Rows
    BY DEF Rows
  <1>3. \A r \in Rows : /\ [r EXCEPT !.st = "deleted"].q = r.q
                        /\ [r EXCEPT !.st = "deleted"].source = r.source
    BY DEF Rows
  <1>4. WithoutUpdates(queue, u) \in [1..Len(queue) -> Rows]
    BY <1>1, <1>2 DEF WithoutUpdates
  <1>5. /\ WithoutUpdates(queue, u) \in Seq(Rows)
        /\ DOMAIN WithoutUpdates(queue, u) = DOMAIN queue
        /\ Len(WithoutUpdates(queue, u)) = Len(queue)
    BY <1>4
  <1> QED BY <1>1, <1>3, <1>5 DEF WithoutUpdates

\* The effects of the statements and requests on the two tables.
LEMMA AppendRow ==
    ASSUME queue \in Seq(Rows), NEW r \in Rows
    PROVE  /\ Append(queue, r) \in Seq(Rows)
           /\ DOMAIN Append(queue, r) = DOMAIN queue \cup {Len(queue) + 1}
           /\ Append(queue, r)[Len(queue) + 1] = r
           /\ \A i \in DOMAIN queue : Append(queue, r)[i] = queue[i] /\ i # Len(queue) + 1
  OBVIOUS

LEMMA CreateEffect ==
    ASSUME server \in Seq(ServerRows), NEW q \in Contacts
    PROVE  /\ Create(q) \in Seq(ServerRows)
           /\ DOMAIN Create(q) = DOMAIN server \cup {Len(server) + 1}
           /\ Create(q)[Len(server) + 1].q = q
           /\ \A u \in DOMAIN server : Create(q)[u] = server[u] /\ u # Len(server) + 1
  BY DEF Create, ServerRows

LEMMA MarkEffect ==
    ASSUME queue \in Seq(Rows), NEW i \in DOMAIN queue
    PROVE  /\ mark_synced(i) \in Seq(Rows)
           /\ DOMAIN mark_synced(i) = DOMAIN queue
           /\ \A j \in DOMAIN queue : mark_synced(i)[j].q = queue[j].q
                                    /\ mark_synced(i)[j].source = queue[j].source
           /\ mark_synced(i)[i].st # "waiting"
           /\ \A j \in DOMAIN queue \ {i} : mark_synced(i)[j] = queue[j]
  <1>1. queue[i] \in Rows
    OBVIOUS
  <1>2. CASE queue[i].st = "waiting"
    <2> DEFINE r == [queue[i] EXCEPT !.st = "synced"]
    <2>1. r \in Rows /\ r.q = queue[i].q /\ r.source = queue[i].source /\ r.st = "synced"
      BY <1>1 DEF Rows
    <2>2. mark_synced(i) = [queue EXCEPT ![i] = r]
      BY <1>2 DEF mark_synced
    <2> HIDE DEF r
    <2> QED BY <2>1, <2>2
  <1>3. CASE queue[i].st # "waiting"
    BY <1>3 DEF mark_synced
  <1> QED BY <1>2, <1>3

\* A request that is stored is that of a contact: Store creates a row.
LEMMA StoredContact ==
    ASSUME TypeOK, NEW c \in Cycles, PushStored(c)
    PROVE  /\ Row(c) \in cyc[c].todo /\ Row(c) \in DOMAIN queue /\ Contact(Row(c))
           /\ queue[Row(c)] \in Rows /\ queue[Row(c)].q \in Contacts
           /\ server' = Create(queue[Row(c)].q)
  <1>1. Row(c) \in cyc[c].todo /\ Row(c) \in DOMAIN queue /\ queue[Row(c)] \in Rows
    BY RowIn DEF PushStored
  <1>2. queue[Row(c)].source # "update"
    BY Refused DEF PushStored
  <1> QED BY <1>1, <1>2 DEF PushStored, Store, Contact, Rows

LEMMA InitTypeOK == Init => TypeOK
  <1> SUFFICES ASSUME Init PROVE TypeOK
    OBVIOUS
  <1>1. cyc \in [Cycles -> CycleStates]
    BY NoCycleType DEF Init
  <1>2. \A c \in Cycles : cyc[c].todo = {} /\ cyc[c].page = {} /\ cyc[c].pc = "idle"
    BY NoCycleType DEF Init
  <1>3. DOMAIN latest = {} /\ latest \in [DOMAIN latest -> Nat]
    BY DEF Init
  <1>4. queue \in Seq(Rows) /\ server \in Seq(ServerRows)
    BY DEF Init
  <1> QED BY <1>1, <1>2, <1>3, <1>4 DEF Init, TypeOK, HandsOK, LatestOK

\* Types: the operator.
LEMMA OperatorType ==
    ASSUME TypeOK,
           \/ \E q \in Contacts : LogQSO(q) \/ try_immediate_post(q)
           \/ \E u \in DOMAIN server : update_qso(u)
           \/ Login \/ Logout \/ Expire \/ Restart
    PROVE  TypeOK'
  <1>1. ASSUME NEW q \in Contacts, LogQSO(q) PROVE TypeOK'
    <2> DEFINE r == [q |-> q, u |-> 0, v |-> 0, st |-> "waiting",
                     source |-> IF q \in Heard THEN "wsjtx" ELSE "manual"]
    <2>1. r \in Rows /\ queue' = Append(queue, r)
      BY <1>1 DEF Rows, LogQSO, enqueue_qso
    <2> HIDE DEF r
    <2>2. queue' \in Seq(Rows) /\ DOMAIN queue \subseteq DOMAIN queue'
      BY <2>1, AppendRow DEF TypeOK
    <2> QED BY <1>1, <2>2 DEF LogQSO, TypeOK, HandsOK, LatestOK
  <1>2. ASSUME NEW q \in Contacts, try_immediate_post(q) PROVE TypeOK'
    BY <1>2, Refused DEF try_immediate_post, TypeOK, HandsOK, LatestOK
  <1>3. ASSUME NEW u \in DOMAIN server, update_qso(u) PROVE TypeOK'
    <2> DEFINE r == [q |-> server[u].q, u |-> u, v |-> edits', st |-> "waiting",
                     source |-> "update"]
    <2>1. edits' \in Nat /\ u \in Nat /\ server[u].q \in Contacts
      <3>1. server[u] \in ServerRows /\ u \in Nat
        BY DEF TypeOK
      <3>2. edits' = edits + 1 /\ edits \in Nat
        BY <1>3 DEF update_qso, TypeOK
      <3> QED BY <3>1, <3>2 DEF ServerRows
    <2>2. r \in Rows /\ queue' = Append(WithoutUpdates(queue, u), r)
      BY <1>3, <2>1 DEF Rows, update_qso, enqueue_qso_update
    <2> HIDE DEF r
    <2>3. queue' \in Seq(Rows) /\ DOMAIN queue \subseteq DOMAIN queue'
      BY <2>2, WithoutUpdatesEffect DEF TypeOK
    <2>4. LatestOK'
      BY <1>3, <2>1 DEF update_qso, LatestOK, TypeOK
    <2> QED BY <1>3, <2>1, <2>3, <2>4 DEF update_qso, Event, TypeOK, HandsOK
  <1>4. CASE Login \/ Logout
    <2>1. book' \in BOOLEAN
      BY <1>4, Zenon DEF Login, Logout, TypeOK
    <2>2. HandsOK' /\ LatestOK'
      BY <1>4 DEF Login, Logout, TypeOK, HandsOK, LatestOK
    <2>3. token' \in {"none", "good", "stale"}
      BY <1>4 DEF Login, Logout
    <2>4. events' = events \/ events' = events + 1
      BY <1>4, Zenon DEF Login, Logout, Event
    <2>5. UNCHANGED <<queue, server, cached, stuck, cyc, posts, edits, twice>>
      BY <1>4 DEF Login, Logout
    <2> QED BY <2>1, <2>2, <2>3, <2>4, <2>5 DEF TypeOK
  <1>5. CASE Expire
    <2>1. \A c \in Cycles : /\ cyc'[c] \in CycleStates /\ cyc'[c].todo = cyc[c].todo
                            /\ cyc'[c].page = cyc[c].page /\ cyc'[c].pc = cyc[c].pc
      BY <1>5 DEF Expire, TypeOK, CycleStates
    <2>2. cyc' \in [Cycles -> CycleStates]
      BY <1>5, <2>1 DEF Expire
    <2> QED BY <1>5, <2>1, <2>2 DEF Expire, Event, TypeOK, HandsOK, LatestOK
  <1>6. CASE Restart
    <2>1. cyc' = [c \in Cycles |-> NoCycle] /\ stuck' = FALSE /\ posts' = {} /\ events' \in Nat
          /\ UNCHANGED <<server, cached, token, book, edits>>
      BY <1>6 DEF Restart, Event, TypeOK
    <2>2. cyc' \in [Cycles -> CycleStates]
          /\ \A c \in Cycles : cyc'[c].todo = {} /\ cyc'[c].page = {} /\ cyc'[c].pc = "idle"
      BY <2>1, NoCycleType
    <2>3. twice' \subseteq Contacts
      <3>1. \A c \in Cycles : Unmarked(c) \subseteq Contacts
        BY RowIn DEF Unmarked, Rows, TypeOK, HandsOK
      <3> QED BY <1>6, <3>1 DEF Restart, TypeOK
    <2>4. queue' \in Seq(Rows)
      BY <1>6, WithoutUpdatesEffect DEF Restart, TypeOK
    <2>5. LatestOK'
      BY <1>6, <2>1 DEF Restart, TypeOK, LatestOK
    <2> QED BY <2>1, <2>2, <2>3, <2>4, <2>5 DEF TypeOK, HandsOK
  <1> QED BY <1>1, <1>2, <1>3, <1>4, <1>5, <1>6

\* Types: a cycle.
LEMMA BeginEffect ==
    ASSUME TypeOK, NEW c \in Cycles, Begin(c)
    PROVE  \E rows \in SUBSET Waiting :
             /\ cyc' \in [Cycles -> CycleStates]
             /\ cyc'[c].todo = rows /\ cyc'[c].page = {} /\ cyc'[c].pc \in {"pull", "resolve"}
             /\ \A d \in Cycles \ {c} : cyc'[d] = cyc[d]
             /\ twice' = twice \cup {queue[i].q : i \in rows \cap
                                         UNION {cyc[d].todo : d \in Cycles \ {c}}}
  <1>1. pending_qsos \subseteq Waiting /\ {} \subseteq Waiting
    BY DEF pending_qsos
  <1>2. PICK rows \in {{}, IF token = "none" THEN {} ELSE pending_qsos} :
             /\ cyc' = [cyc EXCEPT ![c] =
                    [NoCycle EXCEPT !.pc = IF rows = {} THEN "pull" ELSE "resolve",
                                    !.todo = rows, !.fresh = token = "good"]]
             /\ twice' = twice \cup {queue[i].q : i \in rows \cap
                                         UNION {cyc[d].todo : d \in Cycles \ {c}}}
    BY DEF Begin
  <1>3. rows \in SUBSET Waiting
    BY <1>1, Zenon
  <1> DEFINE new == [NoCycle EXCEPT !.pc = IF rows = {} THEN "pull" ELSE "resolve",
                                    !.todo = rows, !.fresh = token = "good"]
  <1>4. Waiting \in SUBSET Nat /\ (token = "good") \in BOOLEAN
    BY DEF Waiting, TypeOK
  <1>5. new \in CycleStates /\ new.todo = rows /\ new.page = {} /\ new.pc \in {"pull", "resolve"}
    BY <1>3, <1>4 DEF NoCycle, CycleStates, Steps, Results
  <1> HIDE DEF new
  <1>6. cyc' = [cyc EXCEPT ![c] = new]
    BY <1>2 DEF new
  <1>7. /\ cyc' \in [Cycles -> CycleStates] /\ cyc'[c] = new
        /\ \A d \in Cycles \ {c} : cyc'[d] = cyc[d]
    BY <1>5, <1>6 DEF TypeOK
  <1> QED BY <1>2, <1>3, <1>5, <1>7, Zenon

\* A step of cycle c after its beginning: it gives rows back, or goes on.
LEMMA StepEffect ==
    ASSUME TypeOK, NEW c \in Cycles, Step(c)
    PROVE  /\ cyc' \in [Cycles -> CycleStates]
           /\ cyc'[c].todo \subseteq cyc[c].todo
           /\ \A d \in Cycles \ {c} : cyc'[d] = cyc[d]
           /\ cyc'[c].page \subseteq DOMAIN server
           /\ cyc'[c].pc \in {"refresh", "mark"} => cyc'[c].todo # {}
           /\ cyc'[c].pc = "mark" => cyc'[c].todo = cyc[c].todo
  <1>0. cyc[c] \in CycleStates /\ cyc[c].page \subseteq DOMAIN server
    BY DEF TypeOK, HandsOK
  <1>1. CASE \E pc \in {"push", "held", "pull"} : Goto(c, pc)
    BY <1>0, <1>1, GotoEffect DEF Steps
  <1>2. CASE Goto(c, "refresh") /\ cyc[c].todo # {}
    BY <1>0, <1>2, GotoEffect DEF Steps
  <1>3. CASE \E res \in Results : Answer(c, res) /\ cyc[c].todo # {}
    BY <1>0, <1>3, AnswerEffect
  <1>4. CASE cyc' = [cyc EXCEPT ![c] = NoCycle]
    BY <1>4, NoCycleType DEF TypeOK
  <1>5. CASE Mark(c)
    <2> DEFINE new == [cyc[c] EXCEPT !.pc = "push", !.todo = @ \ {Row(c)}, !.res = None]
    <2>1. cyc' = [cyc EXCEPT ![c] = new]
      BY <1>5 DEF Mark
    <2>2. /\ new \in CycleStates /\ new.pc = "push" /\ new.todo = cyc[c].todo \ {Row(c)}
          /\ new.page = cyc[c].page
      BY <1>0 DEF CycleStates, Steps, Results
    <2> HIDE DEF new
    <2> QED BY <1>0, <2>1, <2>2 DEF TypeOK
  <1>6. CASE PullPage(c)
    <2> DEFINE new == [cyc[c] EXCEPT !.pc = "apply", !.page = DOMAIN server]
    <2>1. cyc' = [cyc EXCEPT ![c] = new]
      BY <1>6 DEF PullPage
    <2>2. /\ new \in CycleStates /\ new.pc = "apply" /\ new.todo = cyc[c].todo
          /\ new.page = DOMAIN server
      <3>1. DOMAIN server \in SUBSET Nat
        BY DEF TypeOK
      <3> QED BY <1>0, <3>1 DEF CycleStates, Steps
    <2> HIDE DEF new
    <2> QED BY <2>1, <2>2 DEF TypeOK
  <1>7. cyc[c].pc = "refresh" => cyc[c].todo # {}
    BY DEF TypeOK, HandsOK
  <1>8. CASE Resolve(c) \/ PushDone(c)
    BY <1>1, <1>8 DEF Resolve, PushDone
  <1>9. CASE ConfigFails(c) \/ UpsertPage(c) \/ PullFails(c)
    BY <1>4, <1>9 DEF ConfigFails, UpsertPage, PullFails
  <1>10. CASE PushStored(c)
    BY <1>3, <1>10 DEF PushStored, Results
  <1>11. CASE PushFails(c)
    BY <1>2, <1>3, <1>11 DEF PushFails, Results
  <1>12. CASE Refresh(c)
    BY <1>3, <1>7, <1>12 DEF Refresh, Results, At
  <1> QED BY <1>5, <1>6, <1>8, <1>9, <1>10, <1>11, <1>12 DEF Step

LEMMA CycleType ==
    ASSUME TypeOK, NEW c \in Cycles, Begin(c) \/ Step(c)
    PROVE  TypeOK'
  <1>1. CASE Begin(c)
    <2>1. PICK rows \in SUBSET Waiting :
             /\ cyc' \in [Cycles -> CycleStates]
             /\ cyc'[c].todo = rows /\ cyc'[c].page = {} /\ cyc'[c].pc \in {"pull", "resolve"}
             /\ \A d \in Cycles \ {c} : cyc'[d] = cyc[d]
             /\ twice' = twice \cup {queue[i].q : i \in rows \cap
                                         UNION {cyc[d].todo : d \in Cycles \ {c}}}
      BY <1>1, BeginEffect
    <2>2. UNCHANGED <<queue, server, cached, token, book, stuck, posts, edits, latest>>
      BY <1>1 DEF Begin
    <2>3. HandsOK'
      BY <2>1, <2>2 DEF HandsOK, TypeOK, Waiting
    <2>4. twice' \subseteq Contacts
      <3>1. \A i \in DOMAIN queue : queue[i] \in Rows
        BY DEF TypeOK
      <3>2. \A i \in rows : queue[i].q \in Contacts
        BY <3>1 DEF Waiting, Rows
      <3> QED BY <2>1, <3>2 DEF TypeOK
    <2>5. events' = events \/ events' = events + 1
      BY <1>1, Zenon DEF Begin, Event
    <2> QED BY <2>1, <2>2, <2>3, <2>4, <2>5 DEF TypeOK, LatestOK
  <1>2. CASE Step(c)
    <2>1. UNCHANGED <<posts, edits, latest>>
      BY <1>2 DEF Step, Resolve, ConfigFails, PushStored, PushFails, Refresh, Mark, PushDone,
                  PullPage, UpsertPage, PullFails
    <2>2. events' = events \/ events' = events + 1
      BY <1>2, Zenon DEF Step, Resolve, ConfigFails, PushStored, PushFails, Refresh, Mark, PushDone,
                  PullPage, UpsertPage, PullFails, Event
    <2>3. queue' \in Seq(Rows) /\ DOMAIN queue' = DOMAIN queue
      <3>1. CASE Mark(c)
        <4>1. Row(c) \in DOMAIN queue
          BY <3>1, RowIn DEF Mark, At, TypeOK, HandsOK
        <4> QED BY <3>1, <4>1, MarkEffect DEF Mark, TypeOK
      <3>2. CASE ~Mark(c)
        BY <1>2, <3>2 DEF Step, Resolve, ConfigFails, PushStored, PushFails, Refresh, PushDone,
                  PullPage, UpsertPage, PullFails, TypeOK
      <3> QED BY <3>1, <3>2
    <2>4. server' \in Seq(ServerRows) /\ DOMAIN server \subseteq DOMAIN server'
      <3>1. CASE PushStored(c)
        BY <3>1, StoredContact, CreateEffect DEF TypeOK
      <3>2. CASE ~PushStored(c)
        BY <1>2, <3>2 DEF Step, Resolve, ConfigFails, PushFails, Refresh, Mark, PushDone,
                  PullPage, UpsertPage, PullFails, TypeOK
      <3> QED BY <3>1, <3>2
    <2>5. cached' \subseteq DOMAIN server'
      <3>1. cached' = cached \/ cached' = cached \cup cyc[c].page
        BY <1>2 DEF Step, Resolve, ConfigFails, PushStored, PushFails, Refresh, Mark, PushDone,
                  PullPage, UpsertPage, PullFails
      <3> QED BY <2>4, <3>1 DEF TypeOK, HandsOK
    <2>6. /\ token' \in {"none", "good", "stale"}
          /\ book' \in BOOLEAN /\ stuck' \in BOOLEAN
      <3>1. token' \in {token, "good"}
        BY <1>2 DEF Step, Resolve, ConfigFails, PushStored, PushFails, Refresh, Mark, PushDone,
                  PullPage, UpsertPage, PullFails
      <3>2. book' \in {book, TRUE} /\ stuck' \in {stuck, TRUE}
        BY <1>2, Zenon DEF Step, Resolve, ConfigFails, PushStored, PushFails, Refresh, Mark, PushDone,
                  PullPage, UpsertPage, PullFails
      <3> QED BY <3>1, <3>2, Zenon DEF TypeOK
    <2>7. twice' \subseteq Contacts
      <3>1. CASE Mark(c)
        <4>1. queue[Row(c)] \in Rows
          BY <3>1, RowIn DEF Mark, At, TypeOK, HandsOK
        <4> QED BY <3>1, <4>1 DEF Mark, TypeOK, Rows
      <3>2. CASE PushStored(c)
        BY <3>2, StoredContact DEF PushStored, TypeOK
      <3>3. CASE ~PushStored(c) /\ ~Mark(c)
        BY <1>2, <3>3 DEF Step, Resolve, ConfigFails, PushFails, Refresh, PushDone,
                  PullPage, UpsertPage, PullFails, TypeOK
      <3> QED BY <3>1, <3>2, <3>3
    <2>8. cyc' \in [Cycles -> CycleStates] /\ HandsOK'
      BY <1>2, <2>3, <2>4, StepEffect DEF TypeOK, HandsOK
    <2> QED BY <2>1, <2>2, <2>3, <2>4, <2>5, <2>6, <2>7, <2>8 DEF TypeOK, LatestOK
  <1> QED BY <1>1, <1>2

LEMMA NextTypeOK == TypeOK /\ [Next]_vars => TypeOK'
  <1> SUFFICES ASSUME TypeOK, [Next]_vars PROVE TypeOK'
    OBVIOUS
  <1>1. CASE UNCHANGED vars
    BY <1>1 DEF vars, TypeOK, HandsOK, LatestOK
  <1> QED BY <1>1, OperatorType, CycleType DEF Next

\* The tables, the rows in the cycles' hands and the edits keep their types,
\* whatever cycles overlap and whenever the application ends: a cycle never
\* refers to a row the table does not have.
THEOREM TypeCorrect == Spec => []TypeOK
  BY InitTypeOK, NextTypeOK, PTL DEF Spec
-----------------------------------------------------------------------------
\* Steps that change nothing the invariants speak of: rows are given back,
\* and no row becomes stored or stops being so.
Harmless ==
    /\ UNCHANGED <<queue, server, twice, latest>>
    /\ \A c \in Cycles : /\ cyc'[c].todo \subseteq cyc[c].todo
                         /\ Stored(c)' <=> Stored(c)
                         /\ Stored(c) => cyc'[c].todo = cyc[c].todo

LEMMA HarmlessKeeps ==
    ASSUME QueueInv, TypeOK', Harmless
    PROVE  QueueInv'
  <1> USE DEF QueueInv, Harmless
  <1>1. Waiting' = Waiting /\ \A q : Copies(q)' = Copies(q)
    BY DEF Waiting, Copies
  <1>2. \A i : Contact(i)' = Contact(i)
    BY DEF Contact
  <1>3. \A c \in Cycles : Stored(c) => Row(c)' = Row(c)
    BY DEF Row
  <1>4. NothingLost' /\ SoleRow' /\ HasRow' /\ OneCopy'
    BY <1>1, <1>2 DEF NothingLost, SoleRow, HasRow, OneCopy
  <1>5. StoredIsThere'
    BY <1>1, <1>2, <1>3 DEF StoredIsThere
  <1>6. EditIsQueued'
    BY <1>1, <1>2 DEF EditIsQueued
  <1>7. SharedNoted'
    BY DEF SharedNoted
  <1>8. InHandWaits'
    BY <1>1, <1>2 DEF InHandWaits
  <1>9. WaitingIsNew'
    BY <1>1, <1>2, <1>3 DEF WaitingIsNew
  <1> QED BY <1>4, <1>5, <1>6, <1>7, <1>8, <1>9

LEMMA InitInv == Init => QueueInv
  <1> SUFFICES ASSUME Init PROVE QueueInv
    OBVIOUS
  <1>1. TypeOK
    BY InitTypeOK
  <1>2. \A c \in Cycles : cyc[c].todo = {} /\ cyc[c].pc = "idle"
    BY NoCycleType DEF Init
  <1>3. DOMAIN queue = {} /\ DOMAIN server = {} /\ DOMAIN latest = {}
    BY DEF Init
  <1>4. NothingLost /\ EditIsQueued /\ SoleRow /\ HasRow /\ WaitingIsNew /\ OneCopy
    BY <1>3 DEF NothingLost, EditIsQueued, SoleRow, HasRow, WaitingIsNew, Waiting, OneCopy, Copies
  <1>5. StoredIsThere /\ SharedNoted /\ InHandWaits
    BY <1>2 DEF StoredIsThere, SharedNoted, InHandWaits, Stored
  <1> QED BY <1>1, <1>4, <1>5 DEF QueueInv

\* Which steps of the operator and of a cycle are harmless.
LEMMA HarmlessSteps ==
    ASSUME TypeOK, NEW c \in Cycles
    PROVE  /\ (\E q \in Contacts : try_immediate_post(q)) \/ Login \/ Logout \/ Expire => Harmless
           /\ Step(c) /\ ~PushStored(c) /\ ~(Stored(c) /\ Mark(c)) => Harmless
  <1>1. CASE (\E q \in Contacts : try_immediate_post(q)) \/ Login \/ Logout
    BY <1>1, Refused DEF try_immediate_post, Login, Logout, Harmless, Stored
  <1>2. CASE Expire
    <2>1. \A d \in Cycles : /\ cyc'[d].todo = cyc[d].todo
                            /\ cyc'[d].pc = cyc[d].pc /\ cyc'[d].res = cyc[d].res
      BY <1>2 DEF Expire, TypeOK, CycleStates
    <2> QED BY <1>2, <2>1 DEF Expire, Harmless, Stored
  <1>3. ASSUME Step(c), ~PushStored(c), ~(Stored(c) /\ Mark(c)) PROVE Harmless
    <2>1. UNCHANGED <<queue, server, twice, latest>>
      BY <1>3 DEF Step, Resolve, ConfigFails, PushFails, Refresh, Mark, At, Stored, Settled,
                  PushDone, PullPage, UpsertPage, PullFails
    <2>2. ~Stored(c)
      BY <1>3 DEF Step, Resolve, ConfigFails, PushFails, Refresh, At, Stored,
                  PushDone, PullPage, UpsertPage, PullFails
    <2>3. ~Stored(c)'
      <3>1. CASE \E pc \in {"push", "held", "pull", "refresh"} : Goto(c, pc)
        BY <3>1, GotoEffect DEF Steps, Stored
      <3>2. CASE \E res \in Results \ {"ok"} : Answer(c, res)
        BY <3>2, AnswerEffect DEF Stored
      <3>3. CASE cyc' = [cyc EXCEPT ![c] = NoCycle]
        BY <3>3, NoCycleType DEF Stored, TypeOK
      <3>4. CASE Mark(c)
        BY <3>4 DEF Mark, TypeOK, CycleStates, Stored
      <3>5. CASE PullPage(c)
        BY <3>5 DEF PullPage, TypeOK, CycleStates, Stored
      <3>6. CASE Resolve(c) \/ PushDone(c) \/ ConfigFails(c) \/ UpsertPage(c) \/ PullFails(c)
        BY <3>1, <3>3, <3>6 DEF Resolve, PushDone, ConfigFails, UpsertPage, PullFails
      <3>7. CASE PushFails(c) \/ Refresh(c)
        BY <3>1, <3>2, <3>7 DEF PushFails, Refresh, Results
      <3> QED BY <1>3, <3>4, <3>5, <3>6, <3>7 DEF Step
    <2>4. /\ cyc'[c].todo \subseteq cyc[c].todo
          /\ \A d \in Cycles \ {c} : cyc'[d] = cyc[d]
      BY <1>3, StepEffect
    <2> QED BY <2>1, <2>2, <2>3, <2>4 DEF Harmless, Stored
  <1> QED BY <1>1, <1>2, <1>3

\* A contact is logged: it has no row yet, and so no copy.
LEMMA LogKeeps ==
    ASSUME QueueInv, TypeOK', NEW q \in Contacts, LogQSO(q)
    PROVE  QueueInv'
  <1> USE DEF QueueInv
  <1>0. PICK new : new = Len(queue) + 1
    OBVIOUS
  <1> DEFINE r == [q |-> q, u |-> 0, v |-> 0, st |-> "waiting",
                   source |-> IF q \in Heard THEN "wsjtx" ELSE "manual"]
  <1>1. r \in Rows /\ r.q = q /\ r.source # "update" /\ r.st = "waiting"
    BY DEF Rows
  <1>2. queue' = Append(queue, r) /\ UNCHANGED <<server, cyc, twice, latest>>
    BY DEF LogQSO, enqueue_qso
  <1> HIDE DEF r
  <1>3. /\ DOMAIN queue' = DOMAIN queue \cup {new}
        /\ queue'[new] = r
        /\ \A i \in DOMAIN queue : queue'[i] = queue[i] /\ i # new
    BY <1>0, <1>1, <1>2, AppendRow DEF TypeOK
  <1>4. \A i \in DOMAIN queue : queue[i].q # q
    BY DEF LogQSO
  <1>5. Copies(q) = {}
    BY <1>4 DEF HasRow, Copies
  <1>6. /\ Waiting' = Waiting \cup {new} /\ Waiting \subseteq DOMAIN queue
        /\ \A p : Copies(p)' = Copies(p)
    BY <1>1, <1>2, <1>3 DEF Waiting, Copies
  <1>7. Contact(new)' /\ \A i \in DOMAIN queue : Contact(i)' <=> Contact(i)
    BY <1>1, <1>3 DEF Contact
  <1>8. \A c \in Cycles : /\ Stored(c)' <=> Stored(c)
                          /\ Row(c)' = Row(c)
                          /\ cyc[c].todo \subseteq DOMAIN queue
                          /\ Stored(c) => Row(c) \in DOMAIN queue
    BY <1>2, RowIn DEF Stored, Row, TypeOK, HandsOK
  <1>9. NothingLost'
    BY <1>3, <1>6 DEF NothingLost
  <1>10. StoredIsThere'
    BY <1>3, <1>6, <1>7, <1>8 DEF StoredIsThere
  <1>11. EditIsQueued'
    BY <1>2, <1>3, <1>6, <1>7 DEF EditIsQueued
  <1>12. SoleRow'
    BY <1>1, <1>3, <1>4, <1>7 DEF SoleRow
  <1>13. HasRow'
    BY <1>2, <1>3, <1>7 DEF HasRow
  <1>14. SharedNoted' /\ InHandWaits'
    BY <1>2, <1>3, <1>6, <1>7, <1>8 DEF SharedNoted, InHandWaits
  <1>15. WaitingIsNew'
    BY <1>1, <1>2, <1>3, <1>5, <1>6, <1>7, <1>8 DEF WaitingIsNew
  <1>16. OneCopy'
    BY <1>2, <1>6 DEF OneCopy
  <1> QED BY <1>9, <1>10, <1>11, <1>12, <1>13, <1>14, <1>15, <1>16

\* Rows of updates come and go; the contacts' rows stay as they are.
LEMMA UpdatesKeep ==
    ASSUME QueueInv, TypeOK', UNCHANGED <<server, cyc, twice>>,
           DOMAIN queue \subseteq DOMAIN queue',
           \A i \in DOMAIN queue : Contact(i) => queue'[i] = queue[i],
           \A i \in DOMAIN queue : queue'[i].q = queue[i].q /\ (Contact(i)' <=> Contact(i)),
           \A i \in DOMAIN queue' \ DOMAIN queue : ~Contact(i)',
           EditIsQueued'
    PROVE  QueueInv'
  <1> USE DEF QueueInv
  <1>1. \A p : Copies(p)' = Copies(p)
    BY DEF Copies
  <1>2. \A i \in DOMAIN queue' : Contact(i)' => i \in DOMAIN queue /\ Contact(i) /\ queue'[i] = queue[i]
    OBVIOUS
  <1>3. \A i \in DOMAIN queue' : Contact(i)' => (i \in Waiting' <=> i \in Waiting)
    BY <1>2 DEF Waiting
  <1>4. Waiting' \subseteq DOMAIN queue'
    BY DEF Waiting
  <1>5. \A c \in Cycles : /\ Stored(c)' <=> Stored(c)
                          /\ Row(c)' = Row(c)
                          /\ cyc[c].todo \subseteq DOMAIN queue
                          /\ Stored(c) => Row(c) \in DOMAIN queue
    BY RowIn DEF Stored, Row, TypeOK, HandsOK
  <1>6. NothingLost'
    BY <1>1, <1>2, <1>3 DEF NothingLost, Contact
  <1>7. StoredIsThere'
    BY <1>1, <1>5 DEF StoredIsThere
  <1>8. SoleRow'
    BY <1>2 DEF SoleRow
  <1>9. HasRow'
    BY DEF HasRow
  <1>10. SharedNoted'
    BY <1>5 DEF SharedNoted
  <1>11. InHandWaits'
    BY <1>3, <1>5 DEF InHandWaits
  <1>12. WaitingIsNew'
    BY <1>1, <1>2, <1>3, <1>4, <1>5 DEF WaitingIsNew
  <1>13. OneCopy'
    BY <1>1 DEF OneCopy
  <1> QED BY <1>6, <1>7, <1>8, <1>9, <1>10, <1>11, <1>12, <1>13

LEMMA UpdateKeeps ==
    ASSUME QueueInv, TypeOK', NEW u \in DOMAIN server, update_qso(u)
    PROVE  QueueInv'
  <1> USE DEF QueueInv
  <1>0. PICK new : new = Len(queue) + 1
    OBVIOUS
  <1> DEFINE rows == WithoutUpdates(queue, u)
             r == [q |-> server[u].q, u |-> u, v |-> edits', st |-> "waiting",
                   source |-> "update"]
  <1>1. /\ queue' = Append(rows, r) /\ UNCHANGED <<server, cyc, twice>>
        /\ latest' = [w \in DOMAIN latest \cup {u} |-> IF w = u THEN edits' ELSE latest[w]]
    BY DEF update_qso, enqueue_qso_update
  <1>2. r.u = u /\ r.v = edits' /\ r.source = "update" /\ r.st = "waiting"
    OBVIOUS
  <1> HIDE DEF r
  <1>3. /\ rows \in Seq(Rows) /\ DOMAIN rows = DOMAIN queue /\ Len(rows) = Len(queue)
        /\ \A i \in DOMAIN queue :
                 /\ rows[i].q = queue[i].q
                 /\ rows[i].source = queue[i].source
                 /\ queue[i].source # "update" \/ queue[i].u # u => rows[i] = queue[i]
    BY WithoutUpdatesEffect DEF TypeOK
  <1> HIDE DEF rows
  <1>4. /\ DOMAIN queue' = DOMAIN queue \cup {new}
        /\ queue'[new] = r
        /\ \A i \in DOMAIN queue : queue'[i] = rows[i] /\ i # new
    BY <1>0, <1>1, <1>3
  <1>5. \A i \in DOMAIN queue : /\ Contact(i) => queue'[i] = queue[i]
                                /\ queue'[i].q = queue[i].q /\ (Contact(i)' <=> Contact(i))
    BY <1>3, <1>4 DEF Contact
  <1>6. ~Contact(new)' /\ new \in Waiting'
    BY <1>2, <1>4 DEF Contact, Waiting
  <1>7. EditIsQueued'
    <2> SUFFICES ASSUME NEW w \in DOMAIN latest'
                 PROVE  \E i \in Waiting' : ~Contact(i)' /\ queue'[i].u = w /\ queue'[i].v = latest'[w]
      BY DEF EditIsQueued
    <2>1. CASE w = u
      BY <1>1, <1>2, <1>4, <1>6, <2>1
    <2>2. CASE w # u
      <3>1. w \in DOMAIN latest /\ latest'[w] = latest[w]
        BY <1>1, <2>2
      <3>2. PICK i \in Waiting : ~Contact(i) /\ queue[i].u = w /\ queue[i].v = latest[w]
        BY <3>1 DEF EditIsQueued
      <3>3. i \in DOMAIN queue /\ queue'[i] = queue[i]
        BY <1>3, <1>4, <2>2, <3>2 DEF Waiting
      <3> QED BY <1>4, <1>5, <3>1, <3>2, <3>3 DEF Waiting
    <2> QED BY <2>1, <2>2
  <1> QED BY <1>1, <1>4, <1>5, <1>6, <1>7, UpdatesKeep

\* The application ends: the rows that were stored and not marked are noted,
\* and so is an update that was deleted and not replaced.
LEMMA RestartKeeps ==
    ASSUME QueueInv, TypeOK', Restart
    PROVE  QueueInv'
  <1> USE DEF QueueInv
  <1>1. \A c \in Cycles : cyc'[c].todo = {} /\ ~Stored(c)'
    BY NoCycleType DEF Restart, Stored
  <1>2. twice \subseteq twice' /\ server' = server
    BY DEF Restart
  <1>3. \A c \in Cycles : Stored(c) => queue[Row(c)].q \in twice'
    BY DEF Restart, Unmarked, Stored
  <1>4. /\ DOMAIN queue' = DOMAIN queue
        /\ \A i \in DOMAIN queue : /\ queue'[i].q = queue[i].q
                                   /\ queue'[i].source = queue[i].source
                                   /\ Contact(i) => queue'[i] = queue[i]
    <2>1. CASE queue' = queue
      BY <2>1
    <2>2. ASSUME NEW u, queue' = WithoutUpdates(queue, u) PROVE <1>4!1 /\ <1>4!2
      BY <2>2, WithoutUpdatesEffect DEF TypeOK, Contact
    <2> QED BY <2>1, <2>2 DEF Restart
  <1>5. \A i \in DOMAIN queue : /\ Contact(i)' <=> Contact(i)
                                /\ Contact(i) => (i \in Waiting' <=> i \in Waiting)
    BY <1>4 DEF Contact, Waiting
  <1>6. Waiting' \subseteq DOMAIN queue /\ \A p : Copies(p)' = Copies(p)
    BY <1>2, <1>4 DEF Waiting, Copies
  <1>7. EditIsQueued'
    <2>1. CASE UNCHANGED <<queue, latest>>
      BY <2>1 DEF EditIsQueued, Waiting, Contact
    <2>2. ASSUME NEW u \in cached, queue' = WithoutUpdates(queue, u),
                 latest' = [w \in DOMAIN latest \ {u} |-> latest[w]]
          PROVE  EditIsQueued'
      <3> SUFFICES ASSUME NEW w \in DOMAIN latest'
                   PROVE  \E i \in Waiting' : /\ ~Contact(i)' /\ queue'[i].u = w
                                              /\ queue'[i].v = latest'[w]
        BY DEF EditIsQueued
      <3>1. w \in DOMAIN latest /\ w # u /\ latest'[w] = latest[w]
        BY <2>2
      <3>2. PICK i \in Waiting : ~Contact(i) /\ queue[i].u = w /\ queue[i].v = latest[w]
        BY <3>1 DEF EditIsQueued
      <3>3. i \in DOMAIN queue /\ queue'[i] = queue[i]
        BY <2>2, <3>1, <3>2, WithoutUpdatesEffect DEF Waiting, TypeOK
      <3> QED BY <1>4, <1>5, <3>1, <3>2, <3>3 DEF Waiting
    <2> QED BY <2>1, <2>2 DEF Restart
  <1>8. NothingLost'
    BY <1>4, <1>5, <1>6 DEF NothingLost, Contact
  <1>9. StoredIsThere' /\ SharedNoted' /\ InHandWaits'
    BY <1>1 DEF StoredIsThere, SharedNoted, InHandWaits
  <1>10. SoleRow' /\ HasRow'
    BY <1>2, <1>4, <1>5 DEF SoleRow, HasRow
  <1>11. WaitingIsNew'
    BY <1>2, <1>3, <1>4, <1>5, <1>6 DEF WaitingIsNew
  <1>12. OneCopy'
    BY <1>2, <1>6 DEF OneCopy
  <1> QED BY <1>7, <1>8, <1>9, <1>10, <1>11, <1>12

\* A cycle begins: the rows it shares with another are noted.
LEMMA BeginKeeps ==
    ASSUME QueueInv, TypeOK', NEW c \in Cycles, Begin(c)
    PROVE  QueueInv'
  <1> USE DEF QueueInv
  <1>1. PICK rows \in SUBSET Waiting :
             /\ cyc'[c].todo = rows /\ cyc'[c].pc \in {"pull", "resolve"}
             /\ \A d \in Cycles \ {c} : cyc'[d] = cyc[d]
             /\ twice' = twice \cup {queue[i].q : i \in rows \cap
                                         UNION {cyc[d].todo : d \in Cycles \ {c}}}
    BY BeginEffect
  <1>2. UNCHANGED <<queue, server, latest>> /\ ~Stored(c)
    BY DEF Begin, At, Stored
  <1>3. /\ twice \subseteq twice'
        /\ \A d \in Cycles \ {c} : \A i \in rows \cap cyc[d].todo : queue[i].q \in twice'
    BY <1>1
  <1>4. ~Stored(c)' /\ \A d \in Cycles \ {c} : (Stored(d)' <=> Stored(d)) /\ Row(d)' = Row(d)
    BY <1>1 DEF Stored, Row
  <1>5. Waiting' = Waiting /\ \A p : Copies(p)' = Copies(p)
    BY <1>2 DEF Waiting, Copies
  <1>6. \A i : Contact(i)' <=> Contact(i)
    BY <1>2 DEF Contact
  <1>7. NothingLost' /\ SoleRow' /\ HasRow' /\ EditIsQueued'
    BY <1>2, <1>5, <1>6 DEF NothingLost, SoleRow, HasRow, EditIsQueued
  <1>8. StoredIsThere'
    BY <1>2, <1>4, <1>5, <1>6 DEF StoredIsThere
  <1>9. SharedNoted'
    <2> SUFFICES ASSUME NEW d \in Cycles, NEW e \in Cycles, d # e,
                        NEW i \in cyc'[d].todo \cap cyc'[e].todo
                 PROVE  queue'[i].q \in twice'
      BY DEF SharedNoted
    <2>1. CASE d = c
      BY <1>1, <1>2, <1>3, <2>1
    <2>2. CASE e = c
      BY <1>1, <1>2, <1>3, <2>2
    <2>3. CASE d # c /\ e # c
      BY <1>1, <1>2, <1>3, <2>3 DEF SharedNoted
    <2> QED BY <2>1, <2>2, <2>3
  <1>10. InHandWaits'
    BY <1>1, <1>2, <1>3, <1>5, <1>6 DEF InHandWaits
  <1>11. WaitingIsNew'
    BY <1>2, <1>3, <1>4, <1>5, <1>6 DEF WaitingIsNew
  <1>12. OneCopy'
    BY <1>3, <1>5 DEF OneCopy
  <1> QED BY <1>7, <1>8, <1>9, <1>10, <1>11, <1>12

\* A contact is stored: nobody else had it, and it was not there before.
LEMMA PushStoredKeeps ==
    ASSUME QueueInv, TypeOK', NEW c \in Cycles, PushStored(c)
    PROVE  QueueInv'
  <1> USE DEF QueueInv
  <1>0. PICK i, q, new : i = Row(c) /\ q = queue[i].q /\ new = Len(server) + 1
    OBVIOUS
  <1>1. /\ i \in cyc[c].todo /\ i \in DOMAIN queue /\ Contact(i)
        /\ q \in Contacts /\ server' = Create(q)
    BY <1>0, StoredContact
  <1>2. UNCHANGED <<queue, latest>> /\ ~Stored(c) /\ twice \subseteq twice'
    BY DEF PushStored, At, Stored
  <1>3. \/ Answer(c, "ok")
        \/ Answer(c, "failed") /\ q \in twice'
    BY <1>0 DEF PushStored
  <1>4. /\ cyc'[c].pc = "mark" /\ cyc'[c].todo = cyc[c].todo
        /\ cyc'[c].res = "ok" \/ q \in twice'
        /\ \A d \in Cycles \ {c} : cyc'[d] = cyc[d]
    BY <1>3, AnswerEffect DEF Results
  <1>5. /\ \A d \in Cycles : cyc'[d].todo = cyc[d].todo /\ Row(d)' = Row(d)
        /\ \A d \in Cycles \ {c} : Stored(d)' <=> Stored(d)
        /\ Stored(c)' \/ q \in twice'
    BY <1>4 DEF Row, Stored
  <1>6. Waiting' = Waiting /\ \A j : Contact(j)' <=> Contact(j)
    BY <1>2 DEF Waiting, Contact
  <1>7. /\ DOMAIN server' = DOMAIN server \cup {new}
        /\ server'[new].q = q
        /\ \A u \in DOMAIN server : server'[u] = server[u] /\ u # new
    BY <1>0, <1>1, CreateEffect DEF TypeOK
  <1>8. Copies(q)' = Copies(q) \cup {new} /\ \A p : p # q => Copies(p)' = Copies(p)
    BY <1>7 DEF Copies
  <1>9. q \notin twice => Copies(q) = {}
    <2> SUFFICES ASSUME q \notin twice PROVE Copies(q) = {}
      OBVIOUS
    <2>1. i \in Waiting
      BY <1>0, <1>1 DEF InHandWaits
    <2>2. ASSUME NEW d \in Cycles, Stored(d), Row(d) = i PROVE FALSE
      <3>1. i \in cyc[d].todo
        BY <2>2, RowIn DEF Stored, TypeOK, HandsOK
      <3>2. d # c
        BY <1>2, <2>2
      <3> QED BY <1>0, <1>1, <3>1, <3>2 DEF SharedNoted
    <2> QED BY <1>0, <1>1, <2>1, <2>2 DEF WaitingIsNew
  <1>10. NothingLost'
    BY <1>2, <1>6, <1>8 DEF NothingLost
  <1>11. StoredIsThere'
    BY <1>0, <1>1, <1>2, <1>5, <1>6, <1>8 DEF StoredIsThere
  <1>12. EditIsQueued' /\ SoleRow'
    BY <1>2, <1>6 DEF EditIsQueued, SoleRow
  <1>13. HasRow'
    BY <1>0, <1>1, <1>2, <1>6, <1>7 DEF HasRow
  <1>14. SharedNoted' /\ InHandWaits'
    BY <1>2, <1>5, <1>6 DEF SharedNoted, InHandWaits
  <1>15. WaitingIsNew'
    <2> SUFFICES ASSUME NEW j \in Waiting, Contact(j), queue[j].q \notin twice'
                 PROVE  \/ Copies(queue[j].q)' = {}
                        \/ \E d \in Cycles : Stored(d)' /\ Row(d)' = j
      BY <1>2, <1>6 DEF WaitingIsNew
    <2>1. CASE j = i
      BY <1>0, <1>5, <2>1
    <2>2. CASE j # i
      <3>1. queue[j].q # q
        BY <1>0, <1>1, <2>2 DEF SoleRow, Waiting
      <3>2. Copies(queue[j].q) = {} \/ \E d \in Cycles : Stored(d) /\ Row(d) = j
        BY <1>2 DEF WaitingIsNew
      <3> QED BY <1>2, <1>5, <1>8, <3>1, <3>2
    <2> QED BY <2>1, <2>2
  <1>16. OneCopy'
    BY <1>2, <1>8, <1>9 DEF OneCopy
  <1> QED BY <1>10, <1>11, <1>12, <1>13, <1>14, <1>15, <1>16

\* The mark of a row that was stored, or the loss of it.
LEMMA MarkKeeps ==
    ASSUME QueueInv, TypeOK', NEW c \in Cycles, Stored(c), Mark(c)
    PROVE  QueueInv'
  <1> USE DEF QueueInv
  <1>0. PICK i, q : i = Row(c) /\ q = queue[i].q
    OBVIOUS
  <1>1. /\ i \in cyc[c].todo /\ i \in DOMAIN queue
        /\ Contact(i) /\ Copies(q) # {}
    BY <1>0, RowIn DEF Stored, StoredIsThere, TypeOK, HandsOK
  <1>2. UNCHANGED <<server, latest>> /\ twice \subseteq twice'
    BY DEF Mark
  <1>3. \/ queue' = mark_synced(i) /\ twice' = twice
        \/ queue' = queue /\ q \in twice'
    BY <1>0 DEF Mark, Stored, Settled
  <1>4. /\ ~Stored(c)' /\ cyc'[c].todo = cyc[c].todo \ {i}
        /\ \A d \in Cycles \ {c} : cyc'[d] = cyc[d]
    BY <1>0 DEF Mark, TypeOK, CycleStates, Stored
  <1>5. \A d \in Cycles \ {c} : (Stored(d)' <=> Stored(d)) /\ Row(d)' = Row(d)
    BY <1>4 DEF Stored, Row
  <1>6. /\ DOMAIN queue' = DOMAIN queue
        /\ \A j \in DOMAIN queue : queue'[j].q = queue[j].q /\ queue'[j].source = queue[j].source
        /\ \A j \in DOMAIN queue \ {i} : queue'[j] = queue[j]
        /\ queue'[i].st # "waiting" \/ q \in twice'
    BY <1>1, <1>3, MarkEffect DEF TypeOK
  <1>7. /\ Waiting \ {i} \subseteq Waiting' /\ Waiting' \subseteq Waiting \cup {i}
        /\ Waiting \subseteq DOMAIN queue /\ (i \notin Waiting' \/ q \in twice')
        /\ \A p : Copies(p)' = Copies(p)
    BY <1>2, <1>6 DEF Waiting, Copies
  <1>8. \A j \in DOMAIN queue : Contact(j)' <=> Contact(j)
    BY <1>6 DEF Contact
  <1>9. \A d \in Cycles : cyc[d].todo \subseteq DOMAIN queue /\ (Stored(d) => Row(d) \in DOMAIN queue)
    BY RowIn DEF TypeOK, HandsOK, Stored
  <1>10. NothingLost'
    BY <1>0, <1>1, <1>6, <1>7 DEF NothingLost
  <1>11. StoredIsThere'
    BY <1>4, <1>5, <1>6, <1>7, <1>8, <1>9 DEF StoredIsThere
  <1>12. EditIsQueued'
    <2> SUFFICES ASSUME NEW u \in DOMAIN latest
                 PROVE  \E j \in Waiting' : ~Contact(j)' /\ queue'[j].u = u /\ queue'[j].v = latest[u]
      BY <1>2 DEF EditIsQueued
    <2>1. PICK j \in Waiting : ~Contact(j) /\ queue[j].u = u /\ queue[j].v = latest[u]
      BY DEF EditIsQueued
    <2> QED BY <1>1, <1>6, <1>7, <1>8, <2>1
  <1>13. SoleRow' /\ HasRow'
    BY <1>2, <1>6, <1>8 DEF SoleRow, HasRow
  <1>14. SharedNoted'
    BY <1>2, <1>4, <1>6, <1>9 DEF SharedNoted
  <1>15. InHandWaits'
    <2> SUFFICES ASSUME NEW d \in Cycles, NEW j \in cyc'[d].todo, Contact(j)'
                 PROVE  j \in Waiting' \/ queue'[j].q \in twice'
      BY DEF InHandWaits
    <2>1. j \in cyc[d].todo /\ j \in DOMAIN queue /\ Contact(j) /\ (d = c => j # i)
      BY <1>4, <1>8, <1>9
    <2>2. j \in Waiting \/ queue[j].q \in twice
      BY <2>1 DEF InHandWaits
    <2>3. CASE j = i
      BY <1>1, <1>2, <1>6, <2>1, <2>3 DEF SharedNoted
    <2>4. CASE j # i
      BY <1>2, <1>6, <1>7, <2>1, <2>2, <2>4
    <2> QED BY <2>3, <2>4
  <1>16. WaitingIsNew'
    <2> SUFFICES ASSUME NEW j \in Waiting', Contact(j)', queue'[j].q \notin twice'
                 PROVE  \/ Copies(queue[j].q)' = {}
                        \/ \E d \in Cycles : Stored(d)' /\ Row(d)' = j
      BY DEF WaitingIsNew
    <2>0. j \in DOMAIN queue
      BY <1>1, <1>7
    <2>1. j # i /\ j \in Waiting /\ queue'[j] = queue[j]
      BY <1>0, <1>6, <1>7, <2>0
    <2>2. Copies(queue[j].q) = {} \/ \E d \in Cycles : Stored(d) /\ Row(d) = j
      BY <1>2, <1>7, <1>8, <2>1 DEF WaitingIsNew
    <2> QED BY <1>0, <1>5, <1>7, <2>1, <2>2
  <1>17. OneCopy'
    BY <1>2, <1>7 DEF OneCopy
  <1> QED BY <1>10, <1>11, <1>12, <1>13, <1>14, <1>15, <1>16, <1>17

LEMMA NextInv == QueueInv /\ [Next]_vars => QueueInv'
  <1> SUFFICES ASSUME QueueInv, [Next]_vars PROVE QueueInv'
    OBVIOUS
  <1>1. TypeOK /\ TypeOK'
    BY NextTypeOK DEF QueueInv
  <1>2. Loop \in Cycles
    BY DesktopQueueAssumption
  <1>3. CASE UNCHANGED vars
    BY <1>1, <1>3, HarmlessKeeps DEF vars, Harmless, Stored
  <1>4. ASSUME NEW q \in Contacts, LogQSO(q) \/ try_immediate_post(q) PROVE QueueInv'
    BY <1>1, <1>2, <1>4, LogKeeps, HarmlessSteps, HarmlessKeeps
  <1>5. ASSUME NEW u \in DOMAIN server, update_qso(u) PROVE QueueInv'
    BY <1>1, <1>5, UpdateKeeps
  <1>6. CASE Login \/ Logout \/ Expire
    BY <1>1, <1>2, <1>6, HarmlessSteps, HarmlessKeeps
  <1>7. CASE Restart
    BY <1>1, <1>7, RestartKeeps
  <1>8. ASSUME NEW c \in Cycles, Begin(c) \/ Step(c) PROVE QueueInv'
    BY <1>1, <1>8, BeginKeeps, PushStoredKeeps, MarkKeeps, HarmlessSteps, HarmlessKeeps
  <1> QED BY <1>3, <1>4, <1>5, <1>6, <1>7, <1>8 DEF Next

LEMMA Inductive == Spec => []QueueInv
  BY InitInv, NextInv, PTL DEF Spec

\* A contact the operator logged is in the queue until the server has it:
\* lost requests, answers and marks, expired tokens, logouts, overlapping
\* cycles and restarts at any point lose none.
THEOREM ContactsKept == Spec => []NothingLost
  <1>1. QueueInv => NothingLost
    BY DEF QueueInv
  <1> QED BY <1>1, Inductive, PTL

\* Since a push has no key the server knows it by, a contact can be stored
\* twice; but only where two cycles read its row before either marked it, or
\* the answer or the mark of its first push was lost.
THEOREM CopiesExplained == Spec => []TwiceOnlyByLoss
  <1>1. QueueInv => TwiceOnlyByLoss
    <2> SUFFICES ASSUME QueueInv, NEW q \in Contacts, q \notin twice
                 PROVE  Cardinality(Copies(q)) <= 1
      BY DEF TwiceOnlyByLoss
    <2>1. \A u, w \in Copies(q) : u = w
      BY DEF QueueInv, OneCopy
    <2>2. CASE Copies(q) = {}
      BY <2>2, FS_EmptySet
    <2>3. CASE Copies(q) # {}
      <3>1. PICK u : Copies(q) = {u}
        BY <2>1, <2>3
      <3>2. Cardinality({u}) = 1
        BY FS_Singleton
      <3> QED BY <3>1, <3>2
    <2> QED BY <2>2, <2>3
  <1> QED BY <1>1, Inductive, PTL

\* The last edit of a QSO that was enqueued is not overwritten, marked or
\* passed over; it goes only where the application dies between the DELETE
\* of an update and the INSERT of its successor.
THEOREM EditsKept == Spec => []EditWaits
  <1>1. QueueInv => EditWaits
    BY DEF QueueInv, EditIsQueued, EditWaits
  <1> QED BY <1>1, Inductive, PTL
=============================================================================
