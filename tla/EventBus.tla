------------------------------ MODULE EventBus -------------------------------
(* The telemetry bus of services/event_bus.rs: a bounded in-memory history   *)
(* per owner, and one background writer that copies accepted events to       *)
(* PostgreSQL through a bounded queue.  Publications and the mutations of    *)
(* the HTTP interface (acknowledge, delete, retention settings) take the     *)
(* owner's gate; a mutation first drains the queue with a barrier, changes   *)
(* the tables, then the memory.  A storage failure sets a latch that only a  *)
(* restart clears: the bus goes on in memory and confirms nothing.           *)
(*                                                                           *)
(* An operation holds the gate from its first to its last step; each await   *)
(* on a lock, the queue or the database separates two steps.  The tables are *)
(* sets of rows whose `key` is the serial primary key.                       *)
EXTENDS Integers, Sequences, FiniteSets

CONSTANTS
    Owners, Kinds, None,
    Settings,         \* the retention settings a user may ask for
    DefaultSettings,
    QueueCapacity,    \* DB_PERSIST_QUEUE_CAPACITY
    BatchSize,        \* DB_PERSIST_BATCH_SIZE
    Deployments,      \* whether engines are given a database: a set of Booleans
    Faults,           \* which storage faults may happen:
                      \* "query": a statement fails and changes nothing
                      \* "schema": creating the tables fails
                      \* "lost": a statement takes effect, its answer is lost
                      \* "slow": a ten-second deadline passes
    Skew,             \* how far an event's timestamp may lag its publication
    MaxEvents, MaxMutations, MaxFaults, MaxRestarts   \* bounds

Retention == [max : Nat \ {0}, policy : {"drop_new", "drop_oldest"}]

ASSUME BusConstants ==
    /\ Settings \subseteq Retention /\ DefaultSettings \in Retention
    /\ QueueCapacity \in Nat \ {0} /\ BatchSize \in Nat \ {0}
    /\ Deployments \subseteq BOOLEAN
    /\ Faults \subseteq {"query", "schema", "lost", "slow"}
    /\ Skew \in Nat
    /\ MaxEvents \in Nat /\ MaxMutations \in Nat
    /\ MaxFaults \in Nat /\ MaxRestarts \in Nat
    /\ None \notin Retention \cup Owners \cup Nat
    /\ None \notin [id : Nat, at : Int, kind : Kinds]
    /\ None \notin [owner : Owners, settings : Retention]

VARIABLES
    history, unread,  \* the newest events of each owner, how many are unread
    cache,            \* the settings each owner's publications use
    counts,           \* drop_new_count_cache: what the writer thinks is stored
    admitted,         \* drop_new_admitted: stored plus admitted and pending
    disabled, ready,  \* the latch; whether the tables are known to exist
    queue, writer,
    op,               \* the operation that holds each owner's gate
    reader,           \* a read that found no cached settings
    rows, stored,     \* event_records and event_user_settings
    published, mutations, faults, restarts,   \* counters, bounded
    seen, gone, acked, chosen,                \* history variables, see below
    configured        \* whether this engine was given a database; fixed

latchVars == <<disabled, ready>>
memoryVars == <<history, unread, cache, counts, admitted>>
tableVars == <<rows, stored>>
boundVars == <<published, mutations, faults, restarts>>
ghostVars == <<seen, gone, acked, chosen, configured>>
busVars == <<memoryVars, latchVars, queue, writer, op, reader, tableVars,
             boundVars, ghostVars>>

Idle == [kind |-> "idle", step |-> "idle", event |-> None, settings |-> None,
         filter |-> {}, count |-> None, waiting |-> FALSE]

WriterIdle == [step |-> "idle", batch |-> <<>>, barrier |-> None, trim |-> None]
WriterStopped == [WriterIdle EXCEPT !.step = "stopped"]

Fault(kind) == kind \in Faults /\ faults < MaxFaults /\ faults' = faults + 1
SchemaFault == ~ready /\ Fault("schema")
StatementFault == Fault("query") \/ SchemaFault

Active == configured /\ ~disabled

-----------------------------------------------------------------------------
(* Rows and requests.                                                        *)


(* Slip: the order of the trim is turned round.                              *)
Older(r, s) ==
    \/ r.event.at < s.event.at
    \/ r.event.at = s.event.at /\ r.key < s.key

Newer(r, s) ==
    \/ r.event.at > s.event.at
    \/ r.event.at = s.event.at /\ r.key > s.key

(* DELETE ... ORDER BY timestamp DESC, id DESC OFFSET max.                   *)
Trimmed(table, max) ==
    {r \in table : Cardinality({s \in table : Newer(s, r)}) < max}

TopKey(table) ==
    IF table = {} THEN 0
    ELSE CHOOSE k \in {r.key : r \in table} : \A r \in table : r.key <= k

Request(o, e, s) == [type |-> "event", owner |-> o, event |-> e, settings |-> s]
Barrier(o) == [type |-> "barrier", owner |-> o, event |-> None, settings |-> None]

(* The elements of a sequence at some of its places, in their order.         *)
Picked(s, places) ==
    [j \in 1 .. Cardinality(places) |->
        s[CHOOSE i \in places : Cardinality({k \in places : k <= i}) = j]]

GroupOf(request) == [owner |-> request.owner, settings |-> request.settings]
Members(batch, group) ==
    Picked(batch, {i \in DOMAIN batch : GroupOf(batch[i]) = group})
Others(batch, group) ==
    Picked(batch, {i \in DOMAIN batch : GroupOf(batch[i]) # group})

(* A request's place when the group is sorted by timestamp, ties in order.   *)
Rank(requests, i) ==
    Cardinality({k \in DOMAIN requests :
        \/ requests[k].event.at < requests[i].event.at
        \/ requests[k].event.at = requests[i].event.at /\ k <= i})

(* The first n of the sorted group, inserted `copies` times.                 *)
Inserted(table, requests, n, copies) ==
    table \cup {[key |-> TopKey(table) + c * n + Rank(requests, i),
                 event |-> requests[i].event, read |-> FALSE] :
                    i \in {k \in DOMAIN requests : Rank(requests, k) <= n},
                    c \in 0 .. copies - 1}

Last(s, n) == SubSeq(s, Len(s) - n + 1, Len(s))

AtMost(s, n) == IF Len(s) > n THEN Last(s, n) ELSE s
Lower(a, b) == IF a < b THEN a ELSE b

-----------------------------------------------------------------------------
StoredSettings(o) == IF stored[o] = None THEN DefaultSettings ELSE stored[o]

MemoryInit ==
    /\ history = [o \in Owners |-> <<>>]
    /\ unread = [o \in Owners |-> 0]
    /\ cache = [o \in Owners |-> None]
    /\ counts = [o \in Owners |-> None]
    /\ admitted = [o \in Owners |-> None]
    /\ disabled = FALSE /\ ready = FALSE
    /\ queue = <<>>
    /\ writer = WriterIdle
    /\ op = [o \in Owners |-> Idle]
    /\ reader = [o \in Owners |-> None]

Init ==
    /\ configured \in Deployments
    /\ MemoryInit
    /\ rows = [o \in Owners |-> {}]
    /\ stored \in [Owners -> IF configured THEN Settings \cup {None} ELSE {None}]
    /\ published = 0 /\ mutations = 0 /\ faults = 0 /\ restarts = 0
    /\ seen = [o \in Owners |-> 0]
    /\ gone = [o \in Owners |-> {}]
    /\ acked = [o \in Owners |-> 0]
    /\ chosen = [o \in Owners |-> StoredSettings(o)]

-----------------------------------------------------------------------------
(* Publishing.                                                               *)

StartPublish(o, kind, at) ==
    /\ op[o] = Idle /\ published < MaxEvents
    /\ published' = published + 1
    /\ op' = [op EXCEPT ![o] =
                [Idle EXCEPT !.kind = "publish", !.step = "load",
                             !.event = [id |-> published', at |-> at, kind |-> kind]]]
    /\ UNCHANGED <<memoryVars, latchVars, queue, writer, reader, tableVars,
                   mutations, faults, restarts, ghostVars>>

(* Slip: what was read replaces what somebody cached meanwhile.              *)
Overwriting(o, value) == value

(* or_insert: what was read is cached, unless somebody cached meanwhile.     *)
Cached(o, value) == IF cache[o] = None THEN value ELSE cache[o]

(* settings_for_user: the cache, else the table, else the default.           *)
LoadSettings(o) ==
    /\ op[o].step = "load"
    /\ \/ /\ cache[o] # None
          /\ UNCHANGED <<cache, latchVars, faults>>
       \/ /\ cache[o] = None /\ ~Active
          /\ cache' = [cache EXCEPT ![o] = Cached(o, DefaultSettings)]
          /\ UNCHANGED <<latchVars, faults>>
       \/ /\ cache[o] = None /\ Active
          /\ cache' = [cache EXCEPT ![o] = Cached(o, StoredSettings(o))]
          /\ ready' = TRUE
          /\ UNCHANGED <<disabled, faults>>
       \/ /\ cache[o] = None /\ Active
          /\ cache' = [cache EXCEPT ![o] = Cached(o, DefaultSettings)]
          /\ \/ (Fault("query") \/ Fault("slow")) /\ disabled' = TRUE
             \/ SchemaFault /\ UNCHANGED disabled
          /\ UNCHANGED ready
    /\ op' = [op EXCEPT ![o].settings = cache'[o],
                        ![o].step = IF cache'[o].policy = "drop_new"
                                    THEN "count" ELSE "accept"]
    /\ UNCHANGED <<history, unread, counts, admitted, queue, writer, reader,
                   tableVars, published, mutations, restarts, ghostVars>>

(* drop_new_admission_count: how many slots are taken, if storage is active. *)
CountAdmitted(o) ==
    /\ op[o].step = "count"
    /\ \/ /\ ~Active
          /\ op' = [op EXCEPT ![o].step = "accept"]
          /\ UNCHANGED <<admitted, latchVars, faults>>
       \/ /\ Active
          /\ admitted' = [admitted EXCEPT ![o] =
                            IF @ = None THEN Cardinality(rows[o]) ELSE @]
          /\ op' = [op EXCEPT ![o].step = "accept", ![o].count = admitted'[o]]
          /\ ready' = (ready \/ admitted[o] = None)
          /\ UNCHANGED <<disabled, faults>>
       \/ /\ Active /\ admitted[o] = None
          /\ StatementFault \/ Fault("slow")
          /\ disabled' = TRUE
          /\ op' = [op EXCEPT ![o].step = "accept"]
          /\ UNCHANGED <<admitted, ready>>
    /\ UNCHANGED <<history, unread, cache, counts, queue, writer, reader,
                   tableVars, published, mutations, restarts, ghostVars>>

Full(o) ==
    LET s == op[o].settings IN
    /\ s.policy = "drop_new"
    /\ \/ op[o].count # None /\ op[o].count >= s.max
       \/ Len(history[o]) >= s.max

CanSend == Len(queue) < QueueCapacity /\ writer.step # "stopped"

(* From the first change to the queue nothing awaits: history, unread count, *)
(* reservation and queue move together, or the event is dropped.             *)
Accept(o) ==
    /\ op[o].step = "accept"
    /\ op' = [op EXCEPT ![o] = Idle]
    /\ IF Full(o)
       THEN UNCHANGED <<history, unread, admitted, queue, disabled>>
       ELSE LET e == op[o].event  s == op[o].settings IN
            /\ history' = [history EXCEPT ![o] = Append(AtMost(@, s.max - 1), e)]
            /\ unread' = [unread EXCEPT ![o] = Lower(@ + 1, s.max)]
            /\ admitted' = [admitted EXCEPT ![o] =
                                IF op[o].count = None THEN @ ELSE op[o].count + 1]
            /\ queue' = IF Active /\ CanSend THEN Append(queue, Request(o, e, s))
                        ELSE queue
            /\ disabled' = (disabled \/ (Active /\ ~CanSend))
    /\ UNCHANGED <<cache, counts, ready, writer, reader, tableVars, boundVars,
                   ghostVars>>

(* The publisher's future is dropped while it waits.                         *)
CancelPublish(o) ==
    /\ op[o].kind = "publish"
    /\ op' = [op EXCEPT ![o] = Idle]
    /\ UNCHANGED <<memoryVars, latchVars, queue, writer, reader, tableVars,
                   boundVars, ghostVars>>

-----------------------------------------------------------------------------
(* Confirmed mutations.  With a database, a worker that owns the gate runs   *)
(* the steps after admission, whether or not its caller still waits; without *)
(* one, the caller itself changes the memory.                                *)
Mutation == {"read", "delete", "settings"}

(* Slip: the mutation does not wait for the writer.                          *)
StartUnflushed(o, kind, filter, settings) ==
    /\ op[o] = Idle /\ mutations < MaxMutations /\ Active
    /\ op' = [op EXCEPT ![o] =
                [Idle EXCEPT !.kind = kind, !.filter = filter, !.step = "sql",
                             !.settings = settings, !.waiting = TRUE]]
    /\ mutations' = mutations + 1
    /\ UNCHANGED <<memoryVars, latchVars, queue, writer, reader, tableVars,
                   published, faults, restarts, ghostVars>>

StartMutation(o, kind, filter, settings) ==
    /\ op[o] = Idle /\ mutations < MaxMutations
    /\ ~(configured /\ disabled)     \* refused at once: unconfirmed
    /\ op' = [op EXCEPT ![o] =
                [Idle EXCEPT !.kind = kind, !.filter = filter,
                             !.settings = settings, !.waiting = TRUE,
                             !.step = IF configured THEN "flush" ELSE "apply"]]
    /\ mutations' = mutations + 1
    /\ UNCHANGED <<memoryVars, latchVars, queue, writer, reader, tableVars,
                   published, faults, restarts, ghostVars>>

SendBarrier(o) ==
    /\ op[o].step = "flush" /\ CanSend
    /\ queue' = Append(queue, Barrier(o))
    /\ op' = [op EXCEPT ![o].step = "await"]
    /\ UNCHANGED <<memoryVars, latchVars, writer, reader, tableVars, boundVars,
                   ghostVars>>

(* Slip: only a writer that is gone ends the wait.                           *)
FlushUntimed(o) ==
    /\ op[o].step \in {"flush", "await"} /\ writer.step = "stopped"
    /\ disabled' = TRUE
    /\ op' = [op EXCEPT ![o] = Idle]
    /\ UNCHANGED <<memoryVars, ready, queue, writer, reader, tableVars,
                   boundVars, ghostVars>>

(* The barrier's deadline passes, or the writer is gone.                     *)
FlushFails(o) ==
    /\ op[o].step \in {"flush", "await"}
    /\ "slow" \in Faults \/ writer.step = "stopped"
    /\ disabled' = TRUE
    /\ op' = [op EXCEPT ![o] = Idle]
    /\ UNCHANGED <<memoryVars, ready, queue, writer, reader, tableVars,
                   boundVars, ghostVars>>

(* The statement or transaction of the mutation, as the tables see it.       *)
Mutated(o) ==
    CASE op[o].kind = "read" ->
            /\ rows' = [rows EXCEPT ![o] = {[r EXCEPT !.read = TRUE] : r \in @}]
            /\ UNCHANGED stored
      [] op[o].kind = "delete" ->
            /\ rows' = [rows EXCEPT ![o] =
                            {r \in @ : r.event.kind \notin op[o].filter}]
            /\ UNCHANGED stored
      [] op[o].kind = "settings" ->
            /\ rows' = [rows EXCEPT ![o] = Trimmed(@, op[o].settings.max)]
            /\ stored' = [stored EXCEPT ![o] = op[o].settings]

Chosen(o) ==
    IF op[o].kind = "settings" THEN [chosen EXCEPT ![o] = op[o].settings] ELSE chosen

(* After the barrier.  An error leaves the memory alone; only a deadline     *)
(* also sets the latch, and then the statement may still have run.           *)
Sql(o) ==
    /\ op[o].step = "sql"
    /\ \/ /\ ~Active
          /\ op' = [op EXCEPT ![o] = Idle]
          /\ UNCHANGED <<latchVars, tableVars, faults, chosen>>
       \/ /\ Active /\ Mutated(o)
          /\ op' = [op EXCEPT ![o].step = "apply"]
          /\ ready' = TRUE /\ chosen' = Chosen(o)
          /\ UNCHANGED <<disabled, faults>>
       \/ /\ Active /\ StatementFault
          /\ op' = [op EXCEPT ![o] = Idle]
          /\ UNCHANGED <<latchVars, tableVars, chosen>>
       \/ /\ Active /\ Fault("lost") /\ Mutated(o)
          /\ op' = [op EXCEPT ![o] = Idle]
          /\ ready' = TRUE
          /\ UNCHANGED <<disabled, chosen>>
       \/ /\ Active /\ Fault("slow")
          /\ Mutated(o) \/ UNCHANGED tableVars
          /\ disabled' = TRUE
          /\ op' = [op EXCEPT ![o] = Idle]
          /\ UNCHANGED <<ready, chosen>>
    /\ UNCHANGED <<memoryVars, queue, writer, reader, published, mutations,
                   restarts, seen, gone, acked, configured>>

Matching(o, i) == history[o][i].kind \in op[o].filter
Kept(o) == Picked(history[o], {i \in DOMAIN history[o] : ~Matching(o, i)})

(* Slip: every deleted event counts as an unread one.                        *)
RemoveAsUnread(o) ==
    LET kept == Kept(o)
        left == unread[o] - (Len(history[o]) - Len(kept))
    IN  /\ history' = [history EXCEPT ![o] = kept]
        /\ unread' = [unread EXCEPT ![o] = IF left > 0 THEN left ELSE 0]

(* delete_from_history_filtered: the newest `unread` events are the unread   *)
(* ones; those of them that are deleted no longer count.                     *)
Remove(o) ==
    LET unreadFrom == Len(history[o]) - unread[o]
        unreadGone == {i \in DOMAIN history[o] : i > unreadFrom /\ Matching(o, i)}
        kept == Kept(o)
    IN  /\ history' = [history EXCEPT ![o] = kept]
        /\ unread' = [unread EXCEPT ![o] =
                        Lower(@ - Cardinality(unreadGone), Len(kept))]

(* Slip: only the writer's count is forgotten.                               *)
ForgetWriterCount(o) ==
    counts' = [counts EXCEPT ![o] = None] /\ UNCHANGED admitted

ForgetCounts(o) ==
    /\ counts' = [counts EXCEPT ![o] = None]
    /\ admitted' = [admitted EXCEPT ![o] = None]

Apply(o) ==
    /\ op[o].step = "apply"
    /\ IF op[o].kind = "read" /\ configured /\ disabled
       THEN /\ op' = [op EXCEPT ![o] = Idle]
            /\ UNCHANGED <<memoryVars, ghostVars>>
       ELSE /\ op' = [op EXCEPT ![o].step = "report"]
            /\ CASE op[o].kind = "read" ->
                      /\ unread' = [unread EXCEPT ![o] = 0]
                      /\ UNCHANGED <<history, cache, counts, admitted>>
                 [] op[o].kind = "delete" ->
                      Remove(o) /\ ForgetCounts(o) /\ UNCHANGED cache
                 [] op[o].kind = "settings" ->
                      /\ cache' = [cache EXCEPT ![o] = op[o].settings]
                      /\ history' = [history EXCEPT ![o] = AtMost(@, op[o].settings.max)]
                      /\ unread' = [unread EXCEPT ![o] = Lower(@, op[o].settings.max)]
                      /\ ForgetCounts(o)
            /\ seen' = IF op[o].kind = "read"
                       THEN [seen EXCEPT ![o] = published] ELSE seen
            /\ chosen' = Chosen(o)
            /\ UNCHANGED <<gone, acked, configured>>
    /\ UNCHANGED <<latchVars, queue, writer, reader, tableVars, boundVars>>

(* The mutation is confirmed to a caller that still waits, unless storage    *)
(* was lost meanwhile.  `gone` and `acked` remember what was confirmed: all  *)
(* events of the owner published so far are older than the mutation.         *)
Report(o) ==
    /\ op[o].step = "report"
    /\ LET ok == op[o].waiting /\ ~(configured /\ disabled) IN
        /\ gone' = IF ok /\ op[o].kind = "delete"
                   THEN [gone EXCEPT ![o] = @ \cup ((1 .. published) \X op[o].filter)]
                   ELSE gone
        /\ acked' = IF ok /\ op[o].kind = "read"
                    THEN [acked EXCEPT ![o] = published] ELSE acked
    /\ op' = [op EXCEPT ![o] = Idle]
    /\ UNCHANGED <<memoryVars, latchVars, queue, writer, reader, tableVars,
                   boundVars, seen, chosen, configured>>

(* The caller's ten seconds pass, or it goes away.  Only a mutation without  *)
(* a worker stops with it, and only before it changed anything.              *)
CallerLeaves(o) ==
    /\ op[o].waiting
    /\ op' = [op EXCEPT ![o] = IF ~configured /\ op[o].step = "apply"
                               THEN Idle ELSE [@ EXCEPT !.waiting = FALSE]]
    /\ UNCHANGED <<memoryVars, latchVars, queue, writer, reader, tableVars,
                   boundVars, ghostVars>>

(* A history read of a memory-only engine takes no gate; it fills the cache  *)
(* with what it found missing, unless somebody cached settings meanwhile.    *)
ReadMiss(o) ==
    /\ ~configured /\ reader[o] = None /\ cache[o] = None
    /\ reader' = [reader EXCEPT ![o] = DefaultSettings]
    /\ UNCHANGED <<memoryVars, latchVars, queue, writer, op, tableVars,
                   boundVars, ghostVars>>

ReadStore(o) ==
    /\ reader[o] # None
    /\ cache' = [cache EXCEPT ![o] = Cached(o, reader[o])]
    /\ reader' = [reader EXCEPT ![o] = None]
    /\ UNCHANGED <<history, unread, counts, admitted, latchVars, queue, writer,
                   op, tableVars, boundVars, ghostVars>>

-----------------------------------------------------------------------------
(* The writer: run_persist_loop.                                             *)

(* A reply reaches a mutation that still awaits it; a negative one ends it.  *)
Replied(o, ok) ==
    IF o # None /\ op[o].step = "await"
    THEN [op EXCEPT ![o] = IF ok THEN [@ EXCEPT !.step = "sql"] ELSE Idle]
    ELSE op

(* Slip: after a storage failure the writer no longer reads its queue.       *)
TakeWhileActive ==
    /\ writer.step = "idle" /\ queue # <<>> /\ Active
    /\ queue' = Tail(queue)
    /\ IF Head(queue).type = "barrier"
       THEN op' = Replied(Head(queue).owner, TRUE) /\ UNCHANGED writer
       ELSE /\ writer' = [writer EXCEPT !.step = "collect", !.batch = <<Head(queue)>>]
            /\ UNCHANGED op
    /\ UNCHANGED <<memoryVars, latchVars, reader, tableVars, boundVars, ghostVars>>

WriterTake ==
    /\ writer.step = "idle" /\ queue # <<>>
    /\ queue' = Tail(queue)
    /\ LET message == Head(queue) IN
       \/ /\ message.type = "barrier"
          /\ op' = Replied(message.owner, Active)
          /\ UNCHANGED <<writer, latchVars, faults>>
       \/ /\ message.type = "event" /\ ~Active
          /\ UNCHANGED <<writer, latchVars, op, faults>>
       \/ /\ message.type = "event" /\ Active
          /\ writer' = [writer EXCEPT !.step = "collect", !.batch = <<message>>]
          /\ ready' = TRUE
          /\ UNCHANGED <<disabled, op, faults>>
       \/ /\ message.type = "event" /\ Active
          /\ SchemaFault \/ (~ready /\ Fault("slow"))
          /\ disabled' = TRUE
          /\ UNCHANGED <<writer, ready, op>>
    /\ UNCHANGED <<memoryVars, reader, tableVars, published, mutations,
                   restarts, ghostVars>>

(* Up to BatchSize events, up to a barrier, or until 5 ms have passed.       *)
WriterCollect ==
    /\ writer.step = "collect" /\ queue # <<>> /\ Len(writer.batch) < BatchSize
    /\ queue' = Tail(queue)
    /\ writer' = IF Head(queue).type = "event"
                 THEN [writer EXCEPT !.batch = Append(@, Head(queue))]
                 ELSE [writer EXCEPT !.step = "persist",
                                     !.barrier = Head(queue).owner]
    /\ UNCHANGED <<memoryVars, latchVars, op, reader, tableVars, boundVars,
                   ghostVars>>

WriterClose ==
    /\ writer.step = "collect"
    /\ writer' = [writer EXCEPT !.step = "persist"]
    /\ UNCHANGED <<memoryVars, latchVars, queue, op, reader, tableVars,
                   boundVars, ghostVars>>

(* Storage was lost between two groups: the rest of the batch is dropped.    *)
WriterGivesUp ==
    /\ writer.step = "persist" /\ writer.trim = None
    /\ writer.batch # <<>> /\ ~Active
    /\ writer' = [writer EXCEPT !.batch = <<>>]
    /\ UNCHANGED <<memoryVars, latchVars, queue, op, reader, tableVars,
                   boundVars, ghostVars>>

WriterDone ==
    /\ writer.step = "persist" /\ writer.trim = None /\ writer.batch = <<>>
    /\ op' = Replied(writer.barrier, Active)
    /\ writer' = WriterIdle
    /\ UNCHANGED <<memoryVars, latchVars, queue, reader, tableVars, boundVars,
                   ghostVars>>

(* Three attempts failed: the loop ends, and with it the queue.              *)
Stop ==
    /\ disabled' = TRUE
    /\ writer' = WriterStopped
    /\ queue' = <<>>

(* How often an insert whose answers get lost may have run.                  *)
Copies == IF "lost" \in Faults /\ faults < MaxFaults THEN 1 .. 2 ELSE {1}

(* The groups of a batch go to the tables in any order.                      *)
PersistGroup(group) ==
    LET o == group.owner
        requests == Members(writer.batch, group)
        cached == counts[o]
        count == IF cached = None THEN Cardinality(rows[o]) ELSE cached
        room == IF group.settings.max > count THEN group.settings.max - count ELSE 0
        fit == IF group.settings.policy = "drop_new"
               THEN Lower(Len(requests), room) ELSE Len(requests)
    IN
    /\ writer.step = "persist" /\ writer.trim = None
    /\ requests # <<>> /\ Active
    /\ \/ \E copies \in Copies :
            /\ fit > 0 \/ copies = 1
            /\ rows' = [rows EXCEPT ![o] = Inserted(@, requests, fit, copies)]
            /\ faults' = faults + copies - 1
            /\ writer' = [writer EXCEPT !.batch = Others(@, group),
                              !.trim = IF group.settings.policy = "drop_oldest"
                                       THEN group ELSE None]
            /\ counts' = IF group.settings.policy = "drop_new"
                         THEN [counts EXCEPT ![o] = count + fit] ELSE counts
            /\ UNCHANGED <<disabled, queue>>
       \/ /\ fit > 0 \/ cached = None
          /\ Fault("query")
          /\ Stop
          /\ UNCHANGED <<rows, counts>>
       \/ /\ fit > 0
          /\ Fault("lost")
          /\ rows' = [rows EXCEPT ![o] = Inserted(@, requests, fit, 1)]
          /\ Stop
          /\ UNCHANGED counts
    /\ UNCHANGED <<history, unread, cache, admitted, ready, op, reader, stored,
                   published, mutations, restarts, ghostVars>>

(* The trim that follows a drop-oldest insert, a statement of its own.       *)
TrimGroup ==
    /\ writer.trim # None
    /\ LET o == writer.trim.owner  max == writer.trim.settings.max IN
       \/ /\ rows' = [rows EXCEPT ![o] = Trimmed(@, max)]
          /\ writer' = [writer EXCEPT !.trim = None]
          /\ UNCHANGED <<disabled, queue, faults>>
       \/ /\ Fault("query")
          /\ Stop
          /\ UNCHANGED rows
    /\ UNCHANGED <<memoryVars, ready, op, reader, stored, published, mutations,
                   restarts, ghostVars>>

(* cached_drop_new_count: the writer's count is forgotten after a second.    *)
CountExpires(o) ==
    /\ counts[o] # None
    /\ counts' = [counts EXCEPT ![o] = None]
    /\ UNCHANGED <<history, unread, cache, admitted, latchVars, queue, writer,
                   op, reader, tableVars, boundVars, ghostVars>>

(* The engine ends at any point and starts again over the same tables.       *)
Restart ==
    /\ configured /\ restarts < MaxRestarts
    /\ restarts' = restarts + 1
    /\ history' = [o \in Owners |-> <<>>]
    /\ unread' = [o \in Owners |-> 0]
    /\ cache' = [o \in Owners |-> None]
    /\ counts' = [o \in Owners |-> None]
    /\ admitted' = [o \in Owners |-> None]
    /\ disabled' = FALSE /\ ready' = FALSE
    /\ queue' = <<>>
    /\ writer' = WriterIdle
    /\ op' = [o \in Owners |-> Idle]
    /\ reader' = [o \in Owners |-> None]
    /\ UNCHANGED <<tableVars, published, mutations, faults, ghostVars>>

-----------------------------------------------------------------------------
Publishing(o) ==
    \/ \E kind \in Kinds, late \in 0 .. Skew :
        StartPublish(o, kind, published + 1 - late)
    \/ CancelPublish(o)

Mutating(o) ==
    \/ StartMutation(o, "read", {}, None)
    \/ \E filter \in SUBSET Kinds \ {{}} : StartMutation(o, "delete", filter, None)
    \/ \E s \in Settings : StartMutation(o, "settings", {}, s)
    \/ CallerLeaves(o)

(* What the holder of a gate does next.                                      *)
Proceed(o) ==
    \/ LoadSettings(o) \/ CountAdmitted(o) \/ Accept(o)
    \/ SendBarrier(o) \/ FlushFails(o) \/ Sql(o) \/ Apply(o) \/ Report(o)

Writing ==
    \/ WriterTake \/ WriterCollect \/ WriterClose \/ WriterGivesUp \/ WriterDone
    \/ \E o \in Owners, s \in Settings \cup {DefaultSettings} :
        PersistGroup([owner |-> o, settings |-> s])
    \/ TrimGroup

Next ==
    \/ \E o \in Owners :
        \/ Publishing(o) \/ Mutating(o) \/ Proceed(o)
        \/ ReadMiss(o) \/ ReadStore(o) \/ CountExpires(o)
    \/ Writing
    \/ Restart

SafetySpec == Init /\ [][Next]_busVars

(* The holder of a gate runs on, and deadlines pass; nothing is assumed of   *)
(* the database or the writer.                                               *)
GateSpec == SafetySpec /\ \A o \in Owners : WF_busVars(Proceed(o))

(* The writer runs on: its statements return, if only with an error.         *)
WriterRuns == WF_busVars(Writing)

-----------------------------------------------------------------------------
(* Properties.                                                               *)

Requests(s) == {s[i] : i \in {k \in DOMAIN s : s[k].type = "event"}}

(* The events of an owner that wait in the queue or in the writer's hands.   *)
Pending(o) ==
    {r.event : r \in {q \in Requests(queue) \cup Requests(writer.batch) : q.owner = o}}

Held(o) == {history[o][i] : i \in DOMAIN history[o]}

Event == [id : 1 .. MaxEvents, at : Int, kind : Kinds]
Message == [type : {"event"}, owner : Owners, event : Event, settings : Retention]
           \cup [type : {"barrier"}, owner : Owners, event : {None}, settings : {None}]

(* Types of the bus, and what each step of an operation carries.             *)
TypeOK ==
    /\ \A o \in Owners :
        /\ Held(o) \subseteq Event /\ unread[o] \in 0 .. Len(history[o])
        /\ cache[o] \in Retention \cup {None} /\ stored[o] \in Retention \cup {None}
        /\ counts[o] \in Nat \cup {None} /\ admitted[o] \in Nat \cup {None}
        /\ rows[o] \subseteq [key : Nat, event : Event, read : BOOLEAN]
        /\ op[o].step \in {"count", "accept"} => op[o].settings \in Retention
        /\ op[o].kind = "publish" <=> op[o].event \in Event
    /\ \A i \in DOMAIN queue : queue[i] \in Message
    /\ \A i \in DOMAIN writer.batch : writer.batch[i] \in Message
    /\ Len(queue) <= QueueCapacity /\ Len(writer.batch) <= BatchSize
    /\ writer.step = "stopped" => disabled

(* unread: the count is that of the retained events published since the last *)
(* acknowledgement took effect, through evictions, filtered deletions and    *)
(* smaller limits; deletion relies on them being the newest ones.            *)
UnreadCountIsRight ==
    \A o \in Owners :
        unread[o] = Cardinality({e \in Held(o) : e.id > seen[o]})

(* drop_new_admitted: while storage is active, the slots counted as taken    *)
(* are exactly the stored and the pending events, whichever of the writer, a *)
(* cancelled publisher or a mutation moved last.  One too few loses an       *)
(* accepted event at the writer, one too many turns publishers away.         *)
AdmissionIsExact ==
    \A o \in Owners :
        Active /\ admitted[o] # None /\ op[o].step # "apply"
            => admitted[o] = Cardinality(rows[o]) + Cardinality(Pending(o))

(* While storage is active an event the bus still shows is stored or on its  *)
(* way: the writer never drops or trims away what the memory retained.       *)
RetainedIsStored ==
    \A o \in Owners :
        Active /\ op[o].step # "apply"
            => Held(o) \subseteq Pending(o) \cup {r.event : r \in rows[o]}

(* max_records under DropNew: the table never holds more of an owner's       *)
(* events than the stored settings allow, restarts included.                 *)
DropNewBoundsTable ==
    \A o \in Owners :
        StoredSettings(o).policy = "drop_new"
            => Cardinality(rows[o]) <= StoredSettings(o).max

(* Together: memory and table keep in step with each other and the limits.   *)
TableFollowsHistory == TypeOK /\ RetainedIsStored /\ DropNewBoundsTable

(* A confirmed deletion is final: what it covered is not stored, shown or    *)
(* about to be stored, whatever the writer had in hand when it was asked.    *)
DeletedStaysDeleted ==
    \A o \in Owners :
        \A e \in Held(o) \cup Pending(o) \cup {r.event : r \in rows[o]} :
            <<e.id, e.kind>> \notin gone[o]

(* A confirmed acknowledgement is final: no older event is stored unread, or *)
(* waits to be stored (the writer stores events unread).                     *)
ReadStaysRead ==
    \A o \in Owners :
        /\ \A r \in rows[o] : r.event.id <= acked[o] => r.read
        /\ \A e \in Pending(o) : e.id > acked[o]

(* What a caller was told took place stays so, whatever the writer, a late   *)
(* statement or a restart brings afterwards.                                 *)
ConfirmedIsFinal == DeletedStaysDeleted /\ ReadStaysRead

(* The settings publications use are those chosen last: neither a cold load  *)
(* nor a reader that found none may put older settings back.                 *)
SettingsInForce ==
    \A o \in Owners :
        /\ Active \/ ~configured
        /\ cache[o] # None /\ op[o].step # "apply"
        => cache[o] = chosen[o]

(* docs/en/event-stream.md, persistence ordering and retention: "Cold DropNew *)
(* publication now checks retained SQL rows before changing history": while  *)
(* storage is active, an owner with drop-new settings and a full table gets  *)
(* no further event.                                                         *)
ColdDropNewIsChecked ==
    [][\A o \in Owners :
        /\ Active /\ StoredSettings(o).policy = "drop_new"
        /\ Cardinality(rows[o]) >= StoredSettings(o).max
        => unread'[o] <= unread[o]]_busVars

(* Every operation lets go of its owner's gate, even if the database and the *)
(* writer never answer again.                                                *)
GateIsReleased == \A o \in Owners : op[o] # Idle ~> op[o] = Idle

(* What is queued is stored, or given up with the latch set.                 *)
QueueDrains ==
    WriterRuns => (queue # <<>> ~> queue = <<>> /\ writer.step \in {"idle", "stopped"})
=============================================================================
