---------------------------- MODULE EventStream ----------------------------
(* The browser's end of the event stream (startEventStream): one socket for  *)
(* live events, one snapshot request per connection, one timer, a retry with *)
(* growing delay, and the merge of the snapshot with the live events that    *)
(* arrived before it.                                                        *)
(*                                                                           *)
(* The server publishes events 1, 2, ...; `content' says which of them are   *)
(* equal records, for the wire carries no identifier.  A socket delivers, in *)
(* order, what is published after its subscription, which precedes `onopen'. *)
(* Callbacks of earlier connections stay possible for ever; `live' is the    *)
(* comparison of a connection's generation with the counter.                 *)
EXTENDS Integers, Sequences, FiniteSets, SequencesExt

CONSTANTS
    Records,      \* contents an event can have
    Limit,        \* rows that are shown, and buffered, at most (options.limit)
    MaxEvents,    \* bound: events published
    MaxFailures,  \* bound: connections that fail
    MaxBackoff,   \* the failure count from which the delay grows no more
    None

Stages == {"handshake", "loading", "open"}
\* A connection: its events are sub + 1 .. pos, of which `buffered' wait for the
\* snapshot; `rows' are shown and `overlap' counts the copies still expected.
Link ==
    [live : BOOLEAN, stage : Stages, sub : Nat, pos : Nat, buffered : Seq(Nat),
     rows : Seq(Nat), overlap : [Records -> Nat], answer : Seq(Nat) \cup {None},
     snapAt : Nat, long : BOOLEAN, whole : BOOLEAN]

ASSUME EventStreamAssumption ==
    /\ Limit \in Nat \ {0} /\ MaxEvents \in Nat
    /\ MaxFailures \in Nat /\ MaxBackoff \in Nat
    /\ None \notin Seq(Nat) \cup Link

VARIABLES
    content,    \* event -> record
    published,  \* events published
    stored,     \* events a snapshot can see; storage trails publication
    link,       \* the current connection, None between two
    ghosts,     \* earlier connections whose callbacks may still come
    timers,     \* timers that run: kind, and whether its generation is current
    disposed,
    failures,   \* consecutive failures the delay is computed from
    shown, state, gap,   \* what the user of the stream was told last
    faults      \* failures so far

server == <<content, published, stored>>
view == <<shown, state, gap>>
vars == <<server, link, ghosts, timers, disposed, failures, view, faults>>
-----------------------------------------------------------------------------
Newest(n, k) == [i \in 1..(IF n < k THEN n ELSE k) |-> i + (IF n < k THEN 0 ELSE n - k)]
\* slice(-limit)
Trim(s) == SubSeq(s, IF Len(s) > Limit THEN Len(s) - Limit + 1 ELSE 1, Len(s))

Copies(s, r) == Cardinality({i \in DOMAIN s : content[s[i]] = r})
NoOverlap == [r \in Records |-> 0]

\* Slip: a record that is in the snapshot is a duplicate, however often it came.
AdditionsBySet(snapshot, buffered) ==
    SelectSeq(buffered, LAMBDA e : Copies(snapshot, content[e]) = 0)
\* The buffered events the snapshot does not account for: of equal records, the
\* first so many are in the snapshot as the snapshot has copies.
Additions(snapshot, buffered) ==
    LET new == {k \in DOMAIN buffered :
                    Cardinality({j \in 1..k : content[buffered[j]] = content[buffered[k]]})
                        > Copies(snapshot, content[buffered[k]])}
    IN [i \in 1..Cardinality(new) |->
            buffered[CHOOSE k \in new : Cardinality({j \in new : j <= k}) = i]]

\* reconcileSnapshot: the merged rows and the copies still expected live.  An
\* event that is new ends the overlap.
Reconciled(snapshot, buffered) ==
    LET added == Additions(snapshot, buffered)
    IN [rows |-> Trim(snapshot \o added),
        overlap |-> IF added # <<>> THEN NoOverlap
                    ELSE [r \in Records |-> Copies(snapshot, r) - Copies(buffered, r)]]

NewConnection ==
    [live |-> TRUE, stage |-> "handshake", sub |-> 0, pos |-> 0, buffered |-> <<>>,
     rows |-> <<>>, overlap |-> NoOverlap, answer |-> None, snapAt |-> 0, long |-> FALSE,
     whole |-> TRUE]

StreamStates == {"connecting", "recovering", "open", "closed"}

Timer(kind) == [kind |-> kind, live |-> TRUE]
\* generation++: whatever was scheduled or opened before is out of date.
Outdated(ts) == {[t EXCEPT !.live = FALSE] : t \in ts}
-----------------------------------------------------------------------------
Init ==
    /\ content \in [1..MaxEvents -> Records]
    /\ published = 0 /\ stored = 0
    /\ link = NewConnection /\ ghosts = {}
    /\ timers = {Timer("deadline")}
    /\ disposed = FALSE /\ failures = 0 /\ faults = 0
    /\ shown = <<>> /\ state = "connecting" /\ gap = FALSE
-----------------------------------------------------------------------------
(* The controller.  c is the connection whose callback runs.                 *)

\* Slip: a callback does not ask whether its connection is the current one.
CurrentAlways(c) == TRUE
Current(c) == ~disposed /\ c.live

\* Slip: the timer that runs is forgotten, not cancelled.
TimersKept == timers
\* clearTimer
TimersCleared == {}

\* Clears the timer, aborts the request, closes the socket.
CleanConnection ==
    /\ link' = None
    /\ ghosts' = IF link = None THEN ghosts
                 ELSE {[link EXCEPT !.live = FALSE]}

\* A connection that lived for thirty seconds makes up for earlier failures.
FailuresBefore == IF link # None /\ link.long THEN 0 ELSE failures

\* onGap()
GapTold == TRUE

\* Slip: a failure while the stream recovers is final.
GivesUp(terminal) == IF terminal \/ state = "recovering" THEN {} ELSE {Timer("retry")}
\* A refusal by policy is final; anything else is tried again.
NextAttempt(terminal) == IF terminal THEN {} ELSE {Timer("retry")}

Retry(terminal) ==
    /\ CleanConnection
    /\ gap' = GapTold
    /\ state' = IF terminal THEN "closed" ELSE "recovering"
    /\ failures' = IF terminal THEN FailuresBefore
                   ELSE IF FailuresBefore < MaxBackoff THEN FailuresBefore + 1 ELSE MaxBackoff
    /\ timers' = Outdated(TimersCleared) \cup NextAttempt(terminal)
    /\ UNCHANGED shown

\* connect(), when the retry timer fires.
Connect ==
    /\ \E t \in timers :
          /\ t.kind = "retry"
          /\ timers' = Outdated((timers \ {t}) \cap TimersCleared) \cup {Timer("deadline")}
    /\ ~disposed
    /\ link' = NewConnection
    /\ ghosts' = ghosts \cup (IF link = None THEN {} ELSE {[link EXCEPT !.live = FALSE]})
    /\ state' = IF failures > 0 THEN "recovering" ELSE "connecting"
    /\ UNCHANGED <<server, disposed, failures, shown, gap, faults>>

\* The handshake or the snapshot took ten seconds.
DeadlinePasses ==
    /\ faults < MaxFailures /\ faults' = faults + 1
    /\ \E t \in timers :
          /\ t.kind = "deadline"
          /\ IF t.live /\ ~disposed THEN Retry(FALSE)
             ELSE timers' = timers \ {t} /\ UNCHANGED <<link, ghosts, failures, view>>
    /\ UNCHANGED <<server, disposed>>

Links == ghosts \cup (IF link = None THEN {} ELSE {link})

\* The state of connection c changes to d.
Becomes(c, d) ==
    IF c = link THEN link' = d /\ UNCHANGED ghosts
    ELSE ghosts' = (ghosts \ {c}) \cup {d} /\ UNCHANGED link

\* The server has subscribed the owner before the socket opens; the snapshot is
\* requested from here.
OnOpen(c) ==
    /\ c.stage = "handshake"
    /\ Current(c)
    /\ Becomes(c, [c EXCEPT !.stage = "loading", !.sub = published, !.pos = published])
    /\ timers' = TimersCleared \cup {Timer("deadline")}
    /\ UNCHANGED <<server, disposed, failures, view, faults>>

\* The server reads the newest stored events; the answer is on its way.
ServeSnapshot(c) ==
    /\ c.stage = "loading" /\ c.answer = None
    /\ Becomes(c, [c EXCEPT !.answer = Newest(stored, Limit), !.snapAt = stored])
    /\ UNCHANGED <<server, timers, disposed, failures, view, faults>>

OnSnapshot(c) ==
    /\ c.stage = "loading" /\ c.answer # None
    /\ Current(c)
    /\ LET merged == Reconciled(c.answer, c.buffered)
       IN /\ Becomes(c, [c EXCEPT !.stage = "open", !.buffered = <<>>, !.rows = merged.rows,
                                  !.overlap = merged.overlap, !.answer = None])
          /\ shown' = merged.rows
    /\ state' = "open"
    /\ timers' = TimersCleared
    /\ UNCHANGED <<server, disposed, failures, gap, faults>>

\* The request fails, or is refused with 401 or 403.
OnSnapshotFails(c, refused) ==
    /\ faults < MaxFailures /\ faults' = faults + 1
    /\ c.stage = "loading" /\ Current(c)
    /\ Retry(refused)
    /\ UNCHANGED <<server, disposed>>

\* A frame that is not an event is dropped, and said to be.
OnBadMessage(c) ==
    /\ c.stage # "handshake" /\ c.pos < published /\ Current(c)
    /\ faults < MaxFailures /\ faults' = faults + 1
    /\ Becomes(c, [c EXCEPT !.pos = @ + 1, !.whole = FALSE])
    /\ gap' = TRUE
    /\ UNCHANGED <<server, timers, disposed, failures, shown, state>>

OnMessage(c) ==
    /\ c.stage # "handshake" /\ c.pos < published /\ Current(c)
    /\ LET e == c.pos + 1 IN
       \/ /\ c.stage = "loading" /\ Len(c.buffered) < Limit
          /\ Becomes(c, [c EXCEPT !.pos = e, !.buffered = Append(@, e)])
          /\ UNCHANGED <<timers, failures, view>>
       \/ /\ c.stage = "loading" /\ Len(c.buffered) >= Limit
          /\ Retry(FALSE)
       \/ /\ c.stage = "open" /\ c.overlap[content[e]] > 0
          /\ Becomes(c, [c EXCEPT !.pos = e, !.overlap[content[e]] = @ - 1])
          /\ UNCHANGED <<timers, failures, view>>
       \/ /\ c.stage = "open" /\ c.overlap[content[e]] = 0
          /\ LET rows == Trim(Append(c.rows, e)) IN
             /\ Becomes(c, [c EXCEPT !.pos = e, !.rows = rows, !.overlap = NoOverlap])
             /\ shown' = rows
          /\ UNCHANGED <<timers, failures, state, gap>>
    /\ UNCHANGED <<server, disposed, faults>>

\* The socket fails, or the server closes it: 1013 after a lag, 1008 for ever.
OnClose(c, policy) ==
    /\ faults < MaxFailures /\ faults' = faults + 1
    /\ Current(c)
    /\ Retry(policy)
    /\ UNCHANGED <<server, disposed>>

\* Thirty seconds pass.
LivesLong ==
    /\ link # None /\ link.stage = "open" /\ ~link.long
    /\ link' = [link EXCEPT !.long = TRUE]
    /\ UNCHANGED <<server, ghosts, timers, disposed, failures, view, faults>>

Dispose ==
    /\ ~disposed /\ disposed' = TRUE
    /\ CleanConnection
    /\ timers' = Outdated(TimersCleared)
    /\ UNCHANGED <<server, failures, view, faults>>
-----------------------------------------------------------------------------
(* The server *)

Publish ==
    /\ published < MaxEvents /\ published' = published + 1
    /\ UNCHANGED <<content, stored, link, ghosts, timers, disposed, failures, view, faults>>

Store ==
    /\ stored < published /\ stored' = stored + 1
    /\ UNCHANGED <<content, published, link, ghosts, timers, disposed, failures, view, faults>>
-----------------------------------------------------------------------------
Callback ==
    \E c \in Links :
        OnOpen(c) \/ ServeSnapshot(c) \/ OnSnapshot(c) \/ OnMessage(c)

Failure ==
    \/ DeadlinePasses
    \/ \E c \in Links : \/ \E b \in BOOLEAN : OnSnapshotFails(c, b) \/ OnClose(c, b)
                              \/ OnBadMessage(c)

Next == Callback \/ Failure \/ Connect \/ LivesLong \/ Dispose \/ Publish \/ Store

Spec == Init /\ [][Next]_vars
\* The server answers, sockets deliver, timers fire and events get stored.
FairSpec == Spec /\ WF_vars(Callback) /\ WF_vars(Connect) /\ WF_vars(Store)
-----------------------------------------------------------------------------
TypeOK ==
    /\ published \in 0..MaxEvents /\ stored \in 0..published
    /\ \A c \in Links :
          /\ c \in Link
          /\ c.sub <= c.pos /\ c.pos <= published
          /\ Len(c.buffered) <= Limit /\ Len(c.rows) <= Limit
          /\ c.overlap \in [Records -> 0..Limit]
    /\ failures \in 0..MaxBackoff
    /\ state \in StreamStates /\ Len(shown) <= Limit

\* The merge is exact where the format allows it.  With an open stream, a
\* snapshot that did not trail the subscription, no more events in between than
\* rows are kept, no unreadable frame on this connection, and no old event equal
\* to a live one: the rows are the newest events, in order, none twice or missing.
Comparable(c) ==
    /\ c.whole /\ c.snapAt >= c.sub /\ c.snapAt - c.sub <= Limit
    /\ \A i \in 1..c.sub, j \in (c.sub + 1)..published : content[i] # content[j]
RowsAreNewest ==
    link # None /\ link.stage = "open" /\ Comparable(link)
        => shown = Newest(IF link.pos > link.snapAt THEN link.pos ELSE link.snapAt, Limit)

\* At any time one of: a connection, with a deadline until it is open; a retry
\* that is due; nothing more to come.  Never two of them (clearTimer, connect).
OneThingAtATime ==
    /\ Cardinality(timers) <= 1
    /\ Cardinality({c \in Links : c.live}) <= 1
    /\ ~disposed /\ state # "closed" =>
           IF link = None THEN timers = {Timer("retry")}
           ELSE link.stage = "open" \/ timers = {Timer("deadline")}

\* What is shown under "open" comes from the current connection, never from a
\* late answer of an earlier one.
ShownIsCurrent == state = "open" /\ ~disposed => link # None /\ shown = link.rows

\* Events may be missing only under the notice of a possible gap: while it has
\* not been raised, the first connection still stands.
GapIsTold == ~gap /\ ~disposed => link # None /\ ghosts = {} /\ failures = 0

\* Together: the page knows where its stream stands, whatever late callbacks do.
StreamSound == TypeOK /\ OneThingAtATime /\ ShownIsCurrent /\ GapIsTold

\* Once disposed, a stream tells its user nothing.
SilentAfterDispose == [][disposed => UNCHANGED view]_vars

\* The delay starts anew only after a connection that lasted.
BackoffIsEarned == [][failures' < failures => link # None /\ link.long]_vars

\* Together: no callback has an effect that its connection has not earned.
EffectsAreEarned == SilentAfterDispose /\ BackoffIsEarned

\* If connections stop failing, the stream ends up open and up to date, unless
\* it was refused or disposed.
CatchesUp ==
    <>[](disposed \/ state = "closed" \/ (state = "open" /\ link.pos = published))
=============================================================================
