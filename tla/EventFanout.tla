----------------------------- MODULE EventFanout -----------------------------
(* The live queues of one owner's events: UserFanout in                      *)
(* services/event_bus/subscriptions.rs and the WebSocket loop of             *)
(* routes/events/stream.rs.  A channel is registered while somebody is       *)
(* subscribed.  Publishing looks the channel up under the registry lock and  *)
(* sends after releasing it; dropping a subscription gives up its receiver   *)
(* first and takes the lock afterwards.  The owner's gate in EventBus lets   *)
(* one publication run at a time.                                            *)
EXTENDS Naturals, Sequences, FiniteSets

CONSTANTS
    Connections,    \* the WebSocket connections an owner may have open
    NoChannel,
    Capacity,       \* messages the channel keeps for a slow receiver
    MaxLooked, MaxChannels   \* bounds

ASSUME FanoutConstants ==
    /\ NoChannel \notin Nat
    /\ Capacity \in Nat \ {0}
    /\ MaxLooked \in Nat /\ MaxChannels \in Nat

VARIABLES
    registered,   \* the channel in the registry
    made,         \* channels made so far; channel n is the n-th one
    looked,       \* events looked up so far; event n is the n-th one
    sending,      \* the channel the event in hand goes to
    conn          \* the subscriptions

fanoutVars == <<registered, made, looked, sending, conn>>

(* `joined`: the events looked up before it subscribed (history variable).   *)
Closed == [state |-> "closed", channel |-> NoChannel, queue |-> <<>>,
           lagged |-> FALSE, joined |-> 0, got |-> <<>>]

Receivers(channel) ==
    {c \in Connections : conn[c].channel = channel /\ conn[c].state = "open"}

FanoutInit ==
    /\ registered = NoChannel /\ made = 0
    /\ looked = 0 /\ sending = NoChannel
    /\ conn = [c \in Connections |-> Closed]

Subscribe(c) ==
    /\ conn[c].state = "closed"
    /\ IF registered = NoChannel
       THEN /\ made < MaxChannels
            /\ made' = made + 1 /\ registered' = made'
       ELSE UNCHANGED <<made, registered>>
    /\ conn' = [conn EXCEPT ![c] =
                  [Closed EXCEPT !.state = "open", !.channel = registered',
                                 !.joined = looked]]
    /\ UNCHANGED <<looked, sending>>

LookUp ==
    /\ sending = NoChannel /\ looked < MaxLooked
    /\ looked' = looked + 1
    /\ sending' = registered
    /\ UNCHANGED <<registered, made, conn>>

(* Slip: the events a slow receiver missed are not reported to it.           *)
QueuedSilently(r, e) ==
    IF Len(r.queue) < Capacity
    THEN [r EXCEPT !.queue = Append(@, e)]
    ELSE [r EXCEPT !.queue = Append(Tail(@), e)]

(* A receiver that falls behind loses the oldest message and is told so.     *)
Queued(r, e) ==
    IF Len(r.queue) < Capacity
    THEN [r EXCEPT !.queue = Append(@, e)]
    ELSE [r EXCEPT !.queue = Append(Tail(@), e), !.lagged = TRUE]

Send ==
    /\ sending # NoChannel
    /\ conn' = [c \in Connections |->
                    IF c \in Receivers(sending) THEN Queued(conn[c], looked)
                    ELSE conn[c]]
    /\ sending' = NoChannel
    /\ UNCHANGED <<registered, made, looked>>

(* recv and the frame that follows; after a lag the stream is closed.        *)
Receive(c) ==
    /\ conn[c].state = "open" /\ conn[c].queue # <<>> /\ ~conn[c].lagged
    /\ conn' = [conn EXCEPT ![c].got = Append(@, Head(conn[c].queue)),
                            ![c].queue = Tail(@)]
    /\ UNCHANGED <<registered, made, looked, sending>>

(* The client leaves, a frame cannot be sent, or the receiver lagged: the    *)
(* receiver is dropped, the registry not yet locked.                         *)
DropReceiver(c) ==
    /\ conn[c].state = "open"
    /\ conn' = [conn EXCEPT ![c] =
                  [Closed EXCEPT !.state = "dropping", !.channel = conn[c].channel]]
    /\ UNCHANGED <<registered, made, looked, sending>>

(* Slip: the registered channel is removed although others receive from it.  *)
UnusedByMe(channel) == channel = registered

Unused(channel) == channel = registered /\ Receivers(channel) = {}

Unregister(c) ==
    /\ conn[c].state = "dropping"
    /\ registered' = IF Unused(conn[c].channel) THEN NoChannel ELSE registered
    /\ conn' = [conn EXCEPT ![c] = Closed]
    /\ UNCHANGED <<made, looked, sending>>

FanoutNext ==
    \/ LookUp \/ Send
    \/ \E c \in Connections :
        Subscribe(c) \/ Receive(c) \/ DropReceiver(c) \/ Unregister(c)

FanoutSpec == FanoutInit /\ [][FanoutNext]_fanoutVars

-----------------------------------------------------------------------------
(* Properties.                                                               *)

(* Types; a live queue keeps at most Capacity events of a slow receiver.     *)
FanoutTypeOK ==
    /\ made \in 0 .. MaxChannels /\ looked \in 0 .. MaxLooked
    /\ registered \in 1 .. made \cup {NoChannel}
    /\ sending \in 1 .. made \cup {NoChannel}
    /\ conn \in [Connections ->
                    [state : {"closed", "open", "dropping"},
                     channel : 1 .. made \cup {NoChannel},
                     queue : Seq(1 .. looked), lagged : BOOLEAN,
                     joined : 0 .. looked, got : Seq(1 .. looked)]]
    /\ \A c \in Connections : Len(conn[c].queue) <= Capacity

(* An open stream is never cut off: publishers find the channel it receives  *)
(* from, whatever older subscriptions of the owner are still being dropped.  *)
StreamsStayConnected ==
    \A c \in Connections :
        conn[c].state = "open" => conn[c].channel = registered

(* When the last subscription is gone no channel stays behind.               *)
NoIdleChannel ==
    (\A c \in Connections : conn[c].state = "closed") => registered = NoChannel

(* Channels come and go with the streams of the owner, whatever the order in *)
(* which subscriptions join and are dropped in two steps; their queues stay  *)
(* within their capacity.                                                    *)
ChannelsFitStreams == FanoutTypeOK /\ StreamsStayConnected /\ NoIdleChannel

(* What a stream delivered and holds is a run of events without a gap, and   *)
(* with the event in hand it reaches from the first one published after the  *)
(* subscription to the last one; otherwise the stream was told that it       *)
(* lagged, and delivers nothing more.                                        *)
NoSilentGap ==
    \A c \in Connections :
        LET seen == conn[c].got \o conn[c].queue
            upTo == IF sending = conn[c].channel THEN looked - 1 ELSE looked
        IN  conn[c].state = "open" /\ ~conn[c].lagged =>
            /\ \A i \in 1 .. Len(seen) - 1 : seen[i + 1] = seen[i] + 1
            /\ conn[c].joined < upTo => seen # <<>> /\ seen[Len(seen)] = upTo
            /\ seen # <<>> => seen[1] <= conn[c].joined + 1
=============================================================================
