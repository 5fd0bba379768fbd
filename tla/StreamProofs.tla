----------------------------- MODULE StreamProofs -----------------------------
(* The event stream, for any number of connections, channels, events, any     *)
(* queue length and any limit of rows.                                        *)
(*                                                                            *)
(* The server's end (EventFanout): open streams stay connected to the         *)
(* registered channel, no channel outlives its last subscription, and what a  *)
(* stream does not deliver it announces.  The browser's end (EventStream):    *)
(* one connection and one timer at a time, and a merge that is exact.         *)
EXTENDS EventFanout, EventStream, Counting, SequenceTheorems

-----------------------------------------------------------------------------
(* The server's end.                                                          *)
Connection ==
    [state : {"closed", "open", "dropping"}, channel : Nat \cup {NoChannel},
     queue : Seq(Nat), lagged : BOOLEAN, joined : Nat, got : Seq(Nat)]

Typed ==
    /\ made \in Nat /\ looked \in Nat
    /\ registered \in Nat \cup {NoChannel} /\ sending \in Nat \cup {NoChannel}
    /\ conn \in [Connections -> Connection]

(* A registered channel has a subscription that will unregister it.          *)
Tended ==
    registered # NoChannel =>
        \E c \in Connections :
            conn[c].channel = registered /\ conn[c].state # "closed"

(* An open stream has a channel at all.                                      *)
OpenHasChannel ==
    \A c \in Connections : conn[c].state = "open" => registered # NoChannel

IInv == Typed /\ StreamsStayConnected /\ Tended /\ OpenHasChannel

-----------------------------------------------------------------------------
LEMMA ClosedTyped == Closed \in Connection
BY DEF Closed, Connection

(* A receiver that gets a message keeps its place.                           *)
LEMMA QueuedTyped ==
    ASSUME NEW r \in Connection, NEW e \in Nat
    PROVE  /\ Queued(r, e) \in Connection
           /\ Queued(r, e).state = r.state
           /\ Queued(r, e).channel = r.channel
<1>0. r.queue \in Seq(Nat)
  BY DEF Connection
<1>1. CASE Len(r.queue) < Capacity
  <2>1. Append(r.queue, e) \in Seq(Nat)
    BY <1>0
  <2>2. Queued(r, e) = [r EXCEPT !.queue = Append(r.queue, e)]
    BY <1>1 DEF Queued, Connection
  <2> QED BY <2>1, <2>2 DEF Connection
<1>2. CASE ~(Len(r.queue) < Capacity)
  <2>1. Len(r.queue) > 0
    BY <1>0, <1>2, FanoutConstants
  <2>2. r.queue # <<>> /\ Tail(r.queue) \in Seq(Nat)
    BY <1>0, <2>1
  <2>3. Append(Tail(r.queue), e) \in Seq(Nat)
    BY <2>2
  <2>4. Queued(r, e) = [r EXCEPT !.queue = Append(Tail(r.queue), e), !.lagged = TRUE]
    BY <1>2 DEF Queued, Connection
  <2> QED BY <2>3, <2>4 DEF Connection
<1> QED BY <1>1, <1>2

LEMMA InvariantInit == FanoutInit => IInv
BY ClosedTyped DEF FanoutInit, IInv, Typed, StreamsStayConnected, Tended, OpenHasChannel, Closed

-----------------------------------------------------------------------------
LEMMA InvariantSubscribe ==
    ASSUME IInv, NEW c \in Connections, Subscribe(c)
    PROVE  IInv'
<1> USE DEF IInv, Subscribe
<1>1. registered' \in Nat /\ registered' # NoChannel /\ made' \in Nat
  BY FanoutConstants DEF Typed
<1>2. conn' = [conn EXCEPT ![c] =
                 [Closed EXCEPT !.state = "open", !.channel = registered',
                                !.joined = looked]]
  OBVIOUS
<1>3. conn'[c].state = "open" /\ conn'[c].channel = registered'
  BY <1>2 DEF Typed, Closed
<1>4. \A d \in Connections \ {c} : conn'[d] = conn[d]
  BY <1>2 DEF Typed
<1>5. Typed'
  <2> DEFINE opened == [Closed EXCEPT !.state = "open", !.channel = registered',
                                      !.joined = looked]
  <2>1. looked \in Nat
    BY DEF Typed
  <2>2. opened \in Connection
    BY <1>1, <2>1, ClosedTyped DEF Connection
  <2>3. conn' = [conn EXCEPT ![c] = opened]
    BY <1>2
  <2> QED BY <1>1, <2>2, <2>3 DEF Typed
<1>6. \A d \in Connections \ {c} : conn[d].state = "open" => registered' = registered
  BY DEF OpenHasChannel
<1>7. StreamsStayConnected'
  BY <1>3, <1>4, <1>6 DEF StreamsStayConnected
<1>8. Tended' /\ OpenHasChannel'
  BY <1>1, <1>3 DEF Tended, OpenHasChannel
<1> QED BY <1>5, <1>7, <1>8

LEMMA InvariantLookUp ==
    ASSUME IInv, LookUp
    PROVE  IInv'
<1> USE DEF IInv, LookUp
<1>1. Typed'
  BY DEF Typed
<1>2. StreamsStayConnected' /\ Tended' /\ OpenHasChannel'
  BY DEF StreamsStayConnected, Tended, OpenHasChannel
<1> QED BY <1>1, <1>2

LEMMA InvariantSend ==
    ASSUME IInv, Send
    PROVE  IInv'
<1> USE DEF IInv, Send
<1>1. \A c \in Connections :
        /\ conn'[c] \in Connection
        /\ conn'[c].state = conn[c].state
        /\ conn'[c].channel = conn[c].channel
  BY QueuedTyped DEF Typed
<1>2. Typed'
  BY <1>1 DEF Typed
<1>3. StreamsStayConnected' /\ Tended' /\ OpenHasChannel'
  BY <1>1 DEF StreamsStayConnected, Tended, OpenHasChannel
<1> QED BY <1>2, <1>3

LEMMA InvariantReceive ==
    ASSUME IInv, NEW c \in Connections, Receive(c)
    PROVE  IInv'
<1> USE DEF IInv, Receive
<1> DEFINE r == conn[c]
           after == [r EXCEPT !.got = Append(r.got, Head(r.queue)),
                              !.queue = Tail(r.queue)]
<1>1. conn' = [conn EXCEPT ![c] = after]
  BY DEF Typed, Connection
<1>2. after \in Connection
  <2>1. r.queue \in Seq(Nat) /\ r.queue # <<>> /\ r.got \in Seq(Nat)
    BY DEF Typed, Connection
  <2>2. Head(r.queue) \in Nat /\ Tail(r.queue) \in Seq(Nat)
    BY <2>1
  <2>3. Append(r.got, Head(r.queue)) \in Seq(Nat)
    BY <2>1, <2>2
  <2> QED BY <2>2, <2>3 DEF Typed, Connection
<1>3. after.state = r.state /\ after.channel = r.channel
  BY DEF Typed, Connection
<1>4. Typed'
  BY <1>1, <1>2 DEF Typed
<1>5. \A d \in Connections :
        conn'[d].state = conn[d].state /\ conn'[d].channel = conn[d].channel
  BY <1>1, <1>3 DEF Typed
<1>6. StreamsStayConnected' /\ Tended' /\ OpenHasChannel'
  BY <1>5 DEF StreamsStayConnected, Tended, OpenHasChannel
<1> QED BY <1>4, <1>6

LEMMA InvariantDropReceiver ==
    ASSUME IInv, NEW c \in Connections, DropReceiver(c)
    PROVE  IInv'
<1> USE DEF IInv, DropReceiver
<1>1. /\ conn'[c].state = "dropping" /\ conn'[c].channel = conn[c].channel
      /\ \A d \in Connections \ {c} : conn'[d] = conn[d]
  BY DEF Typed, Closed
<1>2. Typed'
  BY ClosedTyped DEF Typed, Closed, Connection
<1>3. StreamsStayConnected' /\ OpenHasChannel'
  BY <1>1 DEF StreamsStayConnected, OpenHasChannel
<1>4. Tended'
  BY <1>1 DEF Tended
<1> QED BY <1>2, <1>3, <1>4

(* The receiver was given up before: the channel is removed only when it is  *)
(* the registered one and nobody else receives from it.                      *)
LEMMA InvariantUnregister ==
    ASSUME IInv, NEW c \in Connections, Unregister(c)
    PROVE  IInv'
<1> USE DEF IInv, Unregister
<1>1. conn'[c] = Closed /\ \A d \in Connections \ {c} : conn'[d] = conn[d]
  BY DEF Typed
<1>2. Typed'
  BY ClosedTyped DEF Typed
<1>3. CASE Unused(conn[c].channel)
  <2>1. \A d \in Connections : conn[d].state # "open"
    BY <1>3 DEF Unused, Receivers, StreamsStayConnected
  <2>2. \A d \in Connections : conn'[d].state # "open"
    BY <1>1, <2>1 DEF Closed
  <2>3. registered' = NoChannel
    BY <1>3
  <2> QED BY <1>2, <2>2, <2>3 DEF StreamsStayConnected, Tended, OpenHasChannel
<1>4. CASE ~Unused(conn[c].channel)
  <2>1. registered' = registered
    BY <1>4
  <2>2. StreamsStayConnected' /\ OpenHasChannel'
    BY <1>1, <2>1 DEF StreamsStayConnected, OpenHasChannel, Closed
  <2>3. ASSUME registered # NoChannel
        PROVE  \E d \in Connections \ {c} :
                  conn[d].channel = registered /\ conn[d].state # "closed"
    <3>1. CASE conn[c].channel = registered
      <4>1. PICK d \in Receivers(conn[c].channel) : TRUE
        BY <1>4, <3>1 DEF Unused
      <4> QED BY <3>1, <4>1 DEF Receivers
    <3>2. CASE conn[c].channel # registered
      BY <2>3, <3>2 DEF Tended
    <3> QED BY <3>1, <3>2
  <2>4. Tended'
    BY <1>1, <2>1, <2>3 DEF Tended
  <2> QED BY <1>2, <2>2, <2>4
<1> QED BY <1>3, <1>4

-----------------------------------------------------------------------------
(* The inductive invariant holds throughout.                                 *)
THEOREM FanoutInvariant == FanoutSpec => []IInv
<1>1. IInv /\ [FanoutNext]_fanoutVars => IInv'
  <2> SUFFICES ASSUME IInv, [FanoutNext]_fanoutVars PROVE IInv'
    OBVIOUS
  <2>1. CASE LookUp BY <2>1, InvariantLookUp
  <2>2. CASE Send BY <2>2, InvariantSend
  <2>3. ASSUME NEW c \in Connections, Subscribe(c) PROVE IInv'
    BY <2>3, InvariantSubscribe
  <2>4. ASSUME NEW c \in Connections, Receive(c) PROVE IInv'
    BY <2>4, InvariantReceive
  <2>5. ASSUME NEW c \in Connections, DropReceiver(c) PROVE IInv'
    BY <2>5, InvariantDropReceiver
  <2>6. ASSUME NEW c \in Connections, Unregister(c) PROVE IInv'
    BY <2>6, InvariantUnregister
  <2>7. CASE UNCHANGED fanoutVars
    BY <2>7 DEF IInv, Typed, StreamsStayConnected, Tended, OpenHasChannel, fanoutVars
  <2> QED BY <2>1, <2>2, <2>3, <2>4, <2>5, <2>6, <2>7 DEF FanoutNext
<1> QED BY <1>1, InvariantInit, PTL DEF FanoutSpec

(* Dropping an older subscription never cuts off an open stream.             *)
THEOREM StreamsAreConnected == FanoutSpec => []StreamsStayConnected
BY FanoutInvariant, PTL DEF IInv

(* No channel stays registered after the owner's last subscription.          *)
THEOREM NoChannelLeaks == FanoutSpec => []NoIdleChannel
<1>1. IInv => NoIdleChannel
  BY DEF IInv, Tended, NoIdleChannel
<1> QED BY <1>1, FanoutInvariant, PTL

(* Types: what a queue holds was looked up, and there is room for it.        *)
Bounded(m, n) ==
    [state : {"closed", "open", "dropping"}, channel : 1 .. m \cup {NoChannel},
     queue : Seq(1 .. n), lagged : BOOLEAN, joined : 0 .. n, got : Seq(1 .. n)]
SentIsLooked == sending # NoChannel => looked > 0

LEMMA MoreNumbers ==
    ASSUME NEW n \in Nat, NEW n2 \in Nat, n <= n2, NEW s \in Seq(1 .. n)
    PROVE  s \in Seq(1 .. n2)
<1>1. \A i \in 1 .. Len(s) : s[i] \in 1 .. n2
  BY ElementOfSeq
<1> QED BY <1>1, SeqDef

LEMMA Widened ==
    ASSUME NEW m \in Nat, NEW n \in Nat, NEW m2 \in Nat, NEW n2 \in Nat,
           m <= m2, n <= n2, NEW r \in Bounded(m, n)
    PROVE  r \in Bounded(m2, n2)
<1>1. r.queue \in Seq(1 .. n2) /\ r.got \in Seq(1 .. n2)
  BY MoreNumbers DEF Bounded
<1> QED BY <1>1 DEF Bounded

LEMMA QueuedBounded ==
    ASSUME NEW m \in Nat, NEW n \in Nat \ {0}, NEW r \in Bounded(m, n), Len(r.queue) <= Capacity
    PROVE  Queued(r, n) \in Bounded(m, n) /\ Len(Queued(r, n).queue) <= Capacity
<1>1. r.queue \in Seq(1 .. n) /\ n \in 1 .. n BY DEF Bounded
<1>2. CASE Len(r.queue) < Capacity
  <2> DEFINE longer == Append(r.queue, n)
  <2>1. longer \in Seq(1 .. n) /\ Len(longer) <= Capacity
    BY <1>1, <1>2, FanoutConstants
  <2>2. Queued(r, n) = [r EXCEPT !.queue = longer]
    BY <1>2 DEF Queued, Bounded
  <2> HIDE DEF longer
  <2> QED BY <2>1, <2>2 DEF Bounded
<1>3. CASE ~(Len(r.queue) < Capacity)
  <2> DEFINE moved == Append(Tail(r.queue), n)
  <2>1. r.queue # <<>> BY <1>1, <1>3, FanoutConstants
  <2>2. Tail(r.queue) \in Seq(1 .. n) /\ Len(Tail(r.queue)) = Len(r.queue) - 1
    BY <1>1, <2>1, HeadTailProperties
  <2>3. moved \in Seq(1 .. n) /\ Len(moved) <= Capacity
    BY <1>1, <2>2, FanoutConstants
  <2>4. Queued(r, n) = [r EXCEPT !.queue = moved, !.lagged = TRUE]
    BY <1>3 DEF Queued, Bounded
  <2> HIDE DEF moved
  <2> QED BY <2>3, <2>4 DEF Bounded
<1> QED BY <1>2, <1>3

LEMMA TypesStep ==
    ASSUME FanoutTypeOK, SentIsLooked, [FanoutNext]_fanoutVars
    PROVE  (FanoutTypeOK /\ SentIsLooked)'
<1>1. /\ made \in Nat /\ looked \in Nat /\ made <= MaxChannels /\ looked <= MaxLooked
      /\ registered \in 1 .. made \cup {NoChannel} /\ sending \in 1 .. made \cup {NoChannel}
      /\ conn \in [Connections -> Bounded(made, looked)]
      /\ \A d \in Connections : Len(conn[d].queue) <= Capacity
  BY FanoutConstants DEF FanoutTypeOK, Bounded
<1> DEFINE Fits(m, n, r) == r \in Bounded(m, n) /\ Len(r.queue) <= Capacity
<1>2. SUFFICES
        /\ made' \in 0 .. MaxChannels /\ looked' \in 0 .. MaxLooked
        /\ registered' \in 1 .. made' \cup {NoChannel}
        /\ sending' \in 1 .. made' \cup {NoChannel}
        /\ conn' \in [Connections -> Bounded(made', looked')]
        /\ \A d \in Connections : Len(conn'[d].queue) <= Capacity
        /\ sending' # NoChannel => looked' > 0
  BY DEF FanoutTypeOK, SentIsLooked, Bounded
<1>3. ASSUME NEW m \in Nat, NEW n \in Nat PROVE Fits(m, n, Closed)
  BY FanoutConstants DEF Closed, Bounded
<1>4. CASE LookUp
  <2>1. made' = made /\ looked' = looked + 1 /\ conn' = conn BY <1>4 DEF LookUp
  <2>2. \A d \in Connections : conn[d] \in Bounded(made', looked')
    BY <1>1, <2>1, Widened
  <2> QED BY <1>1, <1>4, <2>1, <2>2, FanoutConstants DEF LookUp
<1>5. CASE Send
  <2>1. looked \in Nat \ {0} BY <1>1, <1>5 DEF Send, SentIsLooked
  <2>2. \A d \in Connections : Fits(made, looked, Queued(conn[d], looked))
    BY <1>1, <2>1, QueuedBounded
  <2>3. \A d \in Connections : Fits(made, looked, conn'[d])
    BY <1>1, <1>5, <2>2 DEF Send
  <2>4. DOMAIN conn' = Connections /\ conn' = [d \in Connections |-> conn'[d]]
    BY <1>5 DEF Send
  <2> QED BY <1>1, <1>5, <2>3, <2>4, FanoutConstants DEF Send
<1>6. ASSUME NEW c \in Connections, Subscribe(c) \/ Receive(c) \/ DropReceiver(c) \/ Unregister(c)
      PROVE  /\ made' \in made .. MaxChannels /\ looked' = looked
             /\ registered' \in 1 .. made' \cup {NoChannel} /\ sending' = sending
             /\ \E r : conn' = [conn EXCEPT ![c] = r] /\ Fits(made', looked', r)
  <2>1. CASE Subscribe(c)
    <3> DEFINE opened == [Closed EXCEPT !.state = "open", !.channel = registered',
                                        !.joined = looked]
    <3>1. conn' = [conn EXCEPT ![c] = opened] /\ looked' = looked /\ sending' = sending
      BY <2>1 DEF Subscribe
    <3>2. made' \in made .. MaxChannels /\ registered' \in 1 .. made' /\ made' \in Nat
      BY <1>1, <2>1, FanoutConstants DEF Subscribe
    <3>3. looked \in 0 .. looked' /\ looked' \in Nat /\ registered' \in 1 .. made' \cup {NoChannel}
      BY <1>1, <3>1, <3>2
    <3>4. Closed \in Bounded(made', looked') /\ Closed.queue = <<>>
      BY <1>3, <3>2, <3>3 DEF Closed
    <3>5. opened \in Bounded(made', looked') /\ opened.queue = Closed.queue
      BY <3>3, <3>4 DEF Bounded
    <3>6. Fits(made', looked', opened)
      BY <3>4, <3>5, FanoutConstants
    <3> HIDE DEF opened
    <3> QED BY <3>1, <3>2, <3>6
  <2>2. CASE Receive(c)
    <3> DEFINE r == conn[c]
               after == [r EXCEPT !.got = Append(r.got, Head(r.queue)),
                                  !.queue = Tail(r.queue)]
    <3>1. r \in Bounded(made, looked) BY <1>1
    <3>2. conn' = [conn EXCEPT ![c] = after]
      BY <1>1, <2>2, <3>1 DEF Receive, Bounded
    <3>3. r.queue \in Seq(1 .. looked) /\ r.queue # <<>> /\ r.got \in Seq(1 .. looked)
      BY <2>2, <3>1 DEF Receive, Bounded
    <3>4. /\ Head(r.queue) \in 1 .. looked /\ Tail(r.queue) \in Seq(1 .. looked)
          /\ Len(Tail(r.queue)) = Len(r.queue) - 1
      BY <3>3, HeadTailProperties
    <3>5. Append(r.got, Head(r.queue)) \in Seq(1 .. looked) BY <3>3, <3>4
    <3>6. Len(r.queue) <= Capacity /\ Len(r.queue) \in Nat BY <1>1, <3>3
    <3>7. Fits(made, looked, after)
      <4>1. after \in Bounded(made, looked)
        BY <3>1, <3>4, <3>5 DEF Bounded
      <4>2. after.queue = Tail(r.queue) BY <3>1 DEF Bounded
      <4> QED BY <3>4, <3>6, <4>1, <4>2, FanoutConstants
    <3>8. UNCHANGED <<made, looked, registered, sending>> BY <2>2 DEF Receive
    <3> HIDE DEF after
    <3>9. \E q : conn' = [conn EXCEPT ![c] = q] /\ Fits(made', looked', q)
      BY <3>2, <3>7, <3>8
    <3>10. /\ made' \in made .. MaxChannels /\ looked' = looked
           /\ registered' \in 1 .. made' \cup {NoChannel} /\ sending' = sending
      BY <1>1, <3>8, FanoutConstants
    <3> HIDE DEF Fits
    <3> QED BY <3>9, <3>10
  <2>3. CASE DropReceiver(c)
    <3> DEFINE dropped == [Closed EXCEPT !.state = "dropping", !.channel = conn[c].channel]
    <3>1. conn[c].channel \in 1 .. made \cup {NoChannel} BY <1>1 DEF Bounded
    <3>2. Closed \in Bounded(made, looked) /\ Closed.queue = <<>>
      BY <1>1, <1>3 DEF Closed
    <3>3. dropped \in Bounded(made, looked) /\ dropped.queue = Closed.queue
      BY <3>1, <3>2 DEF Bounded
    <3>4. Fits(made, looked, dropped) BY <3>2, <3>3, FanoutConstants
    <3>5. UNCHANGED <<made, looked, registered, sending>> /\ conn' = [conn EXCEPT ![c] = dropped]
      BY <2>3 DEF DropReceiver
    <3> HIDE DEF dropped
    <3>6. \E q : conn' = [conn EXCEPT ![c] = q] /\ Fits(made', looked', q)
      BY <3>4, <3>5
    <3>10. /\ made' \in made .. MaxChannels /\ looked' = looked
           /\ registered' \in 1 .. made' \cup {NoChannel} /\ sending' = sending
      BY <1>1, <3>5, FanoutConstants
    <3> HIDE DEF Fits
    <3> QED BY <3>6, <3>10
  <2>4. CASE Unregister(c)
    <3>1. /\ UNCHANGED <<made, looked, sending>> /\ registered' \in {registered, NoChannel}
          /\ conn' = [conn EXCEPT ![c] = Closed]
      BY <2>4 DEF Unregister
    <3>2. Fits(made', looked', Closed) BY <1>1, <1>3, <3>1
    <3>3. \E q : conn' = [conn EXCEPT ![c] = q] /\ Fits(made', looked', q)
      BY <3>1, <3>2
    <3>10. /\ made' \in made .. MaxChannels /\ looked' = looked
           /\ registered' \in 1 .. made' \cup {NoChannel} /\ sending' = sending
      BY <1>1, <3>1, FanoutConstants
    <3> HIDE DEF Fits
    <3> QED BY <3>3, <3>10
  <2> QED BY <1>6, <2>1, <2>2, <2>3, <2>4
<1>7. ASSUME NEW c \in Connections, Subscribe(c) \/ Receive(c) \/ DropReceiver(c) \/ Unregister(c)
      PROVE  \A d \in Connections : Fits(made', looked', conn'[d])
  <2>1. PICK r : conn' = [conn EXCEPT ![c] = r] /\ Fits(made', looked', r) BY <1>6, <1>7
  <2>2. made' \in Nat /\ looked' \in Nat /\ made <= made' /\ looked <= looked'
    BY <1>1, <1>6, <1>7, FanoutConstants
  <2>3. ASSUME NEW d \in Connections PROVE Fits(made', looked', conn'[d])
    <3>1. CASE d = c BY <1>1, <2>1, <3>1
    <3>2. CASE d # c
      <4>1. conn'[d] = conn[d] BY <1>1, <2>1, <3>2
      <4>2. conn[d] \in Bounded(made', looked') BY <1>1, <2>2, Widened
      <4> QED BY <1>1, <4>1, <4>2
    <3> QED BY <3>1, <3>2
  <2> QED BY <2>3
<1>8. ASSUME NEW c \in Connections, Subscribe(c) \/ Receive(c) \/ DropReceiver(c) \/ Unregister(c)
      PROVE  /\ conn' \in [Connections -> Bounded(made', looked')]
             /\ \A d \in Connections : Len(conn'[d].queue) <= Capacity
             /\ made' \in 0 .. MaxChannels /\ looked' \in 0 .. MaxLooked
             /\ sending' \in 1 .. made' \cup {NoChannel}
             /\ registered' \in 1 .. made' \cup {NoChannel}
             /\ sending' # NoChannel => looked' > 0
  <2>1. PICK r : conn' = [conn EXCEPT ![c] = r] BY <1>6, <1>8
  <2> QED BY <1>1, <1>6, <1>7, <1>8, <2>1, FanoutConstants DEF SentIsLooked
<1>9. CASE UNCHANGED fanoutVars BY <1>1, <1>9, FanoutConstants DEF fanoutVars, SentIsLooked
<1> QED BY <1>4, <1>5, <1>8, <1>9 DEF FanoutNext

LEMMA TypesHold == FanoutSpec => []FanoutTypeOK
<1>1. FanoutInit => FanoutTypeOK /\ SentIsLooked
  BY FanoutConstants DEF FanoutInit, FanoutTypeOK, SentIsLooked, Closed
<1> QED BY <1>1, TypesStep, PTL DEF FanoutSpec

(* Together: channels come and go with the streams of the owner, and queues  *)
(* hold at most what there is room for.                                      *)
THEOREM ChannelsComeAndGo == FanoutSpec => []ChannelsFitStreams
BY TypesHold, StreamsAreConnected, NoChannelLeaks, PTL DEF ChannelsFitStreams

-----------------------------------------------------------------------------
(* No gap.  What a stream that did not lag has got and holds is, number by   *)
(* number, the last events up to the one it was sent last, and reaches back  *)
(* at least to its subscription.                                             *)
UpTo(c) == IF sending = conn[c].channel THEN looked - 1 ELSE looked

Before(r, upTo) == upTo - Len(r.got) - Len(r.queue)

Run(r, upTo) ==
    /\ Before(r, upTo) <= r.joined
    /\ \A i \in 1 .. Len(r.got) : r.got[i] = Before(r, upTo) + i
    /\ \A i \in 1 .. Len(r.queue) : r.queue[i] = Before(r, upTo) + Len(r.got) + i

Gapless ==
    \A c \in Connections :
        conn[c].state = "open" /\ ~conn[c].lagged => Run(conn[c], UpTo(c))

(* Arithmetic of places in two sequences, one behind the other.              *)
LEMMA Places ==
    \A b \in Int, m \in Nat, i \in Int : b + m + (i + 1) = b + (m + 1) + i
OBVIOUS

(* The next event prolongs the run, or the receiver is told that it lagged.  *)
LEMMA QueuedProlongs ==
    ASSUME NEW r \in Connection, NEW e \in Nat, Run(r, e - 1), ~Queued(r, e).lagged
    PROVE  Run(Queued(r, e), e)
<1> DEFINE q == Append(r.queue, e)
<1>1. r.queue \in Seq(Nat) /\ r.got \in Seq(Nat) /\ r.joined \in Nat
  BY DEF Connection
<1>2. Queued(r, e) = [r EXCEPT !.queue = q]
  BY DEF Queued, Connection
<1>3. Len(q) = Len(r.queue) + 1 /\ q[Len(r.queue) + 1] = e
      /\ \A i \in 1 .. Len(r.queue) : q[i] = r.queue[i]
  BY <1>1
<1>4. /\ Queued(r, e).queue = q /\ Queued(r, e).got = r.got
      /\ Queued(r, e).joined = r.joined
  BY <1>2 DEF Connection
<1>5. Before(Queued(r, e), e) = Before(r, e - 1)
  <2>1. Before(Queued(r, e), e) = e - Len(r.got) - Len(q)
    BY <1>4 DEF Before
  <2>2. Len(r.got) \in Nat /\ Len(r.queue) \in Nat /\ Len(q) = Len(r.queue) + 1
    BY <1>1, <1>3
  <2>3. e - Len(r.got) - Len(q) = (e - 1) - Len(r.got) - Len(r.queue)
    <3> HIDE DEF q
    <3> QED BY <2>2
  <2> QED BY <2>1, <2>3 DEF Before
<1>6. Before(r, e - 1) + Len(r.got) + Len(r.queue) = e - 1 /\ Before(r, e - 1) \in Int
      /\ Len(r.got) \in Nat /\ Len(r.queue) \in Nat
  BY <1>1 DEF Before
<1>7. Before(r, e - 1) + Len(r.got) + (Len(r.queue) + 1) = e
  <2>1. Before(r, e - 1) = (e - 1) - Len(r.got) - Len(r.queue)
    BY DEF Before
  <2> QED BY <2>1, <1>6
<1> HIDE DEF q
<1>8. \A i \in 1 .. Len(q) : q[i] = Before(r, e - 1) + Len(r.got) + i
  <2> SUFFICES ASSUME NEW i \in 1 .. Len(q)
               PROVE  q[i] = Before(r, e - 1) + Len(r.got) + i
    OBVIOUS
  <2>1. CASE i \in 1 .. Len(r.queue)
    <3>1. q[i] = r.queue[i] /\ r.queue[i] = Before(r, e - 1) + Len(r.got) + i
      BY <2>1, <1>3 DEF Run
    <3> QED BY <3>1
  <2>2. CASE i = Len(r.queue) + 1
    <3>1. q[i] = e
      BY <2>2, <1>3
    <3> QED BY <2>2, <3>1, <1>7
  <2> QED BY <2>1, <2>2, <1>3, <1>6
<1> QED BY <1>4, <1>5, <1>8 DEF Run

(* A frame that is sent moves the event from the queue to what was got.      *)
LEMMA GotKeepsRun ==
    ASSUME NEW r \in Connection, NEW upTo \in Int, Run(r, upTo), r.queue # <<>>
    PROVE  Run([r EXCEPT !.got = Append(r.got, Head(r.queue)), !.queue = Tail(r.queue)], upTo)
<1> DEFINE g == Append(r.got, Head(r.queue))
           q == Tail(r.queue)
           after == [r EXCEPT !.got = g, !.queue = q]
<1>1. r.queue \in Seq(Nat) /\ r.got \in Seq(Nat) /\ r.joined \in Nat
  BY DEF Connection
<1>2. Len(r.queue) \in Nat \ {0} /\ Len(r.got) \in Nat
  BY <1>1
<1>3. Len(q) = Len(r.queue) - 1 /\ \A i \in 1 .. Len(q) : q[i] = r.queue[i + 1]
  BY <1>1, <1>2
<1>4. Len(g) = Len(r.got) + 1 /\ g[Len(r.got) + 1] = r.queue[1]
      /\ \A i \in 1 .. Len(r.got) : g[i] = r.got[i]
  BY <1>1, <1>2
<1>5. after.got = g /\ after.queue = q /\ after.joined = r.joined
  BY DEF Connection
<1> HIDE DEF g, q, after
<1>6. Before(after, upTo) = Before(r, upTo) /\ Before(r, upTo) \in Int
  <2>1. Before(after, upTo) = upTo - Len(g) - Len(q)
    BY <1>5 DEF Before
  <2>2. Before(after, upTo) = upTo - (Len(r.got) + 1) - (Len(r.queue) - 1)
    BY <2>1, <1>3, <1>4
  <2>3. Before(r, upTo) = upTo - Len(r.got) - Len(r.queue)
    BY DEF Before
  <2> QED BY <2>2, <2>3, <1>2
<1>7. \A i \in 1 .. Len(g) : g[i] = Before(r, upTo) + i
  <2>1. r.queue[1] = Before(r, upTo) + Len(r.got) + 1
    BY <1>2 DEF Run
  <2> SUFFICES ASSUME NEW i \in 1 .. Len(g)
               PROVE  g[i] = Before(r, upTo) + i
    OBVIOUS
  <2>2. CASE i \in 1 .. Len(r.got)
    <3>1. g[i] = r.got[i] /\ r.got[i] = Before(r, upTo) + i
      BY <2>2, <1>4 DEF Run
    <3> QED BY <3>1
  <2>3. CASE i = Len(r.got) + 1
    BY <2>1, <2>3, <1>2, <1>4, <1>6
  <2> QED BY <2>2, <2>3, <1>2, <1>4
<1>8. \A i \in 1 .. Len(q) : q[i] = Before(r, upTo) + Len(g) + i
  <2> SUFFICES ASSUME NEW i \in 1 .. Len(q)
               PROVE  q[i] = Before(r, upTo) + Len(g) + i
    OBVIOUS
  <2>1. i + 1 \in 1 .. Len(r.queue) /\ q[i] = r.queue[i + 1]
    BY <1>2, <1>3
  <2>2. r.queue[i + 1] = Before(r, upTo) + Len(r.got) + (i + 1)
    BY <2>1 DEF Run
  <2>3. Len(g) = Len(r.got) + 1 /\ Len(r.got) \in Nat
    BY <1>2, <1>4
  <2>4. i \in Int
    BY <1>2, <1>3
  <2>5. Before(r, upTo) \in Int
    BY <1>6
  <2>6. Before(r, upTo) + Len(r.got) + (i + 1) = Before(r, upTo) + (Len(r.got) + 1) + i
    BY <2>3, <2>4, <2>5, Places
  <2> QED BY <2>1, <2>2, <2>3, <2>6
<1> QED BY <1>5, <1>6, <1>7, <1>8 DEF Run, after, g, q

(* The invariant needs the connections of IInv: an open stream receives from *)
(* the channel the event in hand was looked up for, or joined after it.      *)
Reached == IInv /\ Gapless

LEMMA GaplessStep ==
    ASSUME Reached, [FanoutNext]_fanoutVars
    PROVE  Gapless'
<1> USE DEF Reached
<1>0. looked \in Nat /\ \A c \in Connections : conn[c] \in Connection
  BY DEF IInv, Typed
<1>1. CASE LookUp
  <2> SUFFICES ASSUME NEW c \in Connections, conn[c].state = "open", ~conn[c].lagged
               PROVE  Run(conn[c], UpTo(c)')
    BY <1>1 DEF LookUp, Gapless
  <2>1. conn[c].channel = registered /\ registered # NoChannel
    BY DEF IInv, StreamsStayConnected, OpenHasChannel
  <2>2. UpTo(c)' = UpTo(c)
    BY <1>0, <1>1, <2>1 DEF LookUp, UpTo
  <2> QED BY <2>2 DEF Gapless
<1>2. CASE Send
  <2> SUFFICES ASSUME NEW c \in Connections, conn'[c].state = "open", ~conn'[c].lagged
               PROVE  Run(conn'[c], UpTo(c)')
    BY DEF Gapless
  <2>1. conn'[c] = IF c \in Receivers(sending) THEN Queued(conn[c], looked) ELSE conn[c]
    BY <1>2 DEF Send
  <2>2. conn[c] \in Connection
    BY <1>0
  <2>3. conn'[c].state = conn[c].state /\ conn'[c].channel = conn[c].channel
    BY <1>0, <2>1, <2>2, QueuedTyped
  <2>4. conn[c].channel # NoChannel
    BY <2>3 DEF IInv, StreamsStayConnected, OpenHasChannel
  <2>5. UpTo(c)' = looked
    BY <1>2, <2>3, <2>4 DEF Send, UpTo
  <2>6. CASE c \in Receivers(sending)
    <3>1. UpTo(c) = looked - 1
      BY <2>6 DEF Receivers, UpTo
    <3>2. ~conn[c].lagged
      BY <2>1, <2>2, <2>6 DEF Queued, Connection
    <3>3. Run(conn[c], looked - 1)
      BY <3>1, <3>2, <2>3 DEF Gapless
    <3> QED BY <1>0, <2>1, <2>2, <2>5, <2>6, <3>3, QueuedProlongs
  <2>7. CASE c \notin Receivers(sending)
    <3>1. conn'[c] = conn[c] /\ UpTo(c) = looked
      BY <2>1, <2>3, <2>7 DEF Receivers, UpTo
    <3> QED BY <2>5, <3>1 DEF Gapless
  <2> QED BY <2>6, <2>7
<1>3. ASSUME NEW c \in Connections, Subscribe(c) PROVE Gapless'
  <2>1. /\ conn'[c] = [Closed EXCEPT !.state = "open", !.channel = registered',
                                     !.joined = looked]
        /\ \A d \in Connections \ {c} : conn'[d] = conn[d]
        /\ looked' = looked /\ sending' = sending
    BY <1>3 DEF Subscribe, IInv, Typed
  <2>2. conn'[c].got = <<>> /\ conn'[c].queue = <<>> /\ conn'[c].joined = looked
    BY <2>1 DEF Closed
  <2>3. UpTo(c)' <= looked /\ UpTo(c)' \in Int
    BY <1>0, <2>1 DEF UpTo
  <2>4. Before(conn'[c], UpTo(c)') = UpTo(c)'
    BY <2>2, <2>3 DEF Before
  <2>5. Run(conn'[c], UpTo(c)')
    BY <2>2, <2>3, <2>4 DEF Run
  <2>6. \A d \in Connections \ {c} : UpTo(d)' = UpTo(d)
    BY <2>1 DEF UpTo
  <2> QED BY <2>1, <2>5, <2>6 DEF Gapless
<1>4. ASSUME NEW c \in Connections, Receive(c) PROVE Gapless'
  <2> DEFINE after == [conn[c] EXCEPT !.got = Append(conn[c].got, Head(conn[c].queue)),
                                      !.queue = Tail(conn[c].queue)]
  <2>1. /\ conn'[c] = after
        /\ \A d \in Connections \ {c} : conn'[d] = conn[d]
        /\ looked' = looked /\ sending' = sending
    BY <1>4 DEF Receive, IInv, Typed, Connection
  <2>2. after.channel = conn[c].channel
    BY <1>0 DEF Connection
  <2>3. \A d \in Connections : UpTo(d)' = UpTo(d)
    BY <2>1, <2>2 DEF UpTo
  <2>4. UpTo(c) \in Int
    BY <1>0 DEF UpTo
  <2>5. Run(conn[c], UpTo(c)) /\ conn[c].queue # <<>>
    BY <1>4 DEF Receive, Gapless
  <2>6. Run(after, UpTo(c))
    BY <1>0, <2>4, <2>5, GotKeepsRun
  <2> HIDE DEF after
  <2> QED BY <2>1, <2>3, <2>6 DEF Gapless
<1>5. ASSUME NEW c \in Connections, DropReceiver(c) \/ Unregister(c) PROVE Gapless'
  <2>1. /\ conn'[c].state # "open"
        /\ \A d \in Connections \ {c} : conn'[d] = conn[d]
        /\ looked' = looked /\ sending' = sending
    <3>1. CASE DropReceiver(c)
      BY <3>1 DEF DropReceiver, IInv, Typed, Closed
    <3>2. CASE Unregister(c)
      BY <3>2 DEF Unregister, IInv, Typed, Closed
    <3> QED BY <1>5, <3>1, <3>2
  <2>2. \A d \in Connections \ {c} : UpTo(d)' = UpTo(d)
    BY <2>1 DEF UpTo
  <2> QED BY <2>1, <2>2 DEF Gapless
<1>6. CASE UNCHANGED fanoutVars
  BY <1>6 DEF fanoutVars, Gapless, UpTo
<1> QED BY <1>1, <1>2, <1>3, <1>4, <1>5, <1>6 DEF FanoutNext

(* The run of numbers is what NoSilentGap says of the joined sequence.       *)
LEMMA GaplessIsEnough == Reached => NoSilentGap
<1> SUFFICES ASSUME Reached, NEW c \in Connections,
                    conn[c].state = "open", ~conn[c].lagged
             PROVE  LET seen == conn[c].got \o conn[c].queue
                    IN  /\ \A i \in 1 .. Len(seen) - 1 : seen[i + 1] = seen[i] + 1
                        /\ conn[c].joined < UpTo(c) => seen # <<>> /\ seen[Len(seen)] = UpTo(c)
                        /\ seen # <<>> => seen[1] <= conn[c].joined + 1
  BY DEF NoSilentGap, UpTo
<1> DEFINE g == conn[c].got
           q == conn[c].queue
           seen == g \o q
           base == Before(conn[c], UpTo(c))
<1>1. /\ g \in Seq(Nat) /\ q \in Seq(Nat) /\ conn[c].joined \in Nat /\ looked \in Nat
  BY DEF Reached, IInv, Typed, Connection
<1>2. Len(g) \in Nat /\ Len(q) \in Nat /\ UpTo(c) \in Int
  BY <1>1 DEF UpTo
<1>3. /\ seen \in Seq(Nat) /\ Len(seen) = Len(g) + Len(q)
      /\ \A i \in 1 .. Len(g) : seen[i] = g[i]
      /\ \A i \in 1 .. Len(seen) : i > Len(g) => seen[i] = q[i - Len(g)]
  <2> HIDE DEF g, q
  <2>1. /\ seen \in Seq(Nat) /\ Len(seen) = Len(g) + Len(q)
        /\ \A i \in 1 .. Len(g) + Len(q) :
              seen[i] = IF i <= Len(g) THEN g[i] ELSE q[i - Len(g)]
    BY <1>1, ConcatProperties
  <2> HIDE DEF seen
  <2>2. \A i \in 1 .. Len(g) : i \in 1 .. Len(g) + Len(q) /\ i <= Len(g)
    BY <1>2
  <2>3. \A i \in 1 .. Len(seen) : i > Len(g) => i \in 1 .. Len(g) + Len(q) /\ ~(i <= Len(g))
    BY <1>2, <2>1
  <2> QED BY <2>1, <2>2, <2>3
<1>4. base = UpTo(c) - Len(seen) /\ base \in Int
  <2>1. base = UpTo(c) - Len(g) - Len(q)
    BY DEF Before
  <2> HIDE DEF g, q, base, seen
  <2>2. Len(seen) = Len(g) + Len(q)
    BY <1>3
  <2> QED BY <2>1, <2>2, <1>2
<1>5. /\ base <= conn[c].joined
      /\ \A i \in 1 .. Len(g) : g[i] = base + i
      /\ \A i \in 1 .. Len(q) : q[i] = base + Len(g) + i
  BY DEF Reached, Gapless, Run
<1> HIDE DEF g, q, base, seen
<1>6. \A i \in 1 .. Len(seen) : seen[i] = base + i
  <2> SUFFICES ASSUME NEW i \in 1 .. Len(seen) PROVE seen[i] = base + i
    OBVIOUS
  <2>1. CASE i <= Len(g)
    <3>1. i \in 1 .. Len(g)
      BY <2>1, <1>2, <1>3
    <3> QED BY <3>1, <1>3, <1>5
  <2>2. CASE ~(i <= Len(g))
    <3>1. i - Len(g) \in 1 .. Len(q) /\ seen[i] = q[i - Len(g)]
      BY <2>2, <1>2, <1>3
    <3>2. q[i - Len(g)] = base + Len(g) + (i - Len(g))
      BY <3>1, <1>5
    <3> QED BY <3>1, <3>2, <1>2, <1>4
  <2> QED BY <2>1, <2>2
<1>7. Len(seen) \in Nat /\ (seen # <<>> <=> Len(seen) > 0)
  BY <1>2, <1>3
<1>8. \A i \in 1 .. Len(seen) - 1 : seen[i + 1] = seen[i] + 1
  <2> SUFFICES ASSUME NEW i \in 1 .. Len(seen) - 1 PROVE seen[i + 1] = seen[i] + 1
    OBVIOUS
  <2>1. i \in 1 .. Len(seen) /\ i + 1 \in 1 .. Len(seen)
    BY <1>7
  <2>2. seen[i] = base + i /\ seen[i + 1] = base + (i + 1)
    BY <2>1, <1>6
  <2> QED BY <2>2, <1>4
<1>9. conn[c].joined < UpTo(c) => seen # <<>> /\ seen[Len(seen)] = UpTo(c)
  BY <1>1, <1>2, <1>4, <1>5, <1>6, <1>7
<1>10. seen # <<>> => seen[1] <= conn[c].joined + 1
  BY <1>1, <1>4, <1>5, <1>6, <1>7
<1> QED BY <1>8, <1>9, <1>10 DEF seen, g, q

(* A stream misses no event of its owner unless it is told that it lagged,   *)
(* however subscriptions and publications fall between each other.           *)
THEOREM StreamsHaveNoGap == FanoutSpec => []NoSilentGap
<1>1. FanoutInit => Gapless
  BY DEF FanoutInit, Gapless, Closed
<1>2. IInv /\ Gapless /\ [FanoutNext]_fanoutVars => Gapless'
  BY GaplessStep DEF Reached
<1> QED BY <1>1, <1>2, FanoutInvariant, GaplessIsEnough, PTL DEF FanoutSpec, Reached

-----------------------------------------------------------------------------
(* The browser's end.                                                        *)
(* A connection while n events are published.                                *)
LinkOK(c, n) ==
    /\ c \in Link
    /\ c.sub <= c.pos /\ c.pos <= n /\ c.snapAt <= n
    /\ Len(c.buffered) <= Limit /\ Len(c.rows) <= Limit
    /\ c.overlap \in [Records -> 0 .. Limit]
    /\ c.answer # None => Len(c.answer) <= Limit

StreamTyped ==
    /\ content \in [1 .. MaxEvents -> Records]
    /\ published \in 0 .. MaxEvents /\ stored \in 0 .. published
    /\ link # None => LinkOK(link, published) /\ link.live
    /\ \A g \in ghosts : LinkOK(g, published) /\ ~g.live
    /\ disposed \in BOOLEAN /\ failures \in 0 .. MaxBackoff
    /\ state \in StreamStates /\ gap \in BOOLEAN
    /\ Len(shown) \in 0 .. Limit

(* Where the stream is: over, waiting to try again, or connected.            *)
Over == link = None /\ timers = {} /\ (disposed \/ state = "closed")
Waits ==
    /\ link = None /\ timers = {Timer("retry")}
    /\ ~disposed /\ state = "recovering" /\ gap
Connecting ==
    /\ link # None /\ link.stage # "open" /\ timers = {Timer("deadline")}
    /\ ~disposed /\ state \in {"connecting", "recovering"}
Streaming ==
    /\ link # None /\ link.stage = "open" /\ timers = {}
    /\ ~disposed /\ state = "open" /\ shown = link.rows
Situation == Over \/ Waits \/ Connecting \/ Streaming

StreamInv == StreamTyped /\ Situation /\ GapIsTold

-----------------------------------------------------------------------------
(* What the data operators return.                                           *)
LEMMA NoneIsNoLink ==
    ASSUME NEW c \in Link
    PROVE  c # None
  BY EventStreamAssumption

LEMMA NewestIs ==
    ASSUME NEW n \in Nat, NEW k \in Nat
    PROVE  /\ Newest(n, k) \in Seq(Nat)
           /\ Len(Newest(n, k)) = IF n < k THEN n ELSE k
           /\ \A i \in 1 .. Len(Newest(n, k)) :
                Newest(n, k)[i] = i + (n - Len(Newest(n, k)))
<1> DEFINE len == IF n < k THEN n ELSE k
           s == [i \in 1 .. len |-> i + (IF n < k THEN 0 ELSE n - k)]
<1>1. len \in Nat /\ \A i \in 1 .. len : i + (IF n < k THEN 0 ELSE n - k) \in Nat
  OBVIOUS
<1>2. s \in Seq(Nat) /\ Len(s) = len
  BY <1>1
<1>3. Newest(n, k) = s BY DEF Newest
<1>4. \A i \in 1 .. len : s[i] = i + (n - len)
  OBVIOUS
<1> HIDE DEF s
<1>5. Len(s) = IF n < k THEN n ELSE k BY <1>2
<1> HIDE DEF len
<1>6. \A i \in 1 .. Len(s) : s[i] = i + (n - Len(s)) BY <1>2, <1>4
<1> QED BY <1>2, <1>3, <1>5, <1>6

LEMMA TrimIs ==
    ASSUME NEW S, NEW s \in Seq(S)
    PROVE  /\ Trim(s) \in Seq(S)
           /\ Len(Trim(s)) = IF Len(s) < Limit THEN Len(s) ELSE Limit
           /\ \A i \in 1 .. Len(Trim(s)) : Trim(s)[i] = s[i + (Len(s) - Len(Trim(s)))]
<1>1. Len(s) \in Nat /\ Limit \in Nat \ {0}
  BY LenProperties, EventStreamAssumption
<1> DEFINE m == IF Len(s) > Limit THEN Len(s) - Limit + 1 ELSE 1
<1>2. m \in 1 .. Len(s) + 1 /\ Len(s) - m + 1 = IF Len(s) < Limit THEN Len(s) ELSE Limit
  <2>1. CASE Len(s) > Limit
    <3>1. m = Len(s) - Limit + 1 BY <2>1
    <3> HIDE DEF m
    <3> QED BY <1>1, <2>1, <3>1
  <2>2. CASE ~(Len(s) > Limit)
    <3>1. m = 1 BY <2>2
    <3> HIDE DEF m
    <3> QED BY <1>1, <2>2, <3>1
  <2> QED BY <2>1, <2>2
<1>3. /\ SubSeq(s, m, Len(s)) \in Seq(S)
      /\ Len(SubSeq(s, m, Len(s))) = IF m <= Len(s) THEN Len(s) - m + 1 ELSE 0
      /\ \A i \in 1 .. Len(s) - m + 1 : SubSeq(s, m, Len(s))[i] = s[m + i - 1]
  BY <1>1, <1>2, SubSeqProperties
<1>4. Trim(s) = SubSeq(s, m, Len(s)) BY DEF Trim
<1> HIDE DEF m
<1>5. Len(Trim(s)) = Len(s) - m + 1
  BY <1>1, <1>2, <1>3, <1>4
<1>6. \A i \in 1 .. Len(s) - m + 1 : m + i - 1 = i + (Len(s) - (Len(s) - m + 1))
  BY <1>1, <1>2
<1>7. Trim(s) \in Seq(S) BY <1>3, <1>4
<1>8. \A i \in 1 .. Len(Trim(s)) : Trim(s)[i] = s[i + (Len(s) - Len(Trim(s)))]
  BY <1>3, <1>4, <1>5, <1>6
<1> QED BY <1>2, <1>5, <1>7, <1>8

LEMMA CopiesAre ==
    ASSUME NEW s \in Seq(Nat), NEW r
    PROVE  Copies(s, r) \in 0 .. Len(s)
<1>1. {i \in DOMAIN s : content[s[i]] = r} \in SUBSET (1 .. Len(s)) /\ Len(s) \in Nat
  BY LenProperties
<1> QED BY <1>1, PlacesIn DEF Copies

(* The buffered events that are in excess of the snapshot's copies.          *)
Excess(snapshot, buffered) ==
    {k \in DOMAIN buffered :
        Cardinality({j \in 1 .. k : content[buffered[j]] = content[buffered[k]]})
            > Copies(snapshot, content[buffered[k]])}

LEMMA AdditionsAre ==
    ASSUME NEW snapshot \in Seq(Nat), NEW buffered \in Seq(Nat)
    PROVE  /\ Additions(snapshot, buffered) \in Seq(Nat)
           /\ Excess(snapshot, buffered) \in SUBSET (1 .. Len(buffered))
           /\ Len(Additions(snapshot, buffered)) = Cardinality(Excess(snapshot, buffered))
           /\ Len(Additions(snapshot, buffered)) \in 0 .. Len(buffered)
           /\ \A i \in 1 .. Len(Additions(snapshot, buffered)) :
                 \E k \in Excess(snapshot, buffered) :
                    /\ Place(Excess(snapshot, buffered), k) = i
                    /\ Additions(snapshot, buffered)[i] = buffered[k]
<1> DEFINE new == Excess(snapshot, buffered)
           n == Cardinality(new)
           at(i) == CHOOSE k \in new : Place(new, k) = i
           s == [i \in 1 .. n |-> buffered[at(i)]]
<1>1. Len(buffered) \in Nat /\ DOMAIN buffered = 1 .. Len(buffered)
      /\ \A k \in 1 .. Len(buffered) : buffered[k] \in Nat
  BY LenProperties, ElementOfSeq
<1>2. new \in SUBSET (1 .. Len(buffered))
  BY <1>1 DEF Excess
<1>3. Additions(snapshot, buffered) = s
  BY DEF Additions, Excess, Place
<1> HIDE DEF new
<1>4. new \in SUBSET Int /\ IsFiniteSet(new) /\ n \in 0 .. Len(buffered)
  BY <1>1, <1>2, PlacesIn
<1>5. \A i \in 1 .. n : \E k \in new : Place(new, k) = i
  BY <1>4, PlacesCount
<1>6. \A i \in 1 .. n : at(i) \in new /\ Place(new, at(i)) = i
  BY <1>5
<1> HIDE DEF at
<1>7. n \in Nat /\ \A i \in 1 .. n : buffered[at(i)] \in Nat
  <2>1. n \in Nat BY <1>1, <1>4
  <2>2. ASSUME NEW i \in 1 .. n PROVE buffered[at(i)] \in Nat
    <3>1. at(i) \in new BY <1>6
    <3> QED BY <1>1, <1>2, <3>1
  <2> QED BY <2>1, <2>2
<1> HIDE DEF n
<1>8. s \in Seq(Nat) /\ Len(s) = n /\ \A i \in 1 .. n : s[i] = buffered[at(i)]
  BY <1>7
<1> HIDE DEF s
<1>9. \A i \in 1 .. Len(s) : \E k \in new : Place(new, k) = i /\ s[i] = buffered[k]
  BY <1>6, <1>8
<1>10. Len(s) = Cardinality(new) /\ Len(s) \in 0 .. Len(buffered)
  BY <1>4, <1>8 DEF n
<1> QED BY <1>2, <1>3, <1>8, <1>9, <1>10 DEF new

(* Nothing is added: the snapshot has every copy that is buffered.           *)
LEMMA NothingAdded ==
    ASSUME NEW snapshot \in Seq(Nat), NEW buffered \in Seq(Nat),
           Additions(snapshot, buffered) = <<>>, NEW r
    PROVE  Copies(buffered, r) <= Copies(snapshot, r)
<1> DEFINE P == {i \in DOMAIN buffered : content[buffered[i]] = r}
<1>1. Len(buffered) \in Nat /\ DOMAIN buffered = 1 .. Len(buffered)
  BY LenProperties
<1>2. P \in SUBSET Nat /\ P \in SUBSET (1 .. Len(buffered))
  BY <1>1
<1>3. IsFiniteSet(P)
  BY <1>1, <1>2, PlacesIn
<1>4. Copies(snapshot, r) \in Nat /\ Copies(buffered, r) = Cardinality(P)
  <2>1. Copies(snapshot, r) \in 0 .. Len(snapshot) BY CopiesAre
  <2>2. Len(snapshot) \in Nat BY LenProperties
  <2> QED BY <2>1, <2>2 DEF Copies
<1>5. CASE P = {}
  <2>1. Cardinality(P) = 0 BY <1>5, FS_EmptySet
  <2> QED BY <1>4, <2>1
<1>6. CASE P # {}
  <2>1. PICK k \in P : \A j \in P : j <= k
    <3> HIDE DEF P
    <3> QED BY <1>2, <1>3, <1>6, FiniteHasTop
  <2>2. k \in 1 .. Len(buffered) /\ content[buffered[k]] = r
    BY <1>1, <2>1
  <2>3. {j \in 1 .. k : content[buffered[j]] = content[buffered[k]]} = P
    BY <1>1, <2>1, <2>2
  <2>4. Cardinality(Excess(snapshot, buffered)) = 0 /\ IsFiniteSet(Excess(snapshot, buffered))
    <3>1. Len(Additions(snapshot, buffered)) = 0 BY EmptySeq
    <3>2. Excess(snapshot, buffered) \in SUBSET (1 .. Len(buffered))
          /\ Len(Additions(snapshot, buffered)) = Cardinality(Excess(snapshot, buffered))
      BY AdditionsAre
    <3> QED BY <1>1, <3>1, <3>2, PlacesIn
  <2>5. k \notin Excess(snapshot, buffered)
    BY <2>4, FS_EmptySet
  <2>6. ~(Cardinality(P) > Copies(snapshot, r))
    BY <1>1, <2>2, <2>3, <2>5 DEF Excess
  <2>7. Cardinality(P) \in Nat BY <1>3, FS_CardinalityType
  <2> QED BY <1>4, <2>6, <2>7
<1> QED BY <1>5, <1>6

(* A merge gives rows and an overlap that the stream can work with.          *)
LEMMA ReconciledIs ==
    ASSUME NEW snapshot \in Seq(Nat), NEW buffered \in Seq(Nat), Len(snapshot) <= Limit
    PROVE  /\ Reconciled(snapshot, buffered).rows \in Seq(Nat)
           /\ Len(Reconciled(snapshot, buffered).rows) <= Limit
           /\ Reconciled(snapshot, buffered).overlap \in [Records -> 0 .. Limit]
<1> DEFINE added == Additions(snapshot, buffered)
<1>1. added \in Seq(Nat) BY AdditionsAre
<1>2. /\ Reconciled(snapshot, buffered).rows = Trim(snapshot \o added)
      /\ Reconciled(snapshot, buffered).overlap
            = IF added # <<>> THEN NoOverlap
              ELSE [r \in Records |-> Copies(snapshot, r) - Copies(buffered, r)]
  BY DEF Reconciled
<1> HIDE DEF added
<1>3. snapshot \o added \in Seq(Nat) BY <1>1, ConcatProperties
<1>4. Trim(snapshot \o added) \in Seq(Nat) /\ Len(Trim(snapshot \o added)) <= Limit
  <2>1. Trim(snapshot \o added) \in Seq(Nat)
        /\ Len(Trim(snapshot \o added)) = IF Len(snapshot \o added) < Limit
                                          THEN Len(snapshot \o added) ELSE Limit
    BY <1>3, TrimIs
  <2>2. Len(snapshot \o added) \in Nat /\ Limit \in Nat
    BY <1>3, LenProperties, EventStreamAssumption
  <2> QED BY <2>1, <2>2
<1>5. CASE added # <<>>
  <2>1. NoOverlap \in [Records -> 0 .. Limit]
    BY EventStreamAssumption DEF NoOverlap
  <2> QED BY <1>2, <1>4, <1>5, <2>1
<1>6. CASE added = <<>>
  <2>1. ASSUME NEW r \in Records
        PROVE  Copies(snapshot, r) - Copies(buffered, r) \in 0 .. Limit
    <3>1. Copies(snapshot, r) \in 0 .. Len(snapshot) /\ Copies(buffered, r) \in 0 .. Len(buffered)
      BY CopiesAre
    <3>2. Len(snapshot) \in Nat /\ Len(buffered) \in Nat /\ Limit \in Nat
      BY LenProperties, EventStreamAssumption
    <3>3. Copies(buffered, r) <= Copies(snapshot, r)
      BY <1>6, NothingAdded DEF added
    <3> QED BY <3>1, <3>2, <3>3
  <2>2. [r \in Records |-> Copies(snapshot, r) - Copies(buffered, r)] \in [Records -> 0 .. Limit]
    BY <2>1
  <2> QED BY <1>2, <1>4, <1>6, <2>2
<1> QED BY <1>5, <1>6

-----------------------------------------------------------------------------
(* The steps.                                                                *)
LEMMA Bounds ==
    ASSUME StreamTyped
    PROVE  /\ MaxEvents \in Nat /\ Limit \in Nat \ {0} /\ MaxBackoff \in Nat
           /\ published \in Nat /\ stored \in Nat /\ failures \in Nat
           /\ published <= MaxEvents /\ stored <= published
<1>1. MaxEvents \in Nat /\ Limit \in Nat \ {0} /\ MaxBackoff \in Nat
  BY EventStreamAssumption
<1> QED BY <1>1 DEF StreamTyped

LEMMA FreshLink ==
    ASSUME NEW n \in Nat
    PROVE  /\ LinkOK(NewConnection, n) /\ NewConnection # None
           /\ NewConnection.live /\ NewConnection.stage = "handshake"
<1>1. NoOverlap \in [Records -> 0 .. Limit] /\ NoOverlap \in [Records -> Nat]
      /\ Limit \in Nat
  BY EventStreamAssumption DEF NoOverlap
<1>2. <<>> \in Seq(Nat) /\ Len(<<>>) = 0
  BY EmptySeq
<1>3. NewConnection \in Link
  BY <1>1, <1>2 DEF NewConnection, Link, Stages
<1>4. /\ NewConnection.sub = 0 /\ NewConnection.pos = 0 /\ NewConnection.snapAt = 0
      /\ NewConnection.buffered = <<>> /\ NewConnection.rows = <<>>
      /\ NewConnection.overlap = NoOverlap /\ NewConnection.answer = None
      /\ NewConnection.live /\ NewConnection.stage = "handshake"
  BY DEF NewConnection
<1>5. NewConnection # None BY <1>3, NoneIsNoLink
<1>6. LinkOK(NewConnection, n)
  BY <1>1, <1>2, <1>3, <1>4 DEF LinkOK
<1> QED BY <1>4, <1>5, <1>6

LEMMA LinksGrow ==
    ASSUME NEW c, NEW n \in Nat, NEW m \in Nat, n <= m, LinkOK(c, n)
    PROVE  LinkOK(c, m)
<1>1. c \in Link /\ c.pos \in Nat /\ c.snapAt \in Nat
  BY DEF LinkOK, Link
<1> QED BY <1>1 DEF LinkOK

(* Only the current connection's callbacks have an effect.                   *)
LEMMA CurrentIsLink ==
    ASSUME StreamInv, NEW c \in Links, Current(c)
    PROVE  c = link /\ link # None /\ ~disposed
BY DEF StreamInv, StreamTyped, Links, Current

LEMMA BecomesLink ==
    ASSUME StreamInv, NEW c \in Links, Current(c), NEW d, Becomes(c, d)
    PROVE  c = link /\ link # None /\ ~disposed /\ link' = d /\ ghosts' = ghosts
           /\ LinkOK(link, published) /\ link.live /\ (Connecting \/ Streaming)
<1>1. c = link /\ link # None /\ ~disposed BY CurrentIsLink
<1>2. link' = d /\ ghosts' = ghosts BY <1>1 DEF Becomes
<1>3. LinkOK(link, published) /\ link.live BY <1>1 DEF StreamInv, StreamTyped
<1>4. Connecting \/ Streaming BY <1>1 DEF StreamInv, Situation, Over, Waits
<1> QED BY <1>1, <1>2, <1>3, <1>4

LEMMA RetryKeeps ==
    ASSUME StreamInv, link # None, ~disposed, NEW terminal \in BOOLEAN, Retry(terminal),
           UNCHANGED <<server, disposed>>
    PROVE  StreamInv'
<1>1. /\ link' = None /\ ghosts' = {[link EXCEPT !.live = FALSE]}
      /\ gap' = TRUE /\ shown' = shown
      /\ state' = IF terminal THEN "closed" ELSE "recovering"
      /\ failures' = IF terminal THEN FailuresBefore
                     ELSE IF FailuresBefore < MaxBackoff THEN FailuresBefore + 1 ELSE MaxBackoff
      /\ timers' = IF terminal THEN {} ELSE {Timer("retry")}
      /\ content' = content /\ published' = published /\ stored' = stored
      /\ disposed' = disposed
  BY DEF Retry, CleanConnection, GapTold, TimersCleared, Outdated, NextAttempt, server
<1>2. LinkOK(link, published) /\ link.live
  BY DEF StreamInv, StreamTyped
<1>3. LinkOK([link EXCEPT !.live = FALSE], published) /\ ~[link EXCEPT !.live = FALSE].live
  BY <1>2 DEF LinkOK, Link
<1>4. FailuresBefore \in 0 .. MaxBackoff /\ MaxBackoff \in Nat
  BY Bounds DEF FailuresBefore, StreamInv, StreamTyped
<1>5. failures' \in 0 .. MaxBackoff
  BY <1>1, <1>4
<1>6. state' \in StreamStates BY <1>1 DEF StreamStates
<1>7. StreamTyped'
  BY <1>1, <1>3, <1>5, <1>6 DEF StreamTyped, StreamInv
<1>8. Situation'
  <2>1. CASE terminal BY <1>1, <2>1 DEF Situation, Over
  <2>2. CASE ~terminal BY <1>1, <2>2 DEF Situation, Waits, Timer
  <2> QED BY <2>1, <2>2
<1>9. GapIsTold' BY <1>1 DEF GapIsTold
<1> QED BY <1>7, <1>8, <1>9 DEF StreamInv

(* The current connection goes on, at the same stage or open.                *)
LEMMA LinkGoesOn ==
    ASSUME StreamInv, link # None, ~disposed, NEW d \in Link, LinkOK(d, published), d.live,
           link' = d, ghosts' = ghosts, UNCHANGED <<server, disposed, failures>>,
           gap' = TRUE \/ gap' = gap,
           \/ d.stage = "open" /\ timers' = {} /\ state' = "open" /\ shown' = d.rows
           \/ d.stage # "open" /\ timers' = {Timer("deadline")}
              /\ state' \in {"connecting", "recovering"} /\ shown' = shown
    PROVE  StreamInv'
<1>1. d # None BY NoneIsNoLink
<1>2. /\ content' = content /\ published' = published /\ stored' = stored
      /\ disposed' = disposed /\ failures' = failures
  BY DEF server
<1>3. Len(d.rows) \in 0 .. Limit /\ Limit \in Nat
  <2>1. d.rows \in Seq(Nat) /\ Len(d.rows) <= Limit /\ Limit \in Nat
    BY EventStreamAssumption DEF LinkOK, Link
  <2>2. Len(d.rows) \in Nat BY <2>1, LenProperties
  <2> QED BY <2>1, <2>2
<1>4. StreamTyped'
  <2>1. state' \in StreamStates BY DEF StreamStates
  <2>2. Len(shown') \in 0 .. Limit
    BY <1>3 DEF StreamInv, StreamTyped
  <2>3. gap' \in BOOLEAN BY DEF StreamInv, StreamTyped
  <2> QED BY <1>1, <1>2, <2>1, <2>2, <2>3 DEF StreamTyped, StreamInv
<1>5. Situation'
  BY <1>1, <1>2 DEF Situation, Connecting, Streaming
<1>6. GapIsTold'
  BY <1>1, <1>2 DEF GapIsTold, StreamInv
<1> QED BY <1>4, <1>5, <1>6 DEF StreamInv

LEMMA InvConnect == StreamInv /\ Connect => StreamInv'
<1> SUFFICES ASSUME StreamInv, Connect PROVE StreamInv' OBVIOUS
<1>1. PICK t \in timers :
          /\ t.kind = "retry"
          /\ timers' = Outdated((timers \ {t}) \cap TimersCleared) \cup {Timer("deadline")}
  BY DEF Connect
<1>2. timers' = {Timer("deadline")} BY <1>1 DEF TimersCleared, Outdated
<1>3. link = None /\ ~disposed /\ gap
  BY <1>1 DEF StreamInv, Situation, Over, Waits, Connecting, Streaming, Timer
<1>4. /\ link' = NewConnection /\ ghosts' = ghosts
      /\ state' \in {"connecting", "recovering"}
      /\ content' = content /\ published' = published /\ stored' = stored
      /\ disposed' = disposed /\ failures' = failures /\ shown' = shown /\ gap' = gap
  BY <1>3 DEF Connect, server
<1>5. published \in Nat BY Bounds DEF StreamInv
<1>6. LinkOK(NewConnection, published) /\ NewConnection # None
      /\ NewConnection.live /\ NewConnection.stage = "handshake"
  BY <1>5, FreshLink
<1>7. StreamTyped'
  BY <1>4, <1>6 DEF StreamInv, StreamTyped, StreamStates
<1>8. Connecting' BY <1>2, <1>3, <1>4, <1>6 DEF Connecting
<1>9. GapIsTold' BY <1>3, <1>4 DEF GapIsTold
<1> QED BY <1>7, <1>8, <1>9 DEF StreamInv, Situation

LEMMA InvDeadlinePasses == StreamInv /\ DeadlinePasses => StreamInv'
<1> SUFFICES ASSUME StreamInv, DeadlinePasses PROVE StreamInv' OBVIOUS
<1>1. PICK t \in timers :
          /\ t.kind = "deadline"
          /\ IF t.live /\ ~disposed THEN Retry(FALSE)
             ELSE timers' = timers \ {t} /\ UNCHANGED <<link, ghosts, failures, view>>
  BY DEF DeadlinePasses
<1>2. Connecting /\ t.live
  BY <1>1 DEF StreamInv, Situation, Over, Waits, Connecting, Streaming, Timer
<1>3. link # None /\ ~disposed /\ Retry(FALSE) BY <1>1, <1>2 DEF Connecting
<1>4. UNCHANGED <<server, disposed>> BY DEF DeadlinePasses
<1> QED BY <1>3, <1>4, RetryKeeps

LEMMA InvOnOpen ==
    ASSUME StreamInv, NEW c \in Links, OnOpen(c)
    PROVE  StreamInv'
<1> DEFINE d == [c EXCEPT !.stage = "loading", !.sub = published, !.pos = published]
<1>1. c.stage = "handshake" /\ Current(c) /\ Becomes(c, d)
      /\ timers' = TimersCleared \cup {Timer("deadline")}
      /\ UNCHANGED <<server, disposed, failures, view, faults>>
  BY DEF OnOpen
<1>2. c = link /\ link # None /\ ~disposed /\ link' = d /\ ghosts' = ghosts
      /\ LinkOK(link, published) /\ link.live /\ (Connecting \/ Streaming)
  BY <1>1, BecomesLink
<1>3. Connecting BY <1>1, <1>2 DEF Streaming
<1>4. published \in Nat /\ link.snapAt <= published /\ link \in Link
  BY <1>2, Bounds DEF StreamInv, LinkOK
<1>5. d \in Link /\ d.live /\ d.stage = "loading"
  BY <1>2, <1>4 DEF Link, Stages
<1>6. LinkOK(d, published)
  BY <1>2, <1>4, <1>5 DEF LinkOK, Link
<1>7. timers' = {Timer("deadline")} /\ state' = state /\ shown' = shown /\ gap' = gap
      /\ UNCHANGED <<server, disposed, failures>>
  BY <1>1 DEF TimersCleared, view
<1>8. d.stage # "open" /\ state' \in {"connecting", "recovering"}
  BY <1>3, <1>5, <1>7 DEF Connecting
<1> HIDE DEF d
<1> QED BY <1>2, <1>5, <1>6, <1>7, <1>8, LinkGoesOn

LEMMA InvServeSnapshot ==
    ASSUME StreamInv, NEW c \in Links, ServeSnapshot(c)
    PROVE  StreamInv'
<1> DEFINE d == [c EXCEPT !.answer = Newest(stored, Limit), !.snapAt = stored]
<1>1. c.stage = "loading" /\ Becomes(c, d)
  BY DEF ServeSnapshot
<1>2. /\ content' = content /\ published' = published /\ stored' = stored
      /\ timers' = timers /\ disposed' = disposed /\ failures' = failures
      /\ shown' = shown /\ state' = state /\ gap' = gap
  BY DEF ServeSnapshot, server, view
<1>3. LinkOK(c, published) /\ c # None
  BY NoneIsNoLink DEF Links, StreamInv, StreamTyped, LinkOK
<1>4. Newest(stored, Limit) \in Seq(Nat) /\ Len(Newest(stored, Limit)) <= Limit
  <2>1. stored \in Nat /\ Limit \in Nat BY Bounds DEF StreamInv
  <2>2. Newest(stored, Limit) \in Seq(Nat)
        /\ Len(Newest(stored, Limit)) = IF stored < Limit THEN stored ELSE Limit
    BY <2>1, NewestIs
  <2> QED BY <2>1, <2>2
<1>5. stored \in Nat /\ stored <= published BY Bounds DEF StreamInv
<1>6. LinkOK(d, published) /\ d.live = c.live /\ d.stage = "loading" /\ d # None
  <2>1. d \in Link /\ d.live = c.live /\ d.stage = "loading"
    BY <1>1, <1>3, <1>4, <1>5 DEF LinkOK, Link
  <2>2. LinkOK(d, published)
    BY <1>3, <1>4, <1>5, <2>1 DEF LinkOK, Link
  <2> QED BY <2>1, <2>2, NoneIsNoLink
<1> HIDE DEF d
<1>7. CASE c = link
  <2>1. link' = d /\ ghosts' = ghosts /\ link # None BY <1>1, <1>3, <1>7 DEF Becomes
  <2>2. StreamTyped' BY <1>2, <1>6, <1>7, <2>1 DEF StreamInv, StreamTyped
  <2>3. Connecting'
    BY <1>1, <1>2, <1>6, <1>7, <2>1
       DEF StreamInv, Situation, Over, Waits, Connecting, Streaming
  <2>4. GapIsTold' BY <1>2, <1>6, <2>1 DEF StreamInv, GapIsTold
  <2> QED BY <2>2, <2>3, <2>4 DEF StreamInv, Situation
<1>8. CASE c # link
  <2>1. link' = link /\ ghosts' = (ghosts \ {c}) \cup {d} BY <1>1, <1>8 DEF Becomes
  <2>2. c \in ghosts BY <1>8 DEF Links
  <2>3. StreamTyped' BY <1>2, <1>6, <2>1, <2>2 DEF StreamInv, StreamTyped
  <2>4. Situation'
    BY <1>2, <2>1 DEF StreamInv, Situation, Over, Waits, Connecting, Streaming
  <2>5. GapIsTold' BY <1>2, <2>1, <2>2 DEF StreamInv, GapIsTold
  <2> QED BY <2>3, <2>4, <2>5 DEF StreamInv
<1> QED BY <1>7, <1>8

LEMMA InvOnSnapshot ==
    ASSUME StreamInv, NEW c \in Links, OnSnapshot(c)
    PROVE  StreamInv'
<1> DEFINE merged == Reconciled(c.answer, c.buffered)
           d == [c EXCEPT !.stage = "open", !.buffered = <<>>, !.rows = merged.rows,
                          !.overlap = merged.overlap, !.answer = None]
<1>1. /\ c.answer # None /\ Current(c) /\ Becomes(c, d) /\ shown' = merged.rows
      /\ state' = "open" /\ timers' = {} /\ gap' = gap
      /\ UNCHANGED <<server, disposed, failures>>
  BY DEF OnSnapshot, TimersCleared
<1>2. c = link /\ link # None /\ ~disposed /\ link' = d /\ ghosts' = ghosts
      /\ LinkOK(link, published) /\ link.live /\ (Connecting \/ Streaming)
  BY <1>1, BecomesLink
<1>3. /\ c.answer \in Seq(Nat) /\ c.buffered \in Seq(Nat) /\ Len(c.answer) <= Limit
  BY <1>1, <1>2 DEF LinkOK, Link
<1>4. /\ merged.rows \in Seq(Nat) /\ Len(merged.rows) <= Limit
      /\ merged.overlap \in [Records -> 0 .. Limit]
  BY <1>3, ReconciledIs
<1> HIDE DEF merged
<1>5. <<>> \in Seq(Nat) /\ Len(<<>>) = 0 /\ Limit \in Nat
  BY EmptySeq, EventStreamAssumption
<1>6. /\ d \in Link /\ d.live /\ d.stage = "open" /\ d.rows = merged.rows
      /\ d.buffered = <<>> /\ d.overlap = merged.overlap /\ d.answer = None
      /\ d.sub = c.sub /\ d.pos = c.pos /\ d.snapAt = c.snapAt
  <2>1. merged.overlap \in [Records -> Nat] BY <1>4, <1>5
  <2>2. c \in Link /\ c.live BY <1>2 DEF LinkOK
  <2> QED BY <1>4, <1>5, <2>1, <2>2 DEF Link, Stages
<1> HIDE DEF d
<1>7. LinkOK(d, published)
  BY <1>2, <1>4, <1>5, <1>6 DEF LinkOK
<1> QED BY <1>1, <1>2, <1>6, <1>7, LinkGoesOn

LEMMA InvOnBadMessage ==
    ASSUME StreamInv, NEW c \in Links, OnBadMessage(c)
    PROVE  StreamInv'
<1> DEFINE d == [c EXCEPT !.pos = @ + 1, !.whole = FALSE]
<1>1. /\ c.stage # "handshake" /\ c.pos < published /\ Current(c) /\ Becomes(c, d)
      /\ gap' = TRUE /\ timers' = timers /\ shown' = shown /\ state' = state
      /\ UNCHANGED <<server, disposed, failures>>
  BY DEF OnBadMessage
<1>2. c = link /\ link # None /\ ~disposed /\ link' = d /\ ghosts' = ghosts
      /\ LinkOK(link, published) /\ link.live /\ (Connecting \/ Streaming)
  BY <1>1, BecomesLink
<1>3. published \in Nat BY Bounds DEF StreamInv
<1>4. d \in Link /\ d.live /\ d.stage = c.stage /\ d.rows = c.rows /\ LinkOK(d, published)
  <2>1. c \in Link /\ c.live /\ c.pos + 1 \in Nat
    BY <1>2 DEF LinkOK, Link
  <2>2. d \in Link /\ d.live /\ d.stage = c.stage /\ d.rows = c.rows
    BY <2>1 DEF Link
  <2>3. LinkOK(d, published) BY <1>1, <1>2, <1>3, <2>1, <2>2 DEF LinkOK, Link
  <2> QED BY <2>2, <2>3
<1> HIDE DEF d
<1>5. \/ d.stage = "open" /\ timers' = {} /\ state' = "open" /\ shown' = d.rows
      \/ d.stage # "open" /\ timers' = {Timer("deadline")}
         /\ state' \in {"connecting", "recovering"} /\ shown' = shown
  BY <1>1, <1>2, <1>4 DEF Connecting, Streaming
<1> QED BY <1>1, <1>2, <1>4, <1>5, LinkGoesOn

LEMMA InvOnMessage ==
    ASSUME StreamInv, NEW c \in Links, OnMessage(c)
    PROVE  StreamInv'
<1> DEFINE e == c.pos + 1
<1>1. c.pos < published /\ Current(c) /\ UNCHANGED <<server, disposed>>
  BY DEF OnMessage
<1>2. c = link /\ link # None /\ ~disposed
  BY <1>1, CurrentIsLink
<1>3. LinkOK(link, published) /\ link.live /\ (Connecting \/ Streaming)
  BY <1>2 DEF StreamInv, StreamTyped, Situation, Over, Waits
<1>4. published \in Nat /\ Limit \in Nat \ {0} /\ c.pos \in Nat /\ e \in 1 .. published
      /\ e \in Nat /\ c \in Link /\ c.live /\ published <= MaxEvents /\ MaxEvents \in Nat
  BY <1>1, <1>2, <1>3, Bounds DEF StreamInv, LinkOK, Link
<1>5. content[e] \in Records
  BY <1>4 DEF StreamInv, StreamTyped
<1> HIDE DEF e
<1>6. CASE /\ c.stage = "loading" /\ Len(c.buffered) < Limit
           /\ Becomes(c, [c EXCEPT !.pos = e, !.buffered = Append(@, e)])
           /\ UNCHANGED <<timers, failures, view>>
  <2> DEFINE d == [c EXCEPT !.pos = e, !.buffered = Append(@, e)]
  <2>1. link' = d /\ ghosts' = ghosts BY <1>1, <1>6, BecomesLink
  <2>2. Append(c.buffered, e) \in Seq(Nat) /\ Len(Append(c.buffered, e)) <= Limit
    <3>1. c.buffered \in Seq(Nat) /\ e \in Nat BY <1>4 DEF Link
    <3>2. Len(c.buffered) \in Nat BY <3>1, LenProperties
    <3> QED BY <1>4, <1>6, <3>1, <3>2, AppendProperties
  <2>3. d \in Link /\ d.live /\ d.stage = "loading" /\ LinkOK(d, published)
    <3>1. d \in Link /\ d.live /\ d.stage = "loading"
      BY <1>4, <1>6, <2>2 DEF Link
    <3>2. e = c.pos + 1 BY DEF e
    <3>3. LinkOK(d, published) BY <1>2, <1>3, <1>4, <2>2, <3>1, <3>2 DEF LinkOK, Link
    <3> QED BY <3>1, <3>3
  <2> HIDE DEF d
  <2>4. timers' = timers /\ failures' = failures /\ shown' = shown /\ state' = state
        /\ gap' = gap
    BY <1>6 DEF view
  <2>5. d.stage # "open" /\ timers' = {Timer("deadline")}
        /\ state' \in {"connecting", "recovering"} /\ shown' = shown
    BY <1>2, <1>3, <1>6, <2>3, <2>4 DEF Connecting, Streaming
  <2> QED BY <1>1, <1>2, <2>1, <2>3, <2>4, <2>5, LinkGoesOn
<1>7. CASE c.stage = "loading" /\ Len(c.buffered) >= Limit /\ Retry(FALSE)
  BY <1>1, <1>2, <1>7, RetryKeeps
<1>8. CASE /\ c.stage = "open" /\ c.overlap[content[e]] > 0
           /\ Becomes(c, [c EXCEPT !.pos = e, !.overlap[content[e]] = @ - 1])
           /\ UNCHANGED <<timers, failures, view>>
  <2> DEFINE d == [c EXCEPT !.pos = e, !.overlap[content[e]] = @ - 1]
             o == [c.overlap EXCEPT ![content[e]] = @ - 1]
  <2>1. link' = d /\ ghosts' = ghosts BY <1>1, <1>8, BecomesLink
  <2>2. c.overlap \in [Records -> 0 .. Limit] BY <1>2, <1>3 DEF LinkOK
  <2>3. o \in [Records -> 0 .. Limit] /\ o \in [Records -> Nat]
    <3>1. c.overlap[content[e]] - 1 \in 0 .. Limit BY <1>4, <1>5, <1>8, <2>2
    <3>2. o \in [Records -> 0 .. Limit] BY <2>2, <3>1
    <3>3. 0 .. Limit \subseteq Nat BY <1>4
    <3> HIDE DEF o
    <3> QED BY <3>2, <3>3
  <2>4. d = [c EXCEPT !.pos = e, !.overlap = o] BY <1>4 DEF Link
  <2> HIDE DEF o, d
  <2>5. d \in Link /\ d.live /\ d.stage = "open" /\ d.rows = c.rows /\ LinkOK(d, published)
    <3>1. e = c.pos + 1 BY DEF e
    <3>2. d \in Link /\ d.live /\ d.stage = "open" /\ d.rows = c.rows /\ d.overlap = o
          /\ d.pos = e /\ d.sub = c.sub /\ d.snapAt = c.snapAt /\ d.buffered = c.buffered
          /\ d.answer = c.answer
      BY <1>4, <1>8, <2>3, <2>4 DEF Link
    <3>3. c.sub \in Nat BY <1>4 DEF Link
    <3>4. LinkOK(d, published) BY <1>2, <1>3, <1>4, <2>3, <3>1, <3>2, <3>3 DEF LinkOK
    <3> QED BY <3>2, <3>4
  <2>6. timers' = timers /\ failures' = failures /\ shown' = shown /\ state' = state
        /\ gap' = gap
    BY <1>8 DEF view
  <2>7. d.stage = "open" /\ timers' = {} /\ state' = "open" /\ shown' = d.rows
    BY <1>2, <1>3, <1>8, <2>5, <2>6 DEF Connecting, Streaming
  <2> QED BY <1>1, <1>2, <2>1, <2>5, <2>6, <2>7, LinkGoesOn
<1>9. CASE /\ c.stage = "open" /\ c.overlap[content[e]] = 0
           /\ LET rows == Trim(Append(c.rows, e)) IN
              /\ Becomes(c, [c EXCEPT !.pos = e, !.rows = rows, !.overlap = NoOverlap])
              /\ shown' = rows
           /\ UNCHANGED <<timers, failures, state, gap>>
  <2> DEFINE rows == Trim(Append(c.rows, e))
             d == [c EXCEPT !.pos = e, !.rows = rows, !.overlap = NoOverlap]
  <2>1. link' = d /\ ghosts' = ghosts /\ shown' = rows BY <1>1, <1>9, BecomesLink
  <2>2. rows \in Seq(Nat) /\ Len(rows) <= Limit
    <3>1. c.rows \in Seq(Nat) /\ e \in Nat BY <1>4 DEF Link
    <3>2. Append(c.rows, e) \in Seq(Nat) BY <3>1, AppendProperties
    <3>3. Len(Append(c.rows, e)) \in Nat BY <3>2, LenProperties
    <3>4. rows \in Seq(Nat) /\ Len(rows) = IF Len(Append(c.rows, e)) < Limit
                                           THEN Len(Append(c.rows, e)) ELSE Limit
      BY <3>2, TrimIs
    <3> QED BY <1>4, <3>3, <3>4
  <2>3. NoOverlap \in [Records -> 0 .. Limit] /\ NoOverlap \in [Records -> Nat]
    BY <1>4 DEF NoOverlap
  <2> HIDE DEF rows
  <2>4. d \in Link /\ d.live /\ d.stage = "open" /\ d.rows = rows /\ LinkOK(d, published)
    <3>1. e = c.pos + 1 BY DEF e
    <3>2. d \in Link /\ d.live /\ d.stage = "open" /\ d.rows = rows /\ d.overlap = NoOverlap
          /\ d.pos = e /\ d.sub = c.sub /\ d.snapAt = c.snapAt /\ d.buffered = c.buffered
          /\ d.answer = c.answer
      BY <1>4, <1>9, <2>2, <2>3 DEF Link
    <3>3. c.sub \in Nat BY <1>4 DEF Link
    <3>4. LinkOK(d, published) BY <1>2, <1>3, <1>4, <2>2, <2>3, <3>1, <3>2, <3>3 DEF LinkOK
    <3> QED BY <3>2, <3>4
  <2> HIDE DEF d
  <2>5. timers' = {} /\ state' = "open" /\ failures' = failures /\ gap' = gap
    BY <1>2, <1>3, <1>9 DEF Connecting, Streaming
  <2> QED BY <1>1, <1>2, <2>1, <2>4, <2>5, LinkGoesOn
<1> QED BY <1>6, <1>7, <1>8, <1>9 DEF OnMessage, e

LEMMA InvFails ==
    ASSUME StreamInv, NEW c \in Links, NEW b \in BOOLEAN, OnSnapshotFails(c, b) \/ OnClose(c, b)
    PROVE  StreamInv'
<1>1. Current(c) /\ Retry(b) /\ UNCHANGED <<server, disposed>>
  BY DEF OnSnapshotFails, OnClose
<1>2. link # None /\ ~disposed BY <1>1, CurrentIsLink
<1> QED BY <1>1, <1>2, RetryKeeps

LEMMA InvLivesLong == StreamInv /\ LivesLong => StreamInv'
<1> SUFFICES ASSUME StreamInv, LivesLong PROVE StreamInv' OBVIOUS
<1> DEFINE d == [link EXCEPT !.long = TRUE]
<1>1. /\ link # None /\ link.stage = "open" /\ link' = d
      /\ UNCHANGED <<server, disposed, failures>>
      /\ ghosts' = ghosts /\ timers' = timers /\ shown' = shown /\ state' = state /\ gap' = gap
  BY DEF LivesLong, view
<1>2. ~disposed /\ LinkOK(link, published) /\ link.live
      /\ timers = {} /\ state = "open" /\ shown = link.rows
  BY <1>1 DEF StreamInv, StreamTyped, Situation, Over, Waits, Connecting, Streaming
<1>3. d \in Link /\ d.live /\ d.stage = "open" /\ d.rows = link.rows
  BY <1>1, <1>2 DEF LinkOK, Link
<1>4. LinkOK(d, published) BY <1>2, <1>3 DEF LinkOK, Link
<1> HIDE DEF d
<1> QED BY <1>1, <1>2, <1>3, <1>4, LinkGoesOn

LEMMA InvDispose == StreamInv /\ Dispose => StreamInv'
<1> SUFFICES ASSUME StreamInv, Dispose PROVE StreamInv' OBVIOUS
<1>1. /\ ~disposed /\ disposed' = TRUE /\ link' = None /\ timers' = {}
      /\ ghosts' = IF link = None THEN ghosts ELSE {[link EXCEPT !.live = FALSE]}
      /\ content' = content /\ published' = published /\ stored' = stored
      /\ failures' = failures /\ shown' = shown /\ state' = state /\ gap' = gap
  BY DEF Dispose, CleanConnection, TimersCleared, Outdated, server, view
<1>2. link # None => LinkOK([link EXCEPT !.live = FALSE], published)
                     /\ ~[link EXCEPT !.live = FALSE].live
  BY DEF StreamInv, StreamTyped, LinkOK, Link
<1>3. StreamTyped' BY <1>1, <1>2 DEF StreamInv, StreamTyped
<1>4. Situation' BY <1>1 DEF Situation, Over
<1>5. GapIsTold' BY <1>1 DEF GapIsTold
<1> QED BY <1>3, <1>4, <1>5 DEF StreamInv

LEMMA InvServer == StreamInv /\ (Publish \/ Store) => StreamInv'
<1> SUFFICES ASSUME StreamInv, Publish \/ Store PROVE StreamInv' OBVIOUS
<1>1. /\ content' = content /\ link' = link /\ ghosts' = ghosts /\ timers' = timers
      /\ disposed' = disposed /\ failures' = failures /\ shown' = shown /\ state' = state
      /\ gap' = gap
  BY DEF Publish, Store, view
<1>2. published' \in 0 .. MaxEvents /\ stored' \in 0 .. published' /\ published <= published'
      /\ published \in Nat /\ published' \in Nat
  BY Bounds DEF Publish, Store, StreamInv
<1>3. \A c \in Links : LinkOK(c, published) => LinkOK(c, published')
  BY <1>2, LinksGrow
<1>4. StreamTyped' BY <1>1, <1>2, <1>3 DEF StreamInv, StreamTyped, Links
<1>5. Situation'
  BY <1>1 DEF StreamInv, Situation, Over, Waits, Connecting, Streaming
<1>6. GapIsTold' BY <1>1 DEF StreamInv, GapIsTold
<1> QED BY <1>4, <1>5, <1>6 DEF StreamInv

LEMMA StreamInvInit == Init => StreamInv
<1> SUFFICES ASSUME Init PROVE StreamInv OBVIOUS
<1>1. /\ content \in [1..MaxEvents -> Records] /\ published = 0 /\ stored = 0
      /\ link = NewConnection /\ ghosts = {} /\ timers = {Timer("deadline")}
      /\ disposed = FALSE /\ failures = 0
      /\ shown = <<>> /\ state = "connecting" /\ gap = FALSE
  BY DEF Init
<1>2. LinkOK(NewConnection, 0) /\ NewConnection # None
      /\ NewConnection.live /\ NewConnection.stage = "handshake"
  BY FreshLink
<1>3. MaxEvents \in Nat /\ Limit \in Nat /\ MaxBackoff \in Nat /\ Len(<<>>) = 0
  BY EventStreamAssumption, EmptySeq
<1>4. /\ published \in 0 .. MaxEvents /\ stored \in 0 .. published
      /\ failures \in 0 .. MaxBackoff /\ Len(shown) \in 0 .. Limit
  BY <1>1, <1>3
<1>5. StreamTyped BY <1>1, <1>2, <1>4 DEF StreamTyped, StreamStates
<1>6. Connecting BY <1>1, <1>2 DEF Connecting
<1>7. GapIsTold BY <1>1, <1>2 DEF GapIsTold
<1> QED BY <1>5, <1>6, <1>7 DEF StreamInv, Situation

LEMMA StreamInvNext == StreamInv /\ [Next]_vars => StreamInv'
<1> SUFFICES ASSUME StreamInv, [Next]_vars PROVE StreamInv' OBVIOUS
<1>1. CASE Callback
  <2>1. PICK c \in Links : OnOpen(c) \/ ServeSnapshot(c) \/ OnSnapshot(c) \/ OnMessage(c)
    BY <1>1 DEF Callback
  <2> QED BY <2>1, InvOnOpen, InvServeSnapshot, InvOnSnapshot, InvOnMessage
<1>2. CASE Failure
  <2>1. CASE DeadlinePasses BY <2>1, InvDeadlinePasses
  <2>2. CASE \E c \in Links : OnBadMessage(c) BY <2>2, InvOnBadMessage
  <2>3. CASE \E c \in Links : \E b \in BOOLEAN : OnSnapshotFails(c, b) \/ OnClose(c, b)
    BY <2>3, InvFails
  <2> QED BY <1>2, <2>1, <2>2, <2>3 DEF Failure
<1>3. CASE Connect BY <1>3, InvConnect
<1>4. CASE LivesLong BY <1>4, InvLivesLong
<1>5. CASE Dispose BY <1>5, InvDispose
<1>6. CASE Publish \/ Store BY <1>6, InvServer
<1>7. CASE UNCHANGED vars
  <2>1. /\ content' = content /\ published' = published /\ stored' = stored
        /\ link' = link /\ ghosts' = ghosts /\ timers' = timers
        /\ disposed' = disposed /\ failures' = failures /\ shown' = shown /\ state' = state
        /\ gap' = gap
    BY <1>7 DEF vars, server, view
  <2>2. StreamTyped' BY <2>1 DEF StreamInv, StreamTyped
  <2>3. Situation' BY <2>1 DEF StreamInv, Situation, Over, Waits, Connecting, Streaming
  <2>4. GapIsTold' BY <2>1 DEF StreamInv, GapIsTold
  <2> QED BY <2>2, <2>3, <2>4 DEF StreamInv
<1> QED BY <1>1, <1>2, <1>3, <1>4, <1>5, <1>6, <1>7 DEF Next

LEMMA StreamInvSound == StreamInv => StreamSound
<1> SUFFICES ASSUME StreamInv PROVE StreamSound OBVIOUS
<1>1. TypeOK
  <2>1. ASSUME NEW c \in Links PROVE LinkOK(c, published)
    BY <2>1 DEF Links, StreamInv, StreamTyped
  <2>2. ASSUME NEW c \in Links
        PROVE  /\ c \in Link
               /\ c.sub <= c.pos /\ c.pos <= published
               /\ Len(c.buffered) <= Limit /\ Len(c.rows) <= Limit
               /\ c.overlap \in [Records -> 0..Limit]
    BY <2>1 DEF LinkOK
  <2>3. Len(shown) <= Limit
    BY Bounds DEF StreamInv, StreamTyped
  <2> QED BY <2>2, <2>3 DEF TypeOK, StreamInv, StreamTyped
<1>2. OneThingAtATime
  <2>1. Cardinality(timers) <= 1
    <3>1. timers = {} \/ \E t : timers = {t}
      BY DEF StreamInv, Situation, Over, Waits, Connecting, Streaming
    <3>2. Cardinality(timers) = 0 \/ Cardinality(timers) = 1
      BY <3>1, FS_EmptySet, FS_Singleton
    <3> QED BY <3>2
  <2>2. Cardinality({c \in Links : c.live}) <= 1
    <3>1. {c \in Links : c.live} = {} \/ {c \in Links : c.live} = {link}
      BY DEF StreamInv, StreamTyped, Links
    <3>2. Cardinality({c \in Links : c.live}) = 0 \/ Cardinality({c \in Links : c.live}) = 1
      BY <3>1, FS_EmptySet, FS_Singleton
    <3> QED BY <3>2
  <2>3. ~disposed /\ state # "closed" =>
           IF link = None THEN timers = {Timer("retry")}
           ELSE link.stage = "open" \/ timers = {Timer("deadline")}
    BY DEF StreamInv, Situation, Over, Waits, Connecting, Streaming
  <2> QED BY <2>1, <2>2, <2>3 DEF OneThingAtATime
<1>3. ShownIsCurrent
  BY DEF ShownIsCurrent, StreamInv, Situation, Over, Waits, Connecting, Streaming
<1> QED BY <1>1, <1>2, <1>3 DEF StreamSound, StreamInv

(* At every moment the page knows where its stream stands (startEventStream): *)
(* one connection, one timer or nothing more to come; what is shown as open   *)
(* comes from the current connection; and events are missing only under the   *)
(* notice of a gap.                                                           *)
THEOREM StreamIsSound == Spec => []StreamSound
<1>1. Init => StreamInv BY StreamInvInit
<1>2. StreamInv /\ [Next]_vars => StreamInv' BY StreamInvNext
<1>3. StreamInv => StreamSound BY StreamInvSound
<1> QED BY <1>1, <1>2, <1>3, PTL DEF Spec

LEMMA CallbackHasEffect ==
    ASSUME StreamInv, NEW c \in Links, Current(c)
    PROVE  ~disposed /\ link # None
BY CurrentIsLink

LEMMA RetryIsEarned ==
    ASSUME StreamInv, link # None, NEW terminal \in BOOLEAN, Retry(terminal)
    PROVE  failures' < failures => link # None /\ link.long
<1>1. failures \in 0 .. MaxBackoff /\ MaxBackoff \in Nat
  BY Bounds DEF StreamInv, StreamTyped
<1>2. CASE ~link.long
  <2>1. FailuresBefore = failures BY <1>2 DEF FailuresBefore
  <2>2. failures' = IF terminal THEN failures
                    ELSE IF failures < MaxBackoff THEN failures + 1 ELSE MaxBackoff
    BY <2>1 DEF Retry
  <2>3. ~(failures' < failures) BY <1>1, <2>2
  <2> QED BY <2>3
<1>3. CASE link.long BY <1>3
<1> QED BY <1>2, <1>3

LEMMA EffectsNext ==
    ASSUME StreamInv, [Next]_vars
    PROVE  /\ disposed => UNCHANGED view
           /\ failures' < failures => link # None /\ link.long
<1> DEFINE Silent == disposed => UNCHANGED view
           Earned == failures' < failures => link # None /\ link.long
<1>0. failures \in Nat BY Bounds DEF StreamInv
<1>1. CASE UNCHANGED view /\ failures' = failures
  <2>1. ~(failures' < failures) BY <1>0, <1>1
  <2> QED BY <1>1, <2>1
<1>2. CASE ~disposed /\ failures' = failures
  <2>1. ~(failures' < failures) BY <1>0, <1>2
  <2> QED BY <1>2, <2>1
<1>3. CASE ~disposed /\ link # None /\ \E b \in BOOLEAN : Retry(b)
  BY <1>3, RetryIsEarned
<1>4. CASE Callback
  <2>1. PICK c \in Links : OnOpen(c) \/ ServeSnapshot(c) \/ OnSnapshot(c) \/ OnMessage(c)
    BY <1>4 DEF Callback
  <2>2. CASE OnOpen(c) \/ ServeSnapshot(c)
    <3>1. UNCHANGED view /\ failures' = failures BY <2>2 DEF OnOpen, ServeSnapshot
    <3> QED BY <1>1, <3>1
  <2>3. CASE OnSnapshot(c)
    <3>1. Current(c) /\ failures' = failures BY <2>3 DEF OnSnapshot
    <3> QED BY <1>2, <3>1, CallbackHasEffect
  <2>4. CASE OnMessage(c)
    <3>1. Current(c) /\ (Retry(FALSE) \/ failures' = failures) BY <2>4 DEF OnMessage
    <3> QED BY <1>2, <1>3, <3>1, CallbackHasEffect
  <2> QED BY <2>1, <2>2, <2>3, <2>4
<1>5. CASE Failure
  <2>1. CASE DeadlinePasses
    <3>1. PICK t \in timers :
            /\ t.kind = "deadline"
            /\ IF t.live /\ ~disposed THEN Retry(FALSE)
               ELSE timers' = timers \ {t} /\ UNCHANGED <<link, ghosts, failures, view>>
      BY <2>1 DEF DeadlinePasses
    <3>2. Connecting /\ t.live
      BY <3>1 DEF StreamInv, Situation, Over, Waits, Connecting, Streaming, Timer
    <3>3. link # None /\ ~disposed /\ Retry(FALSE) BY <3>1, <3>2 DEF Connecting
    <3> QED BY <1>3, <3>3
  <2>2. CASE \E c \in Links : OnBadMessage(c)
    <3>1. PICK c \in Links : OnBadMessage(c) BY <2>2
    <3>2. Current(c) /\ failures' = failures BY <3>1 DEF OnBadMessage
    <3> QED BY <1>2, <3>2, CallbackHasEffect
  <2>3. CASE \E c \in Links : \E b \in BOOLEAN : OnSnapshotFails(c, b) \/ OnClose(c, b)
    <3>1. PICK c \in Links, b \in BOOLEAN : OnSnapshotFails(c, b) \/ OnClose(c, b)
      BY <2>3
    <3>2. Current(c) /\ Retry(b) BY <3>1 DEF OnSnapshotFails, OnClose
    <3> QED BY <1>3, <3>2, CallbackHasEffect
  <2> QED BY <1>5, <2>1, <2>2, <2>3 DEF Failure
<1>6. CASE Connect
  <2>1. ~disposed /\ failures' = failures BY <1>6 DEF Connect
  <2> QED BY <1>2, <2>1
<1>7. CASE LivesLong \/ Dispose \/ Publish \/ Store \/ UNCHANGED vars
  <2>1. UNCHANGED view /\ failures' = failures
    BY <1>7 DEF LivesLong, Dispose, Publish, Store, vars
  <2> QED BY <1>1, <2>1
<1> QED BY <1>4, <1>5, <1>6, <1>7 DEF Next

(* No callback has an effect that its connection has not earned              *)
(* (startEventStream): a disposed stream tells its user nothing, and the      *)
(* delay starts anew only after a connection that lasted.                     *)
THEOREM EffectsStayEarned == Spec => EffectsAreEarned
<1>1. Init => StreamInv BY StreamInvInit
<1>2. StreamInv /\ [Next]_vars => StreamInv' BY StreamInvNext
<1>3. StreamInv /\ [Next]_vars => [disposed => UNCHANGED view]_vars
  BY EffectsNext
<1>4. StreamInv /\ [Next]_vars => [failures' < failures => link # None /\ link.long]_vars
  BY EffectsNext
<1> QED BY <1>1, <1>2, <1>3, <1>4, PTL
        DEF Spec, EffectsAreEarned, SilentAfterDispose, BackoffIsEarned

-----------------------------------------------------------------------------
(* The merge.                                                                *)
LEMMA TrimNewest ==
    ASSUME NEW n \in Nat, NEW t \in Seq(Nat), \A i \in 1 .. Len(t) : t[i] = i + n
    PROVE  Trim(Newest(n, Limit) \o t) = Newest(n + Len(t), Limit)
<1> DEFINE N == Newest(n, Limit)
           s == N \o t
           M == Newest(n + Len(t), Limit)
<1>1. Limit \in Nat \ {0} /\ Len(t) \in Nat
  BY EventStreamAssumption, LenProperties
<1>2. /\ N \in Seq(Nat) /\ Len(N) = IF n < Limit THEN n ELSE Limit
      /\ \A i \in 1 .. Len(N) : N[i] = i + (n - Len(N))
  BY <1>1, NewestIs
<1>3. /\ M \in Seq(Nat) /\ Len(M) = IF n + Len(t) < Limit THEN n + Len(t) ELSE Limit
      /\ \A i \in 1 .. Len(M) : M[i] = i + (n + Len(t) - Len(M))
  <2> HIDE DEF N, s
  <2>1. PICK p \in Nat : p = n + Len(t) BY <1>1
  <2>2. /\ Newest(p, Limit) \in Seq(Nat)
        /\ Len(Newest(p, Limit)) = IF p < Limit THEN p ELSE Limit
        /\ \A i \in 1 .. Len(Newest(p, Limit)) :
              Newest(p, Limit)[i] = i + (p - Len(Newest(p, Limit)))
    BY <1>1, NewestIs
  <2> QED BY <2>1, <2>2
<1> HIDE DEF N, M
<1>4. /\ s \in Seq(Nat) /\ Len(s) = Len(N) + Len(t)
      /\ \A i \in 1 .. Len(N) + Len(t) : s[i] = IF i <= Len(N) THEN N[i] ELSE t[i - Len(N)]
  BY <1>2, ConcatProperties
<1> HIDE DEF s
<1>5. Len(N) \in Nat /\ Len(N) <= n BY <1>1, <1>2
<1>6. ASSUME NEW i \in 1 .. Len(N) + Len(t) PROVE s[i] = i + (n - Len(N))
  <2>1. CASE i <= Len(N)
    <3>1. i \in 1 .. Len(N) BY <1>1, <1>5, <2>1
    <3> QED BY <1>2, <1>4, <2>1, <3>1
  <2>2. CASE ~(i <= Len(N))
    <3>1. i - Len(N) \in 1 .. Len(t) BY <1>1, <1>5, <2>2
    <3>2. s[i] = (i - Len(N)) + n BY <1>4, <2>2, <3>1
    <3> QED BY <1>5, <3>2
  <2> QED BY <2>1, <2>2
<1>7. /\ Trim(s) \in Seq(Nat)
      /\ Len(Trim(s)) = IF Len(s) < Limit THEN Len(s) ELSE Limit
      /\ \A i \in 1 .. Len(Trim(s)) : Trim(s)[i] = s[i + (Len(s) - Len(Trim(s)))]
  BY <1>4, TrimIs
<1>8. Len(Trim(s)) = Len(M)
  BY <1>1, <1>2, <1>3, <1>4, <1>7
<1>9. ASSUME NEW i \in 1 .. Len(Trim(s)) PROVE Trim(s)[i] = M[i]
  <2>1. Len(s) \in Nat /\ Len(Trim(s)) \in Nat /\ Len(Trim(s)) <= Len(s)
    BY <1>1, <1>4, <1>5, <1>7
  <2>2. i + (Len(s) - Len(Trim(s))) \in 1 .. Len(N) + Len(t)
    BY <1>4, <2>1
  <2>3. Trim(s)[i] = (i + (Len(s) - Len(Trim(s)))) + (n - Len(N))
    BY <1>6, <1>7, <2>2
  <2>4. M[i] = i + (n + Len(t) - Len(M)) BY <1>3, <1>8
  <2> QED BY <1>1, <1>4, <1>5, <1>8, <2>1, <2>3, <2>4
<1>10. Trim(s) = M BY <1>3, <1>7, <1>8, <1>9, SeqEqual
<1> QED BY <1>10 DEF s, N, M

LEMMA AppendNewest ==
    ASSUME NEW n \in Nat
    PROVE  Trim(Append(Newest(n, Limit), n + 1)) = Newest(n + 1, Limit)
<1>1. Newest(n, Limit) \in Seq(Nat)
  BY EventStreamAssumption, NewestIs
<1>2. Append(Newest(n, Limit), n + 1) = Newest(n, Limit) \o <<n + 1>>
  BY <1>1, AppendIsConcat
<1>3. <<n + 1>> \in Seq(Nat) /\ Len(<<n + 1>>) = 1 /\ <<n + 1>>[1] = n + 1
  OBVIOUS
<1>4. \A i \in 1 .. Len(<<n + 1>>) : <<n + 1>>[i] = i + n
  BY <1>3
<1> QED BY <1>2, <1>3, <1>4, TrimNewest

(* A record that is not older than the subscription has, in a snapshot that   *)
(* reaches back to it, the copies published since.                           *)
LEMMA FreshCopies ==
    ASSUME NEW n \in Nat, NEW sub \in Nat, sub <= n, n - sub <= Limit,
           NEW r, \A i \in 1 .. sub : content[i] # r
    PROVE  Copies(Newest(n, Limit), r) = CountIn(content, r, sub, n)
<1> DEFINE N == Newest(n, Limit)
           len == Len(N)
           a == n - len
<1>1. /\ N \in Seq(Nat) /\ len = IF n < Limit THEN n ELSE Limit
      /\ \A i \in 1 .. len : N[i] = i + a
      /\ Limit \in Nat
  BY NewestIs, EventStreamAssumption
<1>2. DOMAIN N = 1 .. len /\ len \in Nat BY <1>1, LenProperties
<1>3. Copies(N, r) = CountAlong(content, r, N, len)
  BY <1>2 DEF Copies, CountAlong
<1>4. a \in Int /\ 0 <= a /\ a <= sub /\ a + len = n BY <1>1, <1>2
<1> HIDE DEF a, len, N
<1>5. Copies(N, r) = CountIn(content, r, a, n)
  BY <1>1, <1>2, <1>3, <1>4, CountShifted
<1>6. CountIn(content, r, a, n) = CountIn(content, r, a, sub) + CountIn(content, r, sub, n)
  BY <1>4, CountSplit
<1>7. CountIn(content, r, a, sub) = 0
  <2>1. \A i \in (a + 1) .. sub : content[i] # r BY <1>4
  <2> QED BY <1>4, <2>1, CountNone
<1>8. CountIn(content, r, sub, n) \in Nat BY CountIsNat
<1> QED BY <1>5, <1>6, <1>7, <1>8 DEF N

(* The exact merge: with a snapshot of the newest `at' events and the events  *)
(* sub + 1 .. pos waiting, the excess is what came after the snapshot.        *)
LEMMA ExcessIs ==
    ASSUME NEW sub \in Nat, NEW pos \in Nat, NEW at \in Nat,
           sub <= pos, sub <= at, at - sub <= Limit,
           \A i \in 1 .. sub, j \in (sub + 1) .. pos : content[i] # content[j],
           NEW b \in Seq(Nat), Len(b) = pos - sub, \A i \in 1 .. Len(b) : b[i] = i + sub
    PROVE  Excess(Newest(at, Limit), b) = (at - sub + 1) .. (pos - sub)
<1>1. DOMAIN b = 1 .. Len(b) /\ Len(b) \in Nat BY LenProperties
<1>2. ASSUME NEW k \in 1 .. Len(b)
      PROVE  k \in Excess(Newest(at, Limit), b) <=> at - sub < k
  <2> DEFINE r == content[b[k]]
  <2>1. k \in Nat /\ b[k] = k + sub /\ k + sub \in (sub + 1) .. pos
    BY <1>1
  <2>2. \A i \in 1 .. sub : content[i] # r BY <2>1
  <2>3. r = content[sub + k] BY <2>1
  <2> HIDE DEF r
  <2>4. Copies(Newest(at, Limit), r) = CountIn(content, r, sub, at)
    BY <2>2, FreshCopies
  <2>5. CountAlong(content, r, b, k) = CountIn(content, r, sub, sub + k)
    <3>1. \A i \in 1 .. k : b[i] = i + sub BY <1>1, <2>1
    <3> QED BY <2>1, <3>1, CountShifted
  <2>6. k \in Excess(Newest(at, Limit), b)
          <=> CountIn(content, r, sub, sub + k) > CountIn(content, r, sub, at)
    BY <1>1, <2>4, <2>5 DEF Excess, CountAlong, r
  <2>7. CASE sub + k <= at
    <3>1. CountIn(content, r, sub, at)
            = CountIn(content, r, sub, sub + k) + CountIn(content, r, sub + k, at)
      BY <2>1, <2>7, CountSplit
    <3>2. CountIn(content, r, sub, sub + k) \in Nat /\ CountIn(content, r, sub + k, at) \in Nat
      BY <2>1, CountIsNat
    <3>3. ~(CountIn(content, r, sub, sub + k) > CountIn(content, r, sub, at))
      BY <3>1, <3>2
    <3>4. ~(at - sub < k) BY <2>1, <2>7
    <3> QED BY <2>6, <3>3, <3>4
  <2>8. CASE ~(sub + k <= at)
    <3> DEFINE m == sub + k - 1
    <3>1. m \in Int /\ at <= m /\ m + 1 = sub + k /\ m <= m + 1 /\ sub <= m
      BY <2>1, <2>8
    <3> HIDE DEF m
    <3>2. CountIn(content, r, sub, m + 1) = CountIn(content, r, sub, m) + CountIn(content, r, m, m + 1)
      BY <3>1, CountSplit
    <3>3. CountIn(content, r, m, m + 1) = 1 BY <2>3, <3>1, CountOne
    <3>4. CountIn(content, r, sub, m) = CountIn(content, r, sub, at) + CountIn(content, r, at, m)
      BY <3>1, CountSplit
    <3>5. CountIn(content, r, sub, at) \in Nat /\ CountIn(content, r, at, m) \in Nat
      BY <3>1, CountIsNat
    <3>6. CountIn(content, r, sub, sub + k) > CountIn(content, r, sub, at)
      BY <3>1, <3>2, <3>3, <3>4, <3>5
    <3>7. at - sub < k BY <2>1, <2>8
    <3> QED BY <2>6, <3>6, <3>7
  <2> QED BY <2>7, <2>8
<1>3. Excess(Newest(at, Limit), b) \in SUBSET (1 .. Len(b))
  BY <1>1 DEF Excess
<1>4. \A k : k \in (at - sub + 1) .. (pos - sub) <=> k \in 1 .. Len(b) /\ at - sub < k
  BY <1>1
<1> QED BY <1>2, <1>3, <1>4

Later(a, b) == IF a > b THEN a ELSE b

(* No event up to sub equals a later one up to pos.                          *)
Apart(sub, pos) == \A i \in 1 .. sub, j \in (sub + 1) .. pos : content[i] # content[j]

(* The events sub + 1 .. pos in their order.                                 *)
InOrder(b, sub, pos) ==
    Len(b) = pos - sub /\ \A i \in 1 .. Len(b) : b[i] = i + sub

(* The overlap counts, for a record that is newer than the subscription, the  *)
(* copies that the snapshot had and that are still to come live.              *)
Counts(overlap, sub, pos, at) ==
    \A r \in Records : (\A i \in 1 .. sub : content[i] # r) =>
        overlap[r] = CountIn(content, r, pos, at)

LEMMA MergeIs ==
    ASSUME NEW sub \in Nat, NEW pos \in Nat, NEW at \in Nat,
           sub <= pos, sub <= at, at - sub <= Limit, Apart(sub, pos),
           NEW b \in Seq(Nat), InOrder(b, sub, pos)
    PROVE  /\ Reconciled(Newest(at, Limit), b).rows = Newest(Later(pos, at), Limit)
           /\ Counts(Reconciled(Newest(at, Limit), b).overlap, sub, pos, at)
<1> DEFINE N == Newest(at, Limit)
           X == Excess(N, b)
           added == Additions(N, b)
<1>1. /\ Reconciled(N, b).rows = Trim(N \o added)
      /\ Reconciled(N, b).overlap
            = IF added # <<>> THEN NoOverlap
              ELSE [r \in Records |-> Copies(N, r) - Copies(b, r)]
  BY DEF Reconciled
<1>0. /\ \A i \in 1 .. sub, j \in (sub + 1) .. pos : content[i] # content[j]
      /\ Len(b) = pos - sub
      /\ \A i \in 1 .. Len(b) : b[i] = i + sub
  BY DEF Apart, InOrder
<1>2. X = (at - sub + 1) .. (pos - sub) BY <1>0, ExcessIs
<1>3. N \in Seq(Nat) BY NewestIs, EventStreamAssumption
<1>4. /\ added \in Seq(Nat) /\ Len(added) = Cardinality(X)
      /\ \A i \in 1 .. Len(added) : \E k \in X : Place(X, k) = i /\ added[i] = b[k]
  <2> HIDE DEF N
  <2> QED BY <1>3, AdditionsAre
<1> HIDE DEF N, X, added
<1>5. Len(added) = IF pos > at THEN pos - at ELSE 0
  <2>1. at - sub + 1 \in Int /\ pos - sub \in Int OBVIOUS
  <2>2. Cardinality(X) = IF at - sub + 1 > pos - sub THEN 0
                         ELSE (pos - sub) - (at - sub + 1) + 1
    BY <1>2, <2>1, FS_Interval
  <2> QED BY <1>4, <2>2
<1>6. ASSUME NEW i \in 1 .. Len(added) PROVE added[i] = i + at
  <2>1. PICK k \in X : Place(X, k) = i /\ added[i] = b[k] BY <1>4
  <2>2. k \in (at - sub + 1) .. (pos - sub) BY <1>2, <2>1
  <2>3. at - sub \in Int /\ pos - sub \in Int OBVIOUS
  <2>4. Place((at - sub + 1) .. (pos - sub), k) = k - (at - sub)
    BY <2>2, <2>3, RankInInterval
  <2>5. i = k - (at - sub) BY <1>2, <2>1, <2>4
  <2>6. k \in 1 .. Len(b) BY <1>0, <2>2
  <2>7. b[k] = k + sub BY <1>0, <2>6
  <2> QED BY <2>1, <2>2, <2>5, <2>7
<1>7. Reconciled(N, b).rows = Newest(Later(pos, at), Limit)
  <2>1. Trim(N \o added) = Newest(at + Len(added), Limit)
    BY <1>4, <1>6, TrimNewest DEF N
  <2>2. at + Len(added) = Later(pos, at) BY <1>5 DEF Later
  <2> QED BY <1>1, <2>1, <2>2
<1>8. ASSUME NEW r \in Records, \A i \in 1 .. sub : content[i] # r
      PROVE  Reconciled(N, b).overlap[r] = CountIn(content, r, pos, at)
  <2>1. CASE pos > at
    <3>1. added # <<>>
      <4>1. Len(added) # 0 BY <1>5, <2>1
      <4> QED BY <4>1, EmptySeq
    <3>2. Reconciled(N, b).overlap[r] = 0 BY <1>1, <3>1 DEF NoOverlap
    <3>3. CountIn(content, r, pos, at) = 0
      <4>1. \A i \in (pos + 1) .. at : content[i] # r BY <2>1
      <4> QED BY <4>1, CountNone
    <3> QED BY <3>2, <3>3
  <2>2. CASE ~(pos > at)
    <3>1. added = <<>>
      <4>1. Len(added) = 0 BY <1>5, <2>2
      <4> QED BY <1>4, <4>1, EmptySeq
    <3>2. Reconciled(N, b).overlap[r] = Copies(N, r) - Copies(b, r) BY <1>1, <3>1
    <3>3. Copies(N, r) = CountIn(content, r, sub, at) BY <1>8, FreshCopies DEF N
    <3>4. Copies(b, r) = CountIn(content, r, sub, pos)
      <4>1. DOMAIN b = 1 .. Len(b) /\ Len(b) \in Nat BY LenProperties
      <4>2. PICK n \in Nat : n = Len(b) BY <4>1
      <4>3. Copies(b, r) = CountAlong(content, r, b, n)
        BY <4>1, <4>2 DEF Copies, CountAlong
      <4>4. \A i \in 1 .. n : b[i] = i + sub BY <1>0, <4>2
      <4>5. CountAlong(content, r, b, n) = CountIn(content, r, sub, sub + n)
        BY <4>4, CountShifted
      <4>6. sub + n = pos BY <1>0, <4>2
      <4> QED BY <4>3, <4>5, <4>6
    <3>5. CountIn(content, r, sub, at) = CountIn(content, r, sub, pos) + CountIn(content, r, pos, at)
      BY <2>2, CountSplit
    <3>6. CountIn(content, r, sub, pos) \in Nat /\ CountIn(content, r, pos, at) \in Nat
      BY CountIsNat
    <3> QED BY <3>2, <3>3, <3>4, <3>5, <3>6
  <2> QED BY <2>1, <2>2
<1>9. Counts(Reconciled(N, b).overlap, sub, pos, at) BY <1>8 DEF Counts
<1> QED BY <1>7, <1>9 DEF N

-----------------------------------------------------------------------------
(* The rows.                                                                 *)
Accounted(c) == Counts(c.overlap, c.sub, c.pos, c.snapAt)

RowsInv ==
    link # None =>
        /\ link.stage = "handshake" => link.buffered = <<>> /\ link.answer = None
        /\ link.stage = "loading" /\ link.whole =>
              /\ Len(link.buffered) = link.pos - link.sub
              /\ \A i \in 1 .. Len(link.buffered) : link.buffered[i] = i + link.sub
        /\ link.stage = "loading" /\ link.answer # None =>
              link.answer = Newest(link.snapAt, Limit)
        /\ link.stage = "open" /\ Comparable(link) =>
              /\ link.rows = Newest(Later(link.pos, link.snapAt), Limit)
              /\ Accounted(link)

LEMMA RowsOnOpen ==
    ASSUME StreamInv, RowsInv, NEW c \in Links, OnOpen(c)
    PROVE  RowsInv'
<1> DEFINE d == [c EXCEPT !.stage = "loading", !.sub = published, !.pos = published]
<1>1. c.stage = "handshake" /\ Current(c) /\ Becomes(c, d)
  BY DEF OnOpen
<1>2. c = link /\ link # None /\ link' = d /\ link \in Link
  BY <1>1, BecomesLink DEF LinkOK
<1>3. c.buffered = <<>> /\ c.answer = None BY <1>1, <1>2 DEF RowsInv
<1>4. d.stage = "loading" /\ d.sub = published /\ d.pos = published
      /\ d.buffered = <<>> /\ d.answer = None
  BY <1>2, <1>3 DEF Link
<1>5. published \in Nat /\ Len(<<>>) = 0 BY Bounds, EmptySeq DEF StreamInv
<1> HIDE DEF d
<1> QED BY <1>2, <1>4, <1>5 DEF RowsInv

LEMMA RowsServeSnapshot ==
    ASSUME StreamInv, RowsInv, NEW c \in Links, ServeSnapshot(c)
    PROVE  RowsInv'
<1> DEFINE d == [c EXCEPT !.answer = Newest(stored, Limit), !.snapAt = stored]
<1>1. c.stage = "loading" /\ Becomes(c, d) /\ content' = content /\ published' = published
  BY DEF ServeSnapshot, server
<1>2. CASE c = link
  <2>1. link' = d /\ c # None /\ c \in Link
    BY <1>1, <1>2, NoneIsNoLink DEF Becomes, Links, StreamInv, StreamTyped, LinkOK
  <2>2. d.stage = "loading" /\ d.whole = c.whole /\ d.buffered = c.buffered
        /\ d.pos = c.pos /\ d.sub = c.sub /\ d.answer = Newest(stored, Limit)
        /\ d.snapAt = stored
    BY <1>1, <2>1 DEF Link
  <2> HIDE DEF d
  <2> QED BY <1>1, <1>2, <2>1, <2>2 DEF RowsInv
<1>3. CASE c # link
  <2>1. link' = link BY <1>1, <1>3 DEF Becomes
  <2> QED BY <1>1, <2>1 DEF RowsInv, Comparable, Accounted, Counts
<1> QED BY <1>2, <1>3

LEMMA RowsOnSnapshot ==
    ASSUME StreamInv, RowsInv, NEW c \in Links, OnSnapshot(c)
    PROVE  RowsInv'
<1> DEFINE merged == Reconciled(c.answer, c.buffered)
<1>0. PICK d : d = [c EXCEPT !.stage = "open", !.buffered = <<>>, !.rows = merged.rows,
                             !.overlap = merged.overlap, !.answer = None]
  OBVIOUS
<1>1. /\ c.stage = "loading" /\ c.answer # None /\ Current(c) /\ Becomes(c, d)
      /\ content' = content /\ published' = published
  BY <1>0 DEF OnSnapshot, server
<1>2. c = link /\ link # None /\ link' = d /\ LinkOK(link, published)
  BY <1>1, BecomesLink
<1>3. c.answer = Newest(c.snapAt, Limit) BY <1>1, <1>2 DEF RowsInv
<1>4. /\ d.stage = "open" /\ d.rows = merged.rows /\ d.overlap = merged.overlap
      /\ d.sub = c.sub /\ d.pos = c.pos /\ d.snapAt = c.snapAt /\ d.whole = c.whole
  BY <1>0, <1>2 DEF LinkOK, Link
<1>5. c.sub \in Nat /\ c.pos \in Nat /\ c.snapAt \in Nat /\ c.sub <= c.pos /\ c.pos <= published
      /\ c.buffered \in Seq(Nat) /\ published \in Nat
  BY <1>2, Bounds DEF LinkOK, Link, StreamInv
<1> HIDE DEF merged
<1>6. ASSUME Comparable(d)
      PROVE  d.rows = Newest(Later(d.pos, d.snapAt), Limit) /\ Accounted(d)
  <2>1. /\ c.whole /\ c.sub <= c.snapAt /\ c.snapAt - c.sub <= Limit
        /\ \A i \in 1 .. c.sub, j \in (c.sub + 1) .. published : content[i] # content[j]
    BY <1>4, <1>5, <1>6 DEF Comparable
  <2>2. /\ Len(c.buffered) = c.pos - c.sub
        /\ \A i \in 1 .. Len(c.buffered) : c.buffered[i] = i + c.sub
    BY <1>1, <1>2, <2>1 DEF RowsInv
  <2>3. \A i \in 1 .. c.sub, j \in (c.sub + 1) .. c.pos : content[i] # content[j]
    BY <1>5, <2>1
  <2>4. /\ merged.rows = Newest(Later(c.pos, c.snapAt), Limit)
        /\ Counts(merged.overlap, c.sub, c.pos, c.snapAt)
    <3>0. PICK sub \in Nat, pos \in Nat, at \in Nat, b \in Seq(Nat) :
            sub = c.sub /\ pos = c.pos /\ at = c.snapAt /\ b = c.buffered
      BY <1>5
    <3>1. merged = Reconciled(Newest(at, Limit), b) BY <1>3, <3>0 DEF merged
    <3>2. /\ sub <= pos /\ sub <= at /\ at - sub <= Limit
      BY <1>5, <2>1, <3>0
    <3>3. Apart(sub, pos) BY <2>3, <3>0 DEF Apart
    <3>4. InOrder(b, sub, pos) BY <2>2, <3>0 DEF InOrder
    <3>5. /\ Reconciled(Newest(at, Limit), b).rows = Newest(Later(pos, at), Limit)
          /\ Counts(Reconciled(Newest(at, Limit), b).overlap, sub, pos, at)
      BY <3>2, <3>3, <3>4, MergeIs
    <3> QED BY <3>0, <3>1, <3>5
  <2> QED BY <1>4, <2>4 DEF Accounted, Counts
<1>7. Comparable(d)' => Comparable(d) BY <1>1 DEF Comparable
<1>8. Accounted(d) => Accounted(d)' BY <1>1 DEF Accounted, Counts
<1> QED BY <1>2, <1>4, <1>6, <1>7, <1>8 DEF RowsInv

LEMMA RowsOnMessage ==
    ASSUME StreamInv, RowsInv, NEW c \in Links, OnMessage(c)
    PROVE  RowsInv'
<1>0. PICK e : e = c.pos + 1 OBVIOUS
<1>1. c.pos < published /\ Current(c) /\ content' = content /\ published' = published
  BY DEF OnMessage, server
<1>2. c = link /\ link # None /\ LinkOK(link, published)
  BY <1>1, CurrentIsLink DEF StreamInv, StreamTyped
<1>3. /\ c \in Link /\ published \in Nat /\ published <= MaxEvents /\ MaxEvents \in Nat
      /\ c.pos \in Nat /\ c.sub \in Nat /\ c.snapAt \in Nat /\ c.sub <= c.pos
      /\ c.snapAt <= published /\ c.buffered \in Seq(Nat) /\ c.rows \in Seq(Nat)
      /\ e = c.pos + 1 /\ e \in 1 .. published /\ e \in Nat
  BY <1>0, <1>1, <1>2, Bounds DEF StreamInv, LinkOK, Link
<1>4. content[e] \in Records /\ c.overlap \in [Records -> Nat]
  BY <1>3 DEF StreamInv, StreamTyped, Link
<1>5. CASE /\ c.stage = "loading" /\ Len(c.buffered) < Limit
           /\ Becomes(c, [c EXCEPT !.pos = e, !.buffered = Append(@, e)])
  <2>1. PICK d : d = [c EXCEPT !.pos = e, !.buffered = Append(@, e)] OBVIOUS
  <2>2. link' = d BY <1>1, <1>5, <2>1, BecomesLink
  <2>3. /\ d.stage = "loading" /\ d.whole = c.whole /\ d.pos = e /\ d.sub = c.sub
        /\ d.buffered = Append(c.buffered, e) /\ d.answer = c.answer /\ d.snapAt = c.snapAt
    BY <1>3, <1>5, <2>1 DEF Link
  <2>4. ASSUME d.whole
        PROVE  /\ Len(d.buffered) = d.pos - d.sub
               /\ \A i \in 1 .. Len(d.buffered) : d.buffered[i] = i + d.sub
    <3>1. /\ Len(c.buffered) = c.pos - c.sub
          /\ \A i \in 1 .. Len(c.buffered) : c.buffered[i] = i + c.sub
      BY <1>2, <1>5, <2>3, <2>4 DEF RowsInv
    <3>2. /\ Len(d.buffered) = Len(c.buffered) + 1
          /\ \A i \in 1 .. Len(c.buffered) : d.buffered[i] = c.buffered[i]
          /\ d.buffered[Len(c.buffered) + 1] = e
      BY <1>3, <2>3, AppendProperties
    <3>3. Len(c.buffered) \in Nat BY <1>3, LenProperties
    <3>4. \A i \in 1 .. Len(c.buffered) + 1 : i \in 1 .. Len(c.buffered) \/ i = Len(c.buffered) + 1
      BY <3>3
    <3>5. e = (Len(c.buffered) + 1) + c.sub BY <1>3, <3>1
    <3>6. Len(d.buffered) = d.pos - d.sub BY <1>3, <2>3, <3>1, <3>2
    <3>7. ASSUME NEW i \in 1 .. Len(d.buffered) PROVE d.buffered[i] = i + d.sub
      <4>1. CASE i \in 1 .. Len(c.buffered) BY <2>3, <3>1, <3>2, <4>1
      <4>2. CASE i = Len(c.buffered) + 1 BY <2>3, <3>2, <3>5, <4>2
      <4> QED BY <3>2, <3>4, <4>1, <4>2
    <3> QED BY <3>6, <3>7
  <2>5. d.answer # None => d.answer = Newest(d.snapAt, Limit)
    BY <1>2, <1>5, <2>3 DEF RowsInv
  <2> QED BY <2>2, <2>3, <2>4, <2>5 DEF RowsInv
<1>6. CASE c.stage = "loading" /\ Retry(FALSE)
  BY <1>6 DEF Retry, CleanConnection, RowsInv
<1>7. CASE /\ c.stage = "open" /\ c.overlap[content[e]] > 0
           /\ Becomes(c, [c EXCEPT !.pos = e, !.overlap[content[e]] = @ - 1])
  <2> DEFINE o == [c.overlap EXCEPT ![content[e]] = @ - 1]
  <2>1. PICK d : d = [c EXCEPT !.pos = e, !.overlap[content[e]] = @ - 1] OBVIOUS
  <2>2. link' = d BY <1>1, <1>7, <2>1, BecomesLink
  <2>3. d = [c EXCEPT !.pos = e, !.overlap = o] BY <1>3, <2>1 DEF Link
  <2>4. \A r \in Records : o[r] = IF r = content[e] THEN c.overlap[r] - 1 ELSE c.overlap[r]
    BY <1>4
  <2> HIDE DEF o
  <2>5. /\ d.stage = "open" /\ d.whole = c.whole /\ d.pos = e /\ d.sub = c.sub
        /\ d.rows = c.rows /\ d.overlap = o /\ d.snapAt = c.snapAt
    BY <1>3, <1>7, <2>3 DEF Link
  <2>6. ASSUME Comparable(d)
        PROVE  d.rows = Newest(Later(d.pos, d.snapAt), Limit) /\ Accounted(d)
    <3>1. Comparable(c) BY <2>5, <2>6 DEF Comparable
    <3>2. c.rows = Newest(Later(c.pos, c.snapAt), Limit) /\ Accounted(c)
      BY <1>2, <1>7, <3>1 DEF RowsInv
    <3>3. \A i \in 1 .. c.sub : content[i] # content[e]
      <4>1. e \in (c.sub + 1) .. published BY <1>3
      <4> QED BY <3>1, <4>1 DEF Comparable
    <3>4. c.overlap[content[e]] = CountIn(content, content[e], c.pos, c.snapAt)
      BY <1>4, <3>2, <3>3 DEF Accounted, Counts
    <3>5. e <= c.snapAt
      <4>1. SUFFICES ASSUME c.snapAt <= c.pos PROVE FALSE BY <1>3
      <4>2. \A i \in (c.pos + 1) .. c.snapAt : content[i] # content[e] BY <1>3, <4>1
      <4>3. CountIn(content, content[e], c.pos, c.snapAt) = 0 BY <1>3, <4>2, CountNone
      <4> QED BY <1>7, <3>4, <4>3
    <3>6. Later(d.pos, d.snapAt) = Later(c.pos, c.snapAt)
      BY <1>3, <2>5, <3>5 DEF Later
    <3>7. ASSUME NEW r \in Records, \A i \in 1 .. d.sub : content[i] # r
          PROVE  d.overlap[r] = CountIn(content, r, d.pos, d.snapAt)
      <4>1. c.overlap[r] = CountIn(content, r, c.pos, c.snapAt)
        BY <2>5, <3>2, <3>7 DEF Accounted, Counts
      <4>2. CountIn(content, r, c.pos, c.snapAt)
              = CountIn(content, r, c.pos, e) + CountIn(content, r, e, c.snapAt)
        BY <1>3, <3>5, CountSplit
      <4>3. CountIn(content, r, e, c.snapAt) \in Nat BY <1>3, CountIsNat
      <4>4. CountIn(content, r, c.pos, e) = IF r = content[e] THEN 1 ELSE 0
        <5>1. CASE r = content[e] BY <1>3, <5>1, CountOne
        <5>2. CASE r # content[e]
          <6>1. \A i \in (c.pos + 1) .. e : content[i] # r BY <1>3, <5>2
          <6> QED BY <1>3, <5>2, <6>1, CountNone
        <5> QED BY <5>1, <5>2
      <4>5. o[r] = CountIn(content, r, e, c.snapAt)
        BY <2>4, <4>1, <4>2, <4>3, <4>4
      <4> QED BY <2>5, <4>5
    <3>8. Accounted(d) BY <3>7 DEF Accounted, Counts
    <3> QED BY <2>5, <3>2, <3>6, <3>8
  <2>7. Comparable(d)' => Comparable(d) BY <1>1 DEF Comparable
  <2>8. Accounted(d) => Accounted(d)' BY <1>1 DEF Accounted, Counts
  <2> QED BY <2>2, <2>5, <2>6, <2>7, <2>8 DEF RowsInv
<1>8. CASE /\ c.stage = "open" /\ c.overlap[content[e]] = 0
           /\ Becomes(c, [c EXCEPT !.pos = e, !.rows = Trim(Append(c.rows, e)),
                                   !.overlap = NoOverlap])
  <2>1. PICK d : d = [c EXCEPT !.pos = e, !.rows = Trim(Append(c.rows, e)),
                               !.overlap = NoOverlap]
    OBVIOUS
  <2>2. link' = d BY <1>1, <1>8, <2>1, BecomesLink
  <2>3. /\ d.stage = "open" /\ d.whole = c.whole /\ d.pos = e /\ d.sub = c.sub
        /\ d.rows = Trim(Append(c.rows, e)) /\ d.overlap = NoOverlap /\ d.snapAt = c.snapAt
    BY <1>3, <1>8, <2>1 DEF Link
  <2>4. ASSUME Comparable(d)
        PROVE  d.rows = Newest(Later(d.pos, d.snapAt), Limit) /\ Accounted(d)
    <3>1. Comparable(c) BY <2>3, <2>4 DEF Comparable
    <3>2. c.rows = Newest(Later(c.pos, c.snapAt), Limit) /\ Accounted(c)
      BY <1>2, <1>8, <3>1 DEF RowsInv
    <3>3. \A i \in 1 .. c.sub : content[i] # content[e]
      <4>1. e \in (c.sub + 1) .. published BY <1>3
      <4> QED BY <3>1, <4>1 DEF Comparable
    <3>4. CountIn(content, content[e], c.pos, c.snapAt) = 0
      BY <1>4, <1>8, <3>2, <3>3 DEF Accounted, Counts
    <3>5. c.snapAt < e
      <4>1. SUFFICES ASSUME e <= c.snapAt PROVE FALSE BY <1>3
      <4>2. CountIn(content, content[e], c.pos, c.snapAt)
              = CountIn(content, content[e], c.pos, e) + CountIn(content, content[e], e, c.snapAt)
        BY <1>3, <4>1, CountSplit
      <4>3. CountIn(content, content[e], e, c.snapAt) \in Nat BY <1>3, CountIsNat
      <4>4. CountIn(content, content[e], c.pos, e) = 1 BY <1>3, CountOne
      <4> QED BY <3>4, <4>2, <4>3, <4>4
    <3>6. Later(c.pos, c.snapAt) = c.pos /\ Later(d.pos, d.snapAt) = c.pos + 1
      BY <1>3, <2>3, <3>5 DEF Later
    <3>7. d.rows = Newest(Later(d.pos, d.snapAt), Limit)
      <4>1. Trim(Append(Newest(c.pos, Limit), c.pos + 1)) = Newest(c.pos + 1, Limit)
        BY <1>3, AppendNewest
      <4> QED BY <1>3, <2>3, <3>2, <3>6, <4>1
    <3>8. ASSUME NEW r \in Records PROVE d.overlap[r] = CountIn(content, r, d.pos, d.snapAt)
      <4>1. \A i \in (e + 1) .. c.snapAt : content[i] # r BY <1>3, <3>5
      <4>2. CountIn(content, r, e, c.snapAt) = 0 BY <1>3, <4>1, CountNone
      <4> QED BY <2>3, <4>2 DEF NoOverlap
    <3>9. Accounted(d) BY <3>8 DEF Accounted, Counts
    <3> QED BY <3>7, <3>9
  <2>5. Comparable(d)' => Comparable(d) BY <1>1 DEF Comparable
  <2>6. Accounted(d) => Accounted(d)' BY <1>1 DEF Accounted, Counts
  <2> QED BY <2>2, <2>3, <2>4, <2>5, <2>6 DEF RowsInv
<1> QED BY <1>0, <1>5, <1>6, <1>7, <1>8 DEF OnMessage

LEMMA RowsRetry ==
    ASSUME NEW terminal \in BOOLEAN, Retry(terminal)
    PROVE  RowsInv'
BY DEF Retry, CleanConnection, RowsInv

LEMMA RowsFail == StreamInv /\ RowsInv /\ Failure => RowsInv'
<1> SUFFICES ASSUME StreamInv, RowsInv, Failure PROVE RowsInv' OBVIOUS
<1>1. CASE DeadlinePasses
  <2>1. PICK t \in timers :
          /\ t.kind = "deadline"
          /\ IF t.live /\ ~disposed THEN Retry(FALSE)
             ELSE timers' = timers \ {t} /\ UNCHANGED <<link, ghosts, failures, view>>
    BY <1>1 DEF DeadlinePasses
  <2>2. Connecting /\ t.live
    BY <2>1 DEF StreamInv, Situation, Over, Waits, Connecting, Streaming, Timer
  <2> QED BY <2>1, <2>2, RowsRetry DEF Connecting
<1>2. CASE \E c \in Links : OnBadMessage(c)
  <2>1. PICK c \in Links : OnBadMessage(c) BY <1>2
  <2>2. PICK d : d = [c EXCEPT !.pos = @ + 1, !.whole = FALSE] OBVIOUS
  <2>3. c.stage # "handshake" /\ Current(c) /\ Becomes(c, d) BY <2>1, <2>2 DEF OnBadMessage
  <2>4. c = link /\ link # None /\ link' = d /\ link \in Link
    BY <2>3, BecomesLink DEF LinkOK
  <2>5. d.whole = FALSE /\ d.stage = c.stage /\ d.answer = c.answer /\ d.snapAt = c.snapAt
    BY <2>2, <2>4 DEF Link
  <2>6. ~Comparable(d)' BY <2>5 DEF Comparable
  <2> QED BY <2>3, <2>4, <2>5, <2>6 DEF RowsInv
<1>3. CASE \E c \in Links : \E b \in BOOLEAN : OnSnapshotFails(c, b) \/ OnClose(c, b)
  <2>1. PICK c \in Links, b \in BOOLEAN : OnSnapshotFails(c, b) \/ OnClose(c, b) BY <1>3
  <2> QED BY <2>1, RowsRetry DEF OnSnapshotFails, OnClose
<1> QED BY <1>1, <1>2, <1>3 DEF Failure

LEMMA RowsQuiet ==
    ASSUME StreamInv, RowsInv, link' = link, content' = content, published <= published'
           , published' \in Nat
    PROVE  RowsInv'
<1>1. CASE link = None BY <1>1 DEF RowsInv
<1>2. CASE link # None
  <2>1. PICK c : c = link OBVIOUS
  <2>2. c \in Link /\ published \in Nat
    BY <1>2, <2>1, Bounds DEF StreamInv, StreamTyped, LinkOK
  <2>3. Comparable(c)' => Comparable(c)
    <3>1. c.sub \in Nat BY <2>2 DEF Link
    <3>2. \A j \in (c.sub + 1) .. published : j \in (c.sub + 1) .. published'
      BY <2>2, <3>1
    <3> QED BY <3>2 DEF Comparable
  <2>4. Accounted(c) => Accounted(c)' BY DEF Accounted, Counts
  <2> QED BY <1>2, <2>1, <2>3, <2>4 DEF RowsInv
<1> QED BY <1>1, <1>2

LEMMA RowsLivesLong == StreamInv /\ RowsInv /\ LivesLong => RowsInv'
<1> SUFFICES ASSUME StreamInv, RowsInv, LivesLong PROVE RowsInv' OBVIOUS
<1>1. PICK c : c = link OBVIOUS
<1>2. PICK d : d = [c EXCEPT !.long = TRUE] OBVIOUS
<1>3. /\ link # None /\ link.stage = "open" /\ link' = d /\ content' = content
      /\ published' = published /\ c \in Link
  BY <1>1, <1>2 DEF LivesLong, server, StreamInv, StreamTyped, LinkOK
<1>4. /\ d.stage = "open" /\ d.whole = c.whole /\ d.pos = c.pos /\ d.sub = c.sub
      /\ d.rows = c.rows /\ d.overlap = c.overlap /\ d.snapAt = c.snapAt
  BY <1>1, <1>2, <1>3 DEF Link
<1>5. Comparable(d)' => Comparable(c) BY <1>3, <1>4 DEF Comparable
<1>6. Accounted(c) => Accounted(d)' BY <1>3, <1>4 DEF Accounted, Counts
<1> QED BY <1>1, <1>3, <1>4, <1>5, <1>6 DEF RowsInv

LEMMA RowsNext == StreamInv /\ RowsInv /\ [Next]_vars => RowsInv'
<1> SUFFICES ASSUME StreamInv, RowsInv, [Next]_vars PROVE RowsInv' OBVIOUS
<1>0. published \in Nat BY Bounds DEF StreamInv
<1>1. CASE Callback
  <2>1. PICK c \in Links : OnOpen(c) \/ ServeSnapshot(c) \/ OnSnapshot(c) \/ OnMessage(c)
    BY <1>1 DEF Callback
  <2> QED BY <2>1, RowsOnOpen, RowsServeSnapshot, RowsOnSnapshot, RowsOnMessage
<1>2. CASE Failure BY <1>2, RowsFail
<1>3. CASE Connect
  <2>1. link' = NewConnection BY <1>3 DEF Connect
  <2>2. /\ NewConnection.stage = "handshake" /\ NewConnection.buffered = <<>>
        /\ NewConnection.answer = None
    BY DEF NewConnection
  <2> QED BY <2>1, <2>2 DEF RowsInv
<1>4. CASE LivesLong BY <1>4, RowsLivesLong
<1>5. CASE Dispose BY <1>5 DEF Dispose, CleanConnection, RowsInv
<1>6. CASE Publish \/ Store \/ UNCHANGED vars
  <2>1. link' = link /\ content' = content /\ (published' = published \/ published' = published + 1)
    BY <1>6 DEF Publish, Store, vars, server
  <2>2. published <= published' /\ published' \in Nat BY <1>0, <2>1
  <2> QED BY <2>1, <2>2, RowsQuiet
<1> QED BY <1>1, <1>2, <1>3, <1>4, <1>5, <1>6 DEF Next

LEMMA RowsInit == Init => RowsInv
<1> SUFFICES ASSUME Init PROVE RowsInv OBVIOUS
<1>1. link = NewConnection BY DEF Init
<1>2. /\ NewConnection.stage = "handshake" /\ NewConnection.buffered = <<>>
      /\ NewConnection.answer = None
  BY DEF NewConnection
<1> QED BY <1>1, <1>2 DEF RowsInv

(* The merge of the snapshot with the live events is exact wherever the wire  *)
(* format allows it (reconcileSnapshot, onmessage): the rows are the newest   *)
(* events, in order, none twice and none missing.                            *)
THEOREM RowsStayNewest == Spec => []RowsAreNewest
<1>1. Init => StreamInv /\ RowsInv BY StreamInvInit, RowsInit
<1>2. (StreamInv /\ RowsInv) /\ [Next]_vars => (StreamInv /\ RowsInv)'
  BY StreamInvNext, RowsNext
<1>3. StreamInv /\ RowsInv => RowsAreNewest
  <2> SUFFICES ASSUME StreamInv, RowsInv, link # None, link.stage = "open", Comparable(link)
               PROVE  shown = Newest(IF link.pos > link.snapAt THEN link.pos ELSE link.snapAt, Limit)
    BY DEF RowsAreNewest
  <2>1. shown = link.rows
    BY DEF StreamInv, Situation, Over, Waits, Connecting, Streaming
  <2> QED BY <2>1 DEF RowsInv, Later
<1> QED BY <1>1, <1>2, <1>3, PTL DEF Spec
=============================================================================
