--------------------------- MODULE EventBusProofs ---------------------------
(* What EventBus promises for any number of owners and events, any settings, *)
(* any queue and batch size, and whatever fails.                             *)
EXTENDS EventBus, Counting, SequenceTheorems

(* Types.                                                                    *)
Events == {e \in [id : Nat \ {0}, at : Int, kind : Kinds] :
              e.at <= e.id /\ e.id - Skew <= e.at}
Groups == [owner : Owners, settings : Retention]
Messages == [type : {"event"}, owner : Owners, event : Events, settings : Retention]
            \cup [type : {"barrier"}, owner : Owners, event : {None}, settings : {None}]
Row == [key : Nat, event : Events, read : BOOLEAN]

PublishSteps == {"load", "count", "accept"}
FlushSteps == {"flush", "await"}
FlushedSteps == {"sql", "apply", "report"}
Operation == [kind : {"idle", "publish"} \cup Mutation,
              step : {"idle"} \cup PublishSteps \cup FlushSteps \cup FlushedSteps,
              event : Events \cup {None}, settings : Retention \cup {None},
              filter : SUBSET Kinds, count : Nat \cup {None}, waiting : BOOLEAN]
WriterState == [step : {"idle", "collect", "persist", "stopped"},
                batch : Seq(Messages), barrier : Owners \cup {None},
                trim : Groups \cup {None}]

BusTyped ==
    /\ history \in [Owners -> Seq(Events)] /\ unread \in [Owners -> Nat]
    /\ cache \in [Owners -> Retention \cup {None}]
    /\ counts \in [Owners -> Nat \cup {None}]
    /\ admitted \in [Owners -> Nat \cup {None}]
    /\ disabled \in BOOLEAN /\ ready \in BOOLEAN /\ configured \in BOOLEAN
    /\ queue \in Seq(Messages) /\ writer \in WriterState
    /\ op \in [Owners -> Operation]
    /\ reader \in [Owners -> Retention \cup {None}]
    /\ rows \in [Owners -> SUBSET Row]
    /\ \A o \in Owners : IsFiniteSet(rows[o])
    /\ stored \in [Owners -> Retention \cup {None}]
    /\ published \in 0 .. MaxEvents
    /\ mutations \in Nat /\ faults \in Nat /\ restarts \in Nat
    /\ seen \in [Owners -> Nat] /\ acked \in [Owners -> Nat]
    /\ gone \in [Owners -> SUBSET (Nat \X Kinds)]
    /\ chosen \in [Owners -> Retention]

(* The steps of an operation and what it carries.                            *)
OpOK(o) ==
    /\ op[o].kind = "publish" => op[o].step \in PublishSteps
    /\ op[o].kind \in Mutation => op[o].step \in FlushSteps \cup FlushedSteps
    /\ op[o].kind = "idle" => op[o].step = "idle"
    /\ op[o].kind = "publish" <=> op[o].event # None
    /\ op[o].step \in {"count", "accept"} => op[o].settings # None
    /\ op[o].kind = "settings" => op[o].settings # None
    /\ op[o].step \in FlushSteps \cup {"sql"} => configured

(* The writer has work in hand only on its way from a queue to the tables.   *)
WriterOK ==
    /\ \A i \in DOMAIN writer.batch : writer.batch[i].type = "event"
    /\ writer.step \in {"idle", "stopped"} => writer = [WriterIdle EXCEPT !.step = writer.step]
    /\ writer.step = "collect" => writer.barrier = None /\ writer.trim = None
    /\ writer.step = "stopped" => disabled

(* Without a database nothing is queued or stored.                           *)
UnconfiguredOK ==
    ~configured => /\ queue = <<>> /\ writer = WriterIdle
                   /\ \A o \in Owners : rows[o] = {} /\ stored[o] = None

ShapeInv == BusTyped /\ WriterOK /\ UnconfiguredOK /\ \A o \in Owners : OpOK(o)

(* A barrier that still counts is that of the operation that awaits it, and  *)
(* the last its owner has queued.                                            *)
QueuedFor(o) == {i \in DOMAIN queue : queue[i].owner = o}
BarrierOK(o) ==
    ~disabled =>
        /\ \A i \in QueuedFor(o) : queue[i].type = "barrier" =>
                op[o].step = "await" /\ \A j \in QueuedFor(o) : j <= i
        /\ writer.barrier = o => op[o].step = "await" /\ QueuedFor(o) = {}

(* Behind its barrier a mutation has its owner's tables to itself.           *)
FlushedOK(o) == op[o].step \in FlushedSteps => Pending(o) = {}

(* Events are numbered: what an owner has is older than what it publishes.   *)
Known(o) == Held(o) \cup Pending(o) \cup {r.event : r \in rows[o]}
NumberedOK(o) ==
    /\ \A e \in Known(o) : e.id <= published
    /\ gone[o] \subseteq (1 .. published) \X Kinds
    /\ acked[o] <= published /\ seen[o] <= published
    /\ op[o].event # None =>
            /\ op[o].event.id <= published
            /\ \A e \in Known(o) : e.id < op[o].event.id
            /\ \A x \in gone[o] : x[1] < op[o].event.id
            /\ acked[o] < op[o].event.id /\ seen[o] < op[o].event.id

(* What a mutation did to the tables and the memory is still so.             *)
DoneOK(o) ==
    /\ op[o].kind = "delete" /\ op[o].step \in {"apply", "report"} =>
            \A r \in rows[o] : r.event.kind \notin op[o].filter
    /\ op[o].kind = "delete" /\ op[o].step = "report" =>
            \A e \in Held(o) : e.kind \notin op[o].filter
    /\ op[o].kind = "read" /\ op[o].step \in {"apply", "report"} =>
            \A r \in rows[o] : r.read

(* What was confirmed, for one owner.                                        *)
Deleted(o) == \A e \in Known(o) : <<e.id, e.kind>> \notin gone[o]
Acked(o) ==
    /\ \A r \in rows[o] : r.event.id <= acked[o] => r.read
    /\ \A e \in Pending(o) : e.id > acked[o]

OwnerOK(o) ==
    /\ BarrierOK(o) /\ FlushedOK(o) /\ NumberedOK(o) /\ DoneOK(o)
    /\ Deleted(o) /\ Acked(o)
FinalInv == ShapeInv /\ \A o \in Owners : OwnerOK(o)

-----------------------------------------------------------------------------
(* Sequences and sets of places.                                             *)
LEMMA TopKeyIsTop ==
    ASSUME NEW table \in SUBSET Row, IsFiniteSet(table)
    PROVE  TopKey(table) \in Nat /\ \A r \in table : r.key <= TopKey(table)
<1>1. CASE table = {} BY <1>1 DEF TopKey
<1>2. CASE table # {}
  <2> DEFINE keys == {r.key : r \in table}
             f == [r \in table |-> r.key]
  <2>1. f \in Surjection(table, keys) BY DEF Surjection
  <2>2. IsFiniteSet(keys) BY <2>1, FS_Surjection
  <2>3. keys \in SUBSET Nat /\ keys # {} BY <1>2 DEF Row
  <2>4. \E k \in keys : \A j \in keys : j <= k
    <3> HIDE DEF keys
    <3> QED BY <2>2, <2>3, FiniteHasTop
  <2>5. \E k \in keys : \A r \in table : r.key <= k BY <2>4
  <2>6. TopKey(table) \in keys /\ \A r \in table : r.key <= TopKey(table)
    BY <1>2, <2>5 DEF TopKey
  <2> QED BY <2>3, <2>6
<1> QED BY <1>1, <1>2

(* Picked keeps the elements at the places, in their order.                  *)
LEMMA PickedIs ==
    ASSUME NEW S, NEW s \in Seq(S), NEW places \in SUBSET (DOMAIN s)
    PROVE  /\ Picked(s, places) \in Seq(S)
           /\ Len(Picked(s, places)) = Cardinality(places)
           /\ Cardinality(places) \in 0 .. Len(s)
           /\ \A i \in places :
                /\ Place(places, i) \in DOMAIN Picked(s, places)
                /\ Picked(s, places)[Place(places, i)] = s[i]
           /\ \A j \in DOMAIN Picked(s, places) :
                \E i \in places : Place(places, i) = j /\ Picked(s, places)[j] = s[i]
<1> DEFINE n == Cardinality(places)
           At(j) == CHOOSE i \in places : Place(places, i) = j
<1>1. Len(s) \in Nat /\ DOMAIN s = 1 .. Len(s) /\ \A i \in DOMAIN s : s[i] \in S
  BY LenProperties
<1>2. /\ n \in 0 .. Len(s)
      /\ \A i \in places : Place(places, i) \in 1 .. n
      /\ \A i, j \in places : Place(places, i) = Place(places, j) => i = j
      /\ \A j \in 1 .. n : \E i \in places : Place(places, i) = j
  BY <1>1, PlacesIn, PlacesCount
<1>3. ASSUME NEW j \in 1 .. n
      PROVE  At(j) \in places /\ Place(places, At(j)) = j
  BY <1>2
<1>4. Picked(s, places) = [j \in 1 .. n |-> s[At(j)]]
  BY DEF Picked, Place
<1>5. \A j \in 1 .. n : s[At(j)] \in S
  BY <1>1, <1>3
<1>6. Picked(s, places) \in Seq(S) /\ Len(Picked(s, places)) = n
      /\ DOMAIN Picked(s, places) = 1 .. n
  <2> HIDE DEF At
  <2>1. n \in Nat BY <1>2
  <2> QED BY <1>4, <1>5, <2>1
<1>7. ASSUME NEW i \in places PROVE At(Place(places, i)) = i
  BY <1>2, <1>3
<1> QED BY <1>2, <1>3, <1>4, <1>6, <1>7

(* The last n elements of a sequence.                                        *)
LEMMA AtMostIs ==
    ASSUME NEW S, NEW s \in Seq(S), NEW n \in Nat
    PROVE  /\ AtMost(s, n) \in Seq(S)
           /\ Len(AtMost(s, n)) = IF Len(s) > n THEN n ELSE Len(s)
           /\ \A i \in DOMAIN AtMost(s, n) :
                /\ i + (Len(s) - Len(AtMost(s, n))) \in DOMAIN s
                /\ AtMost(s, n)[i] = s[i + (Len(s) - Len(AtMost(s, n)))]
<1>1. Len(s) \in Nat /\ DOMAIN s = 1 .. Len(s) /\ \A i \in DOMAIN s : s[i] \in S
  BY LenProperties
<1>2. CASE Len(s) > n
  <2> DEFINE m == Len(s) - n + 1
  <2>1. m \in Int /\ m >= 1 /\ AtMost(s, n) = SubSeq(s, m, Len(s))
    BY <1>1, <1>2 DEF AtMost, Last
  <2>2. \A i \in m .. Len(s) : s[i] \in S
    BY <1>1, <2>1
  <2>3. /\ SubSeq(s, m, Len(s)) \in Seq(S)
        /\ Len(SubSeq(s, m, Len(s))) = n
        /\ \A i \in 1 .. n : SubSeq(s, m, Len(s))[i] = s[m + i - 1]
    <3>1. /\ SubSeq(s, m, Len(s)) \in Seq(S)
          /\ Len(SubSeq(s, m, Len(s))) = IF m <= Len(s) THEN Len(s) - m + 1 ELSE 0
          /\ \A i \in 1 .. Len(s) - m + 1 : SubSeq(s, m, Len(s))[i] = s[m + i - 1]
      BY <1>1, <2>1, <2>2, SubSeqProperties
    <3>2. Len(s) - m + 1 = n BY <1>1
    <3> QED BY <1>1, <3>1, <3>2
  <2>4. DOMAIN AtMost(s, n) = 1 .. n
    BY <2>1, <2>3, LenProperties
  <2>5. ASSUME NEW i \in 1 .. n
        PROVE  m + i - 1 = i + (Len(s) - n) /\ i + (Len(s) - n) \in 1 .. Len(s)
    BY <1>1, <1>2
  <2> QED BY <1>1, <1>2, <2>1, <2>3, <2>4, <2>5
<1>3. CASE ~(Len(s) > n)
  <2>1. AtMost(s, n) = s BY <1>3 DEF AtMost
  <2>2. \A i \in DOMAIN s : i + (Len(s) - Len(s)) = i BY <1>1
  <2> QED BY <1>1, <1>3, <2>1, <2>2
<1> QED BY <1>2, <1>3

LEMMA AppendIs ==
    ASSUME NEW S, NEW s \in Seq(S), NEW e \in S
    PROVE  /\ Append(s, e) \in Seq(S) /\ Len(Append(s, e)) = Len(s) + 1
           /\ DOMAIN Append(s, e) = 1 .. Len(s) + 1
           /\ \A i \in 1 .. Len(s) : Append(s, e)[i] = s[i]
           /\ Append(s, e)[Len(s) + 1] = e
           /\ Len(s) \in Nat
BY AppendProperties, LenProperties

LEMMA TailIs ==
    ASSUME NEW S, NEW s \in Seq(S), s # <<>>
    PROVE  /\ Head(s) \in S /\ Head(s) = s[1]
           /\ Tail(s) \in Seq(S) /\ Len(Tail(s)) = Len(s) - 1
           /\ Len(s) \in Nat \ {0} /\ DOMAIN s = 1 .. Len(s)
           /\ DOMAIN Tail(s) = 1 .. Len(s) - 1
           /\ \A i \in 1 .. Len(s) - 1 : Tail(s)[i] = s[i + 1]
BY HeadTailProperties, LenProperties, EmptySeq

-----------------------------------------------------------------------------
(* The values that steps put down have the types they should.                *)
LEMMA ConstantsTyped ==
    /\ DefaultSettings \in Retention
    /\ None \notin Retention /\ None \notin Owners /\ None \notin Nat
    /\ None \notin Events /\ None \notin Groups
    /\ Idle \in Operation
    /\ WriterIdle \in WriterState /\ WriterStopped \in WriterState
<1>1. /\ DefaultSettings \in Retention
      /\ None \notin Retention /\ None \notin Owners /\ None \notin Nat
      /\ None \notin Events /\ None \notin Groups
  BY BusConstants DEF Events, Groups
<1>2. Idle \in Operation
  BY DEF Idle, Operation
<1>3. <<>> \in Seq(Messages) OBVIOUS
<1>4. WriterIdle \in WriterState /\ WriterStopped \in WriterState
  BY <1>3 DEF WriterIdle, WriterStopped, WriterState
<1> QED BY <1>1, <1>2, <1>4

LEMMA StoredSettingsTyped ==
    ASSUME BusTyped, NEW o \in Owners
    PROVE  StoredSettings(o) \in Retention
BY ConstantsTyped DEF BusTyped, StoredSettings

LEMMA MessagesTyped ==
    ASSUME NEW o \in Owners
    PROVE  /\ Barrier(o) \in Messages
           /\ \A e \in Events, s \in Retention : Request(o, e, s) \in Messages
BY DEF Barrier, Request, Messages

LEMMA MessageParts ==
    ASSUME NEW m \in Messages
    PROVE  /\ m.owner \in Owners /\ m.type \in {"event", "barrier"}
           /\ m.type = "event" => m.event \in Events /\ m.settings \in Retention
BY DEF Messages

LEMMA TrimmedTyped ==
    ASSUME NEW table \in SUBSET Row, IsFiniteSet(table), NEW max
    PROVE  Trimmed(table, max) \in SUBSET Row /\ IsFiniteSet(Trimmed(table, max))
BY FS_Subset DEF Trimmed

LEMMA TypedInit == Init => ShapeInv
<1> SUFFICES ASSUME Init PROVE ShapeInv OBVIOUS
<1>1. <<>> \in Seq(Messages) /\ <<>> \in Seq(Events) OBVIOUS
<1>2. BusTyped
  <2>1. \A o \in Owners : StoredSettings(o) \in Retention
    BY ConstantsTyped, BusConstants DEF Init, StoredSettings
  <2>2. stored \in [Owners -> Retention \cup {None}] /\ configured \in BOOLEAN
    BY BusConstants DEF Init
  <2>3. chosen \in [Owners -> Retention]
    BY <2>1 DEF Init
  <2>4. /\ history \in [Owners -> Seq(Events)] /\ unread \in [Owners -> Nat]
        /\ cache \in [Owners -> Retention \cup {None}]
        /\ counts \in [Owners -> Nat \cup {None}]
        /\ admitted \in [Owners -> Nat \cup {None}]
        /\ disabled \in BOOLEAN /\ ready \in BOOLEAN
        /\ reader \in [Owners -> Retention \cup {None}]
    BY <1>1 DEF Init, MemoryInit
  <2>5. /\ queue \in Seq(Messages) /\ writer \in WriterState
        /\ op \in [Owners -> Operation]
    BY <1>1, ConstantsTyped DEF Init, MemoryInit
  <2>6. rows \in [Owners -> SUBSET Row] /\ \A o \in Owners : IsFiniteSet(rows[o])
    BY FS_EmptySet DEF Init
  <2>7. /\ published \in 0 .. MaxEvents
        /\ mutations \in Nat /\ faults \in Nat /\ restarts \in Nat
        /\ seen \in [Owners -> Nat] /\ acked \in [Owners -> Nat]
        /\ gone \in [Owners -> SUBSET (Nat \X Kinds)]
    BY BusConstants DEF Init
  <2> QED BY <2>2, <2>3, <2>4, <2>5, <2>6, <2>7 DEF BusTyped
<1>3. WriterOK BY <1>2 DEF Init, MemoryInit, WriterOK, WriterIdle
<1>4. UnconfiguredOK BY DEF Init, MemoryInit, UnconfiguredOK
<1>5. \A o \in Owners : OpOK(o)
  BY DEF Init, MemoryInit, OpOK, Idle, Mutation, PublishSteps, FlushSteps, FlushedSteps
<1> QED BY <1>2, <1>3, <1>4, <1>5 DEF ShapeInv

-----------------------------------------------------------------------------
(* The types and the shape of operations and writer are kept by every step.  *)
OpMoved(o) ==
    /\ op' \in [Owners -> Operation] /\ OpOK(o)'
    /\ \A p \in Owners \ {o} : op'[p] = op[p]

LEMMA GoesIdle ==
    ASSUME ShapeInv, NEW o \in Owners, op' = [op EXCEPT ![o] = Idle],
           configured' = configured
    PROVE  OpMoved(o) /\ op'[o] = Idle
<1>1. op \in [Owners -> Operation] BY DEF ShapeInv, BusTyped
<1>2. op' \in [Owners -> Operation] /\ op'[o] = Idle
      /\ \A p \in Owners \ {o} : op'[p] = op[p]
  BY <1>1, ConstantsTyped
<1>3. OpOK(o)'
  BY <1>2 DEF Idle, OpOK, Mutation, PublishSteps, FlushSteps, FlushedSteps
<1> QED BY <1>2, <1>3 DEF OpMoved

(* An operation that goes on to another step of its kind.                    *)
LEMMA GoesOn ==
    ASSUME ShapeInv, NEW o \in Owners, NEW step, configured' = configured,
           op' = [op EXCEPT ![o].step = step],
           \/ op[o].kind = "publish" /\ step = "accept" /\ op[o].settings # None
           \/ op[o].kind \in Mutation /\ step \in FlushSteps \cup FlushedSteps
              /\ (step \in FlushSteps \cup {"sql"} => configured)
    PROVE  OpMoved(o) /\ op'[o] = [op[o] EXCEPT !.step = step]
<1>1. op \in [Owners -> Operation] /\ op[o] \in Operation /\ OpOK(o)
  BY DEF ShapeInv, BusTyped
<1>2. [op[o] EXCEPT !.step = step] \in Operation
  BY <1>1 DEF Operation, PublishSteps
<1>3. op' \in [Owners -> Operation] /\ op'[o] = [op[o] EXCEPT !.step = step]
      /\ \A p \in Owners \ {o} : op'[p] = op[p]
  BY <1>1, <1>2
<1>4. OpOK(o)'
  BY <1>1, <1>3
     DEF Operation, OpOK, Mutation, PublishSteps, FlushSteps, FlushedSteps
<1> QED BY <1>3, <1>4 DEF OpMoved

LEMMA StartPublishTyped ==
    ASSUME ShapeInv, NEW o \in Owners, NEW kind \in Kinds,
           NEW at \in Int, at <= published + 1, published + 1 - Skew <= at,
           StartPublish(o, kind, at)
    PROVE  ShapeInv'
<1>0. BusTyped /\ WriterOK /\ UnconfiguredOK /\ \A p \in Owners : OpOK(p)
  BY DEF ShapeInv
<1>1. UNCHANGED <<history, unread, cache, counts, admitted, disabled, ready,
                 queue, writer, reader, rows, stored, mutations, faults,
                 restarts, seen, gone, acked, chosen, configured>>
  BY DEF StartPublish, memoryVars, latchVars, tableVars, boundVars, ghostVars
<1>2. OpMoved(o)
  <2> DEFINE e == [id |-> published', at |-> at, kind |-> kind]
             r == [Idle EXCEPT !.kind = "publish", !.step = "load", !.event = e]
  <2>1. published' \in Nat \ {0} /\ published' = published + 1
    BY <1>0 DEF StartPublish, BusTyped
  <2>2. e \in Events
    <3>1. e \in [id : Nat \ {0}, at : Int, kind : Kinds] BY <2>1
    <3>2. e.at = at /\ e.id = published + 1 BY <2>1
    <3>3. published \in Int /\ Skew \in Int BY <1>0, BusConstants DEF BusTyped
    <3>4. at <= published + 1 /\ published + 1 - Skew <= at OBVIOUS
    <3> HIDE DEF e
    <3> QED BY <3>1, <3>2, <3>3, <3>4 DEF Events
  <2>3. r \in Operation BY <2>2, ConstantsTyped DEF Operation, Idle, PublishSteps
  <2>4. op' = [op EXCEPT ![o] = r] /\ configured' = configured
    BY DEF StartPublish, ghostVars
  <2>5. r.kind = "publish" /\ r.step = "load" /\ r.event = e /\ e # None
    BY <2>2, ConstantsTyped DEF Idle
  <2> HIDE DEF r, e
  <2>6. op' \in [Owners -> Operation] /\ op'[o] = r
        /\ \A p \in Owners \ {o} : op'[p] = op[p]
    BY <1>0, <2>3, <2>4 DEF BusTyped
  <2>7. OpOK(o)'
    BY <2>5, <2>6 DEF OpOK, Mutation, PublishSteps, FlushSteps, FlushedSteps
  <2> QED BY <2>6, <2>7 DEF OpMoved
<1>3. published' \in 0 .. MaxEvents
  <2>1. published \in 0 .. MaxEvents /\ MaxEvents \in Nat BY <1>0, BusConstants DEF BusTyped
  <2>2. published < MaxEvents /\ published' = published + 1 BY DEF StartPublish
  <2> QED BY <2>1, <2>2
<1>4. BusTyped'
  BY <1>0, <1>1, <1>2, <1>3 DEF OpMoved, BusTyped
<1>5. WriterOK'
  BY <1>0, <1>1 DEF WriterOK
<1>6. UnconfiguredOK'
  BY <1>0, <1>1 DEF UnconfiguredOK
<1>7. \A p \in Owners : OpOK(p)'
  BY <1>0, <1>1, <1>2 DEF OpMoved, OpOK
<1> QED BY <1>4, <1>5, <1>6, <1>7 DEF ShapeInv

LEMMA LoadSettingsTyped ==
    ASSUME ShapeInv, NEW o \in Owners, LoadSettings(o)
    PROVE  ShapeInv'
<1>0. BusTyped /\ WriterOK /\ UnconfiguredOK /\ \A p \in Owners : OpOK(p)
  BY DEF ShapeInv
<1>1. UNCHANGED <<history, unread, counts, admitted, queue, writer, reader,
                 rows, stored, published, mutations, restarts, seen, gone,
                 acked, chosen, configured>>
  BY DEF LoadSettings, memoryVars, latchVars, tableVars, boundVars, ghostVars
<1>2. OpMoved(o) /\ cache' \in [Owners -> Retention \cup {None}]
  <2>1. cache' \in [Owners -> Retention \cup {None}] /\ cache'[o] \in Retention
    <3>1. /\ StoredSettings(o) \in Retention /\ DefaultSettings \in Retention
          /\ None \notin Retention
          /\ cache \in [Owners -> Retention \cup {None}]
      BY <1>0, ConstantsTyped, StoredSettingsTyped DEF BusTyped
    <3> QED BY <3>1 DEF LoadSettings, Cached
  <2>2. op[o] \in Operation /\ op[o].kind = "publish" /\ OpOK(o)
    BY <1>0 DEF LoadSettings, BusTyped, Operation, OpOK, Mutation, PublishSteps,
         FlushSteps, FlushedSteps
  <2> DEFINE r == [op[o] EXCEPT !.settings = cache'[o],
                                !.step = IF cache'[o].policy = "drop_new"
                                         THEN "count" ELSE "accept"]
  <2>3. r \in Operation BY <2>1, <2>2 DEF Operation, PublishSteps
  <2>4. op' = [op EXCEPT ![o] = r] /\ configured' = configured
    BY DEF LoadSettings, ghostVars
  <2>5. /\ r.kind = "publish" /\ r.step \in {"count", "accept"}
        /\ r.event = op[o].event /\ r.settings # None
    BY <2>1, <2>2, ConstantsTyped DEF Operation
  <2> HIDE DEF r
  <2>6. op' \in [Owners -> Operation] /\ op'[o] = r
        /\ \A p \in Owners \ {o} : op'[p] = op[p]
    BY <1>0, <2>3, <2>4 DEF BusTyped
  <2>7. OpOK(o)'
    BY <2>2, <2>5, <2>6 DEF OpOK, Mutation, PublishSteps, FlushSteps, FlushedSteps
  <2> QED BY <2>1, <2>6, <2>7 DEF OpMoved
<1>3. /\ disabled' = disabled \/ disabled' = TRUE
      /\ ready' = ready \/ ready' = TRUE
      /\ faults' = faults \/ faults' = faults + 1
  <2>1. disabled' = disabled \/ disabled' = TRUE
    BY DEF LoadSettings, latchVars
  <2>2. ready' = ready \/ ready' = TRUE
    BY DEF LoadSettings, latchVars
  <2>3. faults' = faults \/ faults' = faults + 1
    BY DEF LoadSettings, StatementFault, SchemaFault, Fault
  <2> QED BY <2>1, <2>2, <2>3
<1>4. /\ disabled' \in BOOLEAN
      /\ ready' \in BOOLEAN
      /\ faults' \in Nat
  <2>1. disabled' \in BOOLEAN BY <1>0, <1>3 DEF BusTyped
  <2>2. ready' \in BOOLEAN BY <1>0, <1>3 DEF BusTyped
  <2>3. faults' \in Nat BY <1>0, <1>3 DEF BusTyped
  <2> QED BY <2>1, <2>2, <2>3
<1>5. cache' \in [Owners -> Retention \cup {None}]
  BY <1>0, <1>2 DEF LoadSettings, BusTyped, StatementFault, SchemaFault, Fault
<1>6. BusTyped'
  BY <1>0, <1>1, <1>2, <1>5, <1>4 DEF OpMoved, BusTyped
<1>7. WriterOK'
  BY <1>0, <1>1, <1>3 DEF WriterOK
<1>8. UnconfiguredOK'
  BY <1>0, <1>1 DEF UnconfiguredOK
<1>9. \A p \in Owners : OpOK(p)'
  BY <1>0, <1>1, <1>2 DEF OpMoved, OpOK
<1> QED BY <1>6, <1>7, <1>8, <1>9 DEF ShapeInv

LEMMA CountAdmittedTyped ==
    ASSUME ShapeInv, NEW o \in Owners, CountAdmitted(o)
    PROVE  ShapeInv'
<1>0. BusTyped /\ WriterOK /\ UnconfiguredOK /\ \A p \in Owners : OpOK(p)
  BY DEF ShapeInv
<1>1. UNCHANGED <<history, unread, cache, counts, queue, writer, reader,
                 rows, stored, published, mutations, restarts, seen, gone,
                 acked, chosen, configured>>
  BY DEF CountAdmitted, memoryVars, latchVars, tableVars, boundVars, ghostVars
<1>2. OpMoved(o) /\ admitted' \in [Owners -> Nat \cup {None}]
  <2>1. admitted' \in [Owners -> Nat \cup {None}]
        /\ (admitted'[o] \in Nat \/ admitted' = admitted)
    <3>1. Cardinality(rows[o]) \in Nat /\ admitted \in [Owners -> Nat \cup {None}]
      BY <1>0, FS_CardinalityType DEF BusTyped
    <3> QED BY <3>1 DEF CountAdmitted
  <2>2. /\ op[o] \in Operation /\ op[o].kind = "publish" /\ OpOK(o)
        /\ op[o].settings # None
    BY <1>0 DEF CountAdmitted, BusTyped, Operation, OpOK, Mutation, PublishSteps,
         FlushSteps, FlushedSteps
  <2>3. CASE op' = [op EXCEPT ![o].step = "accept"]
    BY <2>1, <2>2, <2>3, GoesOn DEF CountAdmitted, ghostVars
  <2>4. CASE op' = [op EXCEPT ![o].step = "accept", ![o].count = admitted'[o]]
             /\ admitted' = [admitted EXCEPT ![o] =
                                IF @ = None THEN Cardinality(rows[o]) ELSE @]
    <3> DEFINE r == [op[o] EXCEPT !.step = "accept", !.count = admitted'[o]]
    <3>1. admitted'[o] \in Nat \cup {None} BY <2>1
    <3>2. r \in Operation BY <2>2, <3>1 DEF Operation, PublishSteps
    <3>3. /\ r.kind = "publish" /\ r.step = "accept" /\ r.settings # None
          /\ r.event = op[o].event
      BY <2>2 DEF Operation
    <3> HIDE DEF r
    <3>4. op' \in [Owners -> Operation] /\ op'[o] = r
          /\ \A p \in Owners \ {o} : op'[p] = op[p]
      BY <1>0, <2>4, <3>2 DEF BusTyped, r
    <3>5. OpOK(o)'
      BY <2>2, <3>3, <3>4
         DEF OpOK, Mutation, PublishSteps, FlushSteps, FlushedSteps
    <3> QED BY <2>1, <3>4, <3>5 DEF OpMoved
  <2> QED BY <2>3, <2>4 DEF CountAdmitted
<1>3. /\ disabled' = disabled \/ disabled' = TRUE
      /\ faults' = faults \/ faults' = faults + 1
  <2>1. disabled' = disabled \/ disabled' = TRUE
    BY DEF CountAdmitted, latchVars
  <2>2. faults' = faults \/ faults' = faults + 1
    BY DEF CountAdmitted, StatementFault, SchemaFault, Fault
  <2> QED BY <2>1, <2>2
<1>4. /\ disabled' \in BOOLEAN
      /\ faults' \in Nat
  <2>1. disabled' \in BOOLEAN BY <1>0, <1>3 DEF BusTyped
  <2>2. faults' \in Nat BY <1>0, <1>3 DEF BusTyped
  <2> QED BY <2>1, <2>2
<1>5. /\ admitted' \in [Owners -> Nat \cup {None}]
      /\ ready' \in BOOLEAN
  <2>1. ready' \in BOOLEAN BY <1>0 DEF CountAdmitted, latchVars, BusTyped
  <2> QED BY <1>2, <2>1
<1>6. BusTyped'
  BY <1>0, <1>1, <1>2, <1>5, <1>4 DEF OpMoved, BusTyped
<1>7. WriterOK'
  BY <1>0, <1>1, <1>3 DEF WriterOK
<1>8. UnconfiguredOK'
  BY <1>0, <1>1 DEF UnconfiguredOK
<1>9. \A p \in Owners : OpOK(p)'
  BY <1>0, <1>1, <1>2 DEF OpMoved, OpOK
<1> QED BY <1>6, <1>7, <1>8, <1>9 DEF ShapeInv

(* What an event that is accepted does to memory and queue.                  *)
LEMMA AcceptIs ==
    ASSUME NEW o \in Owners, Accept(o)
    PROVE  /\ op' = [op EXCEPT ![o] = Idle]
           /\ Full(o) => UNCHANGED <<history, unread, admitted, queue, disabled>>
           /\ ~Full(o) =>
                /\ history' = [history EXCEPT ![o] =
                        Append(AtMost(history[o], op[o].settings.max - 1), op[o].event)]
                /\ unread' = [unread EXCEPT ![o] =
                        Lower(unread[o] + 1, op[o].settings.max)]
                /\ admitted' = [admitted EXCEPT ![o] =
                        IF op[o].count = None THEN @ ELSE op[o].count + 1]
                /\ queue' = IF Active /\ CanSend
                            THEN Append(queue, Request(o, op[o].event, op[o].settings))
                            ELSE queue
                /\ disabled' = (disabled \/ (Active /\ ~CanSend))
BY DEF Accept

LEMMA AcceptTyped ==
    ASSUME ShapeInv, NEW o \in Owners, Accept(o)
    PROVE  ShapeInv'
<1>0. BusTyped /\ WriterOK /\ UnconfiguredOK /\ \A p \in Owners : OpOK(p)
  BY DEF ShapeInv
<1>1. UNCHANGED <<cache, counts, ready, writer, reader, rows, stored,
                 published, mutations, faults, restarts, seen, gone, acked,
                 chosen, configured>>
  BY DEF Accept, memoryVars, latchVars, tableVars, boundVars, ghostVars
<1>2. OpMoved(o)
  BY AcceptIs, GoesIdle DEF Accept, ghostVars
<1>3. /\ op[o] \in Operation /\ op[o].event \in Events
      /\ op[o].settings \in Retention /\ op[o].count \in Nat \cup {None}
  BY <1>0 DEF Accept, BusTyped, Operation, OpOK, Mutation, PublishSteps,
       FlushSteps, FlushedSteps
<1>4. disabled => disabled'
  BY AcceptIs
<1>5. /\ history' \in [Owners -> Seq(Events)]
      /\ unread' \in [Owners -> Nat]
      /\ admitted' \in [Owners -> Nat \cup {None}]
      /\ disabled' \in BOOLEAN
      /\ queue' \in Seq(Messages)
  <2> DEFINE e == op[o].event  s == op[o].settings
             last == Append(AtMost(history[o], s.max - 1), e)
  <2>1. s.max \in Nat \ {0} /\ s.max - 1 \in Nat
    BY <1>3 DEF Retention
  <2>2. history[o] \in Seq(Events) /\ unread[o] \in Nat
    BY <1>0 DEF BusTyped
  <2>3. last \in Seq(Events)
    <3>1. AtMost(history[o], s.max - 1) \in Seq(Events) BY <2>1, <2>2, AtMostIs
    <3> QED BY <1>3, <3>1, AppendIs
  <2>4. Lower(unread[o] + 1, s.max) \in Nat BY <2>1, <2>2 DEF Lower
  <2>5. history' \in [Owners -> Seq(Events)]
    <3> HIDE DEF last
    <3>1. history' = history \/ history' = [history EXCEPT ![o] = last]
      BY AcceptIs DEF last
    <3>2. history \in [Owners -> Seq(Events)] BY <1>0 DEF BusTyped
    <3> QED BY <2>3, <3>1, <3>2
  <2>6. unread' \in [Owners -> Nat]
    BY <1>0, <2>4, AcceptIs, SMTT(30) DEF BusTyped
  <2>7. admitted' \in [Owners -> Nat \cup {None}]
    <3>1. op[o].count # None => op[o].count + 1 \in Nat BY <1>3
    <3>2. admitted \in [Owners -> Nat \cup {None}] BY <1>0 DEF BusTyped
    <3>3. \/ admitted' = admitted
          \/ admitted' = [admitted EXCEPT ![o] =
                            IF op[o].count = None THEN @ ELSE op[o].count + 1]
      BY AcceptIs
    <3> QED BY <3>1, <3>2, <3>3
  <2>8. queue' \in Seq(Messages)
    <3>1. Request(o, e, s) \in Messages BY <1>3, MessagesTyped
    <3>2. Append(queue, Request(o, e, s)) \in Seq(Messages)
      BY <1>0, <3>1, AppendIs DEF BusTyped
    <3> QED BY <1>0, <3>2, AcceptIs DEF BusTyped
  <2>9. disabled' \in BOOLEAN BY <1>0, AcceptIs DEF BusTyped
  <2> QED BY <2>5, <2>6, <2>7, <2>8, <2>9
<1>6. BusTyped'
  BY <1>0, <1>1, <1>2, <1>5 DEF OpMoved, BusTyped
<1>7. WriterOK'
  BY <1>0, <1>1, <1>4 DEF WriterOK
<1>8. UnconfiguredOK'
  <2>1. configured => configured' BY <1>1
  <2>2. CASE ~configured BY <1>0, <1>1, <2>2, AcceptIs DEF UnconfiguredOK, Active
  <2> QED BY <2>1, <2>2 DEF UnconfiguredOK
<1>9. \A p \in Owners : OpOK(p)'
  BY <1>0, <1>1, <1>2 DEF OpMoved, OpOK
<1> QED BY <1>6, <1>7, <1>8, <1>9 DEF ShapeInv

LEMMA CancelPublishTyped ==
    ASSUME ShapeInv, NEW o \in Owners, CancelPublish(o)
    PROVE  ShapeInv'
<1>0. BusTyped /\ WriterOK /\ UnconfiguredOK /\ \A p \in Owners : OpOK(p)
  BY DEF ShapeInv
<1>1. UNCHANGED <<history, unread, cache, counts, admitted, disabled, ready,
                 queue, writer, reader, rows, stored, published, mutations,
                 faults, restarts, seen, gone, acked, chosen, configured>>
  BY DEF CancelPublish, memoryVars, latchVars, tableVars, boundVars, ghostVars
<1>2. OpMoved(o)
  BY GoesIdle DEF CancelPublish, ghostVars
<1>3. BusTyped'
  BY <1>0, <1>1, <1>2 DEF OpMoved, BusTyped
<1>4. WriterOK'
  BY <1>0, <1>1 DEF WriterOK
<1>5. UnconfiguredOK'
  BY <1>0, <1>1 DEF UnconfiguredOK
<1>6. \A p \in Owners : OpOK(p)'
  BY <1>0, <1>1, <1>2 DEF OpMoved, OpOK
<1> QED BY <1>3, <1>4, <1>5, <1>6 DEF ShapeInv

LEMMA StartMutationTyped ==
    ASSUME ShapeInv, NEW o \in Owners, NEW kind \in Mutation,
           NEW filter \in SUBSET Kinds, NEW settings \in Retention \cup {None},
           kind = "settings" => settings # None,
           StartMutation(o, kind, filter, settings)
    PROVE  ShapeInv'
<1>0. BusTyped /\ WriterOK /\ UnconfiguredOK /\ \A p \in Owners : OpOK(p)
  BY DEF ShapeInv
<1>1. UNCHANGED <<history, unread, cache, counts, admitted, disabled, ready,
                 queue, writer, reader, rows, stored, published, faults,
                 restarts, seen, gone, acked, chosen, configured>>
  BY DEF StartMutation, memoryVars, latchVars, tableVars, boundVars, ghostVars
<1>2. OpMoved(o)
  <2> DEFINE r == [Idle EXCEPT !.kind = kind, !.filter = filter,
                              !.settings = settings, !.waiting = TRUE,
                              !.step = IF configured THEN "flush" ELSE "apply"]
  <2>1. r \in Operation
    BY ConstantsTyped DEF Operation, Idle, FlushSteps, FlushedSteps
  <2>2. op' = [op EXCEPT ![o] = r] /\ configured' = configured
    BY DEF StartMutation, ghostVars
  <2>3. /\ r.kind = kind /\ r.settings = settings /\ r.event = None
        /\ r.step = IF configured THEN "flush" ELSE "apply"
    BY DEF Idle
  <2> HIDE DEF r
  <2>4. op' \in [Owners -> Operation] /\ op'[o] = r
        /\ \A p \in Owners \ {o} : op'[p] = op[p]
    BY <1>0, <2>1, <2>2 DEF BusTyped
  <2>5. OpOK(o)'
    BY <2>2, <2>3, <2>4 DEF OpOK, Mutation, PublishSteps, FlushSteps, FlushedSteps
  <2> QED BY <2>4, <2>5 DEF OpMoved
<1>3. mutations' \in Nat
  BY <1>0, <1>2 DEF StartMutation, BusTyped
<1>4. BusTyped'
  BY <1>0, <1>1, <1>2, <1>3 DEF OpMoved, BusTyped
<1>5. WriterOK'
  BY <1>0, <1>1 DEF WriterOK
<1>6. UnconfiguredOK'
  BY <1>0, <1>1 DEF UnconfiguredOK
<1>7. \A p \in Owners : OpOK(p)'
  BY <1>0, <1>1, <1>2 DEF OpMoved, OpOK
<1> QED BY <1>4, <1>5, <1>6, <1>7 DEF ShapeInv

LEMMA SendBarrierTyped ==
    ASSUME ShapeInv, NEW o \in Owners, SendBarrier(o)
    PROVE  ShapeInv'
<1>0. BusTyped /\ WriterOK /\ UnconfiguredOK /\ \A p \in Owners : OpOK(p)
  BY DEF ShapeInv
<1>1. UNCHANGED <<history, unread, cache, counts, admitted, disabled, ready,
                 writer, reader, rows, stored, published, mutations, faults,
                 restarts, seen, gone, acked, chosen, configured>>
  BY DEF SendBarrier, memoryVars, latchVars, tableVars, boundVars, ghostVars
<1>2. OpMoved(o)
  <2>1. op[o].kind \in Mutation /\ configured
    BY <1>0 DEF SendBarrier, BusTyped, Operation, OpOK, Mutation, PublishSteps,
         FlushSteps, FlushedSteps
  <2> QED BY <2>1, GoesOn DEF SendBarrier, ghostVars, FlushSteps
<1>3. queue' \in Seq(Messages)
  <2>1. Append(queue, Barrier(o)) \in Seq(Messages)
    BY <1>0, MessagesTyped, AppendIs DEF BusTyped
  <2> QED BY <2>1 DEF SendBarrier
<1>4. BusTyped'
  BY <1>0, <1>1, <1>2, <1>3 DEF OpMoved, BusTyped
<1>5. WriterOK'
  BY <1>0, <1>1 DEF WriterOK
<1>6. UnconfiguredOK'
  <2>1. configured
    BY <1>0 DEF SendBarrier, OpOK, FlushSteps
  <2> QED BY <1>1, <2>1 DEF UnconfiguredOK
<1>7. \A p \in Owners : OpOK(p)'
  BY <1>0, <1>1, <1>2 DEF OpMoved, OpOK
<1> QED BY <1>4, <1>5, <1>6, <1>7 DEF ShapeInv

LEMMA FlushFailsTyped ==
    ASSUME ShapeInv, NEW o \in Owners, FlushFails(o)
    PROVE  ShapeInv'
<1>0. BusTyped /\ WriterOK /\ UnconfiguredOK /\ \A p \in Owners : OpOK(p)
  BY DEF ShapeInv
<1>1. UNCHANGED <<history, unread, cache, counts, admitted, ready, queue,
                 writer, reader, rows, stored, published, mutations, faults,
                 restarts, seen, gone, acked, chosen, configured>>
  BY DEF FlushFails, memoryVars, latchVars, tableVars, boundVars, ghostVars
<1>2. OpMoved(o)
  BY GoesIdle DEF FlushFails, ghostVars
<1>3. /\ disabled' = disabled \/ disabled' = TRUE
  <2>1. disabled' = disabled \/ disabled' = TRUE
    BY DEF FlushFails, latchVars
  <2> QED BY <2>1
<1>4. /\ disabled' \in BOOLEAN
  <2>1. disabled' \in BOOLEAN BY <1>0, <1>3 DEF BusTyped
  <2> QED BY <2>1
<1>5. BusTyped'
  BY <1>0, <1>1, <1>2, <1>4 DEF OpMoved, BusTyped
<1>6. WriterOK'
  BY <1>0, <1>1, <1>3 DEF WriterOK
<1>7. UnconfiguredOK'
  BY <1>0, <1>1 DEF UnconfiguredOK
<1>8. \A p \in Owners : OpOK(p)'
  BY <1>0, <1>1, <1>2 DEF OpMoved, OpOK
<1> QED BY <1>5, <1>6, <1>7, <1>8 DEF ShapeInv

(* Statements leave the tables well typed.                                   *)
LEMMA MarkedTyped ==
    ASSUME NEW table \in SUBSET Row, IsFiniteSet(table)
    PROVE  /\ {[r EXCEPT !.read = TRUE] : r \in table} \in SUBSET Row
           /\ IsFiniteSet({[r EXCEPT !.read = TRUE] : r \in table})
<1> DEFINE T == {[r EXCEPT !.read = TRUE] : r \in table}
           f == [r \in table |-> [r EXCEPT !.read = TRUE]]
<1>1. T \in SUBSET Row BY DEF Row
<1>2. f \in Surjection(table, T) BY DEF Surjection
<1>3. IsFiniteSet(T) BY <1>2, FS_Surjection
<1> QED BY <1>1, <1>3

LEMMA MutatedTyped ==
    ASSUME ShapeInv, NEW o \in Owners, op[o].step = "sql", Mutated(o)
    PROVE  /\ rows' \in [Owners -> SUBSET Row]
           /\ \A p \in Owners : IsFiniteSet(rows'[p])
           /\ stored' \in [Owners -> Retention \cup {None}]
           /\ \A p \in Owners \ {o} : rows'[p] = rows[p] /\ stored'[p] = stored[p]
<1>1. /\ rows \in [Owners -> SUBSET Row] /\ \A p \in Owners : IsFiniteSet(rows[p])
      /\ stored \in [Owners -> Retention \cup {None}]
      /\ op[o] \in Operation /\ OpOK(o)
  BY DEF ShapeInv, BusTyped
<1>2. op[o].kind \in Mutation
  BY <1>1 DEF Operation, OpOK, Mutation, PublishSteps
<1>3. CASE op[o].kind = "read"
  <2> DEFINE T == {[r EXCEPT !.read = TRUE] : r \in rows[o]}
  <2>1. T \in SUBSET Row /\ IsFiniteSet(T) BY <1>1, MarkedTyped
  <2>2. rows' = [rows EXCEPT ![o] = T] /\ stored' = stored
    BY <1>3 DEF Mutated
  <2> HIDE DEF T
  <2> QED BY <1>1, <2>1, <2>2
<1>4. CASE op[o].kind = "delete"
  <2> DEFINE T == {r \in rows[o] : r.event.kind \notin op[o].filter}
  <2>1. T \in SUBSET Row /\ IsFiniteSet(T) BY <1>1, FS_Subset
  <2>2. rows' = [rows EXCEPT ![o] = T] /\ stored' = stored
    BY <1>4 DEF Mutated
  <2> HIDE DEF T
  <2> QED BY <1>1, <2>1, <2>2
<1>5. CASE op[o].kind = "settings"
  <2> DEFINE T == Trimmed(rows[o], op[o].settings.max)
  <2>1. T \in SUBSET Row /\ IsFiniteSet(T) BY <1>1, TrimmedTyped
  <2>2. rows' = [rows EXCEPT ![o] = T]
        /\ stored' = [stored EXCEPT ![o] = op[o].settings]
    BY <1>5 DEF Mutated
  <2>3. op[o].settings \in Retention BY <1>1, <1>5 DEF Operation, OpOK
  <2> HIDE DEF T
  <2> QED BY <1>1, <2>1, <2>2, <2>3
<1> QED BY <1>2, <1>3, <1>4, <1>5 DEF Mutation

LEMMA SqlTyped ==
    ASSUME ShapeInv, NEW o \in Owners, Sql(o)
    PROVE  ShapeInv'
<1>0. BusTyped /\ WriterOK /\ UnconfiguredOK /\ \A p \in Owners : OpOK(p)
  BY DEF ShapeInv
<1>1. UNCHANGED <<history, unread, cache, counts, admitted, queue, writer,
                 reader, published, mutations, restarts, seen, gone, acked,
                 configured>>
  BY DEF Sql, memoryVars, latchVars, tableVars, boundVars, ghostVars
<1>2. OpMoved(o)
  <2>1. op[o].kind \in Mutation
    BY <1>0 DEF Sql, BusTyped, Operation, OpOK, Mutation, PublishSteps
  <2>2. op' = [op EXCEPT ![o].step = "apply"] \/ op' = [op EXCEPT ![o] = Idle]
    BY DEF Sql
  <2> QED BY <1>1, <2>1, <2>2, GoesOn, GoesIdle DEF FlushedSteps, FlushSteps
<1>3. /\ disabled' = disabled \/ disabled' = TRUE
      /\ ready' = ready \/ ready' = TRUE
      /\ faults' = faults \/ faults' = faults + 1
  <2>1. disabled' = disabled \/ disabled' = TRUE
    BY DEF Sql, latchVars
  <2>2. ready' = ready \/ ready' = TRUE
    BY DEF Sql, latchVars
  <2>3. faults' = faults \/ faults' = faults + 1
    BY DEF Sql, StatementFault, SchemaFault, Fault
  <2> QED BY <2>1, <2>2, <2>3
<1>4. /\ disabled' \in BOOLEAN
      /\ ready' \in BOOLEAN
      /\ faults' \in Nat
  <2>1. disabled' \in BOOLEAN BY <1>0, <1>3 DEF BusTyped
  <2>2. ready' \in BOOLEAN BY <1>0, <1>3 DEF BusTyped
  <2>3. faults' \in Nat BY <1>0, <1>3 DEF BusTyped
  <2> QED BY <2>1, <2>2, <2>3
<1>5. /\ rows' \in [Owners -> SUBSET Row]
      /\ stored' \in [Owners -> Retention \cup {None}]
      /\ chosen' \in [Owners -> Retention]
      /\ \A p \in Owners : IsFiniteSet(rows'[p])
  <2>1. Mutated(o) \/ UNCHANGED tableVars BY DEF Sql
  <2>2. /\ rows' \in [Owners -> SUBSET Row]
        /\ \A p \in Owners : IsFiniteSet(rows'[p])
        /\ stored' \in [Owners -> Retention \cup {None}]
    <3>1. CASE Mutated(o) BY <3>1, MutatedTyped DEF Sql
    <3>2. CASE UNCHANGED tableVars BY <1>0, <3>2 DEF tableVars, BusTyped
    <3> QED BY <2>1, <3>1, <3>2
  <2>3. chosen' \in [Owners -> Retention]
    <3>1. op[o].kind = "settings" => op[o].settings \in Retention
      BY <1>0 DEF BusTyped, OpOK, Operation
    <3>2. chosen' = chosen \/ chosen' = Chosen(o) BY DEF Sql
    <3> QED BY <1>0, <3>1, <3>2 DEF Chosen, BusTyped
  <2> QED BY <2>2, <2>3
<1>6. BusTyped'
  BY <1>0, <1>1, <1>2, <1>5, <1>4 DEF OpMoved, BusTyped
<1>7. WriterOK'
  BY <1>0, <1>1, <1>3 DEF WriterOK
<1>8. UnconfiguredOK'
  <2>1. configured BY <1>0 DEF Sql, OpOK
  <2> QED BY <1>1, <2>1 DEF UnconfiguredOK
<1>9. \A p \in Owners : OpOK(p)'
  BY <1>0, <1>1, <1>2 DEF OpMoved, OpOK
<1> QED BY <1>6, <1>7, <1>8, <1>9 DEF ShapeInv

LEMMA KeptTyped ==
    ASSUME BusTyped, NEW o \in Owners
    PROVE  Kept(o) \in Seq(Events)
<1>1. history[o] \in Seq(Events) BY DEF BusTyped
<1>2. {i \in DOMAIN history[o] : ~Matching(o, i)} \in SUBSET (DOMAIN history[o])
  OBVIOUS
<1> QED BY <1>1, <1>2, PickedIs DEF Kept

(* What a mutation does to the memory.                                       *)
RemoveUnread(o) ==
    Lower(unread[o] - Cardinality({i \in DOMAIN history[o] :
              i > Len(history[o]) - unread[o] /\ Matching(o, i)}), Len(Kept(o)))

LEMMA RemoveUnreadTyped ==
    ASSUME BusTyped, NEW o \in Owners
    PROVE  RemoveUnread(o) \in Nat
<1> DEFINE h == history[o]  u == unread[o]
           gap == (Len(h) - u + 1) .. Len(h)
           T == {i \in DOMAIN h : i > Len(h) - u /\ Matching(o, i)}
<1>1. h \in Seq(Events) /\ u \in Nat BY DEF BusTyped
<1>2. Len(h) \in Nat /\ DOMAIN h = 1 .. Len(h) BY <1>1, LenProperties
<1>3. IsFiniteSet(gap) /\ Cardinality(gap) = u
  <2>1. Len(h) - u + 1 \in Int /\ Len(h) \in Int BY <1>1, <1>2
  <2>2. /\ IsFiniteSet(gap)
        /\ Cardinality(gap) = IF Len(h) - u + 1 > Len(h) THEN 0
                              ELSE Len(h) - (Len(h) - u + 1) + 1
    BY <2>1, FS_Interval
  <2>3. Len(h) - (Len(h) - u + 1) + 1 = u /\ (Len(h) - u + 1 > Len(h) => u = 0)
    BY <1>1, <1>2
  <2> HIDE DEF gap, h, u
  <2> QED BY <2>2, <2>3
<1>4. T \in SUBSET gap BY <1>1, <1>2
<1>5. IsFiniteSet(T) /\ Cardinality(T) <= u BY <1>3, <1>4, FS_Subset
<1>6. Cardinality(T) \in Nat BY <1>5, FS_CardinalityType
<1>7. Len(Kept(o)) \in Nat BY KeptTyped, LenProperties
<1>8. u - Cardinality(T) \in Nat BY <1>1, <1>5, <1>6
<1> HIDE DEF T
<1> QED BY <1>7, <1>8 DEF RemoveUnread, Lower, T

LEMMA ApplyIs ==
    ASSUME ShapeInv, NEW o \in Owners, Apply(o)
    PROVE  /\ op[o].kind \in Mutation
           /\ \/ /\ op[o].kind = "read" /\ configured /\ disabled
                 /\ op' = [op EXCEPT ![o] = Idle]
                 /\ UNCHANGED <<memoryVars, ghostVars>>
              \/ /\ ~(op[o].kind = "read" /\ configured /\ disabled)
                 /\ op' = [op EXCEPT ![o].step = "report"]
                 /\ op[o].kind = "read" =>
                      /\ unread' = [unread EXCEPT ![o] = 0]
                      /\ seen' = [seen EXCEPT ![o] = published]
                      /\ UNCHANGED <<history, cache, counts, admitted, chosen>>
                 /\ op[o].kind = "delete" =>
                      /\ history' = [history EXCEPT ![o] = Kept(o)]
                      /\ unread' = [unread EXCEPT ![o] = RemoveUnread(o)]
                      /\ ForgetCounts(o) /\ UNCHANGED <<cache, seen, chosen>>
                 /\ op[o].kind = "settings" =>
                      /\ cache' = [cache EXCEPT ![o] = op[o].settings]
                      /\ history' = [history EXCEPT ![o] =
                                        AtMost(history[o], op[o].settings.max)]
                      /\ unread' = [unread EXCEPT ![o] =
                                        Lower(unread[o], op[o].settings.max)]
                      /\ chosen' = [chosen EXCEPT ![o] = op[o].settings]
                      /\ ForgetCounts(o) /\ UNCHANGED seen
<1>1. op[o].kind \in Mutation
  BY DEF ShapeInv, Apply, BusTyped, Operation, OpOK, Mutation, PublishSteps
<1>2. CASE op[o].kind = "read" /\ configured /\ disabled
  BY <1>1, <1>2 DEF Apply
<1>3. CASE ~(op[o].kind = "read" /\ configured /\ disabled)
  <2>1. op' = [op EXCEPT ![o].step = "report"] BY <1>3 DEF Apply
  <2>2. CASE op[o].kind = "read" BY <1>1, <1>3, <2>1, <2>2 DEF Apply, Chosen
  <2>3. CASE op[o].kind = "delete"
    BY <1>1, <1>3, <2>1, <2>3 DEF Apply, Chosen, Remove, RemoveUnread
  <2>4. CASE op[o].kind = "settings" BY <1>1, <1>3, <2>1, <2>4 DEF Apply, Chosen
  <2> QED BY <1>1, <2>2, <2>3, <2>4 DEF Mutation
<1> QED BY <1>2, <1>3

LEMMA ApplyTyped ==
    ASSUME ShapeInv, NEW o \in Owners, Apply(o)
    PROVE  ShapeInv'
<1>0. BusTyped /\ WriterOK /\ UnconfiguredOK /\ \A p \in Owners : OpOK(p)
  BY DEF ShapeInv
<1>1. UNCHANGED <<disabled, ready, queue, writer, reader, rows, stored,
                 published, mutations, faults, restarts, gone, acked,
                 configured>>
  BY DEF Apply, memoryVars, latchVars, tableVars, boundVars, ghostVars
<1>2. OpMoved(o)
  <2>1. op[o].kind \in Mutation
        /\ (op' = [op EXCEPT ![o].step = "report"] \/ op' = [op EXCEPT ![o] = Idle])
    BY ApplyIs
  <2> QED BY <1>1, <2>1, GoesOn, GoesIdle DEF FlushedSteps, FlushSteps
<1>3. /\ history' \in [Owners -> Seq(Events)]
      /\ unread' \in [Owners -> Nat]
      /\ cache' \in [Owners -> Retention \cup {None}]
      /\ counts' \in [Owners -> Nat \cup {None}]
      /\ admitted' \in [Owners -> Nat \cup {None}]
      /\ seen' \in [Owners -> Nat]
      /\ chosen' \in [Owners -> Retention]
  <2>1. /\ history \in [Owners -> Seq(Events)] /\ unread \in [Owners -> Nat]
        /\ cache \in [Owners -> Retention \cup {None}]
        /\ counts \in [Owners -> Nat \cup {None}]
        /\ admitted \in [Owners -> Nat \cup {None}]
        /\ seen \in [Owners -> Nat] /\ chosen \in [Owners -> Retention]
        /\ published \in Nat
    BY <1>0 DEF BusTyped
  <2>2. CASE UNCHANGED <<memoryVars, ghostVars>>
    BY <2>1, <2>2 DEF memoryVars, ghostVars
  <2>3. CASE ~UNCHANGED <<memoryVars, ghostVars>> /\ op[o].kind = "read"
    <3>1. /\ unread' = [unread EXCEPT ![o] = 0]
          /\ seen' = [seen EXCEPT ![o] = published]
          /\ UNCHANGED <<history, cache, counts, admitted, chosen>>
      BY <2>3, ApplyIs
    <3> QED BY <2>1, <3>1
  <2>4. CASE ~UNCHANGED <<memoryVars, ghostVars>> /\ op[o].kind = "delete"
    <3>1. /\ history' = [history EXCEPT ![o] = Kept(o)]
          /\ unread' = [unread EXCEPT ![o] = RemoveUnread(o)]
          /\ counts' = [counts EXCEPT ![o] = None]
          /\ admitted' = [admitted EXCEPT ![o] = None]
          /\ UNCHANGED <<cache, seen, chosen>>
      BY <2>4, ApplyIs DEF ForgetCounts
    <3>2. Kept(o) \in Seq(Events) BY <1>0, KeptTyped
    <3>3. RemoveUnread(o) \in Nat BY <1>0, RemoveUnreadTyped
    <3> QED BY <2>1, <3>1, <3>2, <3>3
  <2>5. CASE ~UNCHANGED <<memoryVars, ghostVars>> /\ op[o].kind = "settings"
    <3>1. /\ cache' = [cache EXCEPT ![o] = op[o].settings]
          /\ history' = [history EXCEPT ![o] = AtMost(history[o], op[o].settings.max)]
          /\ unread' = [unread EXCEPT ![o] = Lower(unread[o], op[o].settings.max)]
          /\ chosen' = [chosen EXCEPT ![o] = op[o].settings]
          /\ counts' = [counts EXCEPT ![o] = None]
          /\ admitted' = [admitted EXCEPT ![o] = None]
          /\ seen' = seen
      BY <2>5, ApplyIs DEF ForgetCounts
    <3>2. op[o].settings \in Retention /\ op[o].settings.max \in Nat
      BY <1>0, <2>5 DEF BusTyped, Operation, OpOK, Retention
    <3>3. AtMost(history[o], op[o].settings.max) \in Seq(Events)
      BY <2>1, <3>2, AtMostIs
    <3>4. Lower(unread[o], op[o].settings.max) \in Nat
      BY <2>1, <3>2 DEF Lower
    <3> QED BY <2>1, <3>1, <3>2, <3>3, <3>4
  <2> QED BY <2>2, <2>3, <2>4, <2>5, ApplyIs DEF Mutation
<1>4. BusTyped'
  BY <1>0, <1>1, <1>2, <1>3 DEF OpMoved, BusTyped
<1>5. WriterOK'
  BY <1>0, <1>1 DEF WriterOK
<1>6. UnconfiguredOK'
  BY <1>0, <1>1 DEF UnconfiguredOK
<1>7. \A p \in Owners : OpOK(p)'
  BY <1>0, <1>1, <1>2 DEF OpMoved, OpOK
<1> QED BY <1>4, <1>5, <1>6, <1>7 DEF ShapeInv

LEMMA ReportTyped ==
    ASSUME ShapeInv, NEW o \in Owners, Report(o)
    PROVE  ShapeInv'
<1>0. BusTyped /\ WriterOK /\ UnconfiguredOK /\ \A p \in Owners : OpOK(p)
  BY DEF ShapeInv
<1>1. UNCHANGED <<history, unread, cache, counts, admitted, disabled, ready,
                 queue, writer, reader, rows, stored, published, mutations,
                 faults, restarts, seen, chosen, configured>>
  BY DEF Report, memoryVars, latchVars, tableVars, boundVars, ghostVars
<1>2. OpMoved(o)
  BY <1>1, GoesIdle DEF Report
<1>3. /\ gone' \in [Owners -> SUBSET (Nat \X Kinds)]
      /\ acked' \in [Owners -> Nat]
  <2>1. /\ gone \in [Owners -> SUBSET (Nat \X Kinds)] /\ acked \in [Owners -> Nat]
        /\ published \in Nat /\ op[o].filter \in SUBSET Kinds
    BY <1>0 DEF BusTyped, Operation
  <2>2. (1 .. published) \X op[o].filter \in SUBSET (Nat \X Kinds)
    BY <2>1
  <2>3. \/ gone' = gone
        \/ gone' = [gone EXCEPT ![o] = @ \cup ((1 .. published) \X op[o].filter)]
    BY DEF Report
  <2>4. acked' = acked \/ acked' = [acked EXCEPT ![o] = published]
    BY DEF Report
  <2>5. gone' \in [Owners -> SUBSET (Nat \X Kinds)]
    BY <2>1, <2>2, <2>3
  <2>6. acked' \in [Owners -> Nat] BY <2>1, <2>4
  <2> QED BY <2>5, <2>6
<1>4. BusTyped'
  BY <1>0, <1>1, <1>2, <1>3 DEF OpMoved, BusTyped
<1>5. WriterOK'
  BY <1>0, <1>1 DEF WriterOK
<1>6. UnconfiguredOK'
  BY <1>0, <1>1 DEF UnconfiguredOK
<1>7. \A p \in Owners : OpOK(p)'
  BY <1>0, <1>1, <1>2 DEF OpMoved, OpOK
<1> QED BY <1>4, <1>5, <1>6, <1>7 DEF ShapeInv

LEMMA CallerLeavesTyped ==
    ASSUME ShapeInv, NEW o \in Owners, CallerLeaves(o)
    PROVE  ShapeInv'
<1>0. BusTyped /\ WriterOK /\ UnconfiguredOK /\ \A p \in Owners : OpOK(p)
  BY DEF ShapeInv
<1>1. UNCHANGED <<history, unread, cache, counts, admitted, disabled, ready,
                 queue, writer, reader, rows, stored, published, mutations,
                 faults, restarts, seen, gone, acked, chosen, configured>>
  BY DEF CallerLeaves, memoryVars, latchVars, tableVars, boundVars, ghostVars
<1>2. OpMoved(o)
  <2>1. CASE op' = [op EXCEPT ![o] = Idle] BY <1>1, <2>1, GoesIdle
  <2>2. CASE op' = [op EXCEPT ![o] = [op[o] EXCEPT !.waiting = FALSE]]
    <3> DEFINE r == [op[o] EXCEPT !.waiting = FALSE]
    <3>1. op[o] \in Operation /\ OpOK(o) BY <1>0 DEF BusTyped
    <3>2. r \in Operation BY <3>1 DEF Operation
    <3>3. /\ r.kind = op[o].kind /\ r.step = op[o].step /\ r.event = op[o].event
          /\ r.settings = op[o].settings
      BY <3>1 DEF Operation
    <3> HIDE DEF r
    <3>4. op' \in [Owners -> Operation] /\ op'[o] = r
          /\ \A p \in Owners \ {o} : op'[p] = op[p]
      BY <1>0, <2>2, <3>2 DEF BusTyped, r
    <3>5. OpOK(o)' BY <1>1, <3>1, <3>3, <3>4 DEF OpOK
    <3> QED BY <3>4, <3>5 DEF OpMoved
  <2> QED BY <2>1, <2>2 DEF CallerLeaves
<1>3. BusTyped'
  BY <1>0, <1>1, <1>2 DEF OpMoved, BusTyped
<1>4. WriterOK'
  BY <1>0, <1>1 DEF WriterOK
<1>5. UnconfiguredOK'
  BY <1>0, <1>1 DEF UnconfiguredOK
<1>6. \A p \in Owners : OpOK(p)'
  BY <1>0, <1>1, <1>2 DEF OpMoved, OpOK
<1> QED BY <1>3, <1>4, <1>5, <1>6 DEF ShapeInv

LEMMA ReadMissTyped ==
    ASSUME ShapeInv, NEW o \in Owners, ReadMiss(o)
    PROVE  ShapeInv'
<1>0. BusTyped /\ WriterOK /\ UnconfiguredOK /\ \A p \in Owners : OpOK(p)
  BY DEF ShapeInv
<1>1. UNCHANGED <<history, unread, cache, counts, admitted, disabled, ready,
                 queue, writer, op, rows, stored, published, mutations,
                 faults, restarts, seen, gone, acked, chosen, configured>>
  BY DEF ReadMiss, memoryVars, latchVars, tableVars, boundVars, ghostVars
<1>2. reader' \in [Owners -> Retention \cup {None}]
  BY <1>0, ConstantsTyped DEF ReadMiss, BusTyped
<1>3. BusTyped'
  BY <1>0, <1>1, <1>2 DEF BusTyped
<1>4. WriterOK'
  BY <1>0, <1>1 DEF WriterOK
<1>5. UnconfiguredOK'
  BY <1>0, <1>1 DEF UnconfiguredOK
<1>6. \A p \in Owners : OpOK(p)'
  BY <1>0, <1>1 DEF OpOK
<1> QED BY <1>3, <1>4, <1>5, <1>6 DEF ShapeInv

LEMMA ReadStoreTyped ==
    ASSUME ShapeInv, NEW o \in Owners, ReadStore(o)
    PROVE  ShapeInv'
<1>0. BusTyped /\ WriterOK /\ UnconfiguredOK /\ \A p \in Owners : OpOK(p)
  BY DEF ShapeInv
<1>1. UNCHANGED <<history, unread, counts, admitted, disabled, ready, queue,
                 writer, op, rows, stored, published, mutations, faults,
                 restarts, seen, gone, acked, chosen, configured>>
  BY DEF ReadStore, memoryVars, latchVars, tableVars, boundVars, ghostVars
<1>2. /\ cache' \in [Owners -> Retention \cup {None}]
      /\ reader' \in [Owners -> Retention \cup {None}]
  BY <1>0, ConstantsTyped DEF ReadStore, Cached, BusTyped
<1>3. BusTyped'
  BY <1>0, <1>1, <1>2 DEF BusTyped
<1>4. WriterOK'
  BY <1>0, <1>1 DEF WriterOK
<1>5. UnconfiguredOK'
  BY <1>0, <1>1 DEF UnconfiguredOK
<1>6. \A p \in Owners : OpOK(p)'
  BY <1>0, <1>1 DEF OpOK
<1> QED BY <1>3, <1>4, <1>5, <1>6 DEF ShapeInv

(* A reply moves the one operation that awaits it.                           *)
LEMMA RepliedMoves ==
    ASSUME ShapeInv, NEW o \in Owners \cup {None}, NEW ok \in BOOLEAN,
           op' = Replied(o, ok), configured' = configured
    PROVE  /\ op' \in [Owners -> Operation] /\ \A p \in Owners : OpOK(p)'
           /\ \A p \in Owners \ {o} : op'[p] = op[p]
           /\ \A p \in Owners : op[p].step # "await" => op'[p] = op[p]
           /\ o \in Owners /\ op[o].step = "await" =>
                op'[o] = IF ok THEN [op[o] EXCEPT !.step = "sql"] ELSE Idle
<1>1. /\ op \in [Owners -> Operation] /\ \A p \in Owners : OpOK(p)
      /\ None \notin Owners
  BY ConstantsTyped DEF ShapeInv, BusTyped
<1>2. CASE o = None \/ op[o].step # "await"
  <2>1. op' = op BY <1>2 DEF Replied
  <2>2. \A p \in Owners : OpOK(p)' BY <1>1, <2>1 DEF OpOK
  <2> QED BY <1>1, <1>2, <2>1, <2>2
<1>3. CASE o # None /\ op[o].step = "await" /\ ok
  <2>1. op' = [op EXCEPT ![o].step = "sql"] BY <1>3 DEF Replied
  <2>2. op[o].kind \in Mutation /\ configured /\ o \in Owners
    BY <1>1, <1>3 DEF Operation, OpOK, Mutation, PublishSteps, FlushSteps
  <2>3. OpMoved(o) /\ op'[o] = [op[o] EXCEPT !.step = "sql"]
    BY <2>1, <2>2, GoesOn DEF FlushedSteps
  <2>4. \A p \in Owners : OpOK(p)'
    <3>1. OpOK(o)' /\ \A p \in Owners \ {o} : op'[p] = op[p] BY <2>3 DEF OpMoved
    <3>2. ASSUME NEW p \in Owners, p # o PROVE OpOK(p)'
      <4>1. OpOK(p) /\ op'[p] = op[p] BY <1>1, <3>1, <3>2
      <4> QED BY <4>1 DEF OpOK
    <3> QED BY <3>1, <3>2
  <2> QED BY <1>1, <1>3, <2>3, <2>4 DEF OpMoved
<1>4. CASE o # None /\ op[o].step = "await" /\ ~ok
  <2>1. op' = [op EXCEPT ![o] = Idle] /\ o \in Owners BY <1>4 DEF Replied
  <2>2. OpMoved(o) /\ op'[o] = Idle BY <2>1, GoesIdle
  <2>3. \A p \in Owners : OpOK(p)' BY <1>1, <2>2 DEF OpMoved, OpOK
  <2> QED BY <1>1, <1>4, <2>2, <2>3 DEF OpMoved
<1> QED BY <1>2, <1>3, <1>4

LEMMA ActiveTyped == ShapeInv => Active \in BOOLEAN
BY DEF ShapeInv, BusTyped, Active

LEMMA WriterParts ==
    ASSUME ShapeInv
    PROVE  /\ writer.step \in {"idle", "collect", "persist", "stopped"}
           /\ writer.batch \in Seq(Messages)
           /\ writer.barrier \in Owners \cup {None}
           /\ writer.trim \in Groups \cup {None}
           /\ writer = [step |-> writer.step, batch |-> writer.batch,
                        barrier |-> writer.barrier, trim |-> writer.trim]
           /\ queue \in Seq(Messages)
           /\ \A i \in DOMAIN writer.batch : writer.batch[i].type = "event"
           /\ writer.step \in {"idle", "stopped"} =>
                writer.batch = <<>> /\ writer.barrier = None /\ writer.trim = None
           /\ writer.step = "collect" => writer.barrier = None /\ writer.trim = None
           /\ ~configured => queue = <<>> /\ writer = WriterIdle
<1>1. writer \in WriterState /\ queue \in Seq(Messages)
  BY DEF ShapeInv, BusTyped
<1>2. writer.step \in {"idle", "stopped"} =>
                writer.batch = <<>> /\ writer.barrier = None /\ writer.trim = None
  BY <1>1 DEF ShapeInv, WriterOK, WriterIdle, WriterState
<1>3. writer = [step |-> writer.step, batch |-> writer.batch,
                barrier |-> writer.barrier, trim |-> writer.trim]
  BY <1>1 DEF WriterState
<1> QED BY <1>1, <1>2, <1>3 DEF ShapeInv, WriterState, WriterOK, UnconfiguredOK

LEMMA WriterTakeTyped ==
    ASSUME ShapeInv, WriterTake
    PROVE  ShapeInv'
<1>0. BusTyped /\ WriterOK /\ UnconfiguredOK /\ \A p \in Owners : OpOK(p)
  BY DEF ShapeInv
<1>1. UNCHANGED <<history, unread, cache, counts, admitted, reader, rows,
                 stored, published, mutations, restarts, seen, gone, acked,
                 chosen, configured>>
  BY DEF WriterTake, memoryVars, latchVars, tableVars, boundVars, ghostVars
<1>2. op' \in [Owners -> Operation] /\ \A p \in Owners : OpOK(p)'
  <2>1. queue # <<>> /\ queue \in Seq(Messages) BY <1>0 DEF WriterTake, BusTyped
  <2>2. Head(queue) \in Messages BY <2>1, TailIs
  <2>3. Head(queue).owner \in Owners BY <2>2, MessageParts
  <2>4. CASE op' = Replied(Head(queue).owner, Active)
    BY <1>1, <2>3, <2>4, RepliedMoves, ActiveTyped
  <2>5. CASE op' = op BY <1>0, <1>1, <2>5 DEF BusTyped, OpOK
  <2> QED BY <2>4, <2>5 DEF WriterTake
<1>3. /\ disabled' = disabled \/ disabled' = TRUE
      /\ ready' = ready \/ ready' = TRUE
      /\ faults' = faults \/ faults' = faults + 1
  <2>1. disabled' = disabled \/ disabled' = TRUE
    BY DEF WriterTake, latchVars
  <2>2. ready' = ready \/ ready' = TRUE
    BY DEF WriterTake, latchVars
  <2>3. faults' = faults \/ faults' = faults + 1
    BY DEF WriterTake, StatementFault, SchemaFault, Fault
  <2> QED BY <2>1, <2>2, <2>3
<1>4. /\ disabled' \in BOOLEAN
      /\ ready' \in BOOLEAN
      /\ faults' \in Nat
  <2>1. disabled' \in BOOLEAN BY <1>0, <1>3 DEF BusTyped
  <2>2. ready' \in BOOLEAN BY <1>0, <1>3 DEF BusTyped
  <2>3. faults' \in Nat BY <1>0, <1>3 DEF BusTyped
  <2> QED BY <2>1, <2>2, <2>3
<1>5. /\ queue' \in Seq(Messages)
      /\ writer' \in WriterState
  <2>1. queue # <<>> /\ queue \in Seq(Messages) BY <1>0 DEF WriterTake, BusTyped
  <2>2. Head(queue) \in Messages /\ Tail(queue) \in Seq(Messages)
    BY <2>1, TailIs
  <2>3. <<Head(queue)>> \in Seq(Messages) BY <2>2
  <2>4. \/ writer' = writer
        \/ writer' = [writer EXCEPT !.step = "collect", !.batch = <<Head(queue)>>]
    BY DEF WriterTake
  <2>5. writer' \in WriterState BY <1>0, <2>3, <2>4 DEF BusTyped, WriterState
  <2> QED BY <2>2, <2>5 DEF WriterTake
<1>6. BusTyped'
  BY <1>0, <1>1, <1>2, <1>5, <1>4 DEF BusTyped
<1>7. WriterOK'
  <2>1. CASE writer' = writer BY <1>0, <1>3, <2>1 DEF WriterOK
  <2>2. CASE writer' = [writer EXCEPT !.step = "collect", !.batch = <<Head(queue)>>]
             /\ Head(queue).type = "event"
    <3>1. /\ writer'.step = "collect" /\ writer'.batch = <<Head(queue)>>
          /\ writer'.barrier = None /\ writer'.trim = None
      BY <2>2, WriterParts DEF WriterTake
    <3> QED BY <2>2, <3>1 DEF WriterOK
  <2> QED BY <2>1, <2>2 DEF WriterTake
<1>8. UnconfiguredOK'
  <2>1. configured BY WriterParts DEF WriterTake
  <2> QED BY <1>1, <2>1 DEF UnconfiguredOK
<1>9. \A p \in Owners : OpOK(p)'
  BY <1>2
<1> QED BY <1>6, <1>7, <1>8, <1>9 DEF ShapeInv

LEMMA WriterCollectTyped ==
    ASSUME ShapeInv, WriterCollect
    PROVE  ShapeInv'
<1>0. BusTyped /\ WriterOK /\ UnconfiguredOK /\ \A p \in Owners : OpOK(p)
  BY DEF ShapeInv
<1>1. UNCHANGED <<history, unread, cache, counts, admitted, disabled, ready,
                 op, reader, rows, stored, published, mutations, faults,
                 restarts, seen, gone, acked, chosen, configured>>
  BY DEF WriterCollect, memoryVars, latchVars, tableVars, boundVars, ghostVars
<1>2. /\ queue' \in Seq(Messages)
      /\ writer' \in WriterState
  <2>1. queue # <<>> /\ queue \in Seq(Messages) BY <1>0 DEF WriterCollect, BusTyped
  <2>2. Head(queue) \in Messages /\ Tail(queue) \in Seq(Messages)
    BY <2>1, TailIs
  <2>3. Append(writer.batch, Head(queue)) \in Seq(Messages)
    BY <2>2, WriterParts, AppendIs
  <2>4. Head(queue).owner \in Owners BY <2>2, MessageParts
  <2>5. writer' \in WriterState
    BY <1>0, <2>3, <2>4 DEF WriterCollect, BusTyped, WriterState
  <2> QED BY <2>2, <2>5 DEF WriterCollect
<1>3. BusTyped'
  BY <1>0, <1>1, <1>2 DEF BusTyped
<1>4. WriterOK'
  <2>1. CASE Head(queue).type = "event"
    <3>1. /\ writer'.batch = Append(writer.batch, Head(queue))
          /\ writer'.step = "collect" /\ writer'.barrier = None /\ writer'.trim = None
      BY <2>1, WriterParts DEF WriterCollect
    <3>2. Head(queue) \in Messages BY WriterParts, TailIs DEF WriterCollect
    <3>3. \A i \in DOMAIN writer'.batch : writer'.batch[i].type = "event"
      <4>1. writer.batch \in Seq(Messages) /\ DOMAIN writer.batch = 1 .. Len(writer.batch)
            /\ \A i \in DOMAIN writer.batch : writer.batch[i].type = "event"
        BY WriterParts, LenProperties
      <4> QED BY <2>1, <3>1, <3>2, <4>1, AppendIs
    <3> QED BY <3>1, <3>3 DEF WriterOK
  <2>2. CASE Head(queue).type # "event"
    <3>1. writer'.batch = writer.batch /\ writer'.step = "persist"
      BY <2>2, WriterParts DEF WriterCollect
    <3> QED BY <3>1, WriterParts DEF WriterOK
  <2> QED BY <2>1, <2>2
<1>5. UnconfiguredOK'
  <2>1. configured
    <3>1. ~configured => writer = WriterIdle /\ queue = <<>> BY WriterParts
    <3> QED BY <3>1 DEF WriterCollect, WriterIdle
  <2> QED BY <1>1, <2>1 DEF UnconfiguredOK
<1>6. \A p \in Owners : OpOK(p)'
  BY <1>0, <1>1 DEF OpOK
<1> QED BY <1>3, <1>4, <1>5, <1>6 DEF ShapeInv

LEMMA WriterCloseTyped ==
    ASSUME ShapeInv, WriterClose
    PROVE  ShapeInv'
<1>0. BusTyped /\ WriterOK /\ UnconfiguredOK /\ \A p \in Owners : OpOK(p)
  BY DEF ShapeInv
<1>1. UNCHANGED <<history, unread, cache, counts, admitted, disabled, ready,
                 queue, op, reader, rows, stored, published, mutations,
                 faults, restarts, seen, gone, acked, chosen, configured>>
  BY DEF WriterClose, memoryVars, latchVars, tableVars, boundVars, ghostVars
<1>2. writer' \in WriterState
  BY <1>0 DEF WriterClose, BusTyped, WriterState
<1>3. BusTyped'
  BY <1>0, <1>1, <1>2 DEF BusTyped
<1>4. WriterOK'
  <2>1. writer'.batch = writer.batch /\ writer'.step = "persist"
    BY WriterParts DEF WriterClose
  <2> QED BY <2>1, WriterParts DEF WriterOK
<1>5. UnconfiguredOK'
  <2>1. configured
    <3>1. ~configured => writer = WriterIdle /\ queue = <<>> BY WriterParts
    <3> QED BY <3>1 DEF WriterClose, WriterIdle
  <2> QED BY <1>1, <2>1 DEF UnconfiguredOK
<1>6. \A p \in Owners : OpOK(p)'
  BY <1>0, <1>1 DEF OpOK
<1> QED BY <1>3, <1>4, <1>5, <1>6 DEF ShapeInv

LEMMA WriterGivesUpTyped ==
    ASSUME ShapeInv, WriterGivesUp
    PROVE  ShapeInv'
<1>0. BusTyped /\ WriterOK /\ UnconfiguredOK /\ \A p \in Owners : OpOK(p)
  BY DEF ShapeInv
<1>1. UNCHANGED <<history, unread, cache, counts, admitted, disabled, ready,
                 queue, op, reader, rows, stored, published, mutations,
                 faults, restarts, seen, gone, acked, chosen, configured>>
  BY DEF WriterGivesUp, memoryVars, latchVars, tableVars, boundVars, ghostVars
<1>2. writer' \in WriterState
  <2>1. <<>> \in Seq(Messages) OBVIOUS
  <2> QED BY <1>0, <2>1 DEF WriterGivesUp, BusTyped, WriterState
<1>3. BusTyped'
  BY <1>0, <1>1, <1>2 DEF BusTyped
<1>4. WriterOK'
  <2>1. writer'.batch = <<>> /\ writer'.step = "persist"
    BY WriterParts DEF WriterGivesUp
  <2> QED BY <2>1 DEF WriterOK
<1>5. UnconfiguredOK'
  <2>1. configured
    <3>1. ~configured => writer = WriterIdle /\ queue = <<>> BY WriterParts
    <3> QED BY <3>1 DEF WriterGivesUp, WriterIdle
  <2> QED BY <1>1, <2>1 DEF UnconfiguredOK
<1>6. \A p \in Owners : OpOK(p)'
  BY <1>0, <1>1 DEF OpOK
<1> QED BY <1>3, <1>4, <1>5, <1>6 DEF ShapeInv

LEMMA WriterDoneTyped ==
    ASSUME ShapeInv, WriterDone
    PROVE  ShapeInv'
<1>0. BusTyped /\ WriterOK /\ UnconfiguredOK /\ \A p \in Owners : OpOK(p)
  BY DEF ShapeInv
<1>1. UNCHANGED <<history, unread, cache, counts, admitted, disabled, ready,
                 queue, reader, rows, stored, published, mutations, faults,
                 restarts, seen, gone, acked, chosen, configured>>
  BY DEF WriterDone, memoryVars, latchVars, tableVars, boundVars, ghostVars
<1>2. op' \in [Owners -> Operation] /\ \A p \in Owners : OpOK(p)'
  BY <1>1, RepliedMoves, ActiveTyped, WriterParts DEF WriterDone
<1>3. writer' \in WriterState
  BY ConstantsTyped DEF WriterDone
<1>4. BusTyped'
  BY <1>0, <1>1, <1>2, <1>3 DEF BusTyped
<1>5. WriterOK'
  BY DEF WriterDone, WriterOK, WriterIdle
<1>6. UnconfiguredOK'
  <2>1. configured
    <3>1. ~configured => writer = WriterIdle /\ queue = <<>> BY WriterParts
    <3> QED BY <3>1 DEF WriterDone, WriterIdle
  <2> QED BY <1>1, <2>1 DEF UnconfiguredOK
<1>7. \A p \in Owners : OpOK(p)'
  BY <1>2
<1> QED BY <1>4, <1>5, <1>6, <1>7 DEF ShapeInv

(* What the writer does with a group.                                        *)
GroupCount(g) ==
    IF counts[g.owner] = None THEN Cardinality(rows[g.owner]) ELSE counts[g.owner]
Room(g) ==
    IF g.settings.max > GroupCount(g) THEN g.settings.max - GroupCount(g) ELSE 0
Fit(g) ==
    IF g.settings.policy = "drop_new"
    THEN Lower(Len(Members(writer.batch, g)), Room(g))
    ELSE Len(Members(writer.batch, g))
Stops == disabled' = TRUE /\ writer' = WriterStopped /\ queue' = <<>>
Goes(g) ==
    /\ writer' = [writer EXCEPT !.batch = Others(writer.batch, g),
                      !.trim = IF g.settings.policy = "drop_oldest" THEN g ELSE None]
    /\ UNCHANGED <<disabled, queue>>

LEMMA PersistIs ==
    ASSUME NEW g \in Groups, PersistGroup(g)
    PROVE  /\ writer.step = "persist" /\ writer.trim = None
           /\ Members(writer.batch, g) # <<>> /\ Active
           /\ \/ /\ Goes(g)
                 /\ \E copies \in Copies :
                      /\ rows' = [rows EXCEPT ![g.owner] =
                            Inserted(@, Members(writer.batch, g), Fit(g), copies)]
                      /\ faults' = faults + copies - 1
                 /\ counts' = IF g.settings.policy = "drop_new"
                              THEN [counts EXCEPT ![g.owner] = GroupCount(g) + Fit(g)]
                              ELSE counts
              \/ Stops /\ UNCHANGED <<rows, counts>> /\ Fault("query")
              \/ /\ Stops /\ Fault("lost") /\ UNCHANGED counts
                 /\ rows' = [rows EXCEPT ![g.owner] =
                            Inserted(@, Members(writer.batch, g), Fit(g), 1)]
           /\ UNCHANGED <<history, unread, cache, admitted, ready, op, reader,
                          stored, published, mutations, restarts, ghostVars>>
BY DEF PersistGroup, Fit, Room, GroupCount, Stop, Stops, Goes

LEMMA MembersAre ==
    ASSUME NEW b \in Seq(Messages), NEW g
    PROVE  /\ Members(b, g) \in Seq(Messages)
           /\ \A j \in DOMAIN Members(b, g) :
                \E i \in DOMAIN b : Members(b, g)[j] = b[i] /\ GroupOf(b[i]) = g
           /\ Others(b, g) \in Seq(Messages)
           /\ \A j \in DOMAIN Others(b, g) :
                \E i \in DOMAIN b : Others(b, g)[j] = b[i] /\ GroupOf(b[i]) # g
<1>1. {i \in DOMAIN b : GroupOf(b[i]) = g} \in SUBSET (DOMAIN b)
      /\ {i \in DOMAIN b : GroupOf(b[i]) # g} \in SUBSET (DOMAIN b)
  OBVIOUS
<1>2. Members(b, g) \in Seq(Messages) /\ Others(b, g) \in Seq(Messages)
  BY <1>1, PickedIs DEF Members, Others
<1>3. \A j \in DOMAIN Members(b, g) :
        \E i \in {i \in DOMAIN b : GroupOf(b[i]) = g} : Members(b, g)[j] = b[i]
  BY <1>1, PickedIs DEF Members
<1>4. \A j \in DOMAIN Others(b, g) :
        \E i \in {i \in DOMAIN b : GroupOf(b[i]) # g} : Others(b, g)[j] = b[i]
  BY <1>1, PickedIs DEF Others
<1> QED BY <1>2, <1>3, <1>4

LEMMA RankTyped ==
    ASSUME NEW requests \in Seq(Messages), NEW i
    PROVE  Rank(requests, i) \in Nat
<1> DEFINE T == {k \in DOMAIN requests :
              \/ requests[k].event.at < requests[i].event.at
              \/ requests[k].event.at = requests[i].event.at /\ k <= i}
<1>1. IsFiniteSet(DOMAIN requests) BY LenProperties, FS_Interval
<1>2. IsFiniteSet(T) BY <1>1, FS_Subset
<1> QED BY <1>2, FS_CardinalityType DEF Rank

(* An insert adds unread rows for some of the requested events.              *)
NewRows(table, requests, n, c) ==
    {[key |-> TopKey(table) + c * n + Rank(requests, i),
      event |-> requests[i].event, read |-> FALSE] :
        i \in {k \in DOMAIN requests : Rank(requests, k) <= n}}

LEMMA NewRowsTyped ==
    ASSUME NEW table \in SUBSET Row, IsFiniteSet(table),
           NEW requests \in Seq(Messages), NEW n \in Nat, NEW c \in Nat,
           \A i \in DOMAIN requests : requests[i].type = "event"
    PROVE  /\ NewRows(table, requests, n, c) \in SUBSET Row
           /\ IsFiniteSet(NewRows(table, requests, n, c))
           /\ \A r \in NewRows(table, requests, n, c) :
                /\ r.read = FALSE /\ r.key >= TopKey(table) + c * n
                /\ \E i \in DOMAIN requests : r.event = requests[i].event
<1> DEFINE F == {k \in DOMAIN requests : Rank(requests, k) <= n}
           new(i) == [key |-> TopKey(table) + c * n + Rank(requests, i),
                      event |-> requests[i].event, read |-> FALSE]
           f == [i \in F |-> new(i)]
           N == {new(i) : i \in F}
<1>1. N = NewRows(table, requests, n, c) BY DEF NewRows
<1>2. IsFiniteSet(DOMAIN requests) BY LenProperties, FS_Interval
<1>3. IsFiniteSet(F) BY <1>2, FS_Subset
<1>4. f \in Surjection(F, N) BY DEF Surjection
<1>5. IsFiniteSet(N) BY <1>3, <1>4, FS_Surjection
<1>6. TopKey(table) \in Nat BY TopKeyIsTop
<1>7. c * n \in Nat OBVIOUS
<1>8. ASSUME NEW i \in F
      PROVE  new(i) \in Row /\ new(i).key >= TopKey(table) + c * n
  <2>1. requests[i] \in Messages BY ElementOfSeq, LenProperties
  <2>2. requests[i].event \in Events BY <2>1, MessageParts
  <2>3. Rank(requests, i) \in Nat BY RankTyped
  <2>4. /\ TopKey(table) + c * n + Rank(requests, i) \in Nat
        /\ TopKey(table) + c * n + Rank(requests, i) >= TopKey(table) + c * n
    BY <1>6, <1>7, <2>3
  <2> QED BY <2>2, <2>4 DEF Row
<1>9. ASSUME NEW r \in N
      PROVE  /\ r \in Row /\ r.read = FALSE /\ r.key >= TopKey(table) + c * n
             /\ \E i \in DOMAIN requests : r.event = requests[i].event
  <2>1. PICK i \in F : r = new(i) OBVIOUS
  <2>2. r \in Row /\ r.key >= TopKey(table) + c * n BY <1>8, <2>1
  <2>3. r.read = FALSE /\ r.event = requests[i].event BY <2>1
  <2> QED BY <2>2, <2>3
<1> QED BY <1>1, <1>5, <1>9

LEMMA InsertedIs ==
    ASSUME NEW table \in SUBSET Row, IsFiniteSet(table),
           NEW requests \in Seq(Messages), NEW n \in Nat, NEW copies \in 1 .. 2,
           \A i \in DOMAIN requests : requests[i].type = "event"
    PROVE  /\ Inserted(table, requests, n, copies) \in SUBSET Row
           /\ IsFiniteSet(Inserted(table, requests, n, copies))
           /\ table \subseteq Inserted(table, requests, n, copies)
           /\ \A r \in Inserted(table, requests, n, copies) \ table :
                /\ r.read = FALSE
                /\ \E i \in DOMAIN requests : r.event = requests[i].event
           /\ copies = 1 => Inserted(table, requests, n, copies) =
                                table \cup NewRows(table, requests, n, 0)
<1> DEFINE F == {k \in DOMAIN requests : Rank(requests, k) <= n}
           new(i, c) == [key |-> TopKey(table) + c * n + Rank(requests, i),
                         event |-> requests[i].event, read |-> FALSE]
<1>1. \A c : c \in 0 .. copies - 1 <=> c = 0 \/ (copies = 2 /\ c = 1) OBVIOUS
<1>2. Inserted(table, requests, n, copies) =
        table \cup NewRows(table, requests, n, 0)
        \cup (IF copies = 1 THEN {} ELSE NewRows(table, requests, n, 1))
  <2>1. Inserted(table, requests, n, copies) =
            table \cup {new(i, c) : i \in F, c \in 0 .. copies - 1}
    BY DEF Inserted
  <2>2. \A c : NewRows(table, requests, n, c) = {new(i, c) : i \in F}
    BY DEF NewRows
  <2> HIDE DEF new, F
  <2>3. \A r : r \in {new(i, c) : i \in F, c \in 0 .. copies - 1}
               <=> \E i \in F, c \in 0 .. copies - 1 : r = new(i, c)
    OBVIOUS
  <2>4. \A c, r : r \in NewRows(table, requests, n, c) <=> \E i \in F : r = new(i, c)
    BY <2>2
  <2>5. copies = 1 \/ copies = 2 OBVIOUS
  <2>6. ASSUME NEW r
        PROVE  r \in {new(i, c) : i \in F, c \in 0 .. copies - 1}
               <=> \/ r \in NewRows(table, requests, n, 0)
                   \/ copies = 2 /\ r \in NewRows(table, requests, n, 1)
    BY <1>1, <2>3, <2>4
  <2> QED BY <2>1, <2>5, <2>6
<1>3. ASSUME NEW c \in Nat
      PROVE  /\ NewRows(table, requests, n, c) \in SUBSET Row
             /\ IsFiniteSet(NewRows(table, requests, n, c))
             /\ \A r \in NewRows(table, requests, n, c) :
                  /\ r.read = FALSE
                  /\ \E i \in DOMAIN requests : r.event = requests[i].event
  <2> HIDE DEF F, new
  <2>1. /\ NewRows(table, requests, n, c) \in SUBSET Row
        /\ IsFiniteSet(NewRows(table, requests, n, c))
    BY NewRowsTyped
  <2>2. ASSUME NEW r \in NewRows(table, requests, n, c)
        PROVE  r.read = FALSE /\ \E i \in DOMAIN requests : r.event = requests[i].event
    <3>1. \A q \in NewRows(table, requests, n, c) :
            /\ q.read = FALSE /\ q.key >= TopKey(table) + c * n
            /\ \E i \in DOMAIN requests : q.event = requests[i].event
      BY NewRowsTyped
    <3> QED BY <3>1
  <2> QED BY <2>1, <2>2
<1>4. IsFiniteSet(table \cup NewRows(table, requests, n, 0)) BY <1>3, FS_Union
<1>5. IsFiniteSet(table \cup NewRows(table, requests, n, 0)
                  \cup NewRows(table, requests, n, 1))
  BY <1>3, <1>4, FS_Union
<1> QED BY <1>2, <1>3, <1>4, <1>5

LEMMA FitTyped ==
    ASSUME ShapeInv, NEW g \in Groups
    PROVE  /\ GroupCount(g) \in Nat /\ Fit(g) \in Nat
           /\ Fit(g) <= Len(Members(writer.batch, g))
           /\ Len(Members(writer.batch, g)) \in Nat
<1>1. /\ g.owner \in Owners /\ g.settings \in Retention /\ g.settings.max \in Nat
  BY DEF Groups, Retention
<1>2. Len(Members(writer.batch, g)) \in Nat
  BY WriterParts, MembersAre, LenProperties
<1>3. GroupCount(g) \in Nat
  BY <1>1, FS_CardinalityType DEF ShapeInv, BusTyped, GroupCount
<1>4. Room(g) \in Nat BY <1>1, <1>3 DEF Room
<1> QED BY <1>2, <1>3, <1>4 DEF Fit, Lower

LEMMA CopiesAre == Copies \subseteq 1 .. 2 /\ ("lost" \notin Faults => Copies = {1})
BY DEF Copies

LEMMA PersistGroupTyped ==
    ASSUME ShapeInv, NEW g \in Groups, PersistGroup(g)
    PROVE  ShapeInv'
<1>0. BusTyped /\ WriterOK /\ UnconfiguredOK /\ \A p \in Owners : OpOK(p)
  BY DEF ShapeInv
<1>1. UNCHANGED <<history, unread, cache, admitted, ready, op, reader,
                 stored, published, mutations, restarts, seen, gone, acked,
                 chosen, configured>>
  BY DEF PersistGroup, memoryVars, latchVars, tableVars, boundVars, ghostVars
<1>2. disabled => disabled' BY PersistIs DEF Goes, Stops
<1>3. Members(writer.batch, g) \in Seq(Messages)
      /\ \A j \in DOMAIN Members(writer.batch, g) :
            Members(writer.batch, g)[j].type = "event"
  BY WriterParts, MembersAre
<1>4. /\ counts' \in [Owners -> Nat \cup {None}]
      /\ disabled' \in BOOLEAN
      /\ queue' \in Seq(Messages)
      /\ writer' \in WriterState
      /\ rows' \in [Owners -> SUBSET Row]
      /\ faults' \in Nat
      /\ \A p \in Owners : IsFiniteSet(rows'[p])
  <2>1. g.owner \in Owners BY DEF Groups
  <2>2. ASSUME NEW copies \in 1 .. 2,
               rows' = [rows EXCEPT ![g.owner] =
                            Inserted(@, Members(writer.batch, g), Fit(g), copies)]
        PROVE  rows' \in [Owners -> SUBSET Row] /\ \A p \in Owners : IsFiniteSet(rows'[p])
    <3> DEFINE T == Inserted(rows[g.owner], Members(writer.batch, g), Fit(g), copies)
    <3>1. rows[g.owner] \in SUBSET Row /\ IsFiniteSet(rows[g.owner])
      BY <1>0, <2>1 DEF BusTyped
    <3>2. T \in SUBSET Row /\ IsFiniteSet(T)
      BY <1>3, <3>1, FitTyped, InsertedIs
    <3>3. rows' = [rows EXCEPT ![g.owner] = T] BY <2>2
    <3> HIDE DEF T
    <3> QED BY <1>0, <2>1, <3>2, <3>3 DEF BusTyped
  <2>3. rows' \in [Owners -> SUBSET Row] /\ \A p \in Owners : IsFiniteSet(rows'[p])
    <3>1. CASE rows' = rows BY <1>0, <3>1 DEF BusTyped
    <3>2. CASE rows' # rows
      <4>1. \E copies \in 1 .. 2 : rows' = [rows EXCEPT ![g.owner] =
                            Inserted(@, Members(writer.batch, g), Fit(g), copies)]
        BY <3>2, PersistIs, CopiesAre
      <4> QED BY <2>2, <4>1
    <3> QED BY <3>1, <3>2
  <2>4. faults' \in Nat
    <3>1. faults \in Nat BY <1>0 DEF BusTyped
    <3>2. faults' = faults + 1 \/ \E copies \in 1 .. 2 : faults' = faults + copies - 1
      BY PersistIs, CopiesAre DEF Fault
    <3> QED BY <3>1, <3>2
  <2>5. counts' \in [Owners -> Nat \cup {None}]
    <3>1. GroupCount(g) + Fit(g) \in Nat BY FitTyped
    <3>2. counts' = counts \/ counts' = [counts EXCEPT ![g.owner] = GroupCount(g) + Fit(g)]
      BY PersistIs
    <3>3. counts \in [Owners -> Nat \cup {None}] BY <1>0 DEF BusTyped
    <3> QED BY <3>1, <3>2, <3>3
  <2>6. writer' \in WriterState
    <3>1. Others(writer.batch, g) \in Seq(Messages) BY WriterParts, MembersAre
    <3>2. writer \in WriterState BY <1>0 DEF BusTyped
    <3>3. CASE Stops BY <3>3, ConstantsTyped DEF Stops
    <3>4. CASE Goes(g) BY <3>1, <3>2, <3>4 DEF Goes, WriterState
    <3> QED BY <3>3, <3>4, PersistIs
  <2>7. queue' \in Seq(Messages)
    <3>1. <<>> \in Seq(Messages) OBVIOUS
    <3> QED BY <1>0, <3>1, PersistIs DEF Goes, Stops, BusTyped
  <2>8. disabled' \in BOOLEAN BY <1>0, PersistIs DEF Goes, Stops, BusTyped
  <2> QED BY <2>3, <2>4, <2>5, <2>6, <2>7, <2>8
<1>5. BusTyped'
  BY <1>0, <1>1, <1>4 DEF BusTyped
<1>6. WriterOK'
  <2>1. CASE Stops BY <2>1 DEF Stops, WriterOK, WriterStopped, WriterIdle
  <2>2. CASE Goes(g)
    <3>1. writer'.step = "persist" /\ writer'.batch = Others(writer.batch, g)
      BY <2>2, WriterParts, PersistIs DEF Goes
    <3>2. \A j \in DOMAIN Others(writer.batch, g) :
            Others(writer.batch, g)[j].type = "event"
      BY WriterParts, MembersAre
    <3> QED BY <3>1, <3>2 DEF WriterOK
  <2> QED BY <2>1, <2>2, PersistIs
<1>7. UnconfiguredOK'
  <2>1. configured BY PersistIs DEF Active
  <2> QED BY <1>1, <2>1 DEF UnconfiguredOK
<1>8. \A p \in Owners : OpOK(p)'
  BY <1>0, <1>1 DEF OpOK
<1> QED BY <1>5, <1>6, <1>7, <1>8 DEF ShapeInv

LEMMA TrimGroupTyped ==
    ASSUME ShapeInv, TrimGroup
    PROVE  ShapeInv'
<1>0. BusTyped /\ WriterOK /\ UnconfiguredOK /\ \A p \in Owners : OpOK(p)
  BY DEF ShapeInv
<1>1. UNCHANGED <<history, unread, cache, counts, admitted, ready, op,
                 reader, stored, published, mutations, restarts, seen, gone,
                 acked, chosen, configured>>
  BY DEF TrimGroup, memoryVars, latchVars, tableVars, boundVars, ghostVars
<1>2. disabled => disabled' BY DEF TrimGroup, Stop
<1>3. writer.trim \in Groups /\ writer.trim.owner \in Owners
  BY WriterParts DEF TrimGroup, Groups
<1>4. \/ /\ rows' = [rows EXCEPT ![writer.trim.owner] =
                        Trimmed(rows[writer.trim.owner], writer.trim.settings.max)]
         /\ writer' = [writer EXCEPT !.trim = None] /\ UNCHANGED <<disabled, queue>>
      \/ rows' = rows /\ Stops
  BY DEF TrimGroup, Stop, Stops
<1>5. /\ faults' = faults \/ faults' = faults + 1
  <2>1. faults' = faults \/ faults' = faults + 1
    BY DEF TrimGroup, StatementFault, SchemaFault, Fault
  <2> QED BY <2>1
<1>6. /\ faults' \in Nat
  <2>1. faults' \in Nat BY <1>0, <1>5 DEF BusTyped
  <2> QED BY <2>1
<1>7. /\ disabled' \in BOOLEAN
      /\ queue' \in Seq(Messages)
      /\ writer' \in WriterState
      /\ rows' \in [Owners -> SUBSET Row]
      /\ \A p \in Owners : IsFiniteSet(rows'[p])
  <2>1. rows' \in [Owners -> SUBSET Row] /\ \A p \in Owners : IsFiniteSet(rows'[p])
    <3> DEFINE T == Trimmed(rows[writer.trim.owner], writer.trim.settings.max)
    <3>1. T \in SUBSET Row /\ IsFiniteSet(T) BY <1>0, <1>3, TrimmedTyped DEF BusTyped
    <3>2. rows' = rows \/ rows' = [rows EXCEPT ![writer.trim.owner] = T] BY <1>4
    <3> HIDE DEF T
    <3> QED BY <1>0, <1>3, <3>1, <3>2 DEF BusTyped
  <2>2. writer' \in WriterState
    <3>1. CASE Stops BY <3>1, ConstantsTyped DEF Stops
    <3>2. CASE writer' = [writer EXCEPT !.trim = None]
      BY <1>0, <3>2 DEF BusTyped, WriterState
    <3> QED BY <1>4, <3>1, <3>2
  <2>3. queue' \in Seq(Messages)
    <3>1. <<>> \in Seq(Messages) OBVIOUS
    <3> QED BY <1>0, <1>4, <3>1 DEF Stops, BusTyped
  <2>4. disabled' \in BOOLEAN BY <1>0, <1>4 DEF Stops, BusTyped
  <2> QED BY <2>1, <2>2, <2>3, <2>4
<1>8. BusTyped'
  BY <1>0, <1>1, <1>7, <1>6 DEF BusTyped
<1>9. WriterOK'
  <2>1. CASE Stops BY <2>1 DEF Stops, WriterOK, WriterStopped, WriterIdle
  <2>2. CASE writer' = [writer EXCEPT !.trim = None]
    <3>1. writer'.step = "persist" /\ writer'.batch = writer.batch
      BY <1>3, <2>2, WriterParts, ConstantsTyped
    <3> QED BY <3>1, WriterParts DEF WriterOK
  <2> QED BY <1>4, <2>1, <2>2
<1>10. UnconfiguredOK'
  <2>1. configured
    <3>1. ~configured => writer = WriterIdle /\ queue = <<>> BY WriterParts
    <3> QED BY <3>1 DEF TrimGroup, WriterIdle
  <2> QED BY <1>1, <2>1 DEF UnconfiguredOK
<1>11. \A p \in Owners : OpOK(p)'
  BY <1>0, <1>1 DEF OpOK
<1> QED BY <1>8, <1>9, <1>10, <1>11 DEF ShapeInv

LEMMA CountExpiresTyped ==
    ASSUME ShapeInv, NEW o \in Owners, CountExpires(o)
    PROVE  ShapeInv'
<1>0. BusTyped /\ WriterOK /\ UnconfiguredOK /\ \A p \in Owners : OpOK(p)
  BY DEF ShapeInv
<1>1. UNCHANGED <<history, unread, cache, admitted, disabled, ready, queue,
                 writer, op, reader, rows, stored, published, mutations,
                 faults, restarts, seen, gone, acked, chosen, configured>>
  BY DEF CountExpires, memoryVars, latchVars, tableVars, boundVars, ghostVars
<1>2. counts' \in [Owners -> Nat \cup {None}]
  BY <1>0 DEF CountExpires, BusTyped
<1>3. BusTyped'
  BY <1>0, <1>1, <1>2 DEF BusTyped
<1>4. WriterOK'
  BY <1>0, <1>1 DEF WriterOK
<1>5. UnconfiguredOK'
  BY <1>0, <1>1 DEF UnconfiguredOK
<1>6. \A p \in Owners : OpOK(p)'
  BY <1>0, <1>1 DEF OpOK
<1> QED BY <1>3, <1>4, <1>5, <1>6 DEF ShapeInv

LEMMA RestartTyped ==
    ASSUME ShapeInv, Restart
    PROVE  ShapeInv'
<1>0. BusTyped /\ WriterOK /\ UnconfiguredOK /\ \A p \in Owners : OpOK(p)
  BY DEF ShapeInv
<1>1. UNCHANGED <<rows, stored, published, mutations, faults, seen, gone,
                 acked, chosen, configured>>
  BY DEF Restart, memoryVars, latchVars, tableVars, boundVars, ghostVars
<1>2. op' \in [Owners -> Operation] /\ \A p \in Owners : op'[p] = Idle
  BY ConstantsTyped DEF Restart
<1>3. /\ history' \in [Owners -> Seq(Events)]
      /\ unread' \in [Owners -> Nat]
      /\ cache' \in [Owners -> Retention \cup {None}]
      /\ counts' \in [Owners -> Nat \cup {None}]
      /\ admitted' \in [Owners -> Nat \cup {None}]
      /\ disabled' \in BOOLEAN
      /\ ready' \in BOOLEAN
      /\ queue' \in Seq(Messages)
      /\ writer' \in WriterState
      /\ reader' \in [Owners -> Retention \cup {None}]
      /\ restarts' \in Nat
  <2>1. <<>> \in Seq(Messages) /\ <<>> \in Seq(Events) OBVIOUS
  <2>2. /\ history' \in [Owners -> Seq(Events)] /\ unread' \in [Owners -> Nat]
        /\ queue' \in Seq(Messages)
    BY <2>1 DEF Restart
  <2>3. writer' \in WriterState /\ restarts' \in Nat
    BY <1>0, ConstantsTyped DEF Restart, BusTyped
  <2>4. /\ cache' \in [Owners -> Retention \cup {None}]
        /\ counts' \in [Owners -> Nat \cup {None}]
        /\ admitted' \in [Owners -> Nat \cup {None}]
        /\ reader' \in [Owners -> Retention \cup {None}]
        /\ disabled' \in BOOLEAN /\ ready' \in BOOLEAN
    BY DEF Restart
  <2> QED BY <2>2, <2>3, <2>4
<1>4. BusTyped'
  BY <1>0, <1>1, <1>2, <1>3 DEF BusTyped
<1>5. WriterOK'
  BY DEF Restart, WriterOK, WriterIdle
<1>6. UnconfiguredOK'
  BY <1>1 DEF Restart, UnconfiguredOK
<1>7. \A p \in Owners : OpOK(p)'
  BY <1>2 DEF OpOK, Mutation, PublishSteps, FlushSteps, FlushedSteps, Idle
<1> QED BY <1>4, <1>5, <1>6, <1>7 DEF ShapeInv

-----------------------------------------------------------------------------
(* Events move from publishers through queue and writer to the tables.       *)
LEMMA PendingIs ==
    ASSUME NEW o, NEW e
    PROVE  e \in Pending(o) <=>
             \/ \E i \in DOMAIN queue :
                  queue[i].type = "event" /\ queue[i].owner = o /\ e = queue[i].event
             \/ \E i \in DOMAIN writer.batch :
                  /\ writer.batch[i].type = "event" /\ writer.batch[i].owner = o
                  /\ e = writer.batch[i].event
<1>1. \A r : r \in Requests(queue) <=>
            \E i \in DOMAIN queue : queue[i].type = "event" /\ r = queue[i]
  BY DEF Requests
<1>2. \A r : r \in Requests(writer.batch) <=>
            \E i \in DOMAIN writer.batch :
                writer.batch[i].type = "event" /\ r = writer.batch[i]
  BY DEF Requests
<1>3. e \in Pending(o) <=>
            \E r : /\ r \in Requests(queue) \cup Requests(writer.batch)
                   /\ r.owner = o /\ e = r.event
  BY DEF Pending
<1> QED BY <1>1, <1>2, <1>3

(* What an owner has only moves on: rows keep their marks.                   *)
Shrinks(p) ==
    /\ Held(p)' \subseteq Held(p) /\ Pending(p)' \subseteq Pending(p)
    /\ \A r \in rows'[p] :
         \/ r.event \in Pending(p)
         \/ \E s \in rows[p] : s.event = r.event /\ (s.read => r.read)

OpStays(p) ==
    op'[p].step \in FlushedSteps =>
        \/ op'[p].step = "sql" /\ Pending(p)' = {}
        \/ /\ op[p].step = op'[p].step
           /\ op'[p].kind = op[p].kind /\ op'[p].filter = op[p].filter

Calm(p) ==
    /\ Shrinks(p) /\ OpStays(p)
    /\ gone'[p] = gone[p] /\ acked'[p] = acked[p] /\ seen'[p] = seen[p]
    /\ published' = published
    /\ op'[p].event \in {op[p].event, None}

LEMMA KnownShrinks ==
    ASSUME NEW p \in Owners, Shrinks(p)
    PROVE  Known(p)' \subseteq Known(p)
BY DEF Shrinks, Known

LEMMA NumberedKeeps ==
    ASSUME NEW p \in Owners, Shrinks(p), NumberedOK(p),
           gone'[p] = gone[p], acked'[p] = acked[p], seen'[p] = seen[p],
           published' = published, op'[p].event \in {op[p].event, None}
    PROVE  NumberedOK(p)'
BY KnownShrinks DEF NumberedOK

LEMMA ConfirmedKeeps ==
    ASSUME NEW p \in Owners, ShapeInv, Shrinks(p), Deleted(p), Acked(p),
           gone'[p] = gone[p], acked'[p] = acked[p], acked[p] \in Nat,
           \A e \in Pending(p) : e.id \in Nat
    PROVE  Deleted(p)' /\ Acked(p)'
<1>1. Deleted(p)' BY KnownShrinks DEF Deleted
<1>2. ASSUME NEW r \in rows'[p], r.event.id <= acked'[p]
      PROVE  r.read
  <2>1. r.event \notin Pending(p) BY <1>2 DEF Acked
  <2>2. PICK s \in rows[p] : s.event = r.event /\ (s.read => r.read)
    BY <2>1 DEF Shrinks
  <2>3. s.read BY <1>2, <2>2 DEF Acked
  <2> QED BY <2>2, <2>3
<1>3. Acked(p)'
  <2>1. \A e \in Pending(p)' : e.id > acked'[p] BY DEF Acked, Shrinks
  <2> QED BY <1>2, <2>1 DEF Acked
<1> QED BY <1>1, <1>3

LEMMA DoneKeeps ==
    ASSUME NEW p \in Owners, Shrinks(p), OpStays(p), FlushedOK(p), DoneOK(p)
    PROVE  FlushedOK(p)' /\ DoneOK(p)'
<1>1. FlushedOK(p)'
  BY DEF FlushedOK, OpStays, Shrinks
<1>2. CASE op'[p].step \in {"apply", "report"}
  <2>1. /\ op[p].step = op'[p].step
        /\ op'[p].kind = op[p].kind /\ op'[p].filter = op[p].filter
    BY <1>2 DEF OpStays, FlushedSteps
  <2>2. Pending(p) = {} BY <1>2, <2>1 DEF FlushedOK, FlushedSteps
  <2>3. \A r \in rows'[p] : \E s \in rows[p] : s.event = r.event /\ (s.read => r.read)
    BY <2>2 DEF Shrinks
  <2>4. Held(p)' \subseteq Held(p) BY DEF Shrinks
  <2> QED BY <1>1, <2>1, <2>3, <2>4 DEF DoneOK
<1>3. CASE op'[p].step \notin {"apply", "report"}
  BY <1>1, <1>3 DEF DoneOK
<1> QED BY <1>2, <1>3

LEMMA EventsTyped ==
    ASSUME ShapeInv, NEW o \in Owners
    PROVE  /\ \A e \in Known(o) : e \in Events /\ e.id \in Nat
           /\ acked[o] \in Nat /\ seen[o] \in Nat /\ published \in Nat
           /\ op[o].event # None => op[o].event \in Events /\ op[o].event.id \in Nat
<1>1. /\ history[o] \in Seq(Events) /\ rows[o] \in SUBSET Row
      /\ queue \in Seq(Messages) /\ writer.batch \in Seq(Messages)
      /\ op[o] \in Operation
      /\ acked[o] \in Nat /\ seen[o] \in Nat /\ published \in Nat
  <2>1. BusTyped BY DEF ShapeInv
  <2>2. history[o] \in Seq(Events) /\ rows[o] \in SUBSET Row BY <2>1 DEF BusTyped
  <2>3. op[o] \in Operation BY <2>1 DEF BusTyped
  <2>4. acked[o] \in Nat /\ seen[o] \in Nat BY <2>1 DEF BusTyped
  <2>5. published \in Nat BY <2>1 DEF BusTyped
  <2> QED BY <2>2, <2>3, <2>4, <2>5, WriterParts
<1>2. ASSUME NEW e \in Known(o) PROVE e \in Events
  <2>1. CASE e \in Held(o) BY <1>1, <2>1, ElementOfSeq, LenProperties DEF Held
  <2>2. CASE e \in Pending(o)
    <3>1. \A i \in DOMAIN queue : queue[i] \in Messages
      BY <1>1, ElementOfSeq, LenProperties
    <3>2. \A i \in DOMAIN writer.batch : writer.batch[i] \in Messages
      BY <1>1, ElementOfSeq, LenProperties
    <3> QED BY <2>2, <3>1, <3>2, PendingIs, MessageParts
  <2>3. CASE e \in {r.event : r \in rows[o]} BY <1>1, <2>3 DEF Row
  <2> QED BY <2>1, <2>2, <2>3 DEF Known
<1>3. \A e \in Events : e.id \in Nat BY DEF Events
<1>4. op[o].event # None => op[o].event \in Events BY <1>1 DEF Operation
<1> QED BY <1>1, <1>2, <1>3, <1>4

LEMMA CalmKeeps ==
    ASSUME ShapeInv, NEW p \in Owners, Calm(p), OwnerOK(p), BarrierOK(p)'
    PROVE  OwnerOK(p)'
<1>1. \A e \in Pending(p) : e.id \in Nat BY EventsTyped DEF Known
<1>2. acked[p] \in Nat BY EventsTyped
<1>3. NumberedOK(p)' BY NumberedKeeps DEF Calm, OwnerOK
<1>4. Deleted(p)' /\ Acked(p)' BY <1>1, <1>2, ConfirmedKeeps DEF Calm, OwnerOK
<1>5. FlushedOK(p)' /\ DoneOK(p)' BY DoneKeeps DEF Calm, OwnerOK
<1> QED BY <1>3, <1>4, <1>5 DEF OwnerOK

-----------------------------------------------------------------------------
(* Steps that move no event.                                                 *)
Still == UNCHANGED <<history, queue, writer, rows>>

LEMMA StillIs ==
    ASSUME Still, NEW p \in Owners
    PROVE  /\ Shrinks(p) /\ Held(p)' = Held(p) /\ Pending(p)' = Pending(p)
           /\ QueuedFor(p)' = QueuedFor(p) /\ Known(p)' = Known(p)
<1>1. Held(p)' = Held(p) BY DEF Still, Held
<1>2. Pending(p)' = Pending(p) BY DEF Still, Pending, Requests
<1>3. QueuedFor(p)' = QueuedFor(p) BY DEF Still, QueuedFor
<1>4. rows' = rows BY DEF Still
<1> QED BY <1>1, <1>2, <1>3, <1>4 DEF Shrinks, Known

LEMMA BarrierStill ==
    ASSUME Still, NEW p \in Owners, BarrierOK(p), disabled => disabled',
           op[p].step = "await" => op'[p].step = "await" \/ disabled'
    PROVE  BarrierOK(p)'
<1>1. QueuedFor(p)' = QueuedFor(p) BY StillIs
<1>2. queue' = queue /\ writer' = writer BY DEF Still
<1> QED BY <1>1, <1>2 DEF BarrierOK

(* The operation of one owner moves, and nothing else.                       *)
LEMMA QuietStep ==
    ASSUME FinalInv, NEW o \in Owners, Still,
           UNCHANGED <<published, gone, acked, seen>>, disabled => disabled',
           \A p \in Owners \ {o} : op'[p] = op[p],
           op'[o].event \in {op[o].event, None},
           op[o].step = "await" => op'[o].step = "await" \/ disabled',
           OpStays(o)
    PROVE  \A p \in Owners : OwnerOK(p)'
<1>1. ASSUME NEW p \in Owners PROVE OwnerOK(p)'
  <2>1. ShapeInv /\ OwnerOK(p) /\ BarrierOK(p) BY DEF FinalInv, OwnerOK
  <2>2. BarrierOK(p)'
    BY <2>1, BarrierStill
  <2>3. OpStays(p) BY DEF OpStays
  <2>4. Calm(p) BY <2>3, StillIs DEF Calm
  <2> QED BY <2>1, <2>2, <2>4, CalmKeeps
<1> QED BY <1>1

LEMMA OpParts ==
    ASSUME ShapeInv, NEW o \in Owners
    PROVE  /\ op[o] \in Operation /\ OpOK(o) /\ op \in [Owners -> Operation]
           /\ op[o].kind = "publish" <=> op[o].step \in PublishSteps
           /\ op[o].kind = "publish" <=> op[o].event # None
           /\ op[o].kind \in Mutation <=> op[o].step \in FlushSteps \cup FlushedSteps
           /\ op[o].kind \in {"idle", "publish"} \cup Mutation
BY DEF ShapeInv, BusTyped, Operation, OpOK, Mutation, PublishSteps, FlushSteps, FlushedSteps

LEMMA IdleIs ==
    /\ Idle.step = "idle" /\ Idle.kind = "idle" /\ Idle.event = None
    /\ "idle" \notin FlushedSteps /\ "await" \notin FlushedSteps
    /\ "idle" # "await"
BY DEF Idle, FlushedSteps

(* A new event is younger than everything its owner has.                     *)
LEMMA StartPublishKeeps ==
    ASSUME FinalInv, NEW o \in Owners, NEW kind \in Kinds, NEW at \in Int,
           StartPublish(o, kind, at)
    PROVE  \A p \in Owners : OwnerOK(p)'
<1>0. ShapeInv /\ \A p \in Owners : OwnerOK(p) BY DEF FinalInv
<1>1. /\ Still /\ UNCHANGED <<gone, acked, seen, disabled>>
      /\ published' = published + 1 /\ published \in Nat
  <2>1. published \in Nat BY <1>0, EventsTyped
  <2> QED BY <2>1 DEF StartPublish, Still, memoryVars, latchVars, tableVars, ghostVars
<1>2. /\ \A p \in Owners \ {o} : op'[p] = op[p]
      /\ op'[o].step = "load" /\ op[o].step = "idle"
      /\ op'[o].event = [id |-> published', at |-> at, kind |-> kind]
      /\ op'[o].event.id = published + 1
  BY <1>0, <1>1, OpParts, IdleIs DEF StartPublish
<1>3. ASSUME NEW p \in Owners PROVE OwnerOK(p)'
  <2>1. OwnerOK(p) /\ BarrierOK(p) BY <1>0 DEF OwnerOK
  <2>2. BarrierOK(p)' BY <1>1, <1>2, <2>1, BarrierStill
  <2>3. OpStays(p) BY <1>2 DEF OpStays, FlushedSteps
  <2>4. Shrinks(p) /\ Known(p)' = Known(p) BY <1>1, StillIs
  <2>5. FlushedOK(p)' /\ DoneOK(p)' BY <2>1, <2>3, <2>4, DoneKeeps DEF OwnerOK
  <2>6. Deleted(p)' /\ Acked(p)'
    <3>1. \A e \in Pending(p) : e.id \in Nat BY <1>0, EventsTyped DEF Known
    <3>2. acked[p] \in Nat BY <1>0, EventsTyped
    <3> QED BY <1>0, <1>1, <2>1, <2>4, <3>1, <3>2, ConfirmedKeeps DEF OwnerOK
  <2>7. NumberedOK(p)'
    <3>1. NumberedOK(p) BY <2>1 DEF OwnerOK
    <3>2. (\A e \in Known(p) : e.id \in Nat) /\ acked[p] \in Nat /\ seen[p] \in Nat
      BY <1>0, EventsTyped
    <3>3. \A e \in Known(p)' : e.id <= published /\ e.id < published + 1
                               /\ e.id <= published + 1
      BY <1>1, <2>4, <3>1, <3>2 DEF NumberedOK
    <3>4. \A x \in gone[p] : x \in (1 .. published) \X Kinds
      BY <3>1 DEF NumberedOK
    <3>5. \A x \in gone[p] : x[1] < published + 1
                             /\ x \in (1 .. published + 1) \X Kinds
      BY <1>1, <3>4
    <3>6. /\ acked[p] <= published + 1 /\ acked[p] < published + 1
          /\ seen[p] <= published + 1 /\ seen[p] < published + 1
      BY <1>1, <3>1, <3>2 DEF NumberedOK
    <3>7. CASE p = o
      BY <1>1, <1>2, <3>3, <3>5, <3>6, <3>7 DEF NumberedOK
    <3>8. CASE p # o
      <4>1. op'[p] = op[p] /\ (op[p].event # None => op[p].event.id \in Nat)
        BY <1>0, <1>2, <3>8, EventsTyped
      <4>2. op[p].event # None =>
              /\ op[p].event.id <= published + 1
              /\ \A e \in Known(p)' : e.id < op[p].event.id
              /\ \A x \in gone[p] : x[1] < op[p].event.id
              /\ acked[p] < op[p].event.id /\ seen[p] < op[p].event.id
        BY <1>1, <2>4, <3>1, <4>1 DEF NumberedOK
      <4> QED BY <1>1, <3>3, <3>5, <3>6, <4>1, <4>2 DEF NumberedOK
    <3> QED BY <3>7, <3>8
  <2> QED BY <2>2, <2>5, <2>6, <2>7 DEF OwnerOK
<1> QED BY <1>3
LEMMA LoadSettingsKeeps ==
    ASSUME FinalInv, NEW o \in Owners, LoadSettings(o)
    PROVE  \A p \in Owners : OwnerOK(p)'
<1>1. ShapeInv BY DEF FinalInv
<1>2. Still /\ UNCHANGED <<published, gone, acked, seen>>
  BY DEF LoadSettings, Still, memoryVars, tableVars, boundVars, ghostVars
<1>3. /\ disabled => disabled'
      /\ \A p \in Owners \ {o} : op'[p] = op[p]
      /\ op'[o].event \in {op[o].event, None}
      /\ op[o].step = "await" => op'[o].step = "await" \/ disabled'
      /\ OpStays(o)
  <2>1. disabled => disabled' BY DEF LoadSettings, latchVars
  <2>2. /\ \A p \in Owners \ {o} : op'[p] = op[p]
        /\ op'[o].event \in {op[o].event, None}
        /\ op'[o].step \notin FlushedSteps
        /\ op[o].step # "await" \/ disabled'
    BY <1>1, OpParts, IdleIs DEF LoadSettings, PublishSteps, FlushSteps, FlushedSteps
  <2> QED BY <2>1, <2>2 DEF OpStays
<1> QED BY <1>2, <1>3, QuietStep

LEMMA CountAdmittedKeeps ==
    ASSUME FinalInv, NEW o \in Owners, CountAdmitted(o)
    PROVE  \A p \in Owners : OwnerOK(p)'
<1>1. ShapeInv BY DEF FinalInv
<1>2. Still /\ UNCHANGED <<published, gone, acked, seen>>
  BY DEF CountAdmitted, Still, memoryVars, tableVars, boundVars, ghostVars
<1>3. /\ disabled => disabled'
      /\ \A p \in Owners \ {o} : op'[p] = op[p]
      /\ op'[o].event \in {op[o].event, None}
      /\ op[o].step = "await" => op'[o].step = "await" \/ disabled'
      /\ OpStays(o)
  <2>1. disabled => disabled' BY DEF CountAdmitted, latchVars
  <2>2. /\ \A p \in Owners \ {o} : op'[p] = op[p]
        /\ op'[o].event \in {op[o].event, None}
        /\ op'[o].step \notin FlushedSteps
        /\ op[o].step # "await" \/ disabled'
    <3>1. op[o].kind = "publish" /\ op[o].step # "await" /\ op[o] \in Operation
      BY <1>1, OpParts DEF CountAdmitted, PublishSteps
    <3>2. \/ op' = [op EXCEPT ![o].step = "accept"]
          \/ op' = [op EXCEPT ![o].step = "accept", ![o].count = admitted'[o]]
      BY DEF CountAdmitted
    <3>3. \A p \in Owners \ {o} : op'[p] = op[p] BY <1>1, <3>2, OpParts
    <3>4. op'[o].event = op[o].event /\ op'[o].step = "accept"
      <4>1. op \in [Owners -> Operation] BY <1>1, OpParts
      <4>2. CASE op' = [op EXCEPT ![o].step = "accept"]
        BY <3>1, <4>1, <4>2 DEF Operation
      <4>3. CASE op' = [op EXCEPT ![o].step = "accept", ![o].count = admitted'[o]]
        BY <3>1, <4>1, <4>3 DEF Operation
      <4> QED BY <3>2, <4>2, <4>3
    <3> QED BY <3>1, <3>3, <3>4 DEF FlushedSteps
  <2> QED BY <2>1, <2>2 DEF OpStays
<1> QED BY <1>2, <1>3, QuietStep

LEMMA CancelPublishKeeps ==
    ASSUME FinalInv, NEW o \in Owners, CancelPublish(o)
    PROVE  \A p \in Owners : OwnerOK(p)'
<1>1. ShapeInv BY DEF FinalInv
<1>2. Still /\ UNCHANGED <<published, gone, acked, seen>>
  BY DEF CancelPublish, Still, memoryVars, tableVars, boundVars, ghostVars
<1>3. /\ disabled => disabled'
      /\ \A p \in Owners \ {o} : op'[p] = op[p]
      /\ op'[o].event \in {op[o].event, None}
      /\ op[o].step = "await" => op'[o].step = "await" \/ disabled'
      /\ OpStays(o)
  <2>1. disabled => disabled' BY DEF CancelPublish, latchVars
  <2>2. /\ \A p \in Owners \ {o} : op'[p] = op[p]
        /\ op'[o].event \in {op[o].event, None}
        /\ op'[o].step \notin FlushedSteps
        /\ op[o].step # "await" \/ disabled'
    BY <1>1, OpParts, IdleIs DEF CancelPublish, PublishSteps, FlushSteps, FlushedSteps
  <2> QED BY <2>1, <2>2 DEF OpStays
<1> QED BY <1>2, <1>3, QuietStep

LEMMA FlushFailsKeeps ==
    ASSUME FinalInv, NEW o \in Owners, FlushFails(o)
    PROVE  \A p \in Owners : OwnerOK(p)'
<1>1. ShapeInv BY DEF FinalInv
<1>2. Still /\ UNCHANGED <<published, gone, acked, seen>>
  BY DEF FlushFails, Still, memoryVars, tableVars, boundVars, ghostVars
<1>3. /\ disabled => disabled'
      /\ \A p \in Owners \ {o} : op'[p] = op[p]
      /\ op'[o].event \in {op[o].event, None}
      /\ op[o].step = "await" => op'[o].step = "await" \/ disabled'
      /\ OpStays(o)
  <2>1. disabled => disabled' BY DEF FlushFails, latchVars
  <2>2. /\ \A p \in Owners \ {o} : op'[p] = op[p]
        /\ op'[o].event \in {op[o].event, None}
        /\ op'[o].step \notin FlushedSteps
        /\ op[o].step # "await" \/ disabled'
    BY <1>1, OpParts, IdleIs DEF FlushFails, PublishSteps, FlushSteps, FlushedSteps
  <2> QED BY <2>1, <2>2 DEF OpStays
<1> QED BY <1>2, <1>3, QuietStep

LEMMA CallerLeavesKeeps ==
    ASSUME FinalInv, NEW o \in Owners, CallerLeaves(o)
    PROVE  \A p \in Owners : OwnerOK(p)'
<1>1. ShapeInv BY DEF FinalInv
<1>2. Still /\ UNCHANGED <<published, gone, acked, seen>>
  BY DEF CallerLeaves, Still, memoryVars, tableVars, boundVars, ghostVars
<1>3. /\ disabled => disabled'
      /\ \A p \in Owners \ {o} : op'[p] = op[p]
      /\ op'[o].event \in {op[o].event, None}
      /\ op[o].step = "await" => op'[o].step = "await" \/ disabled'
      /\ OpStays(o)
  <2>1. disabled => disabled' BY DEF CallerLeaves, latchVars
  <2>2. op[o] \in Operation BY <1>1, OpParts
  <2>3. CASE op' = [op EXCEPT ![o] = Idle] /\ op[o].step = "apply"
    <3>1. op'[o] = Idle /\ \A p \in Owners \ {o} : op'[p] = op[p]
      BY <1>1, <2>3, OpParts
    <3> QED BY <2>1, <2>3, <3>1, IdleIs DEF OpStays
  <2>4. CASE op' = [op EXCEPT ![o] = [op[o] EXCEPT !.waiting = FALSE]]
    <3>1. /\ \A p \in Owners \ {o} : op'[p] = op[p]
          /\ op'[o].event = op[o].event /\ op'[o].step = op[o].step
          /\ op'[o].kind = op[o].kind /\ op'[o].filter = op[o].filter
      BY <1>1, <2>2, <2>4, OpParts DEF Operation
    <3> QED BY <2>1, <3>1 DEF OpStays
  <2> QED BY <2>3, <2>4 DEF CallerLeaves
<1> QED BY <1>2, <1>3, QuietStep

LEMMA ReadMissKeeps ==
    ASSUME FinalInv, NEW o \in Owners, ReadMiss(o)
    PROVE  \A p \in Owners : OwnerOK(p)'
<1>1. ShapeInv BY DEF FinalInv
<1>2. Still /\ UNCHANGED <<published, gone, acked, seen>>
  BY DEF ReadMiss, Still, memoryVars, tableVars, boundVars, ghostVars
<1>3. /\ disabled => disabled'
      /\ \A p \in Owners \ {o} : op'[p] = op[p]
      /\ op'[o].event \in {op[o].event, None}
      /\ op[o].step = "await" => op'[o].step = "await" \/ disabled'
      /\ OpStays(o)
  BY DEF ReadMiss, latchVars, OpStays
<1> QED BY <1>2, <1>3, QuietStep

LEMMA ReadStoreKeeps ==
    ASSUME FinalInv, NEW o \in Owners, ReadStore(o)
    PROVE  \A p \in Owners : OwnerOK(p)'
<1>1. ShapeInv BY DEF FinalInv
<1>2. Still /\ UNCHANGED <<published, gone, acked, seen>>
  BY DEF ReadStore, Still, memoryVars, tableVars, boundVars, ghostVars
<1>3. /\ disabled => disabled'
      /\ \A p \in Owners \ {o} : op'[p] = op[p]
      /\ op'[o].event \in {op[o].event, None}
      /\ op[o].step = "await" => op'[o].step = "await" \/ disabled'
      /\ OpStays(o)
  BY DEF ReadStore, latchVars, OpStays
<1> QED BY <1>2, <1>3, QuietStep

LEMMA CountExpiresKeeps ==
    ASSUME FinalInv, NEW o \in Owners, CountExpires(o)
    PROVE  \A p \in Owners : OwnerOK(p)'
<1>1. ShapeInv BY DEF FinalInv
<1>2. Still /\ UNCHANGED <<published, gone, acked, seen>>
  BY DEF CountExpires, Still, memoryVars, tableVars, boundVars, ghostVars
<1>3. /\ disabled => disabled'
      /\ \A p \in Owners \ {o} : op'[p] = op[p]
      /\ op'[o].event \in {op[o].event, None}
      /\ op[o].step = "await" => op'[o].step = "await" \/ disabled'
      /\ OpStays(o)
  BY DEF CountExpires, latchVars, OpStays
<1> QED BY <1>2, <1>3, QuietStep

LEMMA StartMutationKeeps ==
    ASSUME FinalInv, NEW o \in Owners, NEW kind \in Mutation,
           NEW filter, NEW settings, StartMutation(o, kind, filter, settings)
    PROVE  \A p \in Owners : OwnerOK(p)'
<1>1. ShapeInv /\ \A p \in Owners : OwnerOK(p) BY DEF FinalInv
<1>2. Still /\ UNCHANGED <<published, gone, acked, seen, disabled>>
  BY DEF StartMutation, Still, memoryVars, latchVars, tableVars, ghostVars
<1>3. /\ \A p \in Owners \ {o} : op'[p] = op[p]
      /\ op'[o].event = None /\ op[o].step = "idle"
      /\ op'[o].step = IF configured THEN "flush" ELSE "apply"
  BY <1>1, OpParts, IdleIs DEF StartMutation, Idle
<1>4. CASE configured
  <2>1. OpStays(o) BY <1>3, <1>4 DEF OpStays, FlushedSteps
  <2> QED BY <1>2, <1>3, <2>1, QuietStep
<1>5. CASE ~configured
  <2>1. ASSUME NEW p \in Owners PROVE OwnerOK(p)'
    <3>1. queue = <<>> /\ writer.batch = <<>> /\ rows[p] = {}
      BY <1>1, <1>5, WriterParts DEF WriterIdle, ShapeInv, UnconfiguredOK
    <3>2. Shrinks(p) /\ Held(p)' = Held(p) /\ Pending(p)' = Pending(p)
      BY <1>2, StillIs
    <3>3. Pending(p) = {}
      BY <3>1, PendingIs
    <3>4. OwnerOK(p) BY <1>1
    <3>5. BarrierOK(p)' BY <1>2, <1>3, <3>4, BarrierStill DEF OwnerOK
    <3>6. NumberedOK(p)'
      BY <1>2, <1>3, <3>2, <3>4, NumberedKeeps DEF OwnerOK
    <3>7. Deleted(p)' /\ Acked(p)'
      <4>1. (\A e \in Pending(p) : e.id \in Nat) /\ acked[p] \in Nat
        BY <1>1, <3>3, EventsTyped
      <4> QED BY <1>1, <1>2, <3>2, <3>4, <4>1, ConfirmedKeeps DEF OwnerOK
    <3>8. FlushedOK(p)' BY <3>2, <3>3 DEF FlushedOK
    <3>9. DoneOK(p)'
      <4>1. rows'[p] = {} BY <1>2, <3>1 DEF Still
      <4>2. CASE p = o BY <1>3, <1>5, <4>1, <4>2 DEF DoneOK
      <4>3. CASE p # o
        <5>1. op'[p] = op[p] /\ DoneOK(p) BY <1>3, <3>4, <4>3 DEF OwnerOK
        <5> QED BY <3>2, <4>1, <5>1 DEF DoneOK
      <4> QED BY <4>2, <4>3
    <3> QED BY <3>5, <3>6, <3>7, <3>8, <3>9 DEF OwnerOK
  <2> QED BY <2>1
<1> QED BY <1>4, <1>5

-----------------------------------------------------------------------------
(* The queue at both ends.                                                   *)
LEMMA AppendMoves ==
    ASSUME ShapeInv, NEW m \in Messages, NEW p \in Owners,
           queue' = Append(queue, m), writer' = writer
    PROVE  /\ Len(queue) \in Nat
           /\ \A e : e \in Pending(p)' =>
                e \in Pending(p) \/ (m.type = "event" /\ m.owner = p /\ e = m.event)
           /\ \A i : i \in QueuedFor(p)' <=>
                i \in QueuedFor(p) \/ (i = Len(queue) + 1 /\ m.owner = p)
           /\ \A i \in QueuedFor(p) : i \in 1 .. Len(queue) /\ queue'[i] = queue[i]
           /\ queue'[Len(queue) + 1] = m
<1>1. /\ queue \in Seq(Messages) /\ Len(queue) \in Nat /\ DOMAIN queue = 1 .. Len(queue)
  BY WriterParts, LenProperties
<1>2. /\ DOMAIN queue' = 1 .. Len(queue) + 1
      /\ \A i \in 1 .. Len(queue) : queue'[i] = queue[i]
      /\ queue'[Len(queue) + 1] = m
  BY <1>1, AppendIs
<1>3. \A i : i \in 1 .. Len(queue) + 1 <=> i \in 1 .. Len(queue) \/ i = Len(queue) + 1
  BY <1>1
<1>4. ASSUME NEW e, e \in Pending(p)'
      PROVE  e \in Pending(p) \/ (m.type = "event" /\ m.owner = p /\ e = m.event)
  <2>1. \/ \E i \in DOMAIN queue' :
              queue'[i].type = "event" /\ queue'[i].owner = p /\ e = queue'[i].event
        \/ \E i \in DOMAIN writer.batch :
              /\ writer.batch[i].type = "event" /\ writer.batch[i].owner = p
              /\ e = writer.batch[i].event
    BY <1>4 DEF Pending, Requests
  <2>2. CASE \E i \in DOMAIN writer.batch :
              /\ writer.batch[i].type = "event" /\ writer.batch[i].owner = p
              /\ e = writer.batch[i].event
    BY <2>2, PendingIs
  <2>3. ASSUME NEW i \in DOMAIN queue',
               queue'[i].type = "event", queue'[i].owner = p, e = queue'[i].event
        PROVE  e \in Pending(p) \/ (m.type = "event" /\ m.owner = p /\ e = m.event)
    <3>1. CASE i \in 1 .. Len(queue)
      BY <1>1, <1>2, <2>3, <3>1, PendingIs
    <3>2. CASE i = Len(queue) + 1 BY <1>2, <2>3, <3>2
    <3> QED BY <1>2, <1>3, <3>1, <3>2
  <2> QED BY <2>1, <2>2, <2>3
<1>5. \A i : i \in QueuedFor(p)' <=>
                i \in QueuedFor(p) \/ (i = Len(queue) + 1 /\ m.owner = p)
  BY <1>1, <1>2, <1>3 DEF QueuedFor
<1>6. \A i \in QueuedFor(p) : i \in 1 .. Len(queue) /\ queue'[i] = queue[i]
  BY <1>1, <1>2 DEF QueuedFor
<1> QED BY <1>1, <1>2, <1>4, <1>5, <1>6

LEMMA TailMoves ==
    ASSUME ShapeInv, NEW p \in Owners, queue # <<>>, queue' = Tail(queue)
    PROVE  /\ Head(queue) \in Messages /\ Head(queue) = queue[1]
           /\ Head(queue).owner = p => 1 \in QueuedFor(p)
           /\ \A i \in QueuedFor(p)' :
                i \in Nat \ {0} /\ i + 1 \in QueuedFor(p) /\ queue'[i] = queue[i + 1]
           /\ \A i \in DOMAIN queue' : i + 1 \in DOMAIN queue /\ queue'[i] = queue[i + 1]
           /\ 1 \in DOMAIN queue
<1>1. queue \in Seq(Messages) BY WriterParts
<1>2. /\ Head(queue) \in Messages /\ Head(queue) = queue[1]
      /\ Len(queue) \in Nat \ {0} /\ DOMAIN queue = 1 .. Len(queue)
      /\ DOMAIN queue' = 1 .. Len(queue) - 1
      /\ \A i \in 1 .. Len(queue) - 1 : queue'[i] = queue[i + 1]
  BY <1>1, TailIs
<1>3. ASSUME NEW i \in 1 .. Len(queue) - 1
      PROVE  i \in Nat \ {0} /\ i + 1 \in 1 .. Len(queue)
  BY <1>2
<1>4. 1 \in DOMAIN queue BY <1>2
<1> QED BY <1>2, <1>3, <1>4 DEF QueuedFor

LEMMA SendBarrierKeeps ==
    ASSUME FinalInv, NEW o \in Owners, SendBarrier(o)
    PROVE  \A p \in Owners : OwnerOK(p)'
<1>1. ShapeInv /\ \A p \in Owners : OwnerOK(p) BY DEF FinalInv
<1>2. /\ UNCHANGED <<history, rows, writer, published, gone, acked, seen, disabled>>
      /\ queue' = Append(queue, Barrier(o))
  BY DEF SendBarrier, memoryVars, latchVars, tableVars, boundVars, ghostVars
<1>3. /\ Barrier(o) \in Messages /\ Barrier(o).type = "barrier" /\ Barrier(o).owner = o
  BY MessagesTyped DEF Barrier
<1>4. /\ \A p \in Owners \ {o} : op'[p] = op[p]
      /\ op'[o].event = op[o].event /\ op'[o].step = "await" /\ op[o].step = "flush"
  BY <1>1, OpParts DEF SendBarrier, Operation
<1>5. ASSUME NEW p \in Owners PROVE OwnerOK(p)'
  <2>1. OwnerOK(p) /\ BarrierOK(p) BY <1>1 DEF OwnerOK
  <2>2. /\ Pending(p)' \subseteq Pending(p) /\ Len(queue) \in Nat
        /\ \A i : i \in QueuedFor(p)' <=>
                i \in QueuedFor(p) \/ (i = Len(queue) + 1 /\ o = p)
        /\ \A i \in QueuedFor(p) : i \in 1 .. Len(queue) /\ queue'[i] = queue[i]
        /\ queue'[Len(queue) + 1] = Barrier(o)
    BY <1>1, <1>2, <1>3, AppendMoves
  <2>3. BarrierOK(p)'
    <3>1. CASE p # o
      BY <1>2, <1>4, <2>1, <2>2, <3>1 DEF BarrierOK
    <3>2. CASE p = o
      <4>1. ~disabled => /\ \A i \in QueuedFor(p) : queue[i].type # "barrier"
                         /\ writer.barrier # p
        BY <1>4, <2>1, <3>2 DEF BarrierOK
      <4>2. \A i \in QueuedFor(p)' : i <= Len(queue) + 1 BY <2>2
      <4> QED BY <1>2, <1>4, <2>2, <3>2, <4>1, <4>2 DEF BarrierOK
    <3> QED BY <3>1, <3>2
  <2>4. Shrinks(p) BY <1>2, <2>2 DEF Shrinks, Held
  <2>5. OpStays(p) BY <1>4 DEF OpStays, FlushedSteps
  <2>6. Calm(p) BY <1>2, <1>4, <2>4, <2>5 DEF Calm
  <2> QED BY <1>1, <2>1, <2>3, <2>6, CalmKeeps
<1> QED BY <1>5

(* An accepted event is younger than whatever was confirmed.                 *)
LEMMA AcceptKeeps ==
    ASSUME FinalInv, NEW o \in Owners, Accept(o)
    PROVE  \A p \in Owners : OwnerOK(p)'
<1>1. ShapeInv /\ \A p \in Owners : OwnerOK(p) BY DEF FinalInv
<1>2. UNCHANGED <<rows, writer, published, gone, acked, seen>>
  BY DEF Accept, tableVars, boundVars, ghostVars
<1>3. /\ op[o].step = "accept" /\ op[o].event # None /\ op[o].event \in Events
      /\ op[o].settings \in Retention /\ op[o].settings.max - 1 \in Nat
  BY <1>1, OpParts DEF Accept, PublishSteps, OpOK, Operation, Retention
<1>4. op'[o] = Idle /\ \A p \in Owners \ {o} : op'[p] = op[p]
  BY <1>1, OpParts DEF Accept
<1>5. CASE Full(o)
  <2>1. Still /\ disabled' = disabled BY <1>2, <1>5, AcceptIs DEF Still
  <2>2. OpStays(o) BY <1>4, IdleIs DEF OpStays
  <2> QED BY <1>2, <1>3, <1>4, <2>1, <2>2, IdleIs, QuietStep
<1>6. CASE ~Full(o)
  <2> DEFINE e == op[o].event
             m == Request(o, e, op[o].settings)
  <2>1. m \in Messages /\ m.type = "event" /\ m.owner = o /\ m.event = e
    BY <1>3, MessagesTyped DEF Request
  <2>2. queue' = queue \/ queue' = Append(queue, m) BY <1>6, AcceptIs
  <2>3. disabled => disabled' BY <1>6, AcceptIs
  <2>4. ASSUME NEW p \in Owners
        PROVE  /\ \A x \in Pending(p)' : x \in Pending(p) \/ (p = o /\ x = e)
               /\ BarrierOK(p)'
    <3>1. BarrierOK(p) BY <1>1 DEF OwnerOK
    <3>2. op[p].step = "await" => op'[p].step = "await" BY <1>3, <1>4
    <3>3. CASE queue' = queue
      <4>1. Pending(p)' = Pending(p) /\ QueuedFor(p)' = QueuedFor(p)
        BY <1>2, <3>3 DEF Pending, Requests, QueuedFor
      <4> QED BY <1>2, <2>3, <3>1, <3>2, <3>3, <4>1 DEF BarrierOK
    <3>4. CASE queue' = Append(queue, m)
      <4> HIDE DEF m, e
      <4>1. /\ Len(queue) \in Nat
            /\ \A x : x \in Pending(p)' =>
                x \in Pending(p) \/ (m.type = "event" /\ m.owner = p /\ x = m.event)
            /\ \A i : i \in QueuedFor(p)' <=>
                i \in QueuedFor(p) \/ (i = Len(queue) + 1 /\ m.owner = p)
            /\ \A i \in QueuedFor(p) : i \in 1 .. Len(queue) /\ queue'[i] = queue[i]
            /\ queue'[Len(queue) + 1] = m
        BY <1>1, <1>2, <2>1, <3>4, AppendMoves
      <4>2. CASE p # o
        BY <1>2, <2>1, <2>3, <3>1, <3>2, <4>1, <4>2 DEF BarrierOK
      <4>3. CASE p = o
        <5>1. ~disabled => /\ \A i \in QueuedFor(p) : queue[i].type # "barrier"
                           /\ writer.barrier # p
          BY <1>3, <3>1, <4>3 DEF BarrierOK
        <5> QED BY <1>2, <2>1, <2>3, <4>1, <4>3, <5>1 DEF BarrierOK
      <4> QED BY <4>2, <4>3
    <3> QED BY <2>2, <3>3, <3>4
  <2>5. ASSUME NEW p \in Owners, p # o PROVE OwnerOK(p)'
    <3>1. Held(p)' = Held(p)
      BY <1>1, <1>6, <2>5, AcceptIs DEF ShapeInv, BusTyped, Held
    <3>2. Shrinks(p) BY <1>2, <2>4, <2>5, <3>1 DEF Shrinks
    <3>3. OpStays(p) BY <1>4, <2>5 DEF OpStays
    <3>4. Calm(p) BY <1>2, <1>4, <2>5, <3>2, <3>3 DEF Calm
    <3> QED BY <1>1, <2>4, <3>4, CalmKeeps
  <2>6. OwnerOK(o)'
    <3>1. OwnerOK(o) /\ NumberedOK(o) BY <1>1 DEF OwnerOK
    <3>2. \A x \in Held(o)' : x \in Held(o) \/ x = e
      <4> DEFINE h == AtMost(history[o], op[o].settings.max - 1)
      <4>1. history[o] \in Seq(Events) BY <1>1 DEF ShapeInv, BusTyped
      <4>2. /\ h \in Seq(Events)
            /\ \A i \in DOMAIN h : \E j \in DOMAIN history[o] : h[i] = history[o][j]
        BY <1>3, <4>1, AtMostIs
      <4>3. history'[o] = Append(h, e)
        BY <1>1, <1>6, AcceptIs DEF ShapeInv, BusTyped
      <4> HIDE DEF h, e
      <4>4. /\ DOMAIN Append(h, e) = 1 .. Len(h) + 1
            /\ \A i \in 1 .. Len(h) : Append(h, e)[i] = h[i]
            /\ Append(h, e)[Len(h) + 1] = e
            /\ Len(h) \in Nat /\ DOMAIN h = 1 .. Len(h)
        BY <1>3, <4>2, AppendIs, LenProperties DEF e
      <4>5. ASSUME NEW i \in DOMAIN history'[o]
            PROVE  history'[o][i] \in Held(o) \/ history'[o][i] = e
        <5>1. i \in 1 .. Len(h) \/ i = Len(h) + 1 BY <4>3, <4>4, <4>5
        <5> QED BY <4>2, <4>3, <4>4, <5>1 DEF Held
      <4> QED BY <4>5 DEF Held
    <3>3. rows' = rows BY <1>2
    <3>4. \A x \in Known(o)' : x \in Known(o) \/ x = e
      BY <2>4, <3>2, <3>3 DEF Known
    <3>5. /\ e.id \in Nat /\ e.id <= published
          /\ (\A x \in gone[o] : x[1] < e.id) /\ acked[o] < e.id /\ acked[o] \in Nat
      BY <1>1, <1>3, <3>1, EventsTyped DEF NumberedOK
    <3>6. NumberedOK(o)'
      BY <1>2, <1>4, <3>1, <3>4, <3>5, IdleIs DEF NumberedOK
    <3>7. Deleted(o)'
      <4>1. <<e.id, e.kind>> \notin gone[o]
        <5>1. <<e.id, e.kind>>[1] = e.id OBVIOUS
        <5> QED BY <3>5, <5>1
      <4> QED BY <1>2, <3>1, <3>4, <4>1 DEF Deleted, OwnerOK
    <3>8. Acked(o)'
      BY <1>2, <2>4, <3>1, <3>5 DEF Acked, OwnerOK
    <3>9. FlushedOK(o)' /\ DoneOK(o)'
      BY <1>4, IdleIs DEF FlushedOK, DoneOK
    <3> QED BY <2>4, <3>6, <3>7, <3>8, <3>9 DEF OwnerOK
  <2> QED BY <2>5, <2>6
<1> QED BY <1>5, <1>6

(* Statements of a mutation take no event from anywhere else.                *)
LEMMA MutatedShrinks ==
    ASSUME ShapeInv, NEW o \in Owners, op[o].step = "sql", Mutated(o)
    PROVE  /\ \A p \in Owners : \A r \in rows'[p] :
                \E s \in rows[p] : s.event = r.event /\ (s.read => r.read)
           /\ op[o].kind = "read" => \A r \in rows'[o] : r.read
           /\ op[o].kind = "delete" =>
                \A r \in rows'[o] : r.event.kind \notin op[o].filter
<1>1. /\ op[o].kind \in Mutation
      /\ rows \in [Owners -> SUBSET Row]
      /\ \A p \in Owners \ {o} : rows'[p] = rows[p]
  BY OpParts, MutatedTyped DEF ShapeInv, BusTyped, FlushedSteps
<1>2. ASSUME NEW p \in Owners \ {o}, NEW r \in rows'[p]
      PROVE  \E s \in rows[p] : s.event = r.event /\ (s.read => r.read)
  BY <1>1, <1>2
<1>3. CASE op[o].kind = "read"
  <2>1. rows'[o] = {[r EXCEPT !.read = TRUE] : r \in rows[o]}
    BY <1>1, <1>3 DEF Mutated
  <2>2. ASSUME NEW r \in rows'[o]
        PROVE  r.read /\ \E s \in rows[o] : s.event = r.event
    <3>1. PICK s \in rows[o] : r = [s EXCEPT !.read = TRUE] BY <2>1
    <3>2. s \in Row BY <1>1
    <3> QED BY <3>1, <3>2 DEF Row
  <2>3. \A r \in rows'[o] : \E s \in rows[o] : s.event = r.event /\ (s.read => r.read)
    BY <2>2
  <2> QED BY <1>2, <1>3, <2>2, <2>3
<1>4. CASE op[o].kind = "delete"
  <2>1. rows'[o] = {r \in rows[o] : r.event.kind \notin op[o].filter}
    BY <1>1, <1>4 DEF Mutated
  <2> QED BY <1>2, <1>4, <2>1
<1>5. CASE op[o].kind = "settings"
  <2>1. rows'[o] = Trimmed(rows[o], op[o].settings.max)
    BY <1>1, <1>5 DEF Mutated
  <2> QED BY <1>2, <1>5, <2>1 DEF Trimmed
<1> QED BY <1>1, <1>3, <1>4, <1>5 DEF Mutation

LEMMA SqlKeeps ==
    ASSUME FinalInv, NEW o \in Owners, Sql(o)
    PROVE  \A p \in Owners : OwnerOK(p)'
<1>1. ShapeInv /\ \A p \in Owners : OwnerOK(p) BY DEF FinalInv
<1>2. UNCHANGED <<history, queue, writer, published, gone, acked, seen>>
  BY DEF Sql, memoryVars
<1>3. disabled => disabled' BY DEF Sql, latchVars
<1>4. /\ op[o].step = "sql" /\ op[o].kind \in Mutation /\ op[o].event = None
      /\ \A p \in Owners \ {o} : op'[p] = op[p]
      /\ \/ op'[o] = Idle
         \/ op'[o] = [op[o] EXCEPT !.step = "apply"] /\ Mutated(o)
  <2>1. op[o].step = "sql" BY DEF Sql
  <2>2. op[o].kind \in Mutation /\ op[o].event = None
    BY <1>1, <2>1, OpParts DEF FlushedSteps, Mutation, PublishSteps
  <2>3. op \in [Owners -> Operation] BY <1>1, OpParts
  <2>4. \/ op' = [op EXCEPT ![o] = Idle]
        \/ op' = [op EXCEPT ![o].step = "apply"] /\ Mutated(o)
    BY DEF Sql
  <2> QED BY <2>1, <2>2, <2>3, <2>4
<1>5. op[o] \in Operation BY <1>1, OpParts
<1>6. \A p \in Owners : \A r \in rows'[p] :
                \E s \in rows[p] : s.event = r.event /\ (s.read => r.read)
  <2>1. Mutated(o) \/ rows' = rows BY DEF Sql, tableVars
  <2>2. CASE Mutated(o) BY <1>1, <1>4, <2>2, MutatedShrinks
  <2>3. CASE rows' = rows BY <2>3
  <2> QED BY <2>1, <2>2, <2>3
<1>7. ASSUME NEW p \in Owners
      PROVE  /\ Shrinks(p) /\ BarrierOK(p)'
             /\ Held(p)' = Held(p) /\ Pending(p)' = Pending(p)
  <2>1. Held(p)' = Held(p) BY <1>2 DEF Held
  <2>2. Pending(p)' = Pending(p) BY <1>2 DEF Pending, Requests
  <2>3. QueuedFor(p)' = QueuedFor(p) BY <1>2 DEF QueuedFor
  <2>4. op[p].step = "await" => op'[p] = op[p] BY <1>4
  <2>5. BarrierOK(p) BY <1>1 DEF OwnerOK
  <2>6. BarrierOK(p)' BY <1>2, <1>3, <2>3, <2>4, <2>5 DEF BarrierOK
  <2> QED BY <1>6, <2>1, <2>2, <2>6 DEF Shrinks
<1>8. ASSUME NEW p \in Owners, p # o PROVE OwnerOK(p)'
  <2>1. OpStays(p) BY <1>4, <1>8 DEF OpStays
  <2>2. Calm(p) BY <1>2, <1>4, <1>7, <1>8, <2>1 DEF Calm
  <2> QED BY <1>1, <1>7, <2>2, CalmKeeps
<1>9. CASE op'[o] = Idle
  <2>1. OpStays(o) BY <1>9, IdleIs DEF OpStays
  <2>2. Calm(o) BY <1>2, <1>7, <1>9, <2>1, IdleIs DEF Calm
  <2> QED BY <1>1, <1>7, <1>8, <2>2, CalmKeeps
<1>10. CASE op'[o] = [op[o] EXCEPT !.step = "apply"] /\ Mutated(o)
  <2>1. /\ op'[o].step = "apply" /\ op'[o].kind = op[o].kind
        /\ op'[o].filter = op[o].filter /\ op'[o].event = None
    BY <1>4, <1>5, <1>10 DEF Operation
  <2>2. OwnerOK(o) BY <1>1
  <2>3. NumberedOK(o)'
    BY <1>2, <1>7, <2>1, <2>2, NumberedKeeps DEF OwnerOK
  <2>4. Deleted(o)' /\ Acked(o)'
    <3>1. (\A e \in Pending(o) : e.id \in Nat) /\ acked[o] \in Nat
      BY <1>1, EventsTyped DEF Known
    <3> QED BY <1>1, <1>2, <1>7, <2>2, <3>1, ConfirmedKeeps DEF OwnerOK
  <2>5. FlushedOK(o)' BY <1>4, <1>7, <2>2 DEF FlushedOK, FlushedSteps, OwnerOK
  <2>6. DoneOK(o)' BY <1>1, <1>4, <1>10, <2>1, MutatedShrinks DEF DoneOK
  <2>7. OwnerOK(o)' BY <1>7, <2>3, <2>4, <2>5, <2>6 DEF OwnerOK
  <2> QED BY <1>8, <2>7
<1> QED BY <1>4, <1>9, <1>10

LEMMA KeptIs ==
    ASSUME ShapeInv, NEW o \in Owners
    PROVE  \A j \in DOMAIN Kept(o) :
             \E i \in DOMAIN history[o] : ~Matching(o, i) /\ Kept(o)[j] = history[o][i]
<1>1. history[o] \in Seq(Events) BY DEF ShapeInv, BusTyped
<1>2. {i \in DOMAIN history[o] : ~Matching(o, i)} \in SUBSET (DOMAIN history[o])
  OBVIOUS
<1>3. \A j \in DOMAIN Kept(o) :
        \E i \in {i \in DOMAIN history[o] : ~Matching(o, i)} : Kept(o)[j] = history[o][i]
  BY <1>1, <1>2, PickedIs DEF Kept
<1> QED BY <1>3

LEMMA ApplyKeeps ==
    ASSUME FinalInv, NEW o \in Owners, Apply(o)
    PROVE  \A p \in Owners : OwnerOK(p)'
<1>1. ShapeInv /\ \A p \in Owners : OwnerOK(p) BY DEF FinalInv
<1>2. UNCHANGED <<queue, writer, rows, published, gone, acked, disabled>>
  BY DEF Apply, latchVars, tableVars, boundVars, ghostVars
<1>3. /\ op[o].step = "apply" /\ op[o].kind \in Mutation /\ op[o].event = None
      /\ op[o] \in Operation /\ history[o] \in Seq(Events)
  BY <1>1, OpParts, ApplyIs DEF Apply, Mutation, ShapeInv, BusTyped
<1>4. \A p \in Owners \ {o} :
        op'[p] = op[p] /\ history'[p] = history[p] /\ seen'[p] = seen[p]
  <2>1. /\ op \in [Owners -> Operation] /\ history \in [Owners -> Seq(Events)]
        /\ seen \in [Owners -> Nat]
    BY <1>1 DEF ShapeInv, BusTyped
  <2>2. op' = [op EXCEPT ![o] = Idle] \/ op' = [op EXCEPT ![o].step = "report"]
    BY <1>1, ApplyIs
  <2>3. history' = history \/ \E h : history' = [history EXCEPT ![o] = h]
    BY <1>1, ApplyIs DEF memoryVars, Mutation
  <2>4. seen' = seen \/ seen' = [seen EXCEPT ![o] = published]
    BY <1>1, ApplyIs DEF ghostVars, Mutation
  <2> QED BY <2>1, <2>2, <2>3, <2>4
<1>5. \/ op'[o] = Idle /\ history' = history /\ seen' = seen
      \/ /\ op'[o] = [op[o] EXCEPT !.step = "report"]
         /\ op[o].kind = "read" => history' = history
         /\ op[o].kind = "delete" => history'[o] = Kept(o)
         /\ op[o].kind = "settings" =>
                history'[o] = AtMost(history[o], op[o].settings.max)
         /\ seen'[o] = seen[o] \/ seen'[o] = published
  <2>1. /\ op \in [Owners -> Operation] /\ history \in [Owners -> Seq(Events)]
        /\ seen \in [Owners -> Nat]
    BY <1>1 DEF ShapeInv, BusTyped
  <2>2. CASE op' = [op EXCEPT ![o] = Idle] /\ UNCHANGED <<memoryVars, ghostVars>>
    BY <2>1, <2>2 DEF memoryVars, ghostVars
  <2>3. CASE op' = [op EXCEPT ![o].step = "report"]
             /\ ~(op[o].kind = "read" /\ configured /\ disabled)
             /\ ~(op' = [op EXCEPT ![o] = Idle])
    <3>1. op'[o] = [op[o] EXCEPT !.step = "report"] BY <2>1, <2>3
    <3>2. CASE op[o].kind = "read" BY <1>1, <2>1, <2>3, <3>1, <3>2, ApplyIs
    <3>3. CASE op[o].kind = "delete"
      <4>1. history' = [history EXCEPT ![o] = Kept(o)] /\ seen' = seen
        BY <1>1, <2>3, <3>3, ApplyIs
      <4>2. history'[o] = Kept(o) BY <2>1, <4>1
      <4> QED BY <3>1, <3>3, <4>1, <4>2
    <3>4. CASE op[o].kind = "settings"
      <4>1. history' = [history EXCEPT ![o] = AtMost(history[o], op[o].settings.max)]
            /\ seen' = seen
        BY <1>1, <2>3, <3>4, ApplyIs
      <4>2. history'[o] = AtMost(history[o], op[o].settings.max) BY <2>1, <4>1
      <4> QED BY <3>1, <3>4, <4>1, <4>2
    <3> QED BY <1>3, <3>2, <3>3, <3>4 DEF Mutation
  <2>4. [op EXCEPT ![o].step = "report"] # [op EXCEPT ![o] = Idle]
    <3>1. [op EXCEPT ![o].step = "report"][o].step = "report"
          /\ [op EXCEPT ![o] = Idle][o].step = "idle"
      BY <1>3, <2>1, IdleIs DEF Operation
    <3> QED BY <3>1
  <2> QED BY <1>1, <2>2, <2>3, <2>4, ApplyIs
<1>6. ASSUME NEW p \in Owners
      PROVE  /\ Shrinks(p) /\ BarrierOK(p)' /\ Pending(p)' = Pending(p)
  <2>1. Pending(p)' = Pending(p) BY <1>2 DEF Pending, Requests
  <2>2. QueuedFor(p)' = QueuedFor(p) BY <1>2 DEF QueuedFor
  <2>3. Held(p)' \subseteq Held(p)
    <3>1. CASE history'[p] = history[p] BY <3>1 DEF Held
    <3>2. CASE p = o /\ history'[p] = Kept(o) BY <1>1, <3>2, KeptIs DEF Held
    <3>3. CASE /\ p = o /\ op[o].kind = "settings"
               /\ history'[p] = AtMost(history[o], op[o].settings.max)
      <4>1. op[o].settings.max \in Nat
        BY <1>1, <1>3, <3>3, OpParts, ConstantsTyped DEF OpOK, Operation, Retention
      <4> QED BY <1>3, <3>3, <4>1, AtMostIs DEF Held
    <3> QED BY <1>3, <1>4, <1>5, <3>1, <3>2, <3>3 DEF Mutation
  <2>4. BarrierOK(p)'
    <3>1. BarrierOK(p) BY <1>1 DEF OwnerOK
    <3>2. op[p].step = "await" => op'[p] = op[p] BY <1>3, <1>4
    <3> QED BY <1>2, <2>2, <3>1, <3>2 DEF BarrierOK
  <2> QED BY <1>2, <2>1, <2>3, <2>4 DEF Shrinks
<1>7. ASSUME NEW p \in Owners, p # o PROVE OwnerOK(p)'
  <2>1. OpStays(p) BY <1>4, <1>7 DEF OpStays
  <2>2. Calm(p) BY <1>2, <1>4, <1>6, <1>7, <2>1 DEF Calm
  <2> QED BY <1>1, <1>6, <2>2, CalmKeeps
<1>8. CASE op'[o] = Idle /\ history' = history /\ seen' = seen
  <2>1. OpStays(o) BY <1>8, IdleIs DEF OpStays
  <2>2. Calm(o) BY <1>2, <1>6, <1>8, <2>1, IdleIs DEF Calm
  <2> QED BY <1>1, <1>6, <1>7, <2>2, CalmKeeps
<1>9. CASE op'[o] = [op[o] EXCEPT !.step = "report"]
           /\ (op[o].kind = "delete" => history'[o] = Kept(o))
           /\ (seen'[o] = seen[o] \/ seen'[o] = published)
  <2>1. /\ op'[o].step = "report" /\ op'[o].kind = op[o].kind
        /\ op'[o].filter = op[o].filter /\ op'[o].event = None
    BY <1>3, <1>9 DEF Operation
  <2>2. OwnerOK(o) /\ NumberedOK(o) /\ DoneOK(o) BY <1>1 DEF OwnerOK
  <2>3. NumberedOK(o)'
    <3>1. Known(o)' \subseteq Known(o) BY <1>6, KnownShrinks
    <3>2. published <= published BY <1>1, EventsTyped
    <3> QED BY <1>2, <1>9, <2>1, <2>2, <3>1, <3>2 DEF NumberedOK
  <2>4. Deleted(o)' /\ Acked(o)'
    <3>1. (\A e \in Pending(o) : e.id \in Nat) /\ acked[o] \in Nat
      BY <1>1, EventsTyped DEF Known
    <3> QED BY <1>1, <1>2, <1>6, <2>2, <3>1, ConfirmedKeeps DEF OwnerOK
  <2>5. FlushedOK(o)' BY <1>3, <1>6, <2>2 DEF FlushedOK, FlushedSteps, OwnerOK
  <2>6. DoneOK(o)'
    <3>1. op[o].kind = "delete" => \A e \in Held(o)' : e.kind \notin op[o].filter
      BY <1>1, <1>9, KeptIs DEF Held, Matching
    <3> QED BY <1>2, <1>3, <2>1, <2>2, <3>1 DEF DoneOK
  <2>7. OwnerOK(o)' BY <1>6, <2>3, <2>4, <2>5, <2>6 DEF OwnerOK
  <2> QED BY <1>7, <2>7
<1> QED BY <1>5, <1>8, <1>9

(* What is confirmed took place, and everything published so far is older.   *)
LEMMA ReportKeeps ==
    ASSUME FinalInv, NEW o \in Owners, Report(o)
    PROVE  \A p \in Owners : OwnerOK(p)'
<1>1. ShapeInv /\ \A p \in Owners : OwnerOK(p) BY DEF FinalInv
<1>2. Still /\ UNCHANGED <<published, seen, disabled>>
  BY DEF Report, Still, memoryVars, latchVars, tableVars, boundVars
<1>3. /\ op[o].step = "report" /\ op'[o] = Idle
      /\ \A p \in Owners \ {o} : op'[p] = op[p]
  BY <1>1, OpParts DEF Report
<1>4. /\ gone \in [Owners -> SUBSET (Nat \X Kinds)] /\ acked \in [Owners -> Nat]
  BY <1>1 DEF ShapeInv, BusTyped
<1>5. /\ \A p \in Owners \ {o} : gone'[p] = gone[p] /\ acked'[p] = acked[p]
      /\ \/ gone'[o] = gone[o]
         \/ /\ op[o].kind = "delete"
            /\ gone'[o] = gone[o] \cup ((1 .. published) \X op[o].filter)
      /\ \/ acked'[o] = acked[o]
         \/ op[o].kind = "read" /\ acked'[o] = published
  BY <1>4 DEF Report
<1>6. ASSUME NEW p \in Owners
      PROVE  /\ Shrinks(p) /\ BarrierOK(p)' /\ OpStays(p)
             /\ Known(p)' = Known(p) /\ Pending(p)' = Pending(p)
             /\ Held(p)' = Held(p)
  <2>1. BarrierOK(p) BY <1>1 DEF OwnerOK
  <2>2. op[p].step = "await" => op'[p].step = "await" BY <1>3
  <2>3. BarrierOK(p)' BY <1>2, <2>1, <2>2, BarrierStill
  <2>4. OpStays(p) BY <1>3, IdleIs DEF OpStays
  <2> QED BY <1>2, <2>3, <2>4, StillIs
<1>7. ASSUME NEW p \in Owners, p # o PROVE OwnerOK(p)'
  <2>1. Calm(p) BY <1>2, <1>3, <1>5, <1>6, <1>7 DEF Calm
  <2> QED BY <1>1, <1>6, <2>1, CalmKeeps
<1>8. OwnerOK(o)'
  <2>1. OwnerOK(o) /\ NumberedOK(o) /\ DoneOK(o) /\ Pending(o) = {}
    BY <1>1, <1>3 DEF OwnerOK, FlushedOK, FlushedSteps
  <2>2. FlushedOK(o)' /\ DoneOK(o)' BY <1>3, IdleIs DEF FlushedOK, DoneOK
  <2>3. published \in Nat /\ op[o].filter \in SUBSET Kinds
    BY <1>1, EventsTyped, OpParts DEF Operation
  <2>4. NumberedOK(o)'
    <3>1. gone'[o] \subseteq (1 .. published) \X Kinds
      BY <1>5, <2>1, <2>3 DEF NumberedOK
    <3>2. acked'[o] <= published BY <1>5, <2>1, <2>3 DEF NumberedOK
    <3> QED BY <1>2, <1>3, <1>6, <2>1, <3>1, <3>2, IdleIs DEF NumberedOK
  <2>5. Deleted(o)'
    <3>1. ASSUME NEW e \in Known(o), op[o].kind = "delete"
          PROVE  e.kind \notin op[o].filter
      BY <1>3, <2>1, <3>1 DEF DoneOK, Known
    <3>2. ASSUME NEW e \in Known(o)
          PROVE  <<e.id, e.kind>> \notin gone'[o]
      <4>1. <<e.id, e.kind>> \notin gone[o] BY <2>1 DEF OwnerOK, Deleted
      <4>2. op[o].kind = "delete" =>
                <<e.id, e.kind>> \notin (1 .. published) \X op[o].filter
        BY <3>1
      <4> QED BY <1>5, <4>1, <4>2
    <3> QED BY <1>6, <3>2 DEF Deleted
  <2>6. Acked(o)'
    <3>1. op[o].kind = "read" => \A r \in rows[o] : r.read
      BY <1>3, <2>1 DEF DoneOK
    <3>2. rows' = rows BY <1>2 DEF Still
    <3>3. \A r \in rows[o] : r.event.id <= acked'[o] => r.read
      BY <1>5, <2>1, <3>1 DEF OwnerOK, Acked
    <3> QED BY <1>6, <2>1, <3>2, <3>3 DEF Acked
  <2> QED BY <1>6, <2>2, <2>4, <2>5, <2>6 DEF OwnerOK
<1> QED BY <1>7, <1>8

-----------------------------------------------------------------------------
(* The writer moves events on: what it drops it does not make up.            *)
Onward ==
    /\ history' = history
    /\ \A i \in DOMAIN queue' : \E j \in DOMAIN queue : queue'[i] = queue[j]
    /\ \A i \in DOMAIN writer'.batch :
         \/ \E j \in DOMAIN writer.batch : writer'.batch[i] = writer.batch[j]
         \/ \E j \in DOMAIN queue : writer'.batch[i] = queue[j]
    /\ \A p \in Owners : \A r \in rows'[p] :
         \/ r.event \in Pending(p)
         \/ \E s \in rows[p] : s.event = r.event /\ (s.read => r.read)

LEMMA OnwardShrinks ==
    ASSUME Onward, NEW p \in Owners
    PROVE  Shrinks(p)
<1>1. Held(p)' = Held(p) BY DEF Onward, Held
<1>2. ASSUME NEW e, e \in Pending(p)' PROVE e \in Pending(p)
  <2>1. \/ \E i \in DOMAIN queue' :
              queue'[i].type = "event" /\ queue'[i].owner = p /\ e = queue'[i].event
        \/ \E i \in DOMAIN writer'.batch :
              /\ writer'.batch[i].type = "event" /\ writer'.batch[i].owner = p
              /\ e = writer'.batch[i].event
    BY <1>2 DEF Pending, Requests
  <2>2. \/ \E j \in DOMAIN queue :
              queue[j].type = "event" /\ queue[j].owner = p /\ e = queue[j].event
        \/ \E j \in DOMAIN writer.batch :
              /\ writer.batch[j].type = "event" /\ writer.batch[j].owner = p
              /\ e = writer.batch[j].event
    BY <2>1 DEF Onward
  <2> QED BY <2>2, PendingIs
<1> QED BY <1>1, <1>2 DEF Shrinks, Onward

(* A step of the writer, which may answer the barrier of one owner.          *)
LEMMA WriterStep ==
    ASSUME FinalInv, Onward, UNCHANGED <<published, gone, acked, seen>>,
           \A p \in Owners : BarrierOK(p)',
           \A p \in Owners :
             \/ op'[p] = op[p] \/ op'[p] = Idle
             \/ op'[p] = [op[p] EXCEPT !.step = "sql"] /\ Pending(p)' = {}
    PROVE  \A p \in Owners : OwnerOK(p)'
<1>1. ShapeInv /\ \A p \in Owners : OwnerOK(p) BY DEF FinalInv
<1>2. ASSUME NEW p \in Owners PROVE OwnerOK(p)'
  <2>1. op[p] \in Operation BY <1>1, OpParts
  <2>2. CASE op'[p] = op[p] \/ op'[p] = Idle
    <3>1. op'[p].event \in {op[p].event, None} /\ OpStays(p)
      BY <2>2, IdleIs DEF OpStays
    <3> QED BY <1>1, <3>1, OnwardShrinks, CalmKeeps DEF Calm
  <2>3. CASE op'[p] = [op[p] EXCEPT !.step = "sql"] /\ Pending(p)' = {}
    <3>1. op'[p].event = op[p].event /\ op'[p].step = "sql"
      BY <2>1, <2>3 DEF Operation
    <3>2. OpStays(p) BY <2>3, <3>1 DEF OpStays
    <3> QED BY <1>1, <3>1, <3>2, OnwardShrinks, CalmKeeps DEF Calm
  <2> QED BY <2>2, <2>3
<1> QED BY <1>2

LEMMA SameRows ==
    ASSUME rows' = rows
    PROVE  \A p \in Owners : \A r \in rows'[p] :
             \/ r.event \in Pending(p)
             \/ \E s \in rows[p] : s.event = r.event /\ (s.read => r.read)
OBVIOUS

(* A barrier that reaches the writer has nothing of its owner behind it.     *)
LEMMA HeadBarrier ==
    ASSUME ShapeInv, NEW p \in Owners, BarrierOK(p), ~disabled,
           queue # <<>>, queue' = Tail(queue),
           Head(queue).type = "barrier", Head(queue).owner = p
    PROVE  QueuedFor(p)' = {} /\ op[p].step = "await"
<1>1. /\ 1 \in QueuedFor(p) /\ queue[1].type = "barrier"
      /\ \A i \in QueuedFor(p)' : i \in Nat \ {0} /\ i + 1 \in QueuedFor(p)
  BY TailMoves
<1>2. op[p].step = "await" /\ \A j \in QueuedFor(p) : j <= 1
  BY <1>1 DEF BarrierOK
<1>3. ASSUME NEW i \in QueuedFor(p)' PROVE FALSE
  <2>1. i \in Nat \ {0} /\ i + 1 <= 1 BY <1>1, <1>2
  <2> QED BY <2>1
<1> QED BY <1>2, <1>3

LEMMA TailBarrier ==
    ASSUME ShapeInv, NEW p \in Owners, BarrierOK(p), ~disabled,
           queue # <<>>, queue' = Tail(queue)
    PROVE  \A i \in QueuedFor(p)' : queue'[i].type = "barrier" =>
                op[p].step = "await" /\ \A j \in QueuedFor(p)' : j <= i
<1>1. \A i \in QueuedFor(p)' : /\ i \in Nat \ {0} /\ i + 1 \in QueuedFor(p)
                               /\ queue'[i] = queue[i + 1]
  BY TailMoves
<1>2. ASSUME NEW i \in QueuedFor(p)', queue'[i].type = "barrier"
      PROVE  op[p].step = "await" /\ \A j \in QueuedFor(p)' : j <= i
  <2>1. i + 1 \in QueuedFor(p) /\ queue[i + 1].type = "barrier" BY <1>1, <1>2
  <2>2. op[p].step = "await" /\ \A j \in QueuedFor(p) : j <= i + 1
    BY <2>1 DEF BarrierOK
  <2>3. ASSUME NEW j \in QueuedFor(p)' PROVE j <= i
    <3>1. j \in Nat /\ i \in Nat /\ j + 1 <= i + 1 BY <1>1, <2>2
    <3> QED BY <3>1
  <2> QED BY <2>2, <2>3
<1> QED BY <1>2

LEMMA QueuedPending ==
    ASSUME ShapeInv, NEW p \in Owners, QueuedFor(p)' = {}, writer'.batch = <<>>
    PROVE  Pending(p)' = {}
BY DEF QueuedFor, Pending, Requests

LEMMA WriterTakeKeeps ==
    ASSUME FinalInv, WriterTake
    PROVE  \A p \in Owners : OwnerOK(p)'
<1>1. ShapeInv /\ \A p \in Owners : BarrierOK(p) BY DEF FinalInv, OwnerOK
<1>2. /\ UNCHANGED <<history, rows, published, gone, acked, seen, configured>>
      /\ writer.step = "idle" /\ queue # <<>> /\ queue' = Tail(queue)
  BY DEF WriterTake, memoryVars, tableVars, ghostVars
<1>3. disabled => disabled' BY DEF WriterTake, latchVars
<1>4. /\ writer.batch = <<>> /\ writer.barrier = None
      /\ None \notin Owners
      /\ Head(queue) \in Messages /\ Head(queue).owner \in Owners
      /\ Head(queue) = queue[1] /\ 1 \in DOMAIN queue
      /\ \A i \in DOMAIN queue' : i + 1 \in DOMAIN queue /\ queue'[i] = queue[i + 1]
  <2>1. PICK p \in Owners : Head(queue).owner = p
    BY <1>1, <1>2, WriterParts, TailIs, MessageParts
  <2>2. writer.batch = <<>> /\ writer.barrier = None BY <1>1, <1>2, WriterParts
  <2> QED BY <1>1, <1>2, <2>1, <2>2, TailMoves, ConstantsTyped
<1>5. \/ /\ Head(queue).type = "barrier" /\ writer' = writer /\ disabled' = disabled
         /\ op' = Replied(Head(queue).owner, Active)
      \/ /\ Head(queue).type = "event" /\ op' = op
         /\ writer' = writer \/ writer' = [writer EXCEPT !.step = "collect",
                                               !.batch = <<Head(queue)>>]
  BY DEF WriterTake, latchVars
<1>6. /\ writer'.barrier = None
      /\ \A i \in DOMAIN writer'.batch : writer'.batch[i] = queue[1]
  <2>1. CASE writer' = writer BY <1>4, <2>1
  <2>2. CASE writer' = [writer EXCEPT !.step = "collect", !.batch = <<Head(queue)>>]
    <3>1. writer'.barrier = None /\ writer'.batch = <<Head(queue)>>
      BY <1>1, <1>4, <2>2, WriterParts
    <3> QED BY <1>4, <3>1
  <2> QED BY <1>5, <2>1, <2>2
<1>7. Onward BY <1>2, <1>4, <1>6, SameRows DEF Onward
<1>8. CASE Head(queue).type = "event" /\ op' = op
  <2>1. ASSUME NEW p \in Owners PROVE BarrierOK(p)'
    <3>1. ~disabled => \A i \in QueuedFor(p)' : queue'[i].type = "barrier" =>
                op[p].step = "await" /\ \A j \in QueuedFor(p)' : j <= i
      BY <1>1, <1>2, TailBarrier
    <3> QED BY <1>3, <1>4, <1>6, <1>8, <3>1 DEF BarrierOK
  <2> QED BY <1>2, <1>7, <1>8, <2>1, WriterStep
<1>9. CASE /\ Head(queue).type = "barrier" /\ writer' = writer
           /\ disabled' = disabled /\ op' = Replied(Head(queue).owner, Active)
  <2>0. PICK o \in Owners : Head(queue).owner = o BY <1>4
  <2>1. /\ \A p \in Owners \ {o} : op'[p] = op[p]
        /\ op[o].step # "await" => op'[o] = op[o]
        /\ op[o].step = "await" =>
              op'[o] = IF Active THEN [op[o] EXCEPT !.step = "sql"] ELSE Idle
    BY <1>1, <1>2, <1>4, <1>9, <2>0, ActiveTyped, RepliedMoves
  <2>2. ~disabled => QueuedFor(o)' = {} BY <1>1, <1>2, <1>4, <1>9, <2>0, HeadBarrier
  <2>3. ASSUME NEW p \in Owners PROVE BarrierOK(p)'
    <3>1. ~disabled => \A i \in QueuedFor(p)' : queue'[i].type = "barrier" =>
                op[p].step = "await" /\ \A j \in QueuedFor(p)' : j <= i
      BY <1>1, <1>2, TailBarrier
    <3>2. CASE p = o BY <1>4, <1>6, <1>9, <2>2, <3>2 DEF BarrierOK
    <3>3. CASE p # o BY <1>4, <1>6, <1>9, <2>1, <3>1, <3>3 DEF BarrierOK
    <3> QED BY <3>2, <3>3
  <2>4. ASSUME NEW p \in Owners
        PROVE  \/ op'[p] = op[p] \/ op'[p] = Idle
               \/ op'[p] = [op[p] EXCEPT !.step = "sql"] /\ Pending(p)' = {}
    <3>1. CASE p # o \/ op[p].step # "await" BY <2>1, <3>1
    <3>2. CASE p = o /\ op[p].step = "await" /\ ~Active BY <2>1, <3>2
    <3>3. CASE p = o /\ op[p].step = "await" /\ Active
      <4>1. QueuedFor(p)' = {} /\ writer'.batch = <<>>
        BY <1>4, <1>9, <2>2, <3>3 DEF Active
      <4>2. Pending(p)' = {} BY <1>1, <4>1, QueuedPending
      <4> QED BY <2>1, <3>3, <4>2
    <3> QED BY <3>1, <3>2, <3>3
  <2> QED BY <1>2, <1>7, <2>3, <2>4, WriterStep
<1> QED BY <1>5, <1>8, <1>9

LEMMA WriterCollectKeeps ==
    ASSUME FinalInv, WriterCollect
    PROVE  \A p \in Owners : OwnerOK(p)'
<1>1. ShapeInv /\ \A p \in Owners : BarrierOK(p) BY DEF FinalInv, OwnerOK
<1>2. /\ UNCHANGED <<history, rows, op, disabled, published, gone, acked, seen>>
      /\ writer.step = "collect" /\ queue # <<>> /\ queue' = Tail(queue)
  BY DEF WriterCollect, memoryVars, latchVars, tableVars, boundVars, ghostVars
<1>3. /\ writer.barrier = None /\ None \notin Owners
      /\ Head(queue) \in Messages /\ Head(queue).owner \in Owners
      /\ Head(queue) = queue[1] /\ 1 \in DOMAIN queue
      /\ \A i \in DOMAIN queue' : i + 1 \in DOMAIN queue /\ queue'[i] = queue[i + 1]
  <2>1. PICK p \in Owners : Head(queue).owner = p
    BY <1>1, <1>2, WriterParts, TailIs, MessageParts
  <2>2. writer.barrier = None BY <1>1, <1>2, WriterParts
  <2> QED BY <1>1, <1>2, <2>1, <2>2, TailMoves, ConstantsTyped
<1>4. /\ Head(queue).type = "event" =>
            writer'.barrier = None /\ writer'.batch = Append(writer.batch, Head(queue))
      /\ Head(queue).type # "event" =>
            writer'.barrier = Head(queue).owner /\ writer'.batch = writer.batch
  BY <1>1, <1>3, WriterParts DEF WriterCollect
<1>5. Onward
  <2>1. ASSUME NEW i \in DOMAIN writer'.batch
        PROVE  \/ \E j \in DOMAIN writer.batch : writer'.batch[i] = writer.batch[j]
               \/ \E j \in DOMAIN queue : writer'.batch[i] = queue[j]
    <3>1. CASE Head(queue).type = "event"
      <4>1. writer.batch \in Seq(Messages) BY <1>1, WriterParts
      <4>2. /\ DOMAIN writer'.batch = 1 .. Len(writer.batch) + 1
            /\ \A j \in 1 .. Len(writer.batch) : writer'.batch[j] = writer.batch[j]
            /\ writer'.batch[Len(writer.batch) + 1] = Head(queue)
            /\ Len(writer.batch) \in Nat /\ DOMAIN writer.batch = 1 .. Len(writer.batch)
        BY <1>3, <1>4, <3>1, <4>1, AppendIs, LenProperties
      <4>3. i \in 1 .. Len(writer.batch) \/ i = Len(writer.batch) + 1
        BY <4>2
      <4> QED BY <1>3, <4>2, <4>3
    <3>2. CASE Head(queue).type # "event" BY <1>4, <3>2
    <3> QED BY <3>1, <3>2
  <2> QED BY <1>2, <1>3, <2>1, SameRows DEF Onward
<1>6. ASSUME NEW p \in Owners PROVE BarrierOK(p)'
  <2>1. ~disabled => \A i \in QueuedFor(p)' : queue'[i].type = "barrier" =>
                op[p].step = "await" /\ \A j \in QueuedFor(p)' : j <= i
    BY <1>1, <1>2, TailBarrier
  <2>2. CASE Head(queue).type = "event"
    BY <1>2, <1>3, <1>4, <2>1, <2>2 DEF BarrierOK
  <2>3. CASE Head(queue).type # "event"
    <3>1. Head(queue).type = "barrier" BY <1>3, <2>3, MessageParts
    <3>2. ~disabled /\ Head(queue).owner = p =>
              QueuedFor(p)' = {} /\ op[p].step = "await"
      BY <1>1, <1>2, <3>1, HeadBarrier
    <3> QED BY <1>2, <1>4, <2>1, <2>3, <3>2 DEF BarrierOK
  <2> QED BY <2>2, <2>3
<1> QED BY <1>2, <1>5, <1>6, WriterStep

LEMMA WriterCloseKeeps ==
    ASSUME FinalInv, WriterClose
    PROVE  \A p \in Owners : OwnerOK(p)'
<1>1. ShapeInv /\ \A p \in Owners : BarrierOK(p) BY DEF FinalInv, OwnerOK
<1>2. UNCHANGED <<history, rows, queue, op, disabled, published, gone, acked, seen>>
  BY DEF WriterClose, memoryVars, latchVars, tableVars, boundVars, ghostVars
<1>3. writer'.batch = writer.batch /\ writer'.barrier = writer.barrier
  BY <1>1, WriterParts DEF WriterClose
<1>4. Onward BY <1>2, <1>3, SameRows DEF Onward
<1>5. \A p \in Owners : BarrierOK(p)' BY <1>1, <1>2, <1>3 DEF BarrierOK, QueuedFor
<1> QED BY <1>2, <1>4, <1>5, WriterStep

LEMMA WriterGivesUpKeeps ==
    ASSUME FinalInv, WriterGivesUp
    PROVE  \A p \in Owners : OwnerOK(p)'
<1>1. ShapeInv /\ \A p \in Owners : BarrierOK(p) BY DEF FinalInv, OwnerOK
<1>2. UNCHANGED <<history, rows, queue, op, disabled, published, gone, acked, seen>>
  BY DEF WriterGivesUp, memoryVars, latchVars, tableVars, boundVars, ghostVars
<1>3. writer'.batch = <<>> /\ writer'.barrier = writer.barrier
  BY <1>1, WriterParts DEF WriterGivesUp
<1>4. Onward BY <1>2, <1>3, SameRows DEF Onward
<1>5. \A p \in Owners : BarrierOK(p)' BY <1>1, <1>2, <1>3 DEF BarrierOK, QueuedFor
<1> QED BY <1>2, <1>4, <1>5, WriterStep

LEMMA WriterDoneKeeps ==
    ASSUME FinalInv, WriterDone
    PROVE  \A p \in Owners : OwnerOK(p)'
<1>1. ShapeInv /\ \A p \in Owners : BarrierOK(p) BY DEF FinalInv, OwnerOK
<1>2. /\ UNCHANGED <<history, rows, queue, disabled, published, gone, acked, seen,
                     configured>>
      /\ writer.batch = <<>>
  BY DEF WriterDone, memoryVars, latchVars, tableVars, boundVars, ghostVars
<1>3. writer'.batch = <<>> /\ writer'.barrier = None /\ None \notin Owners
  BY ConstantsTyped DEF WriterDone, WriterIdle
<1>4. Onward BY <1>2, <1>3, SameRows DEF Onward
<1> DEFINE o == writer.barrier
<1>5. o \in Owners \cup {None} /\ op' = Replied(o, Active)
  BY <1>1, WriterParts DEF WriterDone
<1>6. /\ \A p \in Owners \ {o} : op'[p] = op[p]
      /\ \A p \in Owners : op[p].step # "await" => op'[p] = op[p]
      /\ o \in Owners /\ op[o].step = "await" =>
           op'[o] = IF Active THEN [op[o] EXCEPT !.step = "sql"] ELSE Idle
  BY <1>1, <1>2, <1>5, ActiveTyped, RepliedMoves
<1>7. \A p \in Owners : QueuedFor(p)' = QueuedFor(p) BY <1>2 DEF QueuedFor
<1>8. ASSUME NEW p \in Owners PROVE BarrierOK(p)'
  <2>1. CASE p = o
    <3>1. ~disabled => QueuedFor(p) = {} BY <1>1, <2>1 DEF BarrierOK
    <3> QED BY <1>2, <1>3, <1>7, <3>1 DEF BarrierOK
  <2>2. CASE p # o
    <3>1. op'[p] = op[p] BY <1>6, <2>2
    <3> QED BY <1>1, <1>2, <1>3, <1>7, <3>1 DEF BarrierOK
  <2> QED BY <2>1, <2>2
<1>9. ASSUME NEW p \in Owners
      PROVE  \/ op'[p] = op[p] \/ op'[p] = Idle
             \/ op'[p] = [op[p] EXCEPT !.step = "sql"] /\ Pending(p)' = {}
  <2>1. CASE p # o \/ op[p].step # "await" BY <1>6, <2>1
  <2>2. CASE p = o /\ op[p].step = "await" /\ ~Active BY <1>6, <2>2
  <2>3. CASE p = o /\ op[p].step = "await" /\ Active
    <3>1. ~disabled BY <2>3 DEF Active
    <3>2. QueuedFor(p)' = {} BY <1>1, <1>7, <2>3, <3>1 DEF BarrierOK
    <3>3. Pending(p)' = {} BY <1>1, <1>3, <3>2, QueuedPending
    <3> QED BY <1>6, <2>3, <3>3
  <2> QED BY <2>1, <2>2, <2>3
<1> QED BY <1>2, <1>4, <1>8, <1>9, WriterStep

LEMMA StopsIs ==
    ASSUME Stops
    PROVE  disabled' /\ queue' = <<>> /\ writer'.batch = <<>> /\ writer'.barrier = None
BY DEF Stops, WriterStopped, WriterIdle

LEMMA InsertedBrings ==
    ASSUME NEW table \in SUBSET Row, IsFiniteSet(table),
           NEW requests \in Seq(Messages), NEW n \in Nat, NEW copies \in 1 .. 2,
           \A i \in DOMAIN requests : requests[i].type = "event",
           NEW r \in Inserted(table, requests, n, copies), r \notin table
    PROVE  r.read = FALSE /\ \E i \in DOMAIN requests : r.event = requests[i].event
<1>1. /\ Inserted(table, requests, n, copies) \in SUBSET Row
      /\ IsFiniteSet(Inserted(table, requests, n, copies))
      /\ table \subseteq Inserted(table, requests, n, copies)
      /\ \A s \in Inserted(table, requests, n, copies) \ table :
           /\ s.read = FALSE
           /\ \E i \in DOMAIN requests : s.event = requests[i].event
      /\ copies = 1 => Inserted(table, requests, n, copies) =
                           table \cup NewRows(table, requests, n, 0)
  BY InsertedIs
<1> QED BY <1>1

LEMMA PersistGroupKeeps ==
    ASSUME FinalInv, NEW g \in Groups, PersistGroup(g)
    PROVE  \A p \in Owners : OwnerOK(p)'
<1>1. ShapeInv /\ \A p \in Owners : BarrierOK(p) BY DEF FinalInv, OwnerOK
<1>2. UNCHANGED <<history, op, published, gone, acked, seen>>
  BY PersistIs DEF ghostVars
<1>3. Stops \/ Goes(g) BY PersistIs
<1>4. Goes(g) => /\ queue' = queue /\ disabled' = disabled
                 /\ writer'.batch = Others(writer.batch, g)
                 /\ writer'.barrier = writer.barrier
  BY <1>1, WriterParts DEF Goes
<1>5. ASSUME NEW i \in DOMAIN writer'.batch
      PROVE  \E j \in DOMAIN writer.batch : writer'.batch[i] = writer.batch[j]
  <2>1. CASE Stops
    <3>1. writer'.batch = <<>> BY <2>1, StopsIs
    <3> QED BY <1>5, <3>1
  <2>2. CASE Goes(g) BY <1>1, <1>4, <1>5, <2>2, WriterParts, MembersAre
  <2> QED BY <1>3, <2>1, <2>2
<1>6. ASSUME NEW p \in Owners, NEW r \in rows'[p]
      PROVE  \/ r.event \in Pending(p)
             \/ \E s \in rows[p] : s.event = r.event /\ (s.read => r.read)
  <2> DEFINE requests == Members(writer.batch, g)
  <2>1. CASE r \in rows[p] BY <2>1
  <2>2. CASE r \notin rows[p]
    <3>1. PICK copies \in 1 .. 2 :
            rows' = [rows EXCEPT ![g.owner] = Inserted(@, requests, Fit(g), copies)]
      <4>1. rows' # rows BY <1>6, <2>2
      <4>2. CASE \E copies \in Copies :
                    rows' = [rows EXCEPT ![g.owner] =
                                Inserted(@, Members(writer.batch, g), Fit(g), copies)]
        BY <4>2, CopiesAre
      <4>3. CASE rows' = [rows EXCEPT ![g.owner] =
                             Inserted(@, Members(writer.batch, g), Fit(g), 1)]
        BY <4>3
      <4> QED BY <4>1, <4>2, <4>3, PersistIs
    <3>2. /\ rows \in [Owners -> SUBSET Row] /\ \A q \in Owners : IsFiniteSet(rows[q])
          /\ g.owner \in Owners
      BY <1>1 DEF ShapeInv, BusTyped, Groups
    <3>3. p = g.owner /\ r \in Inserted(rows[p], requests, Fit(g), copies) \ rows[p]
      BY <1>6, <2>2, <3>1, <3>2
    <3>4. /\ requests \in Seq(Messages) /\ Fit(g) \in Nat
          /\ \A i \in DOMAIN requests : requests[i].type = "event"
          /\ \A i \in DOMAIN requests :
                \E j \in DOMAIN writer.batch :
                    requests[i] = writer.batch[j] /\ GroupOf(writer.batch[j]) = g
      BY <1>1, WriterParts, MembersAre, FitTyped
    <3>8. rows[p] \in SUBSET Row /\ IsFiniteSet(rows[p]) BY <3>2
    <3> HIDE DEF requests
    <3>9. r.read = FALSE /\ \E i \in DOMAIN requests : r.event = requests[i].event
      <4>1. requests \in Seq(Messages) /\ Fit(g) \in Nat BY <3>4
      <4>2. \A i \in DOMAIN requests : requests[i].type = "event" BY <3>4
      <4>3. r \in Inserted(rows[p], requests, Fit(g), copies) /\ r \notin rows[p]
        BY <3>3
      <4>4. copies \in 1 .. 2 OBVIOUS
      <4> QED BY ONLY <3>8, <4>1, <4>2, <4>3, <4>4, InsertedBrings, ZenonT(30)
    <3>5. PICK i \in DOMAIN requests : r.event = requests[i].event
      BY <3>3, <3>9
    <3>6. PICK j \in DOMAIN writer.batch :
            requests[i] = writer.batch[j] /\ GroupOf(writer.batch[j]) = g
      BY <3>4
    <3>7. writer.batch[j].type = "event" /\ writer.batch[j].owner = p
      BY <3>3, <3>4, <3>6 DEF GroupOf
    <3> QED BY <3>5, <3>6, <3>7, PendingIs
  <2> QED BY <2>1, <2>2
<1>7. \A i \in DOMAIN queue' : \E j \in DOMAIN queue : queue'[i] = queue[j]
  BY <1>3, <1>4, StopsIs
<1>8. Onward BY <1>2, <1>5, <1>6, <1>7 DEF Onward
<1>9. \A p \in Owners : BarrierOK(p)'
  BY <1>1, <1>2, <1>3, <1>4, StopsIs DEF BarrierOK, QueuedFor
<1> QED BY <1>2, <1>8, <1>9, WriterStep

LEMMA TrimGroupKeeps ==
    ASSUME FinalInv, TrimGroup
    PROVE  \A p \in Owners : OwnerOK(p)'
<1>1. ShapeInv /\ \A p \in Owners : BarrierOK(p) BY DEF FinalInv, OwnerOK
<1>2. UNCHANGED <<history, op, published, gone, acked, seen>>
  BY DEF TrimGroup, memoryVars, ghostVars
<1>3. \/ /\ rows' = [rows EXCEPT ![writer.trim.owner] =
                        Trimmed(rows[writer.trim.owner], writer.trim.settings.max)]
         /\ writer' = [writer EXCEPT !.trim = None] /\ UNCHANGED <<disabled, queue>>
      \/ rows' = rows /\ Stops
  BY DEF TrimGroup, Stop, Stops
<1>4. \/ /\ queue' = queue /\ disabled' = disabled
         /\ writer'.batch = writer.batch /\ writer'.barrier = writer.barrier
      \/ Stops
  BY <1>1, <1>3, WriterParts
<1>5. \A p \in Owners : rows'[p] \subseteq rows[p]
  <2>1. rows \in [Owners -> SUBSET Row] BY <1>1 DEF ShapeInv, BusTyped
  <2> QED BY <1>3, <2>1 DEF Trimmed
<1>6. Onward
  <2>1. \A i \in DOMAIN queue' : \E j \in DOMAIN queue : queue'[i] = queue[j]
    BY <1>4, StopsIs
  <2>2. \A i \in DOMAIN writer'.batch :
            \E j \in DOMAIN writer.batch : writer'.batch[i] = writer.batch[j]
    BY <1>4, StopsIs
  <2> QED BY <1>2, <1>5, <2>1, <2>2 DEF Onward
<1>7. \A p \in Owners : BarrierOK(p)'
  BY <1>1, <1>2, <1>4, StopsIs DEF BarrierOK, QueuedFor
<1> QED BY <1>2, <1>6, <1>7, WriterStep

(* A restart leaves the tables, and nothing on its way to them.              *)
LEMMA RestartKeeps ==
    ASSUME FinalInv, Restart
    PROVE  \A p \in Owners : OwnerOK(p)'
<1>1. ShapeInv /\ \A p \in Owners : OwnerOK(p) BY DEF FinalInv
<1>2. UNCHANGED <<rows, published, gone, acked, seen>>
  BY DEF Restart, tableVars, ghostVars
<1>3. ASSUME NEW p \in Owners PROVE OwnerOK(p)'
  <2>1. /\ history'[p] = <<>> /\ queue' = <<>> /\ writer'.batch = <<>>
        /\ writer'.barrier = None /\ op'[p] = Idle
    BY DEF Restart, WriterIdle
  <2>2. Held(p)' = {} /\ QueuedFor(p)' = {} /\ Pending(p)' = {}
    BY <2>1 DEF Held, QueuedFor, Pending, Requests
  <2>3. BarrierOK(p)'
    <3>1. None \notin Owners BY ConstantsTyped
    <3> QED BY <2>1, <2>2, <3>1 DEF BarrierOK
  <2>4. Shrinks(p) BY <1>2, <2>2 DEF Shrinks
  <2>5. OpStays(p) BY <2>1, IdleIs DEF OpStays
  <2>6. Calm(p) BY <1>2, <2>1, <2>4, <2>5, IdleIs DEF Calm
  <2> QED BY <1>1, <2>3, <2>6, CalmKeeps
<1> QED BY <1>3


-----------------------------------------------------------------------------
LEMMA FinalInit == Init => FinalInv
<1> SUFFICES ASSUME Init PROVE FinalInv OBVIOUS
<1>1. ShapeInv BY TypedInit
<1>2. ASSUME NEW o \in Owners PROVE OwnerOK(o)
  <2>1. /\ history[o] = <<>> /\ queue = <<>> /\ writer.batch = <<>>
        /\ writer.barrier = None /\ op[o] = Idle /\ rows[o] = {} /\ published = 0
        /\ seen[o] = 0 /\ gone[o] = {} /\ acked[o] = 0
    BY DEF Init, MemoryInit, WriterIdle
  <2>2. Held(o) = {} /\ QueuedFor(o) = {} /\ Pending(o) = {} /\ Known(o) = {}
    BY <2>1 DEF Held, QueuedFor, Pending, Requests, Known
  <2>3. BarrierOK(o)
    <3>1. None \notin Owners BY ConstantsTyped
    <3> QED BY <2>1, <2>2, <3>1 DEF BarrierOK
  <2>4. FlushedOK(o) /\ DoneOK(o) BY <2>1, IdleIs DEF FlushedOK, DoneOK
  <2>5. NumberedOK(o) BY <2>1, <2>2, IdleIs DEF NumberedOK
  <2>6. Deleted(o) /\ Acked(o) BY <2>1, <2>2 DEF Deleted, Acked
  <2> QED BY <2>3, <2>4, <2>5, <2>6 DEF OwnerOK
<1> QED BY <1>1, <1>2 DEF FinalInv

LEMMA FinalStutter == FinalInv /\ UNCHANGED busVars => FinalInv'
<1> SUFFICES ASSUME FinalInv, UNCHANGED busVars PROVE FinalInv' OBVIOUS
<1>1. UNCHANGED <<history, unread, cache, counts, admitted, disabled, ready, queue,
                  writer, op, reader, rows, stored, published, mutations, faults,
                  restarts, seen, gone, acked, chosen, configured>>
  BY DEF busVars, memoryVars, latchVars, tableVars, boundVars, ghostVars
<1>2. BusTyped' BY <1>1 DEF FinalInv, ShapeInv, BusTyped
<1>3. WriterOK' /\ UnconfiguredOK' /\ \A o \in Owners : OpOK(o)'
  BY <1>1 DEF FinalInv, ShapeInv, WriterOK, UnconfiguredOK, OpOK
<1>4. ASSUME NEW o \in Owners PROVE OwnerOK(o)'
  <2>1. /\ Held(o)' = Held(o) /\ QueuedFor(o)' = QueuedFor(o)
        /\ Pending(o)' = Pending(o) /\ Known(o)' = Known(o)
    BY <1>1 DEF Held, QueuedFor, Pending, Requests, Known
  <2>2. BarrierOK(o)' /\ FlushedOK(o)' /\ DoneOK(o)'
    BY <1>1, <2>1 DEF FinalInv, OwnerOK, BarrierOK, FlushedOK, DoneOK
  <2>3. NumberedOK(o)' /\ Deleted(o)' /\ Acked(o)'
    BY <1>1, <2>1 DEF FinalInv, OwnerOK, NumberedOK, Deleted, Acked
  <2> QED BY <2>2, <2>3 DEF OwnerOK
<1> QED BY <1>2, <1>3, <1>4 DEF FinalInv, ShapeInv

LEMMA LateIs ==
    ASSUME ShapeInv, NEW late \in 0 .. Skew
    PROVE  /\ published + 1 - late \in Int /\ published + 1 - late <= published + 1
           /\ published + 1 - Skew <= published + 1 - late
<1>1. published \in Int /\ Skew \in Nat BY BusConstants DEF ShapeInv, BusTyped
<1> QED BY <1>1

LEMMA MutationIs ==
    /\ {"read", "delete", "settings"} = Mutation /\ Settings \subseteq Retention
    /\ DefaultSettings \in Retention
BY BusConstants DEF Mutation

(* What a mutation may carry: see Mutating.                                  *)
Carries(kind, filter, settings) ==
    /\ kind \in Mutation /\ filter \in SUBSET Kinds
    /\ settings \in Retention \cup {None}
    /\ kind = "settings" => settings # None

LEMMA FinalStep == FinalInv /\ Next => FinalInv'
<1> SUFFICES ASSUME FinalInv, Next PROVE ShapeInv' /\ \A p \in Owners : OwnerOK(p)'
  BY DEF FinalInv
<1>0. ShapeInv BY DEF FinalInv
<1>1. ASSUME NEW o \in Owners, Publishing(o)
      PROVE  ShapeInv' /\ \A p \in Owners : OwnerOK(p)'
  <2>1. ASSUME NEW kind \in Kinds, NEW late \in 0 .. Skew,
               StartPublish(o, kind, published + 1 - late)
        PROVE  ShapeInv' /\ \A p \in Owners : OwnerOK(p)'
    <3>1. PICK at \in Int : /\ at = published + 1 - late /\ at <= published + 1
                            /\ published + 1 - Skew <= at
      BY <1>0, LateIs
    <3>2. StartPublish(o, kind, at) BY <2>1, <3>1
    <3> QED BY <1>0, <3>1, <3>2, StartPublishTyped, StartPublishKeeps
  <2>2. CASE CancelPublish(o) BY <1>0, <2>2, CancelPublishTyped, CancelPublishKeeps
  <2> QED BY <1>1, <2>1, <2>2 DEF Publishing
<1>2. ASSUME NEW o \in Owners, Mutating(o)
      PROVE  ShapeInv' /\ \A p \in Owners : OwnerOK(p)'
  <2>1. ASSUME NEW kind, NEW filter, NEW settings, Carries(kind, filter, settings),
               StartMutation(o, kind, filter, settings)
        PROVE  ShapeInv' /\ \A p \in Owners : OwnerOK(p)'
    <3>1. /\ kind \in Mutation /\ filter \in SUBSET Kinds
          /\ settings \in Retention \cup {None} /\ (kind = "settings" => settings # None)
      BY <2>1 DEF Carries
    <3>2. ShapeInv' BY <1>0, <2>1, <3>1, StartMutationTyped
    <3>3. \A p \in Owners : OwnerOK(p)' BY <2>1, <3>1, StartMutationKeeps
    <3> QED BY <3>2, <3>3
  <2>2. CASE StartMutation(o, "read", {}, None)
    <3>1. Carries("read", {}, None) BY MutationIs DEF Carries
    <3> QED BY <2>1, <2>2, <3>1
  <2>3. ASSUME NEW filter \in SUBSET Kinds \ {{}}, StartMutation(o, "delete", filter, None)
        PROVE  ShapeInv' /\ \A p \in Owners : OwnerOK(p)'
    <3>1. Carries("delete", filter, None) BY MutationIs DEF Carries
    <3> QED BY <2>1, <2>3, <3>1
  <2>4. ASSUME NEW s \in Settings, StartMutation(o, "settings", {}, s)
        PROVE  ShapeInv' /\ \A p \in Owners : OwnerOK(p)'
    <3>1. Carries("settings", {}, s) BY MutationIs, ConstantsTyped DEF Carries
    <3> QED BY <2>1, <2>4, <3>1
  <2>5. CASE CallerLeaves(o) BY <1>0, <2>5, CallerLeavesTyped, CallerLeavesKeeps
  <2> QED BY <1>2, <2>2, <2>3, <2>4, <2>5 DEF Mutating
<1>3. ASSUME NEW o \in Owners, Proceed(o)
      PROVE  ShapeInv' /\ \A p \in Owners : OwnerOK(p)'
  <2>1. CASE LoadSettings(o) BY <1>0, <2>1, LoadSettingsTyped, LoadSettingsKeeps
  <2>2. CASE CountAdmitted(o) BY <1>0, <2>2, CountAdmittedTyped, CountAdmittedKeeps
  <2>3. CASE Accept(o) BY <1>0, <2>3, AcceptTyped, AcceptKeeps
  <2>4. CASE SendBarrier(o) BY <1>0, <2>4, SendBarrierTyped, SendBarrierKeeps
  <2>5. CASE FlushFails(o) BY <1>0, <2>5, FlushFailsTyped, FlushFailsKeeps
  <2>6. CASE Sql(o) BY <1>0, <2>6, SqlTyped, SqlKeeps
  <2>7. CASE Apply(o) BY <1>0, <2>7, ApplyTyped, ApplyKeeps
  <2>8. CASE Report(o) BY <1>0, <2>8, ReportTyped, ReportKeeps
  <2> QED BY <1>3, <2>1, <2>2, <2>3, <2>4, <2>5, <2>6, <2>7, <2>8 DEF Proceed
<1>4. ASSUME NEW o \in Owners, ReadMiss(o) \/ ReadStore(o) \/ CountExpires(o)
      PROVE  ShapeInv' /\ \A p \in Owners : OwnerOK(p)'
  <2>1. CASE ReadMiss(o) BY <1>0, <2>1, ReadMissTyped, ReadMissKeeps
  <2>2. CASE ReadStore(o) BY <1>0, <2>2, ReadStoreTyped, ReadStoreKeeps
  <2>3. CASE CountExpires(o) BY <1>0, <2>3, CountExpiresTyped, CountExpiresKeeps
  <2> QED BY <1>4, <2>1, <2>2, <2>3
<1>5. CASE Writing
  <2>1. CASE WriterTake BY <1>0, <2>1, WriterTakeTyped, WriterTakeKeeps
  <2>2. CASE WriterCollect BY <1>0, <2>2, WriterCollectTyped, WriterCollectKeeps
  <2>3. CASE WriterClose BY <1>0, <2>3, WriterCloseTyped, WriterCloseKeeps
  <2>4. CASE WriterGivesUp BY <1>0, <2>4, WriterGivesUpTyped, WriterGivesUpKeeps
  <2>5. CASE WriterDone BY <1>0, <2>5, WriterDoneTyped, WriterDoneKeeps
  <2>6. ASSUME NEW o \in Owners, NEW s \in Settings \cup {DefaultSettings},
               PersistGroup([owner |-> o, settings |-> s])
        PROVE  ShapeInv' /\ \A p \in Owners : OwnerOK(p)'
    <3>1. PICK g \in Groups : g = [owner |-> o, settings |-> s]
      BY MutationIs DEF Groups
    <3>2. PersistGroup(g) BY <2>6, <3>1
    <3> QED BY <1>0, <3>2, PersistGroupTyped, PersistGroupKeeps
  <2>7. CASE TrimGroup BY <1>0, <2>7, TrimGroupTyped, TrimGroupKeeps
  <2> QED BY <1>5, <2>1, <2>2, <2>3, <2>4, <2>5, <2>6, <2>7 DEF Writing
<1>6. CASE Restart BY <1>0, <1>6, RestartTyped, RestartKeeps
<1> QED BY <1>1, <1>2, <1>3, <1>4, <1>5, <1>6 DEF Next

LEMMA FinalHolds == SafetySpec => []FinalInv
<1>1. FinalInv /\ [Next]_busVars => FinalInv' BY FinalStep, FinalStutter
<1> QED BY <1>1, FinalInit, PTL DEF SafetySpec

(* A confirmed deletion or acknowledgement stays what the caller was told,   *)
(* whatever the writer had in hand, whatever fails and whenever the engine   *)
(* restarts: the barrier has emptied the owner's queue before the tables     *)
(* change, and every later publication has a larger number.                  *)
THEOREM ConfirmedStaysFinal == SafetySpec => []ConfirmedIsFinal
<1>1. FinalInv => ConfirmedIsFinal
  <2> SUFFICES ASSUME FinalInv PROVE DeletedStaysDeleted /\ ReadStaysRead
    BY DEF ConfirmedIsFinal
  <2>1. \A o \in Owners : Deleted(o) /\ Acked(o) BY DEF FinalInv, OwnerOK
  <2>2. DeletedStaysDeleted BY <2>1 DEF DeletedStaysDeleted, Deleted, Known
  <2>3. ReadStaysRead BY <2>1 DEF ReadStaysRead, Acked
  <2> QED BY <2>2, <2>3
<1> QED BY <1>1, FinalHolds, PTL

-----------------------------------------------------------------------------
(* The unread events are the last ones of a history in publication order.    *)
UnreadRight(h, u, n) ==
    /\ u <= Len(h)
    /\ \A i, j \in DOMAIN h : i < j => h[i].id < h[j].id
    /\ \A i \in DOMAIN h : h[i].id > n <=> i > Len(h) - u

UnreadOK(o) == UnreadRight(history[o], unread[o], seen[o])

LEMMA LimitedRight ==
    ASSUME NEW h \in Seq(Events), NEW u \in Nat, NEW n \in Nat, NEW m \in Nat,
           UnreadRight(h, u, n)
    PROVE  UnreadRight(AtMost(h, m), Lower(u, m), n)
<1> DEFINE g == AtMost(h, m)  d == Len(h) - Len(g)
<1>1. /\ Len(h) \in Nat /\ DOMAIN h = 1 .. Len(h)
      /\ u <= Len(h)
      /\ \A i, j \in DOMAIN h : i < j => h[i].id < h[j].id
      /\ \A i \in DOMAIN h : h[i].id > n <=> i > Len(h) - u
  BY LenProperties DEF UnreadRight
<1>2. /\ g \in Seq(Events) /\ Len(g) = IF Len(h) > m THEN m ELSE Len(h)
      /\ \A i \in DOMAIN g : i + d \in DOMAIN h /\ g[i] = h[i + d]
  BY AtMostIs
<1>3. Len(g) \in Nat /\ DOMAIN g = 1 .. Len(g) /\ d \in Int
  BY <1>1, <1>2, LenProperties
<1> HIDE DEF g
<1>4. Lower(u, m) \in Nat /\ Lower(u, m) <= Len(g)
  BY <1>1, <1>2, <1>3 DEF Lower
<1>5. ASSUME NEW i \in DOMAIN g, NEW j \in DOMAIN g, i < j
      PROVE  g[i].id < g[j].id
  <2>1. i + d < j + d BY <1>3, <1>5
  <2> QED BY <1>1, <1>2, <2>1
<1>6. ASSUME NEW i \in DOMAIN g
      PROVE  g[i].id > n <=> i > Len(g) - Lower(u, m)
  <2>1. g[i].id > n <=> i + d > Len(h) - u BY <1>1, <1>2
  <2>2. i + d > Len(h) - u <=> i > Len(g) - u BY <1>1, <1>3
  <2>3. i > Len(g) - u <=> i > Len(g) - Lower(u, m)
    <3>1. CASE u > m
      <4>3. Lower(u, m) = m BY <3>1 DEF Lower
      <4>4. Len(h) > m BY <1>1, <3>1
      <4>1. Lower(u, m) = m /\ Len(g) = m BY <1>2, <4>3, <4>4
      <4>2. i > Len(g) - u /\ i > Len(g) - m BY <1>3, <3>1, <4>1
      <4> QED BY <4>1, <4>2
    <3>2. CASE ~(u > m) BY <3>2 DEF Lower
    <3> QED BY <3>1, <3>2
  <2> QED BY <2>1, <2>2, <2>3
<1>7. UnreadRight(g, Lower(u, m), n) BY <1>4, <1>5, <1>6 DEF UnreadRight
<1> QED BY <1>7 DEF g

LEMMA AddedRight ==
    ASSUME NEW h \in Seq(Events), NEW u \in Nat, NEW n \in Nat, NEW e \in Events,
           UnreadRight(h, u, n), e.id > n, \A i \in DOMAIN h : h[i].id < e.id
    PROVE  UnreadRight(Append(h, e), u + 1, n)
<1> DEFINE g == Append(h, e)
<1>1. /\ Len(h) \in Nat /\ DOMAIN h = 1 .. Len(h)
      /\ u <= Len(h)
      /\ \A i, j \in DOMAIN h : i < j => h[i].id < h[j].id
      /\ \A i \in DOMAIN h : h[i].id > n <=> i > Len(h) - u
  BY LenProperties DEF UnreadRight
<1>2. /\ Len(g) = Len(h) + 1 /\ DOMAIN g = 1 .. Len(h) + 1
      /\ \A i \in 1 .. Len(h) : g[i] = h[i]
      /\ g[Len(h) + 1] = e
  BY AppendIs
<1> HIDE DEF g
<1>3. \A i \in DOMAIN g : i = Len(h) + 1 \/ i \in DOMAIN h
  BY <1>1, <1>2
<1>4. ASSUME NEW i \in DOMAIN g, NEW j \in DOMAIN g, i < j
      PROVE  g[i].id < g[j].id
  <2>1. i \in DOMAIN h BY <1>1, <1>2, <1>4
  <2>2. CASE j \in DOMAIN h BY <1>1, <1>2, <1>4, <2>1, <2>2
  <2>3. CASE j = Len(h) + 1 BY <1>1, <1>2, <2>1, <2>3
  <2> QED BY <1>3, <2>2, <2>3
<1>5. ASSUME NEW i \in DOMAIN g
      PROVE  g[i].id > n <=> i > Len(g) - (u + 1)
  <2>1. Len(g) - (u + 1) = Len(h) - u BY <1>1, <1>2
  <2>2. CASE i \in DOMAIN h BY <1>1, <1>2, <2>1, <2>2
  <2>3. CASE i = Len(h) + 1 BY <1>1, <1>2, <2>1, <2>3
  <2> QED BY <1>3, <2>2, <2>3
<1>6. UnreadRight(g, u + 1, n) BY <1>1, <1>2, <1>4, <1>5 DEF UnreadRight
<1> QED BY <1>6 DEF g

(* Some places are kept: fewer unread ones are left, and they are the last.  *)
LEMMA KeptRight ==
    ASSUME NEW h \in Seq(Events), NEW u \in Nat, NEW n \in Nat,
           UnreadRight(h, u, n), NEW places \in SUBSET (DOMAIN h)
    PROVE  UnreadRight(Picked(h, places),
               Lower(u - Cardinality({i \in DOMAIN h : i > Len(h) - u /\ i \notin places}),
                     Len(Picked(h, places))), n)
<1> DEFINE g == Picked(h, places)
           from == Len(h) - u
           lost == {i \in DOMAIN h : i > from /\ i \notin places}
           new == {i \in places : i > from}
           old == {i \in places : i <= from}
           rest == u - Cardinality(lost)
<1>1. /\ Len(h) \in Nat /\ DOMAIN h = 1 .. Len(h)
      /\ u <= Len(h)
      /\ \A i, j \in DOMAIN h : i < j => h[i].id < h[j].id
      /\ \A i \in DOMAIN h : h[i].id > n <=> i > from
  BY LenProperties DEF UnreadRight
<1>2. /\ g \in Seq(Events) /\ Len(g) = Cardinality(places)
      /\ \A j \in DOMAIN g : \E i \in places : Place(places, i) = j /\ g[j] = h[i]
  BY PickedIs
<1>3. Len(g) \in Nat /\ DOMAIN g = 1 .. Len(g) BY <1>2, LenProperties
<1>4. /\ IsFiniteSet(places)
      /\ IsFiniteSet(lost) /\ Cardinality(lost) \in Nat
      /\ IsFiniteSet(new) /\ Cardinality(new) \in Nat
      /\ IsFiniteSet(old) /\ Cardinality(old) \in Nat
  <2>1. lost \in SUBSET (1 .. Len(h)) /\ new \in SUBSET (1 .. Len(h))
        /\ old \in SUBSET (1 .. Len(h)) /\ places \in SUBSET (1 .. Len(h))
    BY <1>1
  <2> HIDE DEF lost, new, old
  <2> QED BY <1>1, <2>1, PlacesIn
<1>5. Cardinality(lost) + Cardinality(new) = u
  <2>1. lost \cup new = (from + 1) .. Len(h) /\ lost \cap new = {} BY <1>1
  <2>2. from + 1 \in Int /\ Len(h) \in Int BY <1>1
  <2>3. Cardinality((from + 1) .. Len(h)) =
            IF from + 1 > Len(h) THEN 0 ELSE Len(h) - (from + 1) + 1
    BY <2>2, FS_Interval
  <2>4. Cardinality((from + 1) .. Len(h)) = u BY <1>1, <2>3
  <2>5. Cardinality(lost \cup new) =
            Cardinality(lost) + Cardinality(new) - Cardinality(lost \cap new)
    <3> HIDE DEF lost, new
    <3> QED BY <1>4, FS_Union
  <2>6. Cardinality(lost \cap new) = 0 BY <2>1, FS_EmptySet
  <2>7. Cardinality(lost \cup new) = u BY <2>1, <2>4
  <2> HIDE DEF lost, new
  <2> QED BY <1>4, <2>5, <2>6, <2>7
<1>6. Cardinality(old) + Cardinality(new) = Len(g)
  <2>1. old \cup new = places /\ old \cap new = {} BY <1>1
  <2>2. Cardinality(old \cup new) =
            Cardinality(old) + Cardinality(new) - Cardinality(old \cap new)
    <3> HIDE DEF old, new
    <3> QED BY <1>4, FS_Union
  <2>3. Cardinality(old \cap new) = 0 BY <2>1, FS_EmptySet
  <2>4. Cardinality(old \cup new) = Len(g) BY <1>2, <2>1
  <2> HIDE DEF old, new, g
  <2> QED BY <1>4, <2>2, <2>3, <2>4
<1>7. rest = Cardinality(new) /\ Lower(rest, Len(g)) = Cardinality(new)
  <2> HIDE DEF lost, new, old, g
  <2> QED BY <1>3, <1>4, <1>5, <1>6 DEF Lower
<1>8. ASSUME NEW i \in places
      PROVE  /\ i > from => Place(places, i) > Cardinality(old)
             /\ i <= from => Place(places, i) <= Cardinality(old)
  <2> DEFINE upto == {k \in places : k <= i}
  <2>1. IsFiniteSet(upto) /\ Cardinality(upto) \in Nat
    BY <1>4, FS_Subset, FS_CardinalityType
  <2>2. CASE i > from
    <3>1. old \cup {i} \in SUBSET upto /\ i \notin old
      <4>1. \A k \in old : k \in Int /\ k <= i BY <1>1, <2>2
      <4>2. i \in upto /\ i \notin old BY <1>1, <2>2
      <4> QED BY <4>1, <4>2
    <3>2. Cardinality(old \cup {i}) = Cardinality(old) + 1
      <4> HIDE DEF old
      <4> QED BY <1>4, <3>1, FS_AddElement
    <3>3. Cardinality(old \cup {i}) <= Cardinality(upto)
      <4> HIDE DEF old, upto
      <4> QED BY <2>1, <3>1, FS_Subset
    <3>4. Cardinality(upto) > Cardinality(old)
      <4> HIDE DEF old, upto
      <4> QED BY <1>4, <2>1, <3>2, <3>3
    <3>5. i \in Int /\ from \in Int BY <1>1
    <3> QED BY <2>2, <3>4, <3>5 DEF Place
  <2>3. CASE i <= from
    <3>1. upto \in SUBSET old BY <1>1, <2>3
    <3>2. Cardinality(upto) <= Cardinality(old)
      <4> HIDE DEF old, upto
      <4> QED BY <1>4, <3>1, FS_Subset
    <3>3. i \in Int /\ from \in Int BY <1>1
    <3> QED BY <2>3, <3>2, <3>3 DEF Place
  <2>4. i \in Int /\ from \in Int BY <1>1
  <2> QED BY <2>2, <2>3, <2>4
<1>9. \A i, j \in places : Place(places, i) < Place(places, j) => i < j
  <2>1. \A i \in places : i \in Int /\ Place(places, i) \in Int
    BY <1>1, <1>4, PlacesCount
  <2>2. \A i, j \in places : i < j => Place(places, i) < Place(places, j)
    BY <1>1, <1>4, PlacesCount
  <2> QED BY <2>1, <2>2
<1> HIDE DEF lost, new, old, g
<1>10. ASSUME NEW i \in DOMAIN g, NEW j \in DOMAIN g, i < j
       PROVE  g[i].id < g[j].id
  <2>1. PICK a \in places : Place(places, a) = i /\ g[i] = h[a] BY <1>2
  <2>2. PICK b \in places : Place(places, b) = j /\ g[j] = h[b] BY <1>2
  <2>3. a < b BY <1>9, <1>10, <2>1, <2>2
  <2> QED BY <1>1, <2>1, <2>2, <2>3
<1>11. ASSUME NEW j \in DOMAIN g
       PROVE  g[j].id > n <=> j > Len(g) - Cardinality(new)
  <2>1. PICK i \in places : Place(places, i) = j /\ g[j] = h[i] BY <1>2
  <2>2. g[j].id > n <=> i > from BY <1>1, <2>1
  <2>3. i \in Int /\ from \in Int /\ j \in Int BY <1>1, <1>3
  <2>4. i > from <=> j > Cardinality(old) BY <1>4, <1>8, <2>1, <2>3
  <2>5. Len(g) - Cardinality(new) = Cardinality(old) BY <1>3, <1>4, <1>6
  <2> QED BY <2>2, <2>4, <2>5
<1>12. Cardinality(new) <= Len(g) BY <1>3, <1>4, <1>6
<1>13. UnreadRight(g, Cardinality(new), n)
  BY <1>10, <1>11, <1>12 DEF UnreadRight
<1> QED BY <1>7, <1>13 DEF g, lost

(* Events are told apart by their numbers: the unread places are as many as  *)
(* the unread events.                                                        *)
LEMMA RightCounts ==
    ASSUME NEW h \in Seq(Events), NEW u \in Nat, NEW n \in Nat, UnreadRight(h, u, n)
    PROVE  u = Cardinality({e \in {h[i] : i \in DOMAIN h} : e.id > n})
<1> DEFINE P == (Len(h) - u + 1) .. Len(h)
           E == {e \in {h[i] : i \in DOMAIN h} : e.id > n}
           f == [i \in P |-> h[i]]
<1>1. /\ Len(h) \in Nat /\ DOMAIN h = 1 .. Len(h) /\ u <= Len(h)
      /\ \A i, j \in DOMAIN h : i < j => h[i].id < h[j].id
      /\ \A i \in DOMAIN h : h[i].id > n <=> i > Len(h) - u
      /\ \A i \in DOMAIN h : h[i] \in Events
  BY LenProperties, ElementOfSeq DEF UnreadRight
<1>2. P \subseteq DOMAIN h /\ \A i \in DOMAIN h : i \in P <=> i > Len(h) - u
  BY <1>1
<1>3. IsFiniteSet(P) /\ Cardinality(P) = u
  <2>1. Len(h) - u + 1 \in Int /\ Len(h) \in Int BY <1>1
  <2>2. /\ IsFiniteSet(P)
        /\ Cardinality(P) = IF Len(h) - u + 1 > Len(h) THEN 0
                            ELSE Len(h) - (Len(h) - u + 1) + 1
    BY <2>1, FS_Interval
  <2> HIDE DEF P
  <2> QED BY <1>1, <2>2
<1>4. \A i, j \in DOMAIN h : h[i] = h[j] => i = j
  <2> SUFFICES ASSUME NEW i \in DOMAIN h, NEW j \in DOMAIN h, h[i] = h[j], i # j
               PROVE  FALSE
    OBVIOUS
  <2>1. i \in Int /\ j \in Int BY <1>1
  <2>2. h[i].id < h[j].id \/ h[j].id < h[i].id BY <1>1, <2>1
  <2>3. h[i].id \in Nat /\ h[i].id = h[j].id BY <1>1 DEF Events
  <2> QED BY <2>2, <2>3
<1> HIDE DEF P
<1>5. \A i \in P : h[i] \in E BY <1>1, <1>2
<1>6. \A e \in E : \E i \in P : h[i] = e BY <1>1, <1>2
<1> HIDE DEF E
<1>7. f \in Bijection(P, E)
  <2>1. f \in [P -> E] BY <1>5
  <2>2. f \in Surjection(P, E) BY <1>6, <2>1 DEF Surjection
  <2>3. f \in Injection(P, E) BY <1>2, <1>4, <2>1 DEF Injection, IsInjective
  <2> QED BY <2>2, <2>3 DEF Bijection
<1>8. Cardinality(E) = u BY <1>3, <1>7, FS_Bijection DEF ExistsBijection
<1> QED BY <1>8 DEF E

-----------------------------------------------------------------------------
UnreadInv == FinalInv /\ \A o \in Owners : UnreadOK(o)

(* What the memory of an owner is typed.                                     *)
LEMMA MemoryTyped ==
    ASSUME ShapeInv, NEW o \in Owners
    PROVE  /\ history[o] \in Seq(Events) /\ unread[o] \in Nat /\ seen[o] \in Nat
           /\ history \in [Owners -> Seq(Events)] /\ unread \in [Owners -> Nat]
           /\ seen \in [Owners -> Nat] /\ published \in Nat
BY DEF ShapeInv, BusTyped

LEMMA UnreadStays ==
    ASSUME UnreadInv, NEW p \in Owners,
           history'[p] = history[p], unread'[p] = unread[p], seen'[p] = seen[p]
    PROVE  UnreadOK(p)'
BY DEF UnreadInv, UnreadOK

LEMMA AcceptUnread ==
    ASSUME UnreadInv, NEW o \in Owners, Accept(o)
    PROVE  \A p \in Owners : UnreadOK(p)'
<1>1. ShapeInv /\ NumberedOK(o) /\ UnreadOK(o) BY DEF UnreadInv, FinalInv, OwnerOK
<1>2. seen' = seen BY DEF Accept, ghostVars
<1>3. CASE Full(o) BY <1>2, <1>3, AcceptIs, UnreadStays
<1>4. CASE ~Full(o)
  <2> DEFINE m == op[o].settings.max - 1
             e == op[o].event
  <2>1. /\ op[o].settings \in Retention /\ e \in Events /\ e # None
    <3>1. op[o] \in Operation /\ OpOK(o) /\ op[o].step = "accept"
      BY <1>1, OpParts DEF Accept
    <3>2. op[o].kind = "publish" BY <1>1, <3>1, OpParts DEF PublishSteps
    <3> QED BY <3>1, <3>2 DEF Operation, OpOK
  <2>2. m \in Nat /\ op[o].settings.max = m + 1 BY <2>1 DEF Retention
  <2>3. /\ history' = [history EXCEPT ![o] = Append(AtMost(history[o], m), e)]
        /\ unread' = [unread EXCEPT ![o] = Lower(unread[o] + 1, m + 1)]
    BY <1>4, <2>2, AcceptIs
  <2>4. e.id > seen[o] /\ \A x \in Held(o) : x.id < e.id
    <3>1. e.id \in Nat BY <2>1 DEF Events
    <3> QED BY <1>1, <2>1, <3>1, MemoryTyped DEF NumberedOK, Known
  <2> HIDE DEF m, e
  <2>5. UnreadRight(AtMost(history[o], m), Lower(unread[o], m), seen[o])
    BY <1>1, <2>2, MemoryTyped, LimitedRight DEF UnreadOK
  <2>6. /\ AtMost(history[o], m) \in Seq(Events)
        /\ \A i \in DOMAIN AtMost(history[o], m) : AtMost(history[o], m)[i].id < e.id
    <3>1. /\ AtMost(history[o], m) \in Seq(Events)
          /\ \A i \in DOMAIN AtMost(history[o], m) :
               \E j \in DOMAIN history[o] : AtMost(history[o], m)[i] = history[o][j]
      BY <1>1, <2>2, MemoryTyped, AtMostIs
    <3> QED BY <2>4, <3>1 DEF Held
  <2>7. Lower(unread[o], m) \in Nat /\ Lower(unread[o] + 1, m + 1) = Lower(unread[o], m) + 1
    BY <1>1, <2>2, MemoryTyped DEF Lower
  <2>8. UnreadRight(Append(AtMost(history[o], m), e), Lower(unread[o], m) + 1, seen[o])
    BY <1>1, <2>1, <2>4, <2>5, <2>6, <2>7, MemoryTyped, AddedRight
  <2>9. ASSUME NEW p \in Owners PROVE UnreadOK(p)'
    <3>1. CASE p = o
      <4>1. /\ history'[o] = Append(AtMost(history[o], m), e)
            /\ unread'[o] = Lower(unread[o], m) + 1
        BY <1>1, <2>3, <2>7, MemoryTyped
      <4> QED BY <1>2, <2>8, <3>1, <4>1 DEF UnreadOK
    <3>2. CASE p # o
      <4>1. history'[p] = history[p] /\ unread'[p] = unread[p]
        BY <1>1, <2>3, <3>2, MemoryTyped
      <4> QED BY <1>2, <4>1, UnreadStays
    <3> QED BY <3>1, <3>2
  <2> QED BY <2>9
<1> QED BY <1>3, <1>4

LEMMA ApplyUnread ==
    ASSUME UnreadInv, NEW o \in Owners, Apply(o)
    PROVE  \A p \in Owners : UnreadOK(p)'
<1>1. ShapeInv /\ NumberedOK(o) /\ UnreadOK(o) BY DEF UnreadInv, FinalInv, OwnerOK
<1>2. CASE UNCHANGED <<memoryVars, ghostVars>>
  BY <1>2, UnreadStays DEF memoryVars, ghostVars
<1>3. CASE ~UNCHANGED <<memoryVars, ghostVars>> /\ op[o].kind = "read"
  <2>1. /\ unread' = [unread EXCEPT ![o] = 0] /\ seen' = [seen EXCEPT ![o] = published]
        /\ history' = history
    BY <1>1, <1>3, ApplyIs
  <2>2. unread'[o] = 0 /\ seen'[o] = published /\ published \in Nat
    BY <1>1, <2>1, MemoryTyped
  <2>3. UnreadRight(history[o], 0, published)
    <3>1. /\ Len(history[o]) \in Nat /\ DOMAIN history[o] = 1 .. Len(history[o])
          /\ \A i \in DOMAIN history[o] : history[o][i] \in Events
      BY <1>1, MemoryTyped, LenProperties, ElementOfSeq
    <3>2. \A i \in DOMAIN history[o] : history[o][i].id \in Nat /\ history[o][i].id <= published
      BY <1>1, <3>1 DEF NumberedOK, Known, Held, Events
    <3>3. \A i, j \in DOMAIN history[o] : i < j => history[o][i].id < history[o][j].id
      BY <1>1 DEF UnreadOK, UnreadRight
    <3> QED BY <2>2, <3>1, <3>2, <3>3 DEF UnreadRight
  <2>4. ASSUME NEW p \in Owners PROVE UnreadOK(p)'
    <3>1. CASE p = o BY <2>1, <2>2, <2>3, <3>1 DEF UnreadOK
    <3>2. CASE p # o
      <4>1. unread'[p] = unread[p] /\ seen'[p] = seen[p]
        BY <1>1, <2>1, <3>2, MemoryTyped
      <4> QED BY <2>1, <4>1, UnreadStays
    <3> QED BY <3>1, <3>2
  <2> QED BY <2>4
<1>4. CASE ~UNCHANGED <<memoryVars, ghostVars>> /\ op[o].kind = "delete"
  <2>1. /\ history' = [history EXCEPT ![o] = Kept(o)]
        /\ unread' = [unread EXCEPT ![o] = RemoveUnread(o)] /\ seen' = seen
    BY <1>1, <1>4, ApplyIs
  <2> DEFINE places == {i \in DOMAIN history[o] : ~Matching(o, i)}
             lost == {i \in DOMAIN history[o] :
                         i > Len(history[o]) - unread[o] /\ i \notin places}
  <2>2. Kept(o) = Picked(history[o], places) BY DEF Kept
  <2>3. lost = {i \in DOMAIN history[o] :
                    i > Len(history[o]) - unread[o] /\ Matching(o, i)}
    OBVIOUS
  <2>4. RemoveUnread(o) = Lower(unread[o] - Cardinality(lost), Len(Kept(o)))
    BY <2>3 DEF RemoveUnread
  <2>5. places \in SUBSET (DOMAIN history[o]) OBVIOUS
  <2> HIDE DEF places
  <2>6. UnreadRight(Kept(o), RemoveUnread(o), seen[o])
    BY <1>1, <2>2, <2>4, <2>5, MemoryTyped, KeptRight DEF UnreadOK
  <2>7. ASSUME NEW p \in Owners PROVE UnreadOK(p)'
    <3>1. CASE p = o
      <4>1. history'[o] = Kept(o) /\ unread'[o] = RemoveUnread(o)
        BY <1>1, <2>1, MemoryTyped
      <4> QED BY <2>1, <2>6, <3>1, <4>1 DEF UnreadOK
    <3>2. CASE p # o
      <4>1. history'[p] = history[p] /\ unread'[p] = unread[p]
        BY <1>1, <2>1, <3>2, MemoryTyped
      <4> QED BY <2>1, <4>1, UnreadStays
    <3> QED BY <3>1, <3>2
  <2> QED BY <2>7
<1>5. CASE ~UNCHANGED <<memoryVars, ghostVars>> /\ op[o].kind = "settings"
  <2> DEFINE m == op[o].settings.max
  <2>1. /\ history' = [history EXCEPT ![o] = AtMost(history[o], m)]
        /\ unread' = [unread EXCEPT ![o] = Lower(unread[o], m)] /\ seen' = seen
    BY <1>1, <1>5, ApplyIs
  <2>2. m \in Nat
    <3>1. op[o] \in Operation /\ OpOK(o) BY <1>1, OpParts
    <3> QED BY <1>5, <3>1 DEF Operation, OpOK, Retention
  <2> HIDE DEF m
  <2>3. UnreadRight(AtMost(history[o], m), Lower(unread[o], m), seen[o])
    BY <1>1, <2>2, MemoryTyped, LimitedRight DEF UnreadOK
  <2>4. ASSUME NEW p \in Owners PROVE UnreadOK(p)'
    <3>1. CASE p = o
      <4>1. history'[o] = AtMost(history[o], m) /\ unread'[o] = Lower(unread[o], m)
        BY <1>1, <2>1, MemoryTyped
      <4> QED BY <2>1, <2>3, <3>1, <4>1 DEF UnreadOK
    <3>2. CASE p # o
      <4>1. history'[p] = history[p] /\ unread'[p] = unread[p]
        BY <1>1, <2>1, <3>2, MemoryTyped
      <4> QED BY <2>1, <4>1, UnreadStays
    <3> QED BY <3>1, <3>2
  <2> QED BY <2>4
<1> QED BY <1>1, <1>2, <1>3, <1>4, <1>5, ApplyIs DEF Mutation

(* No other step touches the history, its unread count or what was seen.     *)
LEMMA NextUnread ==
    ASSUME UnreadInv, Next
    PROVE  \A p \in Owners : UnreadOK(p)'
<1> DEFINE Same == UNCHANGED <<history, unread, seen>>
<1>1. Same => \A p \in Owners : UnreadOK(p)' BY UnreadStays
<1>2. ASSUME NEW o \in Owners, Publishing(o) \/ Mutating(o) PROVE Same
  BY <1>2 DEF Publishing, Mutating, StartPublish, CancelPublish, StartMutation,
              CallerLeaves, memoryVars, ghostVars
<1>3. ASSUME NEW o \in Owners, Proceed(o) PROVE Same \/ Accept(o) \/ Apply(o)
  BY <1>3 DEF Proceed, LoadSettings, CountAdmitted, SendBarrier, FlushFails, Sql,
              Report, memoryVars, ghostVars
<1>4. ASSUME NEW o \in Owners, ReadMiss(o) \/ ReadStore(o) \/ CountExpires(o)
      PROVE  Same
  BY <1>4 DEF ReadMiss, ReadStore, CountExpires, memoryVars, ghostVars
<1>5. CASE Writing
  <2>1. ASSUME NEW g, PersistGroup(g) PROVE Same
    BY <2>1 DEF PersistGroup, ghostVars
  <2>2. CASE WriterTake \/ WriterCollect \/ WriterClose \/ WriterGivesUp \/ WriterDone
             \/ TrimGroup
    <3>1. Same
      BY <2>2 DEF WriterTake, WriterCollect, WriterClose, WriterGivesUp, WriterDone,
                  TrimGroup, memoryVars, ghostVars
    <3> QED BY <1>1, <3>1
  <2> QED BY <1>1, <1>5, <2>1, <2>2 DEF Writing
<1>6. CASE Restart
  <2>1. ASSUME NEW p \in Owners PROVE UnreadOK(p)'
    <3>1. history'[p] = <<>> /\ unread'[p] = 0 BY <1>6 DEF Restart
    <3> QED BY <3>1 DEF UnreadOK, UnreadRight
  <2> QED BY <2>1
<1> HIDE DEF Same
<1> QED BY <1>1, <1>2, <1>3, <1>4, <1>5, <1>6, AcceptUnread, ApplyUnread DEF Next

(* The unread count is that of the retained events published since the last  *)
(* acknowledgement took effect, whatever evictions, filtered deletions and   *)
(* smaller limits came between: the unread events stay the newest ones.      *)
THEOREM UnreadStaysRight == SafetySpec => []UnreadCountIsRight
<1>1. Init => \A o \in Owners : UnreadOK(o)
  <2> SUFFICES ASSUME Init, NEW o \in Owners PROVE UnreadOK(o) OBVIOUS
  <2>1. history[o] = <<>> /\ unread[o] = 0 BY DEF Init, MemoryInit
  <2> QED BY <2>1 DEF UnreadOK, UnreadRight
<1>2. UnreadInv /\ [Next]_busVars => UnreadInv'
  <2> SUFFICES ASSUME UnreadInv, [Next]_busVars PROVE UnreadInv' OBVIOUS
  <2>1. FinalInv' BY FinalStep, FinalStutter DEF UnreadInv
  <2>2. \A o \in Owners : UnreadOK(o)'
    <3>1. CASE Next BY <3>1, NextUnread
    <3>2. CASE UNCHANGED busVars
      BY <3>2, UnreadStays DEF busVars, memoryVars, ghostVars
    <3> QED BY <3>1, <3>2
  <2> QED BY <2>1, <2>2 DEF UnreadInv
<1>3. UnreadInv => UnreadCountIsRight
  <2> SUFFICES ASSUME UnreadInv, NEW o \in Owners
               PROVE  unread[o] = Cardinality({e \in Held(o) : e.id > seen[o]})
    BY DEF UnreadCountIsRight
  <2>1. history[o] \in Seq(Events) /\ unread[o] \in Nat /\ seen[o] \in Nat
    BY MemoryTyped DEF UnreadInv, FinalInv
  <2>2. UnreadRight(history[o], unread[o], seen[o]) BY DEF UnreadInv, UnreadOK
  <2> QED BY <2>1, <2>2, RightCounts DEF Held
<1>4. Init => UnreadInv BY <1>1, FinalInit DEF UnreadInv
<1> QED BY <1>2, <1>3, <1>4, PTL DEF SafetySpec

-----------------------------------------------------------------------------
(* The settings, while statements either work or do nothing.                 *)
Applying(o) == configured /\ op[o].kind = "settings" /\ op[o].step = "apply"

SettingsOK(o) ==
    /\ configured => StoredSettings(o) = chosen[o]
    /\ ~configured /\ cache[o] = None => chosen[o] = DefaultSettings
    /\ reader[o] # None => ~configured /\ reader[o] = DefaultSettings
    /\ (Active \/ ~configured) /\ cache[o] # None /\ ~Applying(o)
            => cache[o] = chosen[o]
    /\ Applying(o) => chosen[o] = op[o].settings

SettingsInv == FinalInv /\ \A o \in Owners : SettingsOK(o)
FaultsKnown == Faults \subseteq {"query"}

(* A step that neither changes settings nor starts or ends applying them.    *)
OpSteady(p) ==
    /\ Applying(p)' <=> Applying(p)
    /\ Applying(p) => op'[p].settings = op[p].settings
Steady(p) ==
    /\ cache'[p] = cache[p] /\ stored'[p] = stored[p] /\ chosen'[p] = chosen[p]
    /\ reader'[p] = reader[p] /\ configured' = configured
    /\ disabled => disabled'

LEMMA SteadyKeeps ==
    ASSUME ShapeInv, NEW p \in Owners, SettingsOK(p), OpSteady(p), Steady(p)
    PROVE  SettingsOK(p)'
<1>1. disabled \in BOOLEAN BY DEF ShapeInv, BusTyped
<1>2. Active' => Active BY <1>1 DEF Steady, Active
<1>3. StoredSettings(p)' = StoredSettings(p) BY DEF Steady, StoredSettings
<1> QED BY <1>2, <1>3 DEF SettingsOK, OpSteady, Steady

LEMMA OpSame ==
    ASSUME NEW p, op'[p] = op[p], configured' = configured
    PROVE  OpSteady(p)
BY DEF OpSteady, Applying

LEMMA OpElsewhere ==
    ASSUME NEW p, configured' = configured, op[p].step # "apply" \/ ~configured,
           op'[p].step # "apply" \/ ~configured
    PROVE  OpSteady(p)
BY DEF OpSteady, Applying

LEMMA OpGone ==
    ASSUME NEW p, configured' = configured, op[p].kind # "settings",
           op'[p].step # "apply"
    PROVE  OpSteady(p)
BY DEF OpSteady, Applying

(* An operation of one owner that is not applying settings, then or now.     *)
LEMMA OwnerSteady ==
    ASSUME ShapeInv, NEW o \in Owners, NEW x, op' = [op EXCEPT ![o] = x],
           configured' = configured, op[o].step # "apply" \/ ~configured,
           x.step # "apply" \/ ~configured
    PROVE  \A p \in Owners : OpSteady(p)
<1>1. op \in [Owners -> Operation] BY DEF ShapeInv, BusTyped
<1>2. op'[o] = x /\ \A p \in Owners \ {o} : op'[p] = op[p] BY <1>1
<1> QED BY <1>2, OpSame, OpElsewhere

LEMMA AllSteady ==
    ASSUME SettingsInv, \A p \in Owners : OpSteady(p),
           UNCHANGED <<cache, stored, chosen, reader, configured>>, disabled => disabled'
    PROVE  \A p \in Owners : SettingsOK(p)'
BY SteadyKeeps DEF SettingsInv, FinalInv, Steady

LEMMA PublishingSettings ==
    ASSUME SettingsInv, NEW o \in Owners, Publishing(o)
    PROVE  \A p \in Owners : SettingsOK(p)'
<1>1. ShapeInv BY DEF SettingsInv, FinalInv
<1>2. /\ UNCHANGED <<cache, stored, chosen, reader, configured>>
      /\ disabled => disabled'
  <2>1. UNCHANGED <<memoryVars, latchVars, reader, tableVars, ghostVars>>
    BY DEF Publishing, StartPublish, CancelPublish
  <2> QED BY <2>1 DEF memoryVars, latchVars, tableVars, ghostVars
<1>3. \A p \in Owners : OpSteady(p)
  <2>1. ASSUME NEW kind, NEW at, StartPublish(o, kind, at)
        PROVE  \A p \in Owners : OpSteady(p)
    <3>1. PICK x : x = [Idle EXCEPT !.kind = "publish", !.step = "load",
                             !.event = [id |-> published', at |-> at, kind |-> kind]]
      OBVIOUS
    <3>2. x.step = "load" BY <3>1 DEF Idle
    <3>3. op' = [op EXCEPT ![o] = x] /\ op[o] = Idle BY <2>1, <3>1 DEF StartPublish
    <3>4. op[o].step # "apply" BY <3>3, IdleIs
    <3> QED BY <1>1, <1>2, <3>2, <3>3, <3>4, OwnerSteady
  <2>2. CASE CancelPublish(o)
    <3>1. op' = [op EXCEPT ![o] = Idle] /\ op[o].kind = "publish"
      BY <2>2 DEF CancelPublish
    <3>2. op[o].step \in PublishSteps BY <1>1, <3>1, OpParts
    <3>3. op[o].step # "apply" BY <3>2 DEF PublishSteps
    <3> QED BY <1>1, <1>2, <3>1, <3>3, IdleIs, OwnerSteady
  <2> QED BY <2>1, <2>2 DEF Publishing
<1> QED BY <1>2, <1>3, AllSteady

LEMMA MutatingSettings ==
    ASSUME SettingsInv, NEW o \in Owners, Mutating(o)
    PROVE  \A p \in Owners : SettingsOK(p)'
<1>1. ShapeInv BY DEF SettingsInv, FinalInv
<1>2. /\ UNCHANGED <<cache, stored, chosen, reader, configured>>
      /\ disabled => disabled'
  <2>1. UNCHANGED <<memoryVars, latchVars, reader, tableVars, ghostVars>>
    BY DEF Mutating, StartMutation, CallerLeaves
  <2> QED BY <2>1 DEF memoryVars, latchVars, tableVars, ghostVars
<1>3. \A p \in Owners : OpSteady(p)
  <2>1. ASSUME NEW kind, NEW filter, NEW settings,
               StartMutation(o, kind, filter, settings)
        PROVE  \A p \in Owners : OpSteady(p)
    <3>1. PICK x : x = [Idle EXCEPT !.kind = kind, !.filter = filter,
                             !.settings = settings, !.waiting = TRUE,
                             !.step = IF configured THEN "flush" ELSE "apply"]
      OBVIOUS
    <3>2. configured => x.step # "apply" BY <3>1 DEF Idle
    <3>3. op' = [op EXCEPT ![o] = x] /\ op[o] = Idle BY <2>1, <3>1 DEF StartMutation
    <3>4. op[o].step # "apply" BY <3>3, IdleIs
    <3> QED BY <1>1, <1>2, <3>2, <3>3, <3>4, OwnerSteady
  <2>2. CASE CallerLeaves(o)
    <3>1. op \in [Owners -> Operation] /\ op[o] \in Operation BY <1>1, OpParts
    <3>2. \A p \in Owners \ {o} : op'[p] = op[p] BY <2>2, <3>1 DEF CallerLeaves
    <3>3. CASE ~configured /\ op[o].step = "apply" BY <1>2, <3>2, <3>3, OpSame, OpElsewhere
    <3>4. CASE ~(~configured /\ op[o].step = "apply")
      <4>1. op'[o] = [op[o] EXCEPT !.waiting = FALSE] BY <2>2, <3>1, <3>4 DEF CallerLeaves
      <4>2. /\ op'[o].step = op[o].step /\ op'[o].kind = op[o].kind
            /\ op'[o].settings = op[o].settings
        BY <3>1, <4>1 DEF Operation
      <4>3. OpSteady(o) BY <1>2, <4>2 DEF OpSteady, Applying
      <4> QED BY <1>2, <3>2, <4>3, OpSame
    <3> QED BY <3>3, <3>4
  <2> QED BY <2>1, <2>2 DEF Mutating
<1> QED BY <1>2, <1>3, AllSteady

LEMMA LoadSettingsSettings ==
    ASSUME SettingsInv, NEW o \in Owners, LoadSettings(o), FaultsKnown
    PROVE  \A p \in Owners : SettingsOK(p)'
<1>1. /\ ShapeInv /\ SettingsOK(o) /\ op[o] \in Operation
      /\ cache \in [Owners -> Retention \cup {None}]
      /\ op \in [Owners -> Operation] /\ configured \in BOOLEAN /\ disabled \in BOOLEAN
  BY OpParts DEF SettingsInv, FinalInv, ShapeInv, BusTyped
<1>2. UNCHANGED <<stored, chosen, reader, configured>>
  BY DEF LoadSettings, tableVars, ghostVars
<1>3. disabled => disabled' BY DEF LoadSettings, latchVars
<1>4. PICK x : /\ op' = [op EXCEPT ![o] = x]
               /\ x = [op[o] EXCEPT !.settings = cache'[o],
                          !.step = IF cache'[o].policy = "drop_new"
                                   THEN "count" ELSE "accept"]
  BY <1>1 DEF LoadSettings
<1>5. x.step # "apply" /\ op[o].step # "apply" BY <1>1, <1>4 DEF LoadSettings, Operation
<1>6. \A p \in Owners : OpSteady(p) BY <1>1, <1>2, <1>4, <1>5, OwnerSteady
<1>7. \/ cache' = cache
      \/ /\ cache[o] = None /\ ~Active
         /\ cache' = [cache EXCEPT ![o] = DefaultSettings]
      \/ /\ cache[o] = None /\ Active
         /\ cache' = [cache EXCEPT ![o] = StoredSettings(o)]
      \/ /\ cache[o] = None /\ Active /\ disabled'
         /\ cache' = [cache EXCEPT ![o] = DefaultSettings]
  BY DEF LoadSettings, Cached, SchemaFault, Fault, FaultsKnown
<1>8. SettingsOK(o)'
  <2>1. CASE cache' = cache
    <3>1. Steady(o) BY <1>2, <1>3, <2>1 DEF Steady
    <3> QED BY <1>1, <1>6, <3>1, SteadyKeeps
  <2>2. CASE cache' # cache
    <3>1. cache[o] = None /\ cache'[o] \in {DefaultSettings, StoredSettings(o)}
      BY <1>1, <1>7, <2>2
    <3>2. cache'[o] # None BY <1>1, <3>1, StoredSettingsTyped, ConstantsTyped DEF ShapeInv
    <3>3. ~Applying(o) BY <1>5 DEF Applying
    <3>4. ~Applying(o)' BY <1>6, <3>3 DEF OpSteady
    <3>5. ~configured => cache'[o] = chosen[o]
      <4>1. ~configured => ~Active BY DEF Active
      <4>2. ~configured => cache'[o] = DefaultSettings BY <1>1, <1>7, <2>2, <4>1
      <4> QED BY <1>1, <3>1, <4>2 DEF SettingsOK
    <3>6. Active' => cache'[o] = chosen[o]
      <4>1. Active' => Active /\ ~disabled' BY <1>1, <1>2, <1>3 DEF Active
      <4>2. Active' => cache'[o] = StoredSettings(o) BY <1>1, <1>7, <2>2, <4>1
      <4> QED BY <1>1, <4>1, <4>2 DEF SettingsOK, Active
    <3>7. StoredSettings(o)' = StoredSettings(o) BY <1>2 DEF StoredSettings
    <3> QED BY <1>1, <1>2, <3>2, <3>4, <3>5, <3>6, <3>7 DEF SettingsOK
  <2> QED BY <2>1, <2>2
<1>9. ASSUME NEW p \in Owners, p # o PROVE SettingsOK(p)'
  <2>1. cache'[p] = cache[p] BY <1>1, <1>7, <1>9
  <2>2. Steady(p) BY <1>2, <1>3, <2>1 DEF Steady
  <2>3. SettingsOK(p) BY DEF SettingsInv
  <2> QED BY <1>1, <1>6, <2>2, <2>3, SteadyKeeps
<1> QED BY <1>8, <1>9

LEMMA SqlSettings ==
    ASSUME SettingsInv, NEW o \in Owners, Sql(o), FaultsKnown
    PROVE  \A p \in Owners : SettingsOK(p)'
<1>1. /\ ShapeInv /\ SettingsOK(o) /\ op[o] \in Operation /\ OpOK(o)
      /\ stored \in [Owners -> Retention \cup {None}]
      /\ chosen \in [Owners -> Retention]
      /\ op \in [Owners -> Operation] /\ configured \in BOOLEAN /\ disabled \in BOOLEAN
      /\ op[o].step = "sql" /\ op[o].kind \in Mutation
  BY OpParts DEF SettingsInv, FinalInv, ShapeInv, BusTyped, Sql, FlushedSteps
<1>2. UNCHANGED <<cache, reader, configured>> BY DEF Sql, memoryVars, ghostVars
<1>3. disabled' = disabled /\ configured
  BY <1>1 DEF Sql, latchVars, Fault, FaultsKnown, OpOK
<1>4. \/ op' = [op EXCEPT ![o] = Idle] /\ UNCHANGED <<stored, chosen>>
      \/ /\ op' = [op EXCEPT ![o].step = "apply"]
         /\ Mutated(o) /\ chosen' = Chosen(o)
  BY DEF Sql, tableVars, Fault, FaultsKnown
<1>5. CASE op' = [op EXCEPT ![o] = Idle] /\ UNCHANGED <<stored, chosen>>
  <2>1. \A p \in Owners : OpSteady(p)
    BY <1>1, <1>2, <1>5, IdleIs, OwnerSteady
  <2> QED BY <1>2, <1>3, <1>5, <2>1, AllSteady
<1>6. CASE op' = [op EXCEPT ![o].step = "apply"] /\ Mutated(o) /\ chosen' = Chosen(o)
  <2>1. /\ op'[o].step = "apply" /\ op'[o].kind = op[o].kind
        /\ op'[o].settings = op[o].settings
        /\ \A p \in Owners \ {o} : op'[p] = op[p]
    BY <1>1, <1>6 DEF Operation
  <2>2. CASE op[o].kind # "settings"
    <3>1. stored' = stored /\ chosen' = chosen
      BY <1>1, <1>6, <2>2 DEF Mutated, Chosen, Mutation
    <3>2. OpSteady(o) BY <1>2, <2>1, <2>2 DEF OpSteady, Applying
    <3>3. \A p \in Owners : OpSteady(p) BY <1>2, <2>1, <3>2, OpSame
    <3> QED BY <1>2, <1>3, <3>1, <3>3, AllSteady
  <2>3. CASE op[o].kind = "settings"
    <3>1. /\ stored' = [stored EXCEPT ![o] = op[o].settings]
          /\ chosen' = [chosen EXCEPT ![o] = op[o].settings]
      BY <1>6, <2>3 DEF Mutated, Chosen
    <3>2. /\ stored'[o] = op[o].settings /\ chosen'[o] = op[o].settings
          /\ op[o].settings # None
          /\ \A p \in Owners \ {o} : stored'[p] = stored[p] /\ chosen'[p] = chosen[p]
      BY <1>1, <2>3, <3>1 DEF OpOK
    <3>3. SettingsOK(o)'
      <4>1. Applying(o)' BY <1>2, <1>3, <2>1, <2>3 DEF Applying
      <4>2. StoredSettings(o)' = chosen'[o] BY <3>2 DEF StoredSettings
      <4> QED BY <1>1, <1>2, <1>3, <2>1, <3>2, <4>1, <4>2 DEF SettingsOK
    <3>4. ASSUME NEW p \in Owners, p # o PROVE SettingsOK(p)'
      <4>1. Steady(p) BY <1>2, <1>3, <3>2, <3>4 DEF Steady
      <4>2. OpSteady(p) BY <1>2, <2>1, <3>4, OpSame
      <4>3. SettingsOK(p) BY DEF SettingsInv
      <4> QED BY <1>1, <4>1, <4>2, <4>3, SteadyKeeps
    <3> QED BY <3>3, <3>4
  <2> QED BY <2>2, <2>3
<1> QED BY <1>4, <1>5, <1>6

LEMMA ApplySettings ==
    ASSUME SettingsInv, NEW o \in Owners, Apply(o)
    PROVE  \A p \in Owners : SettingsOK(p)'
<1>1. /\ ShapeInv /\ SettingsOK(o) /\ op[o] \in Operation /\ OpOK(o)
      /\ cache \in [Owners -> Retention \cup {None}]
      /\ chosen \in [Owners -> Retention]
      /\ op \in [Owners -> Operation] /\ op[o].step = "apply"
  BY OpParts DEF SettingsInv, FinalInv, ShapeInv, BusTyped, Apply
<1>2. UNCHANGED <<stored, reader, configured, disabled>>
  BY DEF Apply, tableVars, latchVars, ghostVars
<1>3. /\ \A p \in Owners \ {o} : op'[p] = op[p]
      /\ op'[o].step # "apply"
  <2>1. op' = [op EXCEPT ![o] = Idle] \/ op' = [op EXCEPT ![o].step = "report"]
    BY <1>1, ApplyIs
  <2>2. CASE op' = [op EXCEPT ![o] = Idle] BY <1>1, <2>2, IdleIs
  <2>3. CASE op' = [op EXCEPT ![o].step = "report"] BY <1>1, <2>3 DEF Operation
  <2> QED BY <2>1, <2>2, <2>3
<1>4. CASE op[o].kind # "settings"
  <2>1. cache' = cache /\ chosen' = chosen
    BY <1>1, <1>4, ApplyIs DEF Mutation, memoryVars, ghostVars
  <2>2. OpSteady(o) BY <1>2, <1>3, <1>4, OpGone
  <2>3. \A p \in Owners : OpSteady(p) BY <1>2, <1>3, <2>2, OpSame
  <2> QED BY <1>2, <2>1, <2>3, AllSteady
<1>5. CASE op[o].kind = "settings"
  <2>1. /\ cache' = [cache EXCEPT ![o] = op[o].settings]
        /\ chosen' = [chosen EXCEPT ![o] = op[o].settings]
    BY <1>1, <1>5, ApplyIs
  <2>2. /\ cache'[o] = op[o].settings /\ chosen'[o] = op[o].settings
        /\ op[o].settings # None
        /\ \A p \in Owners \ {o} : cache'[p] = cache[p] /\ chosen'[p] = chosen[p]
    BY <1>1, <1>5, <2>1 DEF OpOK
  <2>3. SettingsOK(o)'
    <3>1. ~Applying(o)' BY <1>3 DEF Applying
    <3>2. configured => StoredSettings(o)' = chosen'[o]
      <4>1. StoredSettings(o)' = StoredSettings(o) BY <1>2 DEF StoredSettings
      <4>2. configured => Applying(o) BY <1>1, <1>5 DEF Applying
      <4> QED BY <1>1, <2>2, <4>1, <4>2 DEF SettingsOK
    <3> QED BY <1>1, <1>2, <2>2, <3>1, <3>2 DEF SettingsOK
  <2>4. ASSUME NEW p \in Owners, p # o PROVE SettingsOK(p)'
    <3>1. Steady(p) BY <1>2, <2>2, <2>4 DEF Steady
    <3>2. OpSteady(p) BY <1>2, <1>3, <2>4, OpSame
    <3>3. SettingsOK(p) BY DEF SettingsInv
    <3> QED BY <1>1, <3>1, <3>2, <3>3, SteadyKeeps
  <2> QED BY <2>3, <2>4
<1> QED BY <1>4, <1>5

LEMMA ReaderSettings ==
    ASSUME SettingsInv, NEW o \in Owners, ReadMiss(o) \/ ReadStore(o)
    PROVE  \A p \in Owners : SettingsOK(p)'
<1>1. /\ ShapeInv /\ SettingsOK(o) /\ configured \in BOOLEAN
      /\ cache \in [Owners -> Retention \cup {None}]
      /\ reader \in [Owners -> Retention \cup {None}]
  BY DEF SettingsInv, FinalInv, ShapeInv, BusTyped
<1>2. UNCHANGED <<op, stored, chosen, configured, disabled>>
  BY DEF ReadMiss, ReadStore, tableVars, latchVars, ghostVars
<1>3. /\ \A p \in Owners \ {o} : cache'[p] = cache[p] /\ reader'[p] = reader[p]
      /\ \/ /\ ~configured /\ cache'[o] = cache[o] /\ reader'[o] = DefaultSettings
         \/ /\ reader[o] # None /\ reader'[o] = None
            /\ cache'[o] = IF cache[o] = None THEN reader[o] ELSE cache[o]
  BY <1>1 DEF ReadMiss, ReadStore, memoryVars, Cached
<1>4. StoredSettings(o)' = StoredSettings(o) /\ (Applying(o)' <=> Applying(o))
      /\ (Active' <=> Active)
  BY <1>2 DEF StoredSettings, Applying, Active
<1>5. SettingsOK(o)'
  <2>1. CASE ~configured /\ cache'[o] = cache[o] /\ reader'[o] = DefaultSettings
    BY <1>1, <1>2, <1>4, <2>1 DEF SettingsOK
  <2>2. CASE /\ reader[o] # None /\ reader'[o] = None
             /\ cache'[o] = IF cache[o] = None THEN reader[o] ELSE cache[o]
    <3>1. ~configured /\ reader[o] = DefaultSettings BY <1>1, <2>2 DEF SettingsOK
    <3> QED BY <1>1, <1>2, <1>4, <2>2, <3>1 DEF SettingsOK
  <2> QED BY <1>3, <2>1, <2>2
<1>6. ASSUME NEW p \in Owners, p # o PROVE SettingsOK(p)'
  <2>1. Steady(p) BY <1>2, <1>3, <1>6 DEF Steady
  <2>2. OpSteady(p) BY <1>2, OpSame
  <2>3. SettingsOK(p) BY DEF SettingsInv
  <2> QED BY <1>1, <2>1, <2>2, <2>3, SteadyKeeps
<1> QED BY <1>5, <1>6

LEMMA ProceedSettings ==
    ASSUME SettingsInv, NEW o \in Owners, Proceed(o), FaultsKnown
    PROVE  \A p \in Owners : SettingsOK(p)'
<1>1. /\ ShapeInv /\ op[o] \in Operation /\ OpOK(o)
      /\ op \in [Owners -> Operation] /\ disabled \in BOOLEAN
  BY OpParts DEF SettingsInv, FinalInv, ShapeInv, BusTyped
<1>2. ASSUME op[o].step # "apply", NEW x, x.step # "apply", op' = [op EXCEPT ![o] = x],
             UNCHANGED <<cache, stored, chosen, reader, configured>>,
             disabled => disabled'
      PROVE  \A p \in Owners : SettingsOK(p)'
  <2>1. \A p \in Owners : OpSteady(p) BY <1>1, <1>2, OwnerSteady
  <2> QED BY <1>2, <2>1, AllSteady
<1>3. \A s : [op[o] EXCEPT !.step = s].step = s BY <1>1 DEF Operation
<1>4. CASE CountAdmitted(o)
  <2>1. UNCHANGED <<cache, stored, chosen, reader, configured>>
    BY <1>4 DEF CountAdmitted, tableVars, ghostVars
  <2>2. disabled => disabled' BY <1>4 DEF CountAdmitted, latchVars
  <2>3. op[o].step = "count" BY <1>4 DEF CountAdmitted
  <2>4. PICK x : op' = [op EXCEPT ![o] = x] /\ x.step = "accept"
    <3>1. CASE op' = [op EXCEPT ![o].step = "accept"]
      <4>1. op' = [op EXCEPT ![o] = [op[o] EXCEPT !.step = "accept"]] BY <3>1
      <4> QED BY <1>3, <4>1
    <3>2. CASE op' = [op EXCEPT ![o].step = "accept", ![o].count = admitted'[o]]
      <4>1. op' = [op EXCEPT ![o] =
                      [op[o] EXCEPT !.step = "accept", !.count = admitted'[o]]]
        BY <1>1, <3>2
      <4>2. [op[o] EXCEPT !.step = "accept", !.count = admitted'[o]].step = "accept"
        BY <1>1 DEF Operation
      <4> QED BY <4>1, <4>2
    <3> QED BY <1>4, <3>1, <3>2 DEF CountAdmitted
  <2> QED BY <1>2, <2>1, <2>2, <2>3, <2>4
<1>5. CASE Accept(o)
  <2>1. UNCHANGED <<cache, stored, chosen, reader, configured>>
    BY <1>5 DEF Accept, tableVars, ghostVars
  <2>2. (disabled => disabled') /\ op[o].step = "accept"
        /\ op' = [op EXCEPT ![o] = Idle]
    BY <1>5, AcceptIs DEF Accept
  <2> QED BY <1>2, <2>1, <2>2, IdleIs
<1>6. CASE SendBarrier(o)
  <2>1. UNCHANGED <<cache, stored, chosen, reader, configured, disabled>>
    BY <1>6 DEF SendBarrier, memoryVars, latchVars, tableVars, ghostVars
  <2>2. op' = [op EXCEPT ![o] = [op[o] EXCEPT !.step = "await"]]
        /\ op[o].step = "flush"
    BY <1>6 DEF SendBarrier
  <2> QED BY <1>2, <1>3, <2>1, <2>2
<1>7. CASE FlushFails(o)
  <2>1. UNCHANGED <<cache, stored, chosen, reader, configured>> /\ disabled'
    BY <1>7 DEF FlushFails, memoryVars, tableVars, ghostVars
  <2>2. op' = [op EXCEPT ![o] = Idle] /\ op[o].step # "apply"
    BY <1>7 DEF FlushFails
  <2> QED BY <1>2, <2>1, <2>2, IdleIs
<1>8. CASE Report(o)
  <2>1. UNCHANGED <<cache, stored, chosen, reader, configured, disabled>>
    BY <1>8 DEF Report, memoryVars, latchVars, tableVars
  <2>2. op' = [op EXCEPT ![o] = Idle] /\ op[o].step # "apply"
    BY <1>8 DEF Report
  <2> QED BY <1>2, <2>1, <2>2, IdleIs
<1> QED BY <1>4, <1>5, <1>6, <1>7, <1>8, LoadSettingsSettings, SqlSettings,
           ApplySettings DEF Proceed

LEMMA WritingSettings ==
    ASSUME SettingsInv, Writing
    PROVE  \A p \in Owners : SettingsOK(p)'
<1>1. ShapeInv /\ op \in [Owners -> Operation] BY DEF SettingsInv, FinalInv, ShapeInv, BusTyped
<1>2. CASE op' = op /\ UNCHANGED <<cache, stored, chosen, reader, configured>>
           /\ (disabled => disabled')
  BY <1>2, OpSame, AllSteady
<1>3. ASSUME NEW x \in Owners \cup {None}, op' = Replied(x, Active),
             UNCHANGED <<cache, stored, chosen, reader, configured, disabled>>
      PROVE  \A p \in Owners : SettingsOK(p)'
  <2>1. /\ \A p \in Owners \ {x} : op'[p] = op[p]
        /\ \A p \in Owners : op[p].step # "await" => op'[p] = op[p]
        /\ x \in Owners /\ op[x].step = "await" =>
             op'[x] = IF Active THEN [op[x] EXCEPT !.step = "sql"] ELSE Idle
    BY <1>1, <1>3, ActiveTyped, RepliedMoves
  <2>2. ASSUME NEW p \in Owners PROVE OpSteady(p)
    <3>1. CASE p = x /\ op[p].step = "await"
      <4>1. [op[p] EXCEPT !.step = "sql"].step = "sql" BY <1>1 DEF Operation
      <4>2. op'[p].step # "apply" BY <2>1, <3>1, <4>1, IdleIs
      <4> QED BY <1>3, <3>1, <4>2, OpElsewhere
    <3>2. CASE ~(p = x /\ op[p].step = "await")
      <4>1. op'[p] = op[p] BY <2>1, <3>2
      <4> QED BY <1>3, <4>1, OpSame
    <3> QED BY <3>1, <3>2
  <2> QED BY <1>3, <2>2, AllSteady
<1>4. CASE WriterTake
  <2>1. UNCHANGED <<cache, stored, chosen, reader, configured>>
    BY <1>4 DEF WriterTake, memoryVars, tableVars, ghostVars
  <2>2. (disabled => disabled') /\ queue # <<>> BY <1>4 DEF WriterTake, latchVars
  <2>3. PICK x \in Owners : Head(queue).owner = x
    BY <1>1, <2>2, WriterParts, TailIs, MessageParts
  <2>4. op' = op \/ (op' = Replied(x, Active) /\ disabled' = disabled)
    <3>1. \/ op' = op
          \/ op' = Replied(Head(queue).owner, Active) /\ disabled' = disabled
      BY <1>4 DEF WriterTake, latchVars
    <3> QED BY <2>3, <3>1
  <2> QED BY <1>2, <1>3, <2>1, <2>2, <2>4
<1>5. CASE WriterCollect \/ WriterClose \/ WriterGivesUp
  <2>1. op' = op /\ UNCHANGED <<cache, stored, chosen, reader, configured, disabled>>
    BY <1>5 DEF WriterCollect, WriterClose, WriterGivesUp, memoryVars, latchVars,
                tableVars, ghostVars
  <2> QED BY <1>2, <2>1
<1>6. CASE WriterDone
  <2>1. UNCHANGED <<cache, stored, chosen, reader, configured, disabled>>
        /\ op' = Replied(writer.barrier, Active)
    BY <1>6 DEF WriterDone, memoryVars, latchVars, tableVars, ghostVars
  <2>2. PICK x \in Owners \cup {None} : x = writer.barrier BY <1>1, WriterParts
  <2> QED BY <1>3, <2>1, <2>2
<1>7. ASSUME NEW o \in Owners, NEW s \in Settings \cup {DefaultSettings},
             PersistGroup([owner |-> o, settings |-> s])
      PROVE  \A p \in Owners : SettingsOK(p)'
  <2>1. UNCHANGED <<cache, op, reader, stored, chosen, configured>>
    BY <1>7 DEF PersistGroup, ghostVars
  <2>2. disabled => disabled' BY <1>7 DEF PersistGroup, Stop
  <2> QED BY <1>2, <2>1, <2>2
<1>8. CASE TrimGroup
  <2>1. UNCHANGED <<cache, op, reader, stored, chosen, configured>>
    BY <1>8 DEF TrimGroup, memoryVars, ghostVars
  <2>2. disabled => disabled' BY <1>8 DEF TrimGroup, Stop
  <2> QED BY <1>2, <2>1, <2>2
<1> QED BY <1>4, <1>5, <1>6, <1>7, <1>8 DEF Writing

LEMMA RestartSettings ==
    ASSUME SettingsInv, Restart
    PROVE  \A p \in Owners : SettingsOK(p)'
<1>1. UNCHANGED <<stored, chosen, configured>> /\ configured
  BY DEF Restart, tableVars, ghostVars
<1>2. ASSUME NEW p \in Owners PROVE SettingsOK(p)'
  <2>1. cache'[p] = None /\ op'[p] = Idle /\ reader'[p] = None BY DEF Restart
  <2>2. ~Applying(p)' BY <2>1, IdleIs DEF Applying
  <2>3. StoredSettings(p)' = StoredSettings(p) BY <1>1 DEF StoredSettings
  <2>4. SettingsOK(p) BY DEF SettingsInv
  <2> QED BY <1>1, <2>1, <2>2, <2>3, <2>4 DEF SettingsOK
<1> QED BY <1>2

LEMMA NextSettings ==
    ASSUME SettingsInv, [Next]_busVars, FaultsKnown
    PROVE  \A p \in Owners : SettingsOK(p)'
<1>1. CASE UNCHANGED busVars
  <2>1. op' = op /\ UNCHANGED <<cache, stored, chosen, reader, configured, disabled>>
    BY <1>1 DEF busVars, memoryVars, latchVars, tableVars, ghostVars
  <2> QED BY <2>1, OpSame, AllSteady
<1>2. ASSUME NEW o \in Owners, CountExpires(o) PROVE \A p \in Owners : SettingsOK(p)'
  <2>1. op' = op /\ UNCHANGED <<cache, stored, chosen, reader, configured, disabled>>
    BY <1>2 DEF CountExpires, latchVars, tableVars, ghostVars
  <2> QED BY <2>1, OpSame, AllSteady
<1> QED BY <1>1, <1>2, PublishingSettings, MutatingSettings, ProceedSettings,
           ReaderSettings, WritingSettings, RestartSettings DEF Next

LEMMA SettingsInit == Init => SettingsInv
<1> SUFFICES ASSUME Init, NEW o \in Owners PROVE SettingsOK(o)
  BY FinalInit DEF SettingsInv
<1>1. /\ cache[o] = None /\ op[o] = Idle /\ reader[o] = None
      /\ chosen[o] = StoredSettings(o)
  BY DEF Init, MemoryInit
<1>2. ~configured => stored[o] = None BY DEF Init
<1>3. ~configured => StoredSettings(o) = DefaultSettings BY <1>2 DEF StoredSettings
<1> QED BY <1>1, <1>3, IdleIs DEF SettingsOK, Applying

(* The settings in use are those chosen last: no cold load and no reader     *)
(* puts older ones back, as long as a failing statement changes nothing.     *)
(* When an answer is lost or late, or the tables cannot be created, what is  *)
(* stored and what was chosen may differ, and the code promises nothing.     *)
THEOREM SettingsStayInForce ==
    ASSUME FaultsKnown
    PROVE  SafetySpec => []SettingsInForce
<1>1. SettingsInv /\ [Next]_busVars => SettingsInv'
  BY FinalStep, FinalStutter, NextSettings DEF SettingsInv
<1>2. SettingsInv => SettingsInForce
  BY DEF SettingsInv, SettingsOK, Applying, SettingsInForce
<1> QED BY <1>1, <1>2, SettingsInit, PTL DEF SafetySpec
-----------------------------------------------------------------------------
(* No event is on its way twice, nor on its way and stored, as long as no    *)
(* insert is repeated.                                                       *)
IsOf(message, o) == message.type = "event" /\ message.owner = o
Alone(s, o) ==
    \A i, j \in DOMAIN s :
        IsOf(s[i], o) /\ IsOf(s[j], o) /\ s[i].event.id = s[j].event.id => i = j
Apart(s, t, o) ==
    \A i \in DOMAIN s, j \in DOMAIN t :
        IsOf(s[i], o) /\ IsOf(t[j], o) => s[i].event.id # t[j].event.id
UniqueOK(o) ==
    Alone(queue, o) /\ Alone(writer.batch, o) /\ Apart(queue, writer.batch, o)

RowsOK(o) ==
    /\ \A r, s \in rows[o] : r.key = s.key => r = s
    /\ \A r, s \in rows[o] : r.event.id = s.event.id => r = s
    /\ \A r \in rows[o], e \in Pending(o) : r.event.id # e.id

OnceInv == FinalInv /\ \A o \in Owners : UniqueOK(o) /\ RowsOK(o)

LEMMA AloneAppend ==
    ASSUME NEW o, NEW s \in Seq(Messages), NEW m \in Messages, Alone(s, o),
           \A i \in DOMAIN s :
                IsOf(s[i], o) /\ IsOf(m, o) => s[i].event.id # m.event.id
    PROVE  Alone(Append(s, m), o)
<1>1. /\ DOMAIN Append(s, m) = 1 .. Len(s) + 1
      /\ \A i \in 1 .. Len(s) : Append(s, m)[i] = s[i]
      /\ Append(s, m)[Len(s) + 1] = m
      /\ Len(s) \in Nat /\ DOMAIN s = 1 .. Len(s)
  BY AppendIs, LenProperties
<1>2. \A i \in 1 .. Len(s) + 1 : i \in 1 .. Len(s) \/ i = Len(s) + 1
  BY <1>1
<1> QED BY <1>1, <1>2 DEF Alone

LEMMA AloneTail ==
    ASSUME NEW o, NEW s \in Seq(Messages), s # <<>>, Alone(s, o)
    PROVE  Alone(Tail(s), o)
<1>1. /\ DOMAIN Tail(s) = 1 .. Len(s) - 1 /\ DOMAIN s = 1 .. Len(s)
      /\ \A i \in 1 .. Len(s) - 1 : Tail(s)[i] = s[i + 1]
      /\ Len(s) \in Nat \ {0}
  BY TailIs
<1>2. \A i \in 1 .. Len(s) - 1 : i \in Int /\ i + 1 \in 1 .. Len(s) BY <1>1
<1>3. ASSUME NEW i \in DOMAIN Tail(s), NEW j \in DOMAIN Tail(s),
             IsOf(Tail(s)[i], o), IsOf(Tail(s)[j], o),
             Tail(s)[i].event.id = Tail(s)[j].event.id
      PROVE  i = j
  <2>1. i + 1 = j + 1 BY <1>1, <1>2, <1>3 DEF Alone
  <2> QED BY <1>1, <1>2, <2>1
<1> QED BY <1>3 DEF Alone

LEMMA AlonePicked ==
    ASSUME NEW o, NEW s \in Seq(Messages), NEW places \in SUBSET (DOMAIN s),
           Alone(s, o)
    PROVE  Alone(Picked(s, places), o)
<1>1. \A j \in DOMAIN Picked(s, places) :
        \E i \in places : Place(places, i) = j /\ Picked(s, places)[j] = s[i]
  BY PickedIs
<1>2. ASSUME NEW i \in DOMAIN Picked(s, places), NEW j \in DOMAIN Picked(s, places),
             IsOf(Picked(s, places)[i], o), IsOf(Picked(s, places)[j], o),
             Picked(s, places)[i].event.id = Picked(s, places)[j].event.id
      PROVE  i = j
  <2>1. PICK k \in places : Place(places, k) = i /\ Picked(s, places)[i] = s[k]
    BY <1>1
  <2>2. PICK m \in places : Place(places, m) = j /\ Picked(s, places)[j] = s[m]
    BY <1>1
  <2>3. k = m BY <1>2, <2>1, <2>2 DEF Alone
  <2> QED BY <2>1, <2>2, <2>3
<1> QED BY <1>2 DEF Alone

(* Queue and batch after what the writer does to them.                       *)
LEMMA UniqueIs ==
    ASSUME NEW o, UniqueOK(o)
    PROVE  /\ Alone(queue, o) /\ Alone(writer.batch, o)
           /\ Apart(queue, writer.batch, o)
BY DEF UniqueOK

LEMMA ApartTail ==
    ASSUME NEW o, NEW s \in Seq(Messages), NEW t, s # <<>>, Apart(s, t, o)
    PROVE  Apart(Tail(s), t, o)
<1>1. /\ DOMAIN Tail(s) = 1 .. Len(s) - 1 /\ DOMAIN s = 1 .. Len(s)
      /\ \A i \in 1 .. Len(s) - 1 : Tail(s)[i] = s[i + 1]
      /\ Len(s) \in Nat \ {0}
  BY TailIs
<1>2. \A i \in 1 .. Len(s) - 1 : i + 1 \in 1 .. Len(s) BY <1>1
<1> QED BY <1>1, <1>2 DEF Apart

(* The head of the queue is apart from the rest of it and from the batch.    *)
LEMMA HeadApart ==
    ASSUME NEW o, NEW s \in Seq(Messages), NEW t, s # <<>>, Alone(s, o),
           Apart(s, t, o)
    PROVE  /\ \A j \in DOMAIN t :
                IsOf(Head(s), o) /\ IsOf(t[j], o) => t[j].event.id # Head(s).event.id
           /\ \A i \in DOMAIN Tail(s) :
                IsOf(Head(s), o) /\ IsOf(Tail(s)[i], o)
                    => Tail(s)[i].event.id # Head(s).event.id
<1>1. /\ DOMAIN Tail(s) = 1 .. Len(s) - 1 /\ DOMAIN s = 1 .. Len(s)
      /\ \A i \in 1 .. Len(s) - 1 : Tail(s)[i] = s[i + 1]
      /\ Len(s) \in Nat \ {0} /\ Head(s) = s[1]
  BY TailIs
<1>2. \A i \in 1 .. Len(s) - 1 : i + 1 \in 1 .. Len(s) /\ i + 1 # 1 BY <1>1
<1>3. 1 \in 1 .. Len(s) BY <1>1
<1>4. ASSUME NEW j \in DOMAIN t, IsOf(Head(s), o), IsOf(t[j], o)
      PROVE  t[j].event.id # Head(s).event.id
  BY <1>1, <1>3, <1>4 DEF Apart
<1>5. ASSUME NEW i \in DOMAIN Tail(s), IsOf(Head(s), o), IsOf(Tail(s)[i], o)
      PROVE  Tail(s)[i].event.id # Head(s).event.id
  BY <1>1, <1>2, <1>3, <1>5 DEF Alone
<1> QED BY <1>4, <1>5

LEMMA ApartAppend ==
    ASSUME NEW o, NEW s \in Seq(Messages), NEW t \in Seq(Messages),
           NEW m \in Messages,
           Apart(s, t, o),
           \A i \in DOMAIN s :
                IsOf(m, o) /\ IsOf(s[i], o) => s[i].event.id # m.event.id
    PROVE  Apart(s, Append(t, m), o)
<1>1. /\ DOMAIN Append(t, m) = 1 .. Len(t) + 1
      /\ \A i \in 1 .. Len(t) : Append(t, m)[i] = t[i]
      /\ Append(t, m)[Len(t) + 1] = m
      /\ Len(t) \in Nat /\ DOMAIN t = 1 .. Len(t)
  BY AppendIs, LenProperties
<1>2. \A i \in 1 .. Len(t) + 1 : i \in 1 .. Len(t) \/ i = Len(t) + 1
  BY <1>1
<1> QED BY <1>1, <1>2 DEF Apart

LEMMA ApartSwaps ==
    ASSUME NEW o, NEW s, NEW t, Apart(s, t, o)
    PROVE  Apart(t, s, o)
BY DEF Apart

-----------------------------------------------------------------------------
(* Steps that leave events where they are, or take some of them away.        *)
Fewer(p) ==
    /\ \A e \in Pending(p)' : e \in Pending(p)
    /\ UniqueOK(p)'
    /\ \A r \in rows'[p] : \E s \in rows[p] : r.key = s.key /\ r.event = s.event

LEMMA FewerKeeps ==
    ASSUME NEW p, RowsOK(p), Fewer(p),
           \A r, s \in rows'[p] : r.key = s.key => r = s
    PROVE  UniqueOK(p)' /\ RowsOK(p)'
<1>1. ASSUME NEW r \in rows'[p], NEW s \in rows'[p], r.event.id = s.event.id
      PROVE  r = s
  <2>1. PICK x \in rows[p] : r.key = x.key /\ r.event = x.event BY DEF Fewer
  <2>2. PICK y \in rows[p] : s.key = y.key /\ s.event = y.event BY DEF Fewer
  <2>3. x = y BY <1>1, <2>1, <2>2 DEF RowsOK
  <2> QED BY <2>1, <2>2, <2>3
<1>2. \A r \in rows'[p], e \in Pending(p)' : r.event.id # e.id
  BY DEF Fewer, RowsOK
<1> QED BY <1>1, <1>2 DEF RowsOK, Fewer

LEMMA SameTables ==
    ASSUME NEW p, RowsOK(p), UniqueOK(p)', rows'[p] = rows[p],
           \A e \in Pending(p)' : e \in Pending(p)
    PROVE  UniqueOK(p)' /\ RowsOK(p)'
BY DEF RowsOK

LEMMA StillOnce ==
    ASSUME OnceInv, Still
    PROVE  \A p \in Owners : UniqueOK(p)' /\ RowsOK(p)'
<1>1. ASSUME NEW p \in Owners PROVE UniqueOK(p)' /\ RowsOK(p)'
  <2>1. UniqueOK(p) /\ RowsOK(p) BY DEF OnceInv
  <2>2. UniqueOK(p)' BY <2>1 DEF UniqueOK, Still, Alone, Apart
  <2>3. Pending(p)' = Pending(p) /\ rows' = rows BY StillIs DEF Still
  <2> QED BY <2>1, <2>2, <2>3 DEF RowsOK
<1> QED BY <1>1

(* A message at the end of the queue.                                        *)
LEMMA AppendOnce ==
    ASSUME OnceInv, NEW p \in Owners, NEW m \in Messages,
           queue' = Append(queue, m), writer' = writer, rows' = rows,
           IsOf(m, p) => \A e \in Known(p) : e.id # m.event.id
    PROVE  UniqueOK(p)' /\ RowsOK(p)'
<1>1. ShapeInv /\ UniqueOK(p) /\ RowsOK(p) BY DEF OnceInv, FinalInv
<1>2. queue \in Seq(Messages) /\ writer.batch \in Seq(Messages)
  BY <1>1, WriterParts
<1>3. \A i \in DOMAIN queue : IsOf(queue[i], p) => queue[i].event \in Known(p)
  BY PendingIs DEF IsOf, Known
<1>4. \A i \in DOMAIN writer.batch :
        IsOf(writer.batch[i], p) => writer.batch[i].event \in Known(p)
  BY PendingIs DEF IsOf, Known
<1>5. Alone(queue', p)
  BY <1>1, <1>2, <1>3, AloneAppend DEF UniqueOK
<1>6. Apart(queue', writer'.batch, p)
  <2>1. Apart(writer.batch, queue, p) BY <1>1, ApartSwaps DEF UniqueOK
  <2>2. Apart(writer.batch, queue', p)
    BY <1>2, <1>4, <2>1, ApartAppend
  <2> QED BY <2>2, ApartSwaps
<1>7. UniqueOK(p)' BY <1>1, <1>5, <1>6 DEF UniqueOK
<1>8. \A e : e \in Pending(p)' =>
        e \in Pending(p) \/ (m.type = "event" /\ m.owner = p /\ e = m.event)
  BY <1>1, AppendMoves
<1>9. \A r \in rows'[p], e \in Pending(p)' : r.event.id # e.id
  <2>1. \A r \in rows[p] : r.event \in Known(p) BY DEF Known
  <2> QED BY <1>1, <1>8, <2>1 DEF RowsOK, IsOf
<1> QED BY <1>1, <1>7, <1>9 DEF RowsOK

LEMMA AcceptOnce ==
    ASSUME OnceInv, NEW o \in Owners, Accept(o)
    PROVE  \A p \in Owners : UniqueOK(p)' /\ RowsOK(p)'
<1>1. ShapeInv /\ OwnerOK(o) BY DEF OnceInv, FinalInv
<1>2. rows' = rows /\ writer' = writer BY DEF Accept, tableVars
<1>3. /\ op[o].event \in Events /\ op[o].settings \in Retention
      /\ op[o].event # None /\ op[o].event.id \in Nat
      /\ \A e \in Known(o) : e.id < op[o].event.id /\ e.id \in Nat
  <2>1. op[o].step = "accept" BY DEF Accept
  <2>2. op[o] \in Operation /\ op[o].event # None /\ op[o].settings # None
    BY <1>1, <2>1, OpParts DEF OpOK, PublishSteps
  <2>3. op[o].event \in Events /\ op[o].settings \in Retention
    BY <2>2 DEF Operation
  <2>4. NumberedOK(o) BY <1>1 DEF OwnerOK
  <2>5. \A e \in Known(o) : e.id \in Nat BY <1>1, EventsTyped
  <2> QED BY <2>2, <2>3, <2>4, <2>5 DEF NumberedOK, Events
<1>4. \/ queue' = queue
      \/ queue' = Append(queue, Request(o, op[o].event, op[o].settings))
  BY DEF Accept
<1>5. CASE queue' = queue
  <2>2. ASSUME NEW p \in Owners PROVE UniqueOK(p)' /\ RowsOK(p)'
    <3>1. UniqueOK(p) /\ RowsOK(p) BY DEF OnceInv
    <3>2. UniqueOK(p)' BY <1>2, <1>5, <3>1 DEF UniqueOK, Alone, Apart
    <3>3. Pending(p)' = Pending(p) BY <1>2, <1>5 DEF Pending, Requests
    <3> QED BY <1>2, <3>1, <3>2, <3>3, SameTables
  <2> QED BY <2>2
<1>6. CASE queue' = Append(queue, Request(o, op[o].event, op[o].settings))
  <2>1. PICK m \in Messages : m = Request(o, op[o].event, op[o].settings)
    BY <1>3, MessagesTyped
  <2>2. ASSUME NEW p \in Owners, IsOf(m, p) PROVE \A e \in Known(p) : e.id # m.event.id
    <3>1. p = o /\ m.event = op[o].event BY <2>1, <2>2 DEF IsOf, Request
    <3> QED BY <1>3, <3>1
  <2>3. ASSUME NEW p \in Owners PROVE UniqueOK(p)' /\ RowsOK(p)'
    BY <1>2, <1>6, <2>1, <2>2, AppendOnce
  <2> QED BY <2>3
<1> QED BY <1>4, <1>5, <1>6

LEMMA SendBarrierOnce ==
    ASSUME OnceInv, NEW o \in Owners, SendBarrier(o)
    PROVE  \A p \in Owners : UniqueOK(p)' /\ RowsOK(p)'
<1>1. rows' = rows /\ writer' = writer /\ queue' = Append(queue, Barrier(o))
  BY DEF SendBarrier, tableVars
<1>2. PICK m \in Messages : m = Barrier(o) BY MessagesTyped
<1>3. \A p : ~IsOf(m, p) BY <1>2 DEF Barrier, IsOf
<1>4. ASSUME NEW p \in Owners PROVE UniqueOK(p)' /\ RowsOK(p)'
  BY <1>1, <1>2, <1>3, AppendOnce
<1> QED BY <1>4

(* Only rows of one owner change, and nothing of that owner is on its way.   *)
LEMMA SqlOnce ==
    ASSUME OnceInv, NEW o \in Owners, Sql(o)
    PROVE  \A p \in Owners : UniqueOK(p)' /\ RowsOK(p)'
<1>1. ShapeInv BY DEF OnceInv, FinalInv
<1>2. queue' = queue /\ writer' = writer BY DEF Sql
<1>3. op[o].kind \in Mutation /\ rows \in [Owners -> SUBSET Row]
  <2>1. op[o].step = "sql" BY DEF Sql
  <2> QED BY <1>1, <2>1, OpParts DEF FlushedSteps, ShapeInv, BusTyped
<1>4. rows' = rows \/ Mutated(o)
  BY DEF Sql, tableVars
<1>5. ASSUME Mutated(o)
      PROVE  /\ \A p \in Owners \ {o} : rows'[p] = rows[p]
             /\ \/ rows'[o] = {[r EXCEPT !.read = TRUE] : r \in rows[o]}
                \/ rows'[o] \subseteq rows[o]
  <2>1. CASE op[o].kind = "read"
    BY <1>3, <1>5, <2>1 DEF Mutated
  <2>2. CASE op[o].kind = "delete"
    <3>1. rows' = [rows EXCEPT ![o] = {r \in @ : r.event.kind \notin op[o].filter}]
      BY <1>5, <2>2 DEF Mutated
    <3> QED BY <1>3, <3>1
  <2>3. CASE op[o].kind = "settings"
    <3>1. rows' = [rows EXCEPT ![o] = Trimmed(@, op[o].settings.max)]
      BY <1>5, <2>3 DEF Mutated
    <3>2. rows'[o] = Trimmed(rows[o], op[o].settings.max)
          /\ \A p \in Owners \ {o} : rows'[p] = rows[p]
      BY <1>3, <3>1
    <3> QED BY <3>2 DEF Trimmed
  <2> QED BY <1>3, <2>1, <2>2, <2>3 DEF Mutation
<1>6. \A p \in Owners : Pending(p)' = Pending(p)
  BY <1>2 DEF Pending, Requests
<1>7. ASSUME NEW p \in Owners PROVE UniqueOK(p)' /\ RowsOK(p)'
  <2>1. UniqueOK(p) /\ RowsOK(p) BY DEF OnceInv
  <2>2. UniqueOK(p)' BY <1>2, <2>1 DEF UniqueOK, Alone, Apart
  <2>3. CASE rows'[p] = rows[p] BY <1>6, <2>1, <2>2, <2>3, SameTables
  <2>4. CASE rows'[p] = {[r EXCEPT !.read = TRUE] : r \in rows[p]}
    <3>1. \A r \in rows'[p] : \E s \in rows[p] : r = [s EXCEPT !.read = TRUE]
      BY <2>4
    <3>2. \A s \in rows[p] : s \in Row BY <1>3
    <3>3. \A s \in Row : /\ [s EXCEPT !.read = TRUE].key = s.key
                         /\ [s EXCEPT !.read = TRUE].event = s.event
      BY DEF Row
    <3>4. ASSUME NEW r \in rows'[p]
          PROVE  \E s \in rows[p] : r.key = s.key /\ r.event = s.event
      <4>1. PICK x \in rows[p] : r = [x EXCEPT !.read = TRUE] BY <3>1
      <4>2. r.key = x.key /\ r.event = x.event BY <3>2, <3>3, <4>1
      <4> QED BY <4>2
    <3>5. ASSUME NEW r \in rows'[p], NEW s \in rows'[p], r.key = s.key
          PROVE  r = s
      <4>1. PICK x \in rows[p] : r = [x EXCEPT !.read = TRUE] BY <3>1
      <4>2. PICK y \in rows[p] : s = [y EXCEPT !.read = TRUE] BY <3>1
      <4>3. x = y BY <2>1, <3>2, <3>3, <3>5, <4>1, <4>2 DEF RowsOK
      <4> QED BY <4>1, <4>2, <4>3
    <3> QED BY <1>6, <2>1, <2>2, <3>4, <3>5, FewerKeeps DEF Fewer
  <2>5. CASE rows'[p] \subseteq rows[p]
    <3>1. Fewer(p) BY <1>6, <2>2, <2>5 DEF Fewer
    <3>2. \A r, s \in rows'[p] : r.key = s.key => r = s BY <2>1, <2>5 DEF RowsOK
    <3> QED BY <2>1, <3>1, <3>2, FewerKeeps
  <2> QED BY <1>4, <1>5, <2>3, <2>4, <2>5
<1> QED BY <1>7

(* The writer takes messages from the queue into its batch, or drops them.   *)
Handed ==
    \/ queue' = queue /\ writer'.batch = writer.batch
    \/ queue # <<>> /\ queue' = Tail(queue) /\ writer'.batch = writer.batch
    \/ queue # <<>> /\ queue' = Tail(queue) /\ writer'.batch = Append(writer.batch, Head(queue))
    \/ queue' = queue /\ writer'.batch = <<>>
    \/ queue' = <<>> /\ writer'.batch = <<>>
    \/ queue' = queue /\ \E g \in Groups : writer'.batch = Others(writer.batch, g)

LEMMA EmptyAlone ==
    /\ \A o : Alone(<<>>, o) /\ \A t : Apart(<<>>, t, o) /\ Apart(t, <<>>, o)
BY DEF Alone, Apart

LEMMA HandedOnce ==
    ASSUME ShapeInv, Handed, NEW p \in Owners, UniqueOK(p)
    PROVE  UniqueOK(p)' /\ \A e \in Pending(p)' : e \in Pending(p)
<1>1. queue \in Seq(Messages) /\ writer.batch \in Seq(Messages)
  BY WriterParts
<1>2. /\ Alone(queue, p) /\ Alone(writer.batch, p) /\ Apart(queue, writer.batch, p)
  BY UniqueIs
<1>3. \A e : e \in Pending(p)' <=>
             \/ \E i \in DOMAIN queue' :
                  queue'[i].type = "event" /\ queue'[i].owner = p /\ e = queue'[i].event
             \/ \E i \in DOMAIN writer'.batch :
                  /\ writer'.batch[i].type = "event" /\ writer'.batch[i].owner = p
                  /\ e = writer'.batch[i].event
  <2>1. \A r : r \in Requests(queue)' <=>
            \E i \in DOMAIN queue' : queue'[i].type = "event" /\ r = queue'[i]
    BY DEF Requests
  <2>2. \A r : r \in Requests(writer.batch)' <=>
            \E i \in DOMAIN writer'.batch :
                writer'.batch[i].type = "event" /\ r = writer'.batch[i]
    BY DEF Requests
  <2>3. \A e : e \in Pending(p)' <=>
            \E r : /\ r \in Requests(queue)' \cup Requests(writer.batch)'
                   /\ r.owner = p /\ e = r.event
    BY DEF Pending
  <2> QED BY <2>1, <2>2, <2>3
<1>4. CASE queue' = queue /\ writer'.batch = writer.batch
  BY <1>2, <1>3, <1>4, PendingIs DEF UniqueOK, Alone, Apart
<1>5. ASSUME queue # <<>>, queue' = Tail(queue)
      PROVE  /\ Alone(queue', p) /\ Apart(queue', writer.batch, p)
             /\ \A i \in DOMAIN queue' : \E j \in DOMAIN queue : queue'[i] = queue[j]
             /\ \E j \in DOMAIN queue : Head(queue) = queue[j]
             /\ Head(queue) \in Messages
  BY <1>1, <1>2, <1>5, AloneTail, ApartTail, TailMoves
<1>6. CASE queue # <<>> /\ queue' = Tail(queue) /\ writer'.batch = writer.batch
  <2>1. UniqueOK(p)' BY <1>2, <1>5, <1>6 DEF UniqueOK
  <2>2. \A e \in Pending(p)' : e \in Pending(p)
    BY <1>3, <1>5, <1>6, PendingIs
  <2> QED BY <2>1, <2>2
<1>7. CASE queue # <<>> /\ queue' = Tail(queue)
           /\ writer'.batch = Append(writer.batch, Head(queue))
  <2>1. PICK m \in Messages : m = Head(queue) BY <1>5, <1>7
  <2>2. /\ \A j \in DOMAIN writer.batch :
                IsOf(m, p) /\ IsOf(writer.batch[j], p)
                    => writer.batch[j].event.id # m.event.id
        /\ \A i \in DOMAIN queue' :
                IsOf(m, p) /\ IsOf(queue'[i], p) => queue'[i].event.id # m.event.id
    BY <1>1, <1>2, <1>7, <2>1, HeadApart
  <2>3. Alone(writer'.batch, p)
    BY <1>1, <1>2, <1>7, <2>1, <2>2, AloneAppend
  <2>4. queue' \in Seq(Messages) BY <1>1, <1>7, TailIs
  <2>5. Apart(queue', writer'.batch, p)
    BY <1>1, <1>5, <1>7, <2>1, <2>2, <2>4, ApartAppend
  <2>6. /\ DOMAIN writer'.batch = 1 .. Len(writer.batch) + 1
        /\ \A i \in 1 .. Len(writer.batch) : writer'.batch[i] = writer.batch[i]
        /\ writer'.batch[Len(writer.batch) + 1] = m
        /\ Len(writer.batch) \in Nat /\ DOMAIN writer.batch = 1 .. Len(writer.batch)
    BY <1>1, <1>7, <2>1, AppendIs, LenProperties
  <2>7. ASSUME NEW i \in DOMAIN writer'.batch
        PROVE  \/ \E j \in DOMAIN writer.batch : writer'.batch[i] = writer.batch[j]
               \/ \E j \in DOMAIN queue : writer'.batch[i] = queue[j]
    <3>1. i \in 1 .. Len(writer.batch) \/ i = Len(writer.batch) + 1 BY <2>6
    <3> QED BY <1>5, <1>7, <2>1, <2>6, <3>1
  <2>8. \A e \in Pending(p)' : e \in Pending(p)
    BY <1>3, <1>5, <1>7, <2>7, PendingIs
  <2> QED BY <1>5, <1>7, <2>3, <2>5, <2>8 DEF UniqueOK
<1>8. CASE queue' \in {queue, <<>>} /\ writer'.batch = <<>>
  <2>1. UniqueOK(p)' BY <1>2, <1>8, EmptyAlone DEF UniqueOK
  <2>2. DOMAIN writer'.batch = {} /\ (queue' = <<>> => DOMAIN queue' = {}) BY <1>8
  <2> QED BY <1>3, <1>8, <2>1, <2>2, PendingIs
<1>9. ASSUME NEW g \in Groups, queue' = queue, writer'.batch = Others(writer.batch, g)
      PROVE  UniqueOK(p)' /\ \A e \in Pending(p)' : e \in Pending(p)
  <2>1. \A j \in DOMAIN writer'.batch :
            \E i \in DOMAIN writer.batch : writer'.batch[j] = writer.batch[i]
    BY <1>1, <1>9, MembersAre
  <2>2. Alone(writer'.batch, p)
    <3>1. {i \in DOMAIN writer.batch : GroupOf(writer.batch[i]) # g}
            \in SUBSET (DOMAIN writer.batch)
      OBVIOUS
    <3> QED BY <1>1, <1>2, <1>9, <3>1, AlonePicked DEF Others
  <2>3. Apart(queue', writer'.batch, p) BY <1>2, <1>9, <2>1 DEF Apart
  <2>4. \A e \in Pending(p)' : e \in Pending(p)
    BY <1>3, <1>9, <2>1, PendingIs
  <2> QED BY <1>2, <1>9, <2>2, <2>3, <2>4 DEF UniqueOK
<1> QED BY <1>4, <1>6, <1>7, <1>8, <1>9 DEF Handed

(* All steps of the writer but the one that stores a group.                  *)
LEMMA HandingOnce ==
    ASSUME OnceInv, Handed, NEW p \in Owners, rows'[p] \subseteq rows[p]
    PROVE  UniqueOK(p)' /\ RowsOK(p)'
<1>1. ShapeInv /\ UniqueOK(p) /\ RowsOK(p) BY DEF OnceInv, FinalInv
<1>2. UniqueOK(p)' /\ \A e \in Pending(p)' : e \in Pending(p)
  BY <1>1, HandedOnce
<1>3. \A r, s \in rows'[p] : r.key = s.key => r = s BY <1>1 DEF RowsOK
<1>4. Fewer(p) BY <1>2 DEF Fewer
<1> QED BY <1>1, <1>3, <1>4, FewerKeeps

-----------------------------------------------------------------------------
(* Requests are stored in the order of their timestamps, each in a place of  *)
(* its own.                                                                  *)
EventRequests == {s \in Seq(Messages) : \A i \in DOMAIN s : s[i].type = "event"}

LEMMA UpTo ==
    ASSUME NEW n \in Nat
    PROVE  IsFiniteSet(1 .. n) /\ Cardinality(1 .. n) = n
BY FS_Interval

LEMMA RankIs ==
    ASSUME NEW requests \in EventRequests
    PROVE  /\ \A i \in DOMAIN requests : Rank(requests, i) \in 1 .. Len(requests)
           /\ \A i, j \in DOMAIN requests :
                Rank(requests, i) = Rank(requests, j) => i = j
<1> DEFINE at(i) == requests[i].event.at
           D == DOMAIN requests
           upTo(i) == {k \in D : at(k) < at(i) \/ (at(k) = at(i) /\ k <= i)}
<1>1. D = 1 .. Len(requests) /\ Len(requests) \in Nat
  BY LenProperties DEF EventRequests
<1>2. IsFiniteSet(D) /\ Cardinality(D) = Len(requests)
  BY ONLY <1>1, UpTo
<1>3. \A i \in D : at(i) \in Int /\ i \in Int
  <2>1. ASSUME NEW i \in D PROVE at(i) \in Int
    <3>1. requests[i] \in Messages /\ requests[i].type = "event"
      BY ElementOfSeq, <1>1 DEF EventRequests
    <3>2. requests[i].event \in Events BY <3>1, MessageParts
    <3> QED BY <3>2 DEF Events
  <2> QED BY <1>1, <2>1
<1>4. \A i : Rank(requests, i) = Cardinality(upTo(i)) BY DEF Rank
<1> HIDE DEF at, D
<1>5. ASSUME NEW i \in D PROVE Rank(requests, i) \in 1 .. Len(requests)
  <2>1. i \in upTo(i) BY <1>3
  <2>2. upTo(i) \in SUBSET D OBVIOUS
  <2>3. IsFiniteSet(upTo(i)) /\ Cardinality(upTo(i)) <= Len(requests)
    BY <1>2, <2>2, FS_Subset
  <2>4. Cardinality(upTo(i)) \in Nat /\ Cardinality(upTo(i)) # 0
    BY <2>1, <2>3, FS_CardinalityType, FS_EmptySet
  <2> QED BY <1>1, <1>4, <2>3, <2>4
<1>6. ASSUME NEW i \in D, NEW j \in D, at(i) < at(j) \/ (at(i) = at(j) /\ i < j)
      PROVE  Rank(requests, i) # Rank(requests, j)
  <2>1. at(i) \in Int /\ at(j) \in Int /\ i \in Int /\ j \in Int BY <1>3
  <2>2. upTo(i) \in SUBSET upTo(j)
    <3>1. ASSUME NEW k \in upTo(i) PROVE k \in upTo(j)
      <4>1. at(k) \in Int /\ k \in Int /\ k \in D BY <1>3
      <4> QED BY <1>6, <2>1, <4>1
    <3> QED BY <3>1
  <2>3. j \in upTo(j) /\ j \notin upTo(i) BY <1>6, <2>1
  <2>4. IsFiniteSet(upTo(j)) BY <1>2, FS_Subset
  <2>5. Cardinality(upTo(i)) # Cardinality(upTo(j)) BY <2>2, <2>3, <2>4, FS_Subset
  <2> QED BY <1>4, <2>5
<1>7. ASSUME NEW i \in D, NEW j \in D, Rank(requests, i) = Rank(requests, j)
      PROVE  i = j
  <2>1. at(i) \in Int /\ at(j) \in Int /\ i \in Int /\ j \in Int BY <1>3
  <2>2. /\ ~(at(i) < at(j) \/ (at(i) = at(j) /\ i < j))
        /\ ~(at(j) < at(i) \/ (at(j) = at(i) /\ j < i))
    BY <1>6, <1>7
  <2> QED BY <2>1, <2>2
<1> QED BY <1>5, <1>7 DEF D

(* What one insert that runs once adds.                                      *)
LEMMA NewRowsAre ==
    ASSUME NEW table \in SUBSET Row, IsFiniteSet(table),
           NEW requests \in EventRequests, NEW n \in Nat
    PROVE  /\ \A r \in NewRows(table, requests, n, 0) : r.key > TopKey(table)
           /\ \A r, s \in NewRows(table, requests, n, 0) : r.key = s.key => r = s
           /\ n = Len(requests) =>
                /\ Cardinality(NewRows(table, requests, n, 0)) = n
                /\ \A i \in DOMAIN requests :
                     \E r \in NewRows(table, requests, n, 0) :
                        r.event = requests[i].event
           /\ (\A i, j \in DOMAIN requests :
                    requests[i].event.id = requests[j].event.id => i = j)
              => \A r, s \in NewRows(table, requests, n, 0) :
                    r.event.id = s.event.id => r = s
<1> DEFINE F == {k \in DOMAIN requests : Rank(requests, k) <= n}
           new(i) == [key |-> TopKey(table) + 0 * n + Rank(requests, i),
                      event |-> requests[i].event, read |-> FALSE]
           N == NewRows(table, requests, n, 0)
<1>1. N = {new(i) : i \in F} BY DEF NewRows
<1>2. TopKey(table) \in Nat BY TopKeyIsTop
<1>3. \A i \in DOMAIN requests : Rank(requests, i) \in 1 .. Len(requests)
  BY RankIs
<1>4. Len(requests) \in Nat /\ DOMAIN requests = 1 .. Len(requests)
  BY LenProperties DEF EventRequests
<1>5. \A i \in F : /\ new(i).key = TopKey(table) + Rank(requests, i)
                   /\ new(i).event = requests[i].event
  <2>1. 0 * n = 0 OBVIOUS
  <2>2. ASSUME NEW i \in F
        PROVE  TopKey(table) + 0 * n + Rank(requests, i) = TopKey(table) + Rank(requests, i)
    BY <1>2, <1>3, <2>1
  <2> QED BY <2>2
<1> HIDE DEF new
<1>6. \A r \in N : \E i \in F : r = new(i) BY <1>1
<1>7. ASSUME NEW r \in N PROVE r.key > TopKey(table)
  <2>1. PICK i \in F : r = new(i) BY <1>6
  <2>2. Rank(requests, i) >= 1 /\ Rank(requests, i) \in Int BY <1>3
  <2> QED BY <1>2, <1>5, <2>1, <2>2
<1>8. ASSUME NEW i \in F, NEW j \in F, new(i).key = new(j).key PROVE i = j
  <2>1. Rank(requests, i) = Rank(requests, j) BY <1>2, <1>3, <1>4, <1>5, <1>8
  <2> QED BY <2>1, RankIs
<1>9. \A r, s \in N : r.key = s.key => r = s BY <1>6, <1>8
<1>10. ASSUME n = Len(requests)
       PROVE  /\ Cardinality(N) = n
              /\ \A i \in DOMAIN requests : \E r \in N : r.event = requests[i].event
  <2>1. F = DOMAIN requests BY <1>3, <1>10
  <2> DEFINE f == [i \in F |-> new(i)]
  <2>2. f \in Bijection(F, N)
    <3>1. f \in Injection(F, N) BY <1>1, <1>8 DEF Injection, IsInjective
    <3>2. f \in Surjection(F, N) BY <1>1 DEF Surjection
    <3> QED BY <3>1, <3>2 DEF Bijection
  <2>3. IsFiniteSet(F) /\ Cardinality(F) = n
    BY ONLY <1>4, <1>10, <2>1, UpTo
  <2>4. Cardinality(F) = Cardinality(N)
    <3>1. ExistsBijection(F, N) BY <2>2 DEF ExistsBijection
    <3> QED BY <2>3, <3>1, FS_Bijection
  <2>5. \A i \in DOMAIN requests : new(i) \in N /\ new(i).event = requests[i].event
    BY <1>1, <1>5, <2>1
  <2> QED BY <2>3, <2>4, <2>5
<1>11. ASSUME \A i, j \in DOMAIN requests :
                    requests[i].event.id = requests[j].event.id => i = j,
              NEW r \in N, NEW s \in N, r.event.id = s.event.id
       PROVE  r = s
  <2>1. PICK i \in F : r = new(i) BY <1>6
  <2>2. PICK j \in F : s = new(j) BY <1>6
  <2>3. i = j BY <1>5, <1>11, <2>1, <2>2
  <2> QED BY <2>1, <2>2, <2>3
<1> QED BY <1>7, <1>9, <1>10, <1>11

-----------------------------------------------------------------------------
(* A group that is stored.                                                   *)
LEMMA MembersOnce ==
    ASSUME ShapeInv, NEW g \in Groups, UniqueOK(g.owner)
    PROVE  /\ Members(writer.batch, g) \in EventRequests
           /\ \A i \in DOMAIN Members(writer.batch, g) :
                /\ Members(writer.batch, g)[i].event \in Pending(g.owner)
                /\ Members(writer.batch, g)[i].event \in Events
           /\ \A i, j \in DOMAIN Members(writer.batch, g) :
                Members(writer.batch, g)[i].event.id = Members(writer.batch, g)[j].event.id
                    => i = j
           /\ \A i \in DOMAIN Members(writer.batch, g) :
                /\ \A j \in DOMAIN queue :
                     IsOf(queue[j], g.owner) =>
                        queue[j].event.id # Members(writer.batch, g)[i].event.id
                /\ \A j \in DOMAIN Others(writer.batch, g) :
                     IsOf(Others(writer.batch, g)[j], g.owner) =>
                        Others(writer.batch, g)[j].event.id
                            # Members(writer.batch, g)[i].event.id
<1> DEFINE b == writer.batch
           R == Members(b, g)
           O == Others(b, g)
<1>1. b \in Seq(Messages) /\ \A i \in DOMAIN b : b[i].type = "event"
  BY WriterParts
<1>2. /\ Alone(queue, g.owner) /\ Alone(b, g.owner) /\ Apart(queue, b, g.owner)
  BY UniqueIs
<1>3. /\ R \in Seq(Messages)
      /\ \A j \in DOMAIN R : \E i \in DOMAIN b : R[j] = b[i] /\ GroupOf(b[i]) = g
      /\ O \in Seq(Messages)
      /\ \A j \in DOMAIN O : \E i \in DOMAIN b : O[j] = b[i] /\ GroupOf(b[i]) # g
  BY <1>1, MembersAre
<1>4. \A i \in DOMAIN b : GroupOf(b[i]) = g => IsOf(b[i], g.owner)
  BY <1>1 DEF GroupOf, IsOf
<1>5. \A j \in DOMAIN R : IsOf(R[j], g.owner) BY <1>3, <1>4
<1>6. R \in EventRequests BY <1>3, <1>5 DEF EventRequests, IsOf
<1>7. Alone(R, g.owner)
  <2>1. {i \in DOMAIN b : GroupOf(b[i]) = g} \in SUBSET (DOMAIN b) OBVIOUS
  <2> QED BY <1>1, <1>2, <2>1, AlonePicked DEF Members
<1>8. \A i, j \in DOMAIN R : R[i].event.id = R[j].event.id => i = j
  BY <1>5, <1>7 DEF Alone
<1>9. ASSUME NEW i \in DOMAIN R
      PROVE  R[i].event \in Pending(g.owner) /\ R[i].event \in Events
  <2>1. PICK k \in DOMAIN b : R[i] = b[k] /\ GroupOf(b[k]) = g BY <1>3
  <2>2. b[k].type = "event" /\ b[k].owner = g.owner
    BY <1>1, <2>1 DEF GroupOf
  <2>3. R[i].event \in Pending(g.owner) BY <2>1, <2>2, PendingIs
  <2>4. b[k] \in Messages BY <1>1, ElementOfSeq, LenProperties
  <2> QED BY <2>1, <2>2, <2>3, <2>4, MessageParts
<1>10. ASSUME NEW i \in DOMAIN R, NEW j \in DOMAIN queue, IsOf(queue[j], g.owner)
       PROVE  queue[j].event.id # R[i].event.id
  <2>1. PICK k \in DOMAIN b : R[i] = b[k] /\ GroupOf(b[k]) = g BY <1>3
  <2> QED BY <1>2, <1>4, <1>10, <2>1 DEF Apart
<1>11. ASSUME NEW i \in DOMAIN R, NEW j \in DOMAIN O, IsOf(O[j], g.owner)
       PROVE  O[j].event.id # R[i].event.id
  <2>1. PICK k \in DOMAIN b : R[i] = b[k] /\ GroupOf(b[k]) = g BY <1>3
  <2>2. PICK m \in DOMAIN b : O[j] = b[m] /\ GroupOf(b[m]) # g BY <1>3
  <2>3. IsOf(b[k], g.owner) BY <1>4, <2>1
  <2>4. IsOf(b[m], g.owner) BY <1>11, <2>2
  <2>5. b[k].event.id = b[m].event.id => k = m BY <1>2, <2>3, <2>4 DEF Alone
  <2> QED BY <2>1, <2>2, <2>5
<1> QED BY <1>6, <1>8, <1>9, <1>10, <1>11

LEMMA InsertedOnce ==
    ASSUME NEW table \in SUBSET Row, IsFiniteSet(table),
           NEW requests \in EventRequests, NEW n \in Nat
    PROVE  Inserted(table, requests, n, 1) = table \cup NewRows(table, requests, n, 0)
<1>1. requests \in Seq(Messages) /\ \A i \in DOMAIN requests : requests[i].type = "event"
  BY DEF EventRequests
<1>2. ASSUME NEW copies \in 1 .. 2, copies = 1
      PROVE  Inserted(table, requests, n, copies) = table \cup NewRows(table, requests, n, 0)
  BY <1>1, <1>2, InsertedIs
<1> QED BY <1>2

(* With statements that work or do nothing, an insert runs once or not.      *)
StoresGroup(g) ==
    /\ Goes(g)
    /\ rows' = [rows EXCEPT ![g.owner] =
            @ \cup NewRows(@, Members(writer.batch, g), Fit(g), 0)]
    /\ counts' = IF g.settings.policy = "drop_new"
                 THEN [counts EXCEPT ![g.owner] = GroupCount(g) + Fit(g)]
                 ELSE counts

LEMMA StoresOnce ==
    ASSUME ShapeInv, FaultsKnown, NEW g \in Groups, PersistGroup(g), UniqueOK(g.owner)
    PROVE  StoresGroup(g) \/ (Stops /\ UNCHANGED <<rows, counts>>)
<1>1. "lost" \notin Faults BY DEF FaultsKnown
<1>2. ~Fault("lost") BY <1>1 DEF Fault
<1>3. /\ rows \in [Owners -> SUBSET Row] /\ g.owner \in Owners
      /\ IsFiniteSet(rows[g.owner]) /\ rows[g.owner] \in SUBSET Row
  BY DEF ShapeInv, BusTyped, Groups
<1>4. \/ Stops /\ UNCHANGED <<rows, counts>>
      \/ /\ Goes(g)
         /\ \E copies \in Copies :
              /\ rows' = [rows EXCEPT ![g.owner] =
                    Inserted(@, Members(writer.batch, g), Fit(g), copies)]
              /\ faults' = faults + copies - 1
         /\ counts' = IF g.settings.policy = "drop_new"
                      THEN [counts EXCEPT ![g.owner] = GroupCount(g) + Fit(g)]
                      ELSE counts
  BY <1>2, PersistIs
<1>5. Copies = {1} BY <1>1, CopiesAre
<1>6. Members(writer.batch, g) \in EventRequests BY MembersOnce
<1>7. Fit(g) \in Nat BY FitTyped
<1>8. Inserted(rows[g.owner], Members(writer.batch, g), Fit(g), 1) =
        rows[g.owner] \cup NewRows(rows[g.owner], Members(writer.batch, g), Fit(g), 0)
  BY <1>3, <1>6, <1>7, InsertedOnce
<1> QED BY <1>4, <1>5, <1>8 DEF StoresGroup

LEMMA PersistOnce ==
    ASSUME OnceInv, FaultsKnown, NEW g \in Groups, PersistGroup(g)
    PROVE  \A p \in Owners : UniqueOK(p)' /\ RowsOK(p)'
<1>1. ShapeInv /\ \A p \in Owners : UniqueOK(p) /\ RowsOK(p)
  BY DEF OnceInv, FinalInv
<1>2. PICK o \in Owners : o = g.owner BY DEF Groups
<1>3. rows \in [Owners -> SUBSET Row] /\ \A p \in Owners : IsFiniteSet(rows[p])
  BY <1>1 DEF ShapeInv, BusTyped
<1>4. CASE Stops /\ rows' = rows
  <2>1. Handed BY <1>4 DEF Stops, WriterStopped, WriterIdle, Handed
  <2>2. ASSUME NEW p \in Owners PROVE UniqueOK(p)' /\ RowsOK(p)'
    BY <1>4, <2>1, HandingOnce
  <2> QED BY <2>2
<1>5. CASE StoresGroup(g)
  <2>1. queue' = queue /\ writer'.batch = Others(writer.batch, g)
    <3>1. writer = [step |-> writer.step, batch |-> writer.batch,
                    barrier |-> writer.barrier, trim |-> writer.trim]
      BY <1>1, WriterParts
    <3> QED BY <1>5, <3>1 DEF StoresGroup, Goes
  <2>2. Handed BY <2>1 DEF Handed
  <2>3. /\ rows'[o] = rows[o] \cup NewRows(rows[o], Members(writer.batch, g), Fit(g), 0)
        /\ \A p \in Owners \ {o} : rows'[p] = rows[p]
    BY <1>2, <1>3, <1>5 DEF StoresGroup
  <2>4. ASSUME NEW p \in Owners \ {o} PROVE UniqueOK(p)' /\ RowsOK(p)'
    BY <2>2, <2>3, HandingOnce
  <2>5. UniqueOK(o)' /\ \A e \in Pending(o)' : e \in Pending(o)
    BY <1>1, <2>2, HandedOnce
  <2>6. PICK T : T = rows[o] BY Zenon
  <2>7. PICK N : N = NewRows(T, Members(writer.batch, g), Fit(g), 0) BY Zenon
  <2>8. PICK R : R = Members(writer.batch, g) BY Zenon
  <2>9. /\ R \in EventRequests
        /\ \A i \in DOMAIN R : R[i].event \in Pending(o)
        /\ \A i, j \in DOMAIN R : R[i].event.id = R[j].event.id => i = j
        /\ \A i \in DOMAIN R :
             /\ \A j \in DOMAIN queue :
                  IsOf(queue[j], o) => queue[j].event.id # R[i].event.id
             /\ \A j \in DOMAIN Others(writer.batch, g) :
                  IsOf(Others(writer.batch, g)[j], o) =>
                        Others(writer.batch, g)[j].event.id # R[i].event.id
    BY <1>1, <1>2, <2>8, MembersOnce
  <2>10. T \in SUBSET Row /\ IsFiniteSet(T) /\ Fit(g) \in Nat
    BY <1>1, <1>3, <2>6, FitTyped
  <2>11. /\ \A r \in N : r.key > TopKey(T)
         /\ \A r, s \in N : r.key = s.key => r = s
         /\ \A r, s \in N : r.event.id = s.event.id => r = s
    BY <2>7, <2>8, <2>9, <2>10, NewRowsAre
  <2>12. N \in SUBSET Row /\ \A r \in N : \E i \in DOMAIN R : r.event = R[i].event
    <3>1. R \in Seq(Messages) /\ \A i \in DOMAIN R : R[i].type = "event"
      BY <2>9 DEF EventRequests
    <3>2. 0 \in Nat OBVIOUS
    <3>3. /\ NewRows(T, R, Fit(g), 0) \in SUBSET Row
          /\ \A r \in NewRows(T, R, Fit(g), 0) :
                /\ r.read = FALSE /\ r.key >= TopKey(T) + 0 * Fit(g)
                /\ \E i \in DOMAIN R : r.event = R[i].event
      BY <2>10, <3>1, <3>2, NewRowsTyped
    <3> QED BY <2>7, <2>8, <3>3
  <2>13. TopKey(T) \in Nat /\ \A r \in T : r.key <= TopKey(T) /\ r.key \in Nat
    BY <2>10, TopKeyIsTop DEF Row
  <2>14. RowsOK(o) BY <1>1
  <2>15. rows'[o] = T \cup N BY <2>3, <2>6, <2>7
  <2>16. \A r \in T, s \in N : r.key # s.key /\ r.event.id # s.event.id
    <3>1. ASSUME NEW r \in T, NEW s \in N PROVE r.key # s.key /\ r.event.id # s.event.id
      <4>1. s.key \in Nat BY <2>12 DEF Row
      <4>2. r.key # s.key BY <2>11, <2>13, <4>1
      <4>3. s.event \in Pending(o) BY <2>9, <2>12
      <4> QED BY <2>6, <2>14, <4>2, <4>3 DEF RowsOK
    <3> QED BY <3>1
  <2>17. \A r, s \in rows'[o] : /\ r.key = s.key => r = s
                                /\ r.event.id = s.event.id => r = s
    <3>1. \A r, s \in T : /\ r.key = s.key => r = s
                          /\ r.event.id = s.event.id => r = s
      BY <2>6, <2>14 DEF RowsOK
    <3> QED BY <2>11, <2>15, <2>16, <3>1
  <2>18. \A e \in Pending(o)' :
            \/ \E j \in DOMAIN queue : IsOf(queue[j], o) /\ e = queue[j].event
            \/ \E j \in DOMAIN Others(writer.batch, g) :
                 /\ IsOf(Others(writer.batch, g)[j], o)
                 /\ e = Others(writer.batch, g)[j].event
    BY <2>1 DEF Pending, Requests, IsOf
  <2>19. ASSUME NEW r \in rows'[o], NEW e \in Pending(o)' PROVE r.event.id # e.id
    <3>1. CASE r \in T BY <2>5, <2>6, <2>14, <3>1 DEF RowsOK
    <3>2. CASE r \in N
      <4>1. PICK i \in DOMAIN R : r.event = R[i].event BY <2>12, <3>2
      <4> QED BY <2>9, <2>18, <4>1
    <3> QED BY <2>15, <3>1, <3>2
  <2>20. RowsOK(o)' BY <2>17, <2>19 DEF RowsOK
  <2> QED BY <2>4, <2>5, <2>20
<1> QED BY <1>1, <1>2, <1>4, <1>5, StoresOnce

LEMMA WritingOnce ==
    ASSUME OnceInv, Writing, FaultsKnown
    PROVE  \A p \in Owners : UniqueOK(p)' /\ RowsOK(p)'
<1>1. ShapeInv BY DEF OnceInv, FinalInv
<1>2. /\ queue \in Seq(Messages) /\ writer.batch \in Seq(Messages)
      /\ writer = [step |-> writer.step, batch |-> writer.batch,
                   barrier |-> writer.barrier, trim |-> writer.trim]
      /\ (writer.step = "idle" => writer.batch = <<>>)
  BY <1>1, WriterParts
<1>3. CASE Handed /\ \A p \in Owners : rows'[p] \subseteq rows[p]
  BY <1>3, HandingOnce
<1>4. CASE WriterTake
  <2>1. rows' = rows /\ queue # <<>> /\ queue' = Tail(queue) /\ writer.batch = <<>>
    BY <1>2, <1>4 DEF WriterTake, tableVars
  <2>2. writer'.batch = writer.batch \/ writer'.batch = <<Head(queue)>>
    BY <1>2, <1>4 DEF WriterTake
  <2>3. Append(<<>>, Head(queue)) = <<Head(queue)>> OBVIOUS
  <2> QED BY <1>3, <2>1, <2>2, <2>3 DEF Handed
<1>5. CASE WriterCollect
  <2>1. rows' = rows /\ queue # <<>> /\ queue' = Tail(queue)
    BY <1>5 DEF WriterCollect, tableVars
  <2>2. writer'.batch \in {writer.batch, Append(writer.batch, Head(queue))}
    BY <1>2, <1>5 DEF WriterCollect
  <2> QED BY <1>3, <2>1, <2>2 DEF Handed
<1>6. CASE WriterClose \/ WriterGivesUp \/ WriterDone
  <2>1. rows' = rows /\ queue' = queue
    BY <1>6 DEF WriterClose, WriterGivesUp, WriterDone, tableVars
  <2>2. writer'.batch = writer.batch \/ writer'.batch = <<>>
    BY <1>2, <1>6 DEF WriterClose, WriterGivesUp, WriterDone, WriterIdle
  <2> QED BY <1>3, <2>1, <2>2 DEF Handed
<1>7. CASE TrimGroup
  <2>1. writer.trim \in Groups /\ rows \in [Owners -> SUBSET Row]
    BY <1>1, <1>7, WriterParts DEF TrimGroup, ShapeInv, BusTyped
  <2>2. CASE Stop /\ rows' = rows
    BY <1>3, <2>2 DEF Stop, WriterStopped, WriterIdle, Handed
  <2>3. CASE /\ rows' = [rows EXCEPT ![writer.trim.owner] =
                            Trimmed(@, writer.trim.settings.max)]
             /\ writer' = [writer EXCEPT !.trim = None] /\ queue' = queue
    <3>1. writer'.batch = writer.batch BY <1>2, <2>3
    <3>2. writer.trim.owner \in Owners BY <2>1 DEF Groups
    <3>3. ASSUME NEW p \in Owners PROVE rows'[p] \subseteq rows[p]
      BY <2>1, <2>3, <3>2 DEF Trimmed
    <3> QED BY <1>3, <2>3, <3>1, <3>3 DEF Handed
  <2> QED BY <1>7, <2>2, <2>3 DEF TrimGroup
<1>8. ASSUME NEW o \in Owners, NEW s \in Settings \cup {DefaultSettings},
             PersistGroup([owner |-> o, settings |-> s])
      PROVE  \A p \in Owners : UniqueOK(p)' /\ RowsOK(p)'
  <2>1. [owner |-> o, settings |-> s] \in Groups BY BusConstants DEF Groups
  <2> QED BY <1>8, <2>1, PersistOnce
<1> QED BY <1>4, <1>5, <1>6, <1>7, <1>8 DEF Writing

LEMMA OnceStep ==
    ASSUME OnceInv, [Next]_busVars, FaultsKnown
    PROVE  \A p \in Owners : UniqueOK(p)' /\ RowsOK(p)'
<1>1. CASE UNCHANGED busVars
  BY <1>1, StillOnce DEF busVars, memoryVars, tableVars, Still
<1>2. CASE Restart
  <2>1. queue' = <<>> /\ writer'.batch = <<>> /\ rows' = rows
    BY <1>2 DEF Restart, WriterIdle, tableVars
  <2>2. Handed BY <2>1 DEF Handed
  <2> QED BY <2>1, <2>2, HandingOnce
<1>3. ASSUME NEW o \in Owners,
             Publishing(o) \/ Mutating(o) \/ ReadMiss(o) \/ ReadStore(o) \/ CountExpires(o)
      PROVE  \A p \in Owners : UniqueOK(p)' /\ RowsOK(p)'
  <2>1. Still
    BY <1>3 DEF Publishing, Mutating, StartPublish, CancelPublish, StartMutation,
                CallerLeaves, ReadMiss, ReadStore, CountExpires, memoryVars,
                tableVars, Still
  <2> QED BY <2>1, StillOnce
<1>4. ASSUME NEW o \in Owners, Proceed(o)
      PROVE  \A p \in Owners : UniqueOK(p)' /\ RowsOK(p)'
  <2>1. CASE LoadSettings(o) \/ CountAdmitted(o) \/ FlushFails(o) \/ Report(o)
    <3>1. Still
      BY <2>1 DEF LoadSettings, CountAdmitted, FlushFails, Report, memoryVars,
                  tableVars, Still
    <3> QED BY <3>1, StillOnce
  <2>2. CASE Apply(o)
    <3>1. queue' = queue /\ writer' = writer /\ rows' = rows
      BY <2>2 DEF Apply, tableVars
    <3>2. Handed BY <3>1 DEF Handed
    <3> QED BY <3>1, <3>2, HandingOnce
  <2> QED BY <1>4, <2>1, <2>2, AcceptOnce, SendBarrierOnce, SqlOnce DEF Proceed
<1> QED BY <1>1, <1>2, <1>3, <1>4, WritingOnce DEF Next

LEMMA OnceInit == Init => \A p \in Owners : UniqueOK(p) /\ RowsOK(p)
<1> SUFFICES ASSUME Init, NEW p \in Owners PROVE UniqueOK(p) /\ RowsOK(p)
  OBVIOUS
<1>1. queue = <<>> /\ writer.batch = <<>> /\ rows[p] = {}
  BY DEF Init, MemoryInit, WriterIdle
<1> QED BY <1>1, EmptyAlone DEF UniqueOK, RowsOK

-----------------------------------------------------------------------------
(* What is on its way was admitted under the settings chosen last, and the   *)
(* count a publication found is still right when it is accepted.             *)
Under(o, s) ==
    /\ \A i \in DOMAIN queue : IsOf(queue[i], o) => queue[i].settings = s
    /\ \A i \in DOMAIN writer.batch :
            IsOf(writer.batch[i], o) => writer.batch[i].settings = s

ForceOK(o) ==
    /\ Active => Under(o, chosen[o])
    /\ writer.trim # None => writer.trim.settings.policy = "drop_oldest"
    /\ writer.trim # None /\ writer.trim.owner = o =>
            /\ op[o].step \notin FlushedSteps
            /\ Active => writer.trim.settings = chosen[o]
    /\ Active /\ op[o].step \in {"count", "accept"} => op[o].settings = chosen[o]

StepOK(o) ==
    /\ op[o].step \in {"load", "count"} => op[o].count = None
    /\ op[o].step = "count" => op[o].settings.policy = "drop_new"
    /\ op[o].step = "accept" /\ op[o].settings.policy # "drop_new" => op[o].count = None
    /\ Active /\ op[o].step = "accept" /\ op[o].settings.policy = "drop_new"
            => op[o].count # None /\ op[o].count = admitted[o]

ForceInv == OnceInv /\ SettingsInv /\ \A o \in Owners : ForceOK(o) /\ StepOK(o)

SameTurn(x, y) == x.step = y.step /\ x.settings = y.settings /\ x.count = y.count

(* A step that admits nothing.                                               *)
Forced(p) ==
    /\ Active' => Active
    /\ chosen'[p] = chosen[p] /\ admitted'[p] = admitted[p]
    /\ \A s : Under(p, s) => Under(p, s)'
    /\ writer'.trim \in {writer.trim, None}
    /\ op'[p].step \in FlushedSteps => op[p].step \in FlushedSteps \/ writer'.trim = None
    /\ op'[p].step \in PublishSteps => SameTurn(op'[p], op[p])

LEMMA ForcedKeeps ==
    ASSUME NEW p, ForceOK(p), StepOK(p), Forced(p)
    PROVE  ForceOK(p)' /\ StepOK(p)'
<1>1. PICK c : c = chosen[p] OBVIOUS
<1>2. ForceOK(p)'
  <2>1. chosen'[p] = c BY <1>1 DEF Forced
  <2>2. Active' => Under(p, c)' BY <1>1 DEF Forced, ForceOK
  <2>3. Active' => Under(p, chosen[p])' BY <2>1, <2>2 DEF Under
  <2> QED BY <2>3 DEF Forced, ForceOK, PublishSteps, SameTurn
<1>3. StepOK(p)'
  BY DEF Forced, StepOK, PublishSteps, SameTurn
<1> QED BY <1>2, <1>3

LEMMA HandedFrom ==
    ASSUME ShapeInv, Handed
    PROVE  /\ \A i \in DOMAIN queue' : \E j \in DOMAIN queue : queue'[i] = queue[j]
           /\ \A i \in DOMAIN writer'.batch :
                \/ \E j \in DOMAIN writer.batch : writer'.batch[i] = writer.batch[j]
                \/ \E j \in DOMAIN queue : writer'.batch[i] = queue[j]
<1>1. queue \in Seq(Messages) /\ writer.batch \in Seq(Messages)
  BY WriterParts
<1>2. ASSUME queue # <<>>, queue' = Tail(queue)
      PROVE  /\ \A i \in DOMAIN queue' : \E j \in DOMAIN queue : queue'[i] = queue[j]
             /\ \E j \in DOMAIN queue : Head(queue) = queue[j]
             /\ Head(queue) \in Messages
  <2>1. /\ DOMAIN queue' = 1 .. Len(queue) - 1 /\ DOMAIN queue = 1 .. Len(queue)
        /\ \A i \in 1 .. Len(queue) - 1 : queue'[i] = queue[i + 1]
        /\ Len(queue) \in Nat \ {0} /\ Head(queue) = queue[1] /\ Head(queue) \in Messages
    BY <1>1, <1>2, TailIs
  <2>2. \A i \in 1 .. Len(queue) - 1 : i + 1 \in 1 .. Len(queue) BY <2>1
  <2>3. 1 \in 1 .. Len(queue) BY <2>1
  <2> QED BY <2>1, <2>2, <2>3
<1>3. CASE queue' = queue /\ writer'.batch = writer.batch
  BY <1>3
<1>4. CASE queue # <<>> /\ queue' = Tail(queue) /\ writer'.batch = writer.batch
  BY <1>2, <1>4
<1>5. CASE queue # <<>> /\ queue' = Tail(queue)
           /\ writer'.batch = Append(writer.batch, Head(queue))
  <2>1. PICK m \in Messages : m = Head(queue) BY <1>2, <1>5
  <2>2. /\ DOMAIN writer'.batch = 1 .. Len(writer.batch) + 1
        /\ \A i \in 1 .. Len(writer.batch) : writer'.batch[i] = writer.batch[i]
        /\ writer'.batch[Len(writer.batch) + 1] = m
        /\ Len(writer.batch) \in Nat /\ DOMAIN writer.batch = 1 .. Len(writer.batch)
    BY <1>1, <1>5, <2>1, AppendIs, LenProperties
  <2>3. ASSUME NEW i \in DOMAIN writer'.batch
        PROVE  \/ \E j \in DOMAIN writer.batch : writer'.batch[i] = writer.batch[j]
               \/ \E j \in DOMAIN queue : writer'.batch[i] = queue[j]
    <3>1. i \in 1 .. Len(writer.batch) \/ i = Len(writer.batch) + 1 BY <2>2
    <3> QED BY <1>2, <1>5, <2>1, <2>2, <3>1
  <2> QED BY <1>2, <1>5, <2>3
<1>6. CASE queue' \in {queue, <<>>} /\ writer'.batch = <<>>
  <2>1. DOMAIN writer'.batch = {} /\ (queue' = <<>> => DOMAIN queue' = {}) BY <1>6
  <2> QED BY <1>6, <2>1
<1>7. ASSUME NEW g \in Groups, queue' = queue, writer'.batch = Others(writer.batch, g)
      PROVE  \A j \in DOMAIN writer'.batch :
                \E i \in DOMAIN writer.batch : writer'.batch[j] = writer.batch[i]
  BY <1>1, <1>7, MembersAre
<1> QED BY <1>3, <1>4, <1>5, <1>6, <1>7 DEF Handed

LEMMA HandedUnder ==
    ASSUME ShapeInv, Handed, NEW p, NEW s, Under(p, s)
    PROVE  Under(p, s)'
BY HandedFrom DEF Under

(* A barrier at the end of the queue admits nothing.                         *)
LEMMA AppendUnder ==
    ASSUME ShapeInv, NEW m \in Messages, queue' = Append(queue, m),
           writer' = writer, NEW p, NEW s, Under(p, s), IsOf(m, p) => m.settings = s
    PROVE  Under(p, s)'
<1>1. queue \in Seq(Messages) BY WriterParts
<1>2. /\ DOMAIN queue' = 1 .. Len(queue) + 1 /\ DOMAIN queue = 1 .. Len(queue)
      /\ \A i \in 1 .. Len(queue) : queue'[i] = queue[i]
      /\ queue'[Len(queue) + 1] = m /\ Len(queue) \in Nat
  BY <1>1, AppendIs, LenProperties
<1>3. \A i \in 1 .. Len(queue) + 1 : i \in 1 .. Len(queue) \/ i = Len(queue) + 1
  BY <1>2
<1> QED BY <1>2, <1>3 DEF Under

(* Steps of operations that admit nothing.                                   *)
LEMMA QuietForced ==
    ASSUME ShapeInv, Handed, NEW p \in Owners, disabled => disabled',
           UNCHANGED <<configured, chosen, admitted>>, writer'.trim \in {writer.trim, None},
           op'[p].step \in FlushedSteps => op[p].step \in FlushedSteps \/ writer'.trim = None,
           op'[p].step \in PublishSteps => SameTurn(op'[p], op[p])
    PROVE  Forced(p)
<1>1. disabled \in BOOLEAN BY DEF ShapeInv, BusTyped
<1>2. Active' => Active BY <1>1 DEF Active
<1>3. \A s : Under(p, s) => Under(p, s)' BY HandedUnder
<1> QED BY <1>2, <1>3 DEF Forced

LEMMA OpForced ==
    ASSUME ForceInv, NEW o \in Owners, NEW x, op' = [op EXCEPT ![o] = x],
           queue' = queue, writer' = writer, disabled => disabled',
           UNCHANGED <<configured, chosen, admitted>>,
           x.step \in FlushedSteps => op[o].step \in FlushedSteps \/ writer.trim = None,
           x.step \in PublishSteps => SameTurn(x, op[o])
    PROVE  \A p \in Owners : ForceOK(p)' /\ StepOK(p)'
<1>1. ShapeInv /\ op \in [Owners -> Operation]
  BY DEF ForceInv, SettingsInv, FinalInv, ShapeInv, BusTyped
<1>2. op'[o] = x /\ \A p \in Owners \ {o} : op'[p] = op[p] BY <1>1
<1>3. Handed BY DEF Handed
<1>4. ASSUME NEW p \in Owners PROVE ForceOK(p)' /\ StepOK(p)'
  <2>1. /\ op'[p].step \in FlushedSteps => op[p].step \in FlushedSteps \/ writer.trim = None
        /\ op'[p].step \in PublishSteps => SameTurn(op'[p], op[p])
    BY <1>2 DEF SameTurn
  <2>2. Forced(p) BY <1>1, <1>3, <2>1, QuietForced
  <2>3. ForceOK(p) /\ StepOK(p) BY DEF ForceInv
  <2> QED BY <2>2, <2>3, ForcedKeeps
<1> QED BY <1>4

LEMMA SameForced ==
    ASSUME ForceInv, Handed, op' = op, disabled => disabled',
           UNCHANGED <<configured, chosen, admitted>>, writer'.trim \in {writer.trim, None}
    PROVE  \A p \in Owners : ForceOK(p)' /\ StepOK(p)'
<1>1. ShapeInv BY DEF ForceInv, SettingsInv, FinalInv
<1>2. ASSUME NEW p \in Owners PROVE ForceOK(p)' /\ StepOK(p)'
  <2>1. Forced(p) BY <1>1, QuietForced DEF SameTurn
  <2>2. ForceOK(p) /\ StepOK(p) BY DEF ForceInv
  <2> QED BY <2>1, <2>2, ForcedKeeps
<1> QED BY <1>2

LEMMA PublishingForce ==
    ASSUME ForceInv, NEW o \in Owners, Publishing(o) \/ Mutating(o)
    PROVE  \A p \in Owners : ForceOK(p)' /\ StepOK(p)'
<1>1. ShapeInv /\ op[o] \in Operation /\ OpOK(o)
  BY OpParts DEF ForceInv, SettingsInv, FinalInv
<1>2. /\ UNCHANGED <<queue, writer, disabled, configured, chosen, admitted>>
  BY DEF Publishing, Mutating, StartPublish, CancelPublish, StartMutation,
         CallerLeaves, memoryVars, latchVars, ghostVars
<1>3. ASSUME NEW x, op' = [op EXCEPT ![o] = x],
             x.step \in FlushedSteps => op[o].step \in FlushedSteps \/ writer.trim = None,
             x.step \in PublishSteps => SameTurn(x, op[o])
      PROVE  \A p \in Owners : ForceOK(p)' /\ StepOK(p)'
  BY <1>2, <1>3, OpForced
<1>4. CASE CancelPublish(o)
  <2>1. op' = [op EXCEPT ![o] = Idle] BY <1>4 DEF CancelPublish
  <2>2. Idle.step \notin FlushedSteps /\ Idle.step \notin PublishSteps
    BY IdleIs DEF PublishSteps
  <2> QED BY <1>3, <2>1, <2>2
<1>5. ASSUME NEW kind \in Kinds, NEW at \in Int, StartPublish(o, kind, at)
      PROVE  \A p \in Owners : ForceOK(p)' /\ StepOK(p)'
  <2>1. PICK x : /\ op' = [op EXCEPT ![o] = x]
                 /\ x = [Idle EXCEPT !.kind = "publish", !.step = "load",
                             !.event = [id |-> published', at |-> at, kind |-> kind]]
    BY <1>5 DEF StartPublish
  <2>2. x.step = "load" /\ x.count = None BY <2>1 DEF Idle
  <2>3. op \in [Owners -> Operation] BY <1>1 DEF ShapeInv, BusTyped
  <2>4. op'[o] = x /\ \A p \in Owners \ {o} : op'[p] = op[p] BY <2>1, <2>3
  <2>5. Handed BY <1>2 DEF Handed
  <2>6. ASSUME NEW p \in Owners \ {o} PROVE ForceOK(p)' /\ StepOK(p)'
    <3>1. Forced(p) BY <1>1, <1>2, <2>4, <2>5, QuietForced DEF SameTurn
    <3>2. ForceOK(p) /\ StepOK(p) BY DEF ForceInv
    <3> QED BY <3>1, <3>2, ForcedKeeps
  <2>7. StepOK(o)' BY <2>2, <2>4 DEF StepOK
  <2>8. ForceOK(o)'
    <3>1. ForceOK(o) BY DEF ForceInv
    <3>2. Under(o, chosen[o]) = Under(o, chosen[o])' BY <1>2 DEF Under
    <3>3. Active' = Active BY <1>2 DEF Active
    <3>4. op'[o].step \notin FlushedSteps /\ op'[o].step \notin {"count", "accept"}
      BY <2>2, <2>4 DEF FlushedSteps
    <3> QED BY <1>2, <3>1, <3>2, <3>3, <3>4 DEF ForceOK
  <2> QED BY <2>6, <2>7, <2>8
<1>6. ASSUME NEW kind \in Mutation, NEW filter, NEW settings,
             StartMutation(o, kind, filter, settings)
      PROVE  \A p \in Owners : ForceOK(p)' /\ StepOK(p)'
  <2>1. PICK x : /\ op' = [op EXCEPT ![o] = x]
                 /\ x = [Idle EXCEPT !.kind = kind, !.filter = filter,
                             !.settings = settings, !.waiting = TRUE,
                             !.step = IF configured THEN "flush" ELSE "apply"]
    BY <1>6 DEF StartMutation
  <2>2. x.step = IF configured THEN "flush" ELSE "apply" BY <2>1 DEF Idle
  <2>3. ~configured => writer.trim = None
    BY <1>1, WriterParts DEF WriterIdle
  <2>4. x.step \notin PublishSteps BY <2>2 DEF PublishSteps
  <2>5. configured => x.step \notin FlushedSteps BY <2>2 DEF FlushedSteps
  <2> QED BY <1>3, <2>1, <2>3, <2>4, <2>5
<1>7. CASE CallerLeaves(o)
  <2>1. \/ op' = [op EXCEPT ![o] = Idle]
        \/ op' = [op EXCEPT ![o] = [op[o] EXCEPT !.waiting = FALSE]]
    BY <1>7 DEF CallerLeaves
  <2>2. Idle.step \notin FlushedSteps /\ Idle.step \notin PublishSteps
    BY IdleIs DEF PublishSteps
  <2>3. SameTurn([op[o] EXCEPT !.waiting = FALSE], op[o])
    BY <1>1 DEF Operation, SameTurn
  <2>4. [op[o] EXCEPT !.waiting = FALSE].step = op[o].step
    BY <2>3 DEF SameTurn
  <2> QED BY <1>3, <2>1, <2>2, <2>3, <2>4
<1>8. CASE Mutating(o)
  <2>1. "read" \in Mutation /\ "delete" \in Mutation /\ "settings" \in Mutation
    BY DEF Mutation
  <2> QED BY <1>6, <1>7, <1>8, <2>1 DEF Mutating
<1>9. CASE Publishing(o)
  <2>1. published \in Int BY <1>1 DEF ShapeInv, BusTyped
  <2>2. \A late \in 0 .. Skew : published + 1 - late \in Int BY <2>1, BusConstants
  <2> QED BY <1>4, <1>5, <1>9, <2>2 DEF Publishing
<1> QED BY <1>8, <1>9

LEMMA LoadForce ==
    ASSUME ForceInv, SettingsInv', NEW o \in Owners, LoadSettings(o)
    PROVE  \A p \in Owners : ForceOK(p)' /\ StepOK(p)'
<1>1. /\ ShapeInv /\ op[o] \in Operation /\ OpOK(o) /\ op \in [Owners -> Operation]
      /\ disabled \in BOOLEAN
  BY OpParts DEF ForceInv, SettingsInv, FinalInv, ShapeInv, BusTyped
<1>2. /\ UNCHANGED <<queue, writer, configured, chosen, admitted>>
      /\ disabled => disabled'
  BY DEF LoadSettings, latchVars, ghostVars
<1>3. PICK c, s : /\ c = cache'[o]
                  /\ s = IF c.policy = "drop_new" THEN "count" ELSE "accept"
  OBVIOUS
<1>4. op' = [op EXCEPT ![o].settings = c, ![o].step = s] /\ op[o].step = "load"
  BY <1>3 DEF LoadSettings
<1>5. /\ op'[o] = [op[o] EXCEPT !.settings = c, !.step = s]
      /\ \A p \in Owners \ {o} : op'[p] = op[p]
  BY <1>1, <1>4
<1>6. op'[o].settings = c /\ op'[o].step = s /\ op'[o].count = op[o].count
  BY <1>1, <1>5 DEF Operation
<1>7. ForceOK(o) /\ StepOK(o) BY DEF ForceInv
<1>8. op[o].count = None BY <1>4, <1>7 DEF StepOK
<1>9. Active' => Active BY <1>1, <1>2 DEF Active
<1>10. Handed BY <1>2 DEF Handed
<1>11. ASSUME NEW p \in Owners \ {o} PROVE ForceOK(p)' /\ StepOK(p)'
  <2>1. Forced(p) BY <1>1, <1>2, <1>5, <1>10, QuietForced DEF SameTurn
  <2>2. ForceOK(p) /\ StepOK(p) BY DEF ForceInv
  <2> QED BY <2>1, <2>2, ForcedKeeps
<1>12. c \in Retention /\ c # None
  <2>1. ShapeInv' BY DEF SettingsInv, FinalInv
  <2>2. op'[o] \in Operation /\ OpOK(o)' BY <2>1 DEF ShapeInv, BusTyped
  <2>3. op'[o].settings # None BY <1>3, <1>6, <2>2 DEF OpOK
  <2> QED BY <1>6, <2>2, <2>3 DEF Operation
<1>13. Active' => c = chosen'[o]
  <2>1. SettingsOK(o)' BY DEF SettingsInv
  <2>2. ~Applying(o)' BY <1>3, <1>6 DEF Applying
  <2> QED BY <1>3, <1>12, <2>1, <2>2 DEF SettingsOK
<1>14. ForceOK(o)'
  <2>1. Active' => Under(o, chosen[o])
    BY <1>7, <1>9 DEF ForceOK
  <2>2. Under(o, chosen[o])' = Under(o, chosen[o]) BY <1>2 DEF Under
  <2>3. op'[o].step \notin FlushedSteps BY <1>3, <1>6 DEF FlushedSteps
  <2> QED BY <1>2, <1>6, <1>7, <1>9, <1>13, <2>1, <2>2, <2>3 DEF ForceOK
<1>15. StepOK(o)'
  BY <1>3, <1>6, <1>8, <1>12, <1>9 DEF StepOK, Retention
<1> QED BY <1>11, <1>14, <1>15

LEMMA CountForce ==
    ASSUME ForceInv, NEW o \in Owners, CountAdmitted(o)
    PROVE  \A p \in Owners : ForceOK(p)' /\ StepOK(p)'
<1>1. /\ ShapeInv /\ op[o] \in Operation /\ op \in [Owners -> Operation]
      /\ disabled \in BOOLEAN /\ admitted \in [Owners -> Nat \cup {None}]
      /\ IsFiniteSet(rows[o]) /\ None \notin Nat
  BY OpParts, ConstantsTyped DEF ForceInv, SettingsInv, FinalInv, ShapeInv, BusTyped
<1>2. /\ UNCHANGED <<queue, writer, configured, chosen>>
      /\ disabled => disabled'
  BY DEF CountAdmitted, latchVars, ghostVars
<1>3. op[o].step = "count" BY DEF CountAdmitted
<1>4. PICK n \in Nat \cup {None} :
        /\ op'[o].step = "accept" /\ op'[o].settings = op[o].settings
        /\ op'[o].count = n
        /\ \A p \in Owners \ {o} : op'[p] = op[p] /\ admitted'[p] = admitted[p]
        /\ Active' => n # None /\ n = admitted'[o]
  <2>1. CASE ~Active /\ op' = [op EXCEPT ![o].step = "accept"]
             /\ UNCHANGED <<admitted, disabled>>
    <3>1. Active' = Active BY <1>2, <2>1 DEF Active
    <3> QED BY <1>1, <2>1, <3>1 DEF Operation
  <2>2. CASE /\ admitted' = [admitted EXCEPT ![o] =
                            IF @ = None THEN Cardinality(rows[o]) ELSE @]
             /\ op' = [op EXCEPT ![o].step = "accept", ![o].count = admitted'[o]]
    <3>1. PICK n : n = admitted'[o] OBVIOUS
    <3>2. n \in Nat /\ n # None BY <1>1, <2>2, <3>1, FS_CardinalityType
    <3>3. op'[o] = [op[o] EXCEPT !.step = "accept", !.count = n]
          /\ \A p \in Owners \ {o} : op'[p] = op[p]
      BY <1>1, <2>2, <3>1
    <3>4. /\ op'[o].step = "accept" /\ op'[o].settings = op[o].settings
          /\ op'[o].count = n
      BY <1>1, <3>3 DEF Operation
    <3>5. \A p \in Owners \ {o} : admitted'[p] = admitted[p] BY <1>1, <2>2
    <3> QED BY <3>1, <3>2, <3>3, <3>4, <3>5
  <2>3. CASE op' = [op EXCEPT ![o].step = "accept"] /\ disabled' /\ admitted' = admitted
    <3>1. ~Active' BY <2>3 DEF Active
    <3> QED BY <1>1, <2>3, <3>1 DEF Operation
  <2> QED BY <2>1, <2>2, <2>3 DEF CountAdmitted, latchVars
<1>5. ForceOK(o) /\ StepOK(o) BY DEF ForceInv
<1>6. Handed BY <1>2 DEF Handed
<1>7. Active' => Active BY <1>1, <1>2 DEF Active
<1>8. ASSUME NEW p \in Owners \ {o} PROVE ForceOK(p)' /\ StepOK(p)'
  <2>1. Forced(p)
    <3>1. \A s : Under(p, s) => Under(p, s)' BY <1>1, <1>6, HandedUnder
    <3> QED BY <1>2, <1>4, <1>7, <3>1 DEF Forced, SameTurn
  <2>2. ForceOK(p) /\ StepOK(p) BY DEF ForceInv
  <2> QED BY <2>1, <2>2, ForcedKeeps
<1>9. ForceOK(o)'
  <2>1. Under(o, chosen[o])' = Under(o, chosen[o]) BY <1>2 DEF Under
  <2>2. op'[o].step \notin FlushedSteps BY <1>4 DEF FlushedSteps
  <2>3. Active' => op'[o].settings = chosen'[o]
    BY <1>2, <1>3, <1>4, <1>5, <1>7 DEF ForceOK
  <2> QED BY <1>2, <1>5, <1>7, <2>1, <2>2, <2>3 DEF ForceOK
<1>10. StepOK(o)'
  <2>1. op'[o].settings.policy = "drop_new" BY <1>3, <1>4, <1>5 DEF StepOK
  <2> QED BY <1>4, <2>1 DEF StepOK
<1> QED BY <1>8, <1>9, <1>10

LEMMA AcceptForce ==
    ASSUME ForceInv, NEW o \in Owners, Accept(o)
    PROVE  \A p \in Owners : ForceOK(p)' /\ StepOK(p)'
<1>1. /\ ShapeInv /\ op[o] \in Operation /\ OpOK(o) /\ op \in [Owners -> Operation]
      /\ disabled \in BOOLEAN /\ admitted \in [Owners -> Nat \cup {None}]
  BY OpParts DEF ForceInv, SettingsInv, FinalInv, ShapeInv, BusTyped
<1>2. /\ UNCHANGED <<writer, configured, chosen>> /\ op[o].step = "accept"
      /\ disabled => disabled'
  BY AcceptIs DEF Accept, ghostVars
<1>3. op' = [op EXCEPT ![o] = Idle] BY AcceptIs
<1>4. op'[o] = Idle /\ \A p \in Owners \ {o} : op'[p] = op[p] BY <1>1, <1>3
<1>5. \A p \in Owners \ {o} : admitted'[p] = admitted[p]
  BY <1>1, AcceptIs
<1>6. Active' => Active BY <1>1, <1>2 DEF Active
<1>7. ForceOK(o) BY DEF ForceInv
<1>8. PICK m \in Messages : m = Request(o, op[o].event, op[o].settings)
  <2>1. op[o].event # None /\ op[o].settings # None
    BY <1>1, <1>2, OpParts DEF OpOK, PublishSteps
  <2>2. op[o].event \in Events /\ op[o].settings \in Retention
    BY <1>1, <2>1 DEF Operation
  <2> QED BY <2>2, MessagesTyped
<1>9. queue' = queue \/ (Active /\ queue' = Append(queue, m))
  BY <1>8, AcceptIs
<1>10. ASSUME NEW p \in Owners, NEW s, Under(p, s), p = o => s = chosen[o]
       PROVE  Under(p, s)'
  <2>1. CASE queue' = queue BY <1>2, <1>10, <2>1 DEF Under
  <2>2. CASE Active /\ queue' = Append(queue, m)
    <3>1. IsOf(m, p) => p = o /\ m.settings = op[o].settings
      BY <1>8 DEF Request, IsOf
    <3>2. op[o].settings = chosen[o] BY <1>2, <1>7, <2>2 DEF ForceOK
    <3>3. IsOf(m, p) => m.settings = s BY <1>10, <3>1, <3>2
    <3> QED BY <1>1, <1>2, <1>10, <2>2, <3>3, AppendUnder
  <2> QED BY <1>9, <2>1, <2>2
<1>11. ASSUME NEW p \in Owners \ {o} PROVE ForceOK(p)' /\ StepOK(p)'
  <2>1. \A s : Under(p, s) => Under(p, s)' BY <1>10
  <2>2. Forced(p) BY <1>2, <1>4, <1>5, <1>6, <2>1 DEF Forced, SameTurn
  <2>3. ForceOK(p) /\ StepOK(p) BY DEF ForceInv
  <2> QED BY <2>2, <2>3, ForcedKeeps
<1>12. ForceOK(o)'
  <2>1. PICK c : c = chosen[o] OBVIOUS
  <2>2. Active' => Under(o, c)' BY <1>6, <1>7, <1>10, <2>1 DEF ForceOK
  <2>3. Active' => Under(o, chosen[o])' BY <1>2, <2>1, <2>2 DEF Under
  <2>4. op'[o].step \notin FlushedSteps /\ op'[o].step \notin {"count", "accept"}
    BY <1>4, IdleIs DEF Idle
  <2> QED BY <1>2, <1>6, <1>7, <2>3, <2>4 DEF ForceOK
<1>13. StepOK(o)' BY <1>4 DEF StepOK, Idle
<1> QED BY <1>11, <1>12, <1>13

(* Nothing of an owner is on its way while its mutation works behind the     *)
(* barrier.                                                                  *)
LEMMA FlushedForce ==
    ASSUME ForceInv, NEW o \in Owners, op[o].step \in FlushedSteps,
           op'[o].step \notin PublishSteps,
           queue' = queue, writer' = writer, disabled => disabled',
           configured' = configured,
           \A p \in Owners \ {o} : /\ op'[p] = op[p] /\ chosen'[p] = chosen[p]
                                   /\ admitted'[p] = admitted[p]
    PROVE  \A p \in Owners : ForceOK(p)' /\ StepOK(p)'
<1>1. ShapeInv /\ disabled \in BOOLEAN /\ OwnerOK(o)
  BY DEF ForceInv, SettingsInv, FinalInv, ShapeInv, BusTyped
<1>2. Handed BY DEF Handed
<1>3. Active' => Active BY <1>1 DEF Active
<1>4. ASSUME NEW p \in Owners \ {o} PROVE ForceOK(p)' /\ StepOK(p)'
  <2>1. \A s : Under(p, s) => Under(p, s)' BY <1>1, <1>2, HandedUnder
  <2>2. Forced(p) BY <1>3, <2>1 DEF Forced, SameTurn
  <2>3. ForceOK(p) /\ StepOK(p) BY DEF ForceInv
  <2> QED BY <2>2, <2>3, ForcedKeeps
<1>5. ForceOK(o)'
  <2>1. Pending(o) = {} BY <1>1 DEF OwnerOK, FlushedOK
  <2>2. /\ \A i \in DOMAIN queue : ~IsOf(queue[i], o)
        /\ \A i \in DOMAIN writer.batch : ~IsOf(writer.batch[i], o)
    BY <2>1, PendingIs DEF IsOf
  <2>3. Under(o, chosen[o])' BY <2>2 DEF Under
  <2>4. ForceOK(o) BY DEF ForceInv
  <2>5. op'[o].step \notin {"count", "accept"} BY DEF PublishSteps
  <2> QED BY <2>3, <2>4, <2>5 DEF ForceOK
<1>6. StepOK(o)' BY DEF StepOK, PublishSteps
<1> QED BY <1>4, <1>5, <1>6

LEMMA ProceedForce ==
    ASSUME ForceInv, SettingsInv', NEW o \in Owners, Proceed(o)
    PROVE  \A p \in Owners : ForceOK(p)' /\ StepOK(p)'
<1>1. /\ ShapeInv /\ op[o] \in Operation /\ op \in [Owners -> Operation]
      /\ chosen \in [Owners -> Retention] /\ admitted \in [Owners -> Nat \cup {None}]
  BY OpParts DEF ForceInv, SettingsInv, FinalInv, ShapeInv, BusTyped
<1>2. Idle.step \notin FlushedSteps /\ Idle.step \notin PublishSteps
  BY IdleIs DEF PublishSteps
<1>3. CASE SendBarrier(o)
  <2>1. /\ UNCHANGED <<writer, disabled, configured, chosen, admitted>>
        /\ op' = [op EXCEPT ![o].step = "await"] /\ queue' = Append(queue, Barrier(o))
    BY <1>3 DEF SendBarrier, memoryVars, latchVars, ghostVars
  <2>2. op'[o].step = "await" /\ \A p \in Owners \ {o} : op'[p] = op[p]
    BY <1>1, <2>1 DEF Operation
  <2>3. PICK m \in Messages : m = Barrier(o) BY MessagesTyped
  <2>4. \A p : ~IsOf(m, p) BY <2>3 DEF Barrier, IsOf
  <2>5. ASSUME NEW p \in Owners PROVE ForceOK(p)' /\ StepOK(p)'
    <3>1. \A s : Under(p, s) => Under(p, s)' BY <1>1, <2>1, <2>3, <2>4, AppendUnder
    <3>2. Forced(p)
      BY <2>1, <2>2, <3>1 DEF Forced, Active, SameTurn, FlushedSteps, PublishSteps
    <3>3. ForceOK(p) /\ StepOK(p) BY DEF ForceInv
    <3> QED BY <3>2, <3>3, ForcedKeeps
  <2> QED BY <2>5
<1>4. CASE FlushFails(o) \/ Report(o)
  <2>1. /\ UNCHANGED <<queue, writer, configured, chosen, admitted>>
        /\ op' = [op EXCEPT ![o] = Idle] /\ (disabled => disabled')
    BY <1>4 DEF FlushFails, Report, memoryVars, latchVars, ghostVars
  <2> QED BY <1>2, <2>1, OpForced
<1>5. CASE Sql(o)
  <2>1. /\ UNCHANGED <<queue, writer, configured, admitted>>
        /\ (disabled => disabled') /\ op[o].step \in FlushedSteps
    BY <1>5 DEF Sql, memoryVars, latchVars, FlushedSteps
  <2>2. chosen' = chosen \/ chosen' = Chosen(o) BY <1>5 DEF Sql
  <2>3. \A p \in Owners \ {o} : chosen'[p] = chosen[p]
    BY <1>1, <2>2 DEF Chosen
  <2>4. op' = [op EXCEPT ![o] = Idle] \/ op' = [op EXCEPT ![o].step = "apply"]
    BY <1>5 DEF Sql
  <2>5. op'[o].step \notin PublishSteps /\ \A p \in Owners \ {o} : op'[p] = op[p]
    <3>1. CASE op' = [op EXCEPT ![o] = Idle] BY <1>1, <1>2, <3>1
    <3>2. CASE op' = [op EXCEPT ![o].step = "apply"]
      BY <1>1, <3>2 DEF Operation, PublishSteps
    <3> QED BY <2>4, <3>1, <3>2
  <2> QED BY <2>1, <2>3, <2>5, FlushedForce
<1>6. CASE Apply(o)
  <2>1. /\ UNCHANGED <<queue, writer, configured, disabled>>
        /\ op[o].step \in FlushedSteps
    BY <1>6 DEF Apply, latchVars, FlushedSteps, ghostVars
  <2>2. \A p \in Owners \ {o} : chosen'[p] = chosen[p] /\ admitted'[p] = admitted[p]
    BY <1>1, <1>6, ApplyIs DEF Mutation, ForgetCounts, memoryVars, ghostVars
  <2>3. op' = [op EXCEPT ![o] = Idle] \/ op' = [op EXCEPT ![o].step = "report"]
    BY <1>1, <1>6, ApplyIs
  <2>4. op'[o].step \notin PublishSteps /\ \A p \in Owners \ {o} : op'[p] = op[p]
    <3>1. CASE op' = [op EXCEPT ![o] = Idle] BY <1>1, <1>2, <3>1
    <3>2. CASE op' = [op EXCEPT ![o].step = "report"]
      BY <1>1, <3>2 DEF Operation, PublishSteps
    <3> QED BY <2>3, <3>1, <3>2
  <2> QED BY <2>1, <2>2, <2>4, FlushedForce
<1> QED BY <1>3, <1>4, <1>5, <1>6, LoadForce, CountForce, AcceptForce DEF Proceed

LEMMA RepliedForce ==
    ASSUME ForceInv, Handed, NEW b \in Owners \cup {None}, NEW ok \in BOOLEAN,
           op' = Replied(b, ok), writer'.trim = None, disabled => disabled',
           UNCHANGED <<configured, chosen, admitted>>
    PROVE  \A p \in Owners : ForceOK(p)' /\ StepOK(p)'
<1>1. ShapeInv /\ op \in [Owners -> Operation]
  BY DEF ForceInv, SettingsInv, FinalInv, ShapeInv, BusTyped
<1>2. ASSUME NEW p \in Owners PROVE ForceOK(p)' /\ StepOK(p)'
  <2>1. op'[p].step \in PublishSteps => SameTurn(op'[p], op[p])
    <3>1. CASE op'[p] = op[p] BY <3>1 DEF SameTurn
    <3>2. CASE p = b /\ op[p].step = "await"
      <4>1. op'[p] = [op[p] EXCEPT !.step = "sql"] \/ op'[p] = Idle
        BY <1>1, <3>2, RepliedMoves
      <4>2. [op[p] EXCEPT !.step = "sql"].step = "sql" /\ Idle.step = "idle"
        BY <1>1, IdleIs DEF Operation
      <4> QED BY <4>1, <4>2 DEF PublishSteps
    <3> QED BY <1>1, <3>1, <3>2, RepliedMoves
  <2>2. Forced(p) BY <1>1, <2>1, QuietForced
  <2>3. ForceOK(p) /\ StepOK(p) BY DEF ForceInv
  <2> QED BY <2>2, <2>3, ForcedKeeps
<1> QED BY <1>2

(* A group in the writer's hands was admitted under the settings in force,   *)
(* and no mutation of its owner is behind its barrier.                       *)
LEMMA GroupInForce ==
    ASSUME ForceInv, NEW g \in Groups, Members(writer.batch, g) # <<>>
    PROVE  /\ op[g.owner].step \notin FlushedSteps
           /\ Active => g.settings = chosen[g.owner]
<1>1. /\ ShapeInv /\ writer.batch \in Seq(Messages) /\ UniqueOK(g.owner)
      /\ \A i \in DOMAIN writer.batch : writer.batch[i].type = "event"
      /\ ForceOK(g.owner) /\ OwnerOK(g.owner)
  BY WriterParts DEF ForceInv, OnceInv, FinalInv, Groups
<1>2. Members(writer.batch, g) \in Seq(Messages) BY <1>1, MembersAre
<1>3. 1 \in DOMAIN Members(writer.batch, g)
  BY <1>2, EmptySeq, LenProperties
<1>4. PICK i \in DOMAIN writer.batch : GroupOf(writer.batch[i]) = g
  BY <1>1, <1>3, MembersAre
<1>5. /\ writer.batch[i].owner = g.owner /\ writer.batch[i].settings = g.settings
      /\ writer.batch[i].type = "event"
  BY <1>1, <1>4 DEF GroupOf
<1>6. Pending(g.owner) # {} BY <1>5, PendingIs
<1>7. op[g.owner].step \notin FlushedSteps BY <1>1, <1>6 DEF OwnerOK, FlushedOK
<1>8. Active => g.settings = chosen[g.owner]
  BY <1>1, <1>5 DEF ForceOK, Under, IsOf
<1> QED BY <1>7, <1>8

LEMMA StoresForce ==
    ASSUME ForceInv, NEW g \in Groups, Members(writer.batch, g) # <<>>, Goes(g),
           UNCHANGED <<op, configured, chosen, admitted>>
    PROVE  \A p \in Owners : ForceOK(p)' /\ StepOK(p)'
<1>1. /\ ShapeInv /\ None \notin Groups
      /\ writer = [step |-> writer.step, batch |-> writer.batch,
                    barrier |-> writer.barrier, trim |-> writer.trim]
  BY WriterParts, ConstantsTyped DEF ForceInv, SettingsInv, FinalInv
<1>2. /\ queue' = queue /\ disabled' = disabled /\ writer'.batch = Others(writer.batch, g)
      /\ writer'.trim = IF g.settings.policy = "drop_oldest" THEN g ELSE None
  BY <1>1 DEF Goes
<1>3. Handed BY <1>2 DEF Handed
<1>4. Active' = Active BY <1>2 DEF Active
<1>5. ASSUME NEW p \in Owners PROVE ForceOK(p)' /\ StepOK(p)'
  <2>1. ForceOK(p) /\ StepOK(p) BY DEF ForceInv
  <2>2. PICK c : c = chosen[p] OBVIOUS
  <2>3. Active' => Under(p, c)' BY <1>1, <1>3, <1>4, <2>1, <2>2, HandedUnder DEF ForceOK
  <2>4. Active' => Under(p, chosen[p])' BY <2>2, <2>3 DEF Under
  <2>5. ForceOK(p)' BY <1>2, <1>4, <2>1, <2>4, GroupInForce DEF ForceOK
  <2>6. StepOK(p)' BY <1>4, <2>1 DEF StepOK
  <2> QED BY <2>5, <2>6
<1> QED BY <1>5

LEMMA WritingForce ==
    ASSUME ForceInv, Writing, FaultsKnown
    PROVE  \A p \in Owners : ForceOK(p)' /\ StepOK(p)'
<1>1. ShapeInv /\ \A p \in Owners : UniqueOK(p)
  BY DEF ForceInv, OnceInv, SettingsInv, FinalInv
<1>2. /\ queue \in Seq(Messages) /\ writer.batch \in Seq(Messages)
      /\ writer.barrier \in Owners \cup {None}
      /\ writer = [step |-> writer.step, batch |-> writer.batch,
                   barrier |-> writer.barrier, trim |-> writer.trim]
      /\ (writer.step = "idle" => writer.batch = <<>> /\ writer.trim = None)
      /\ Active \in BOOLEAN
  BY <1>1, WriterParts, ActiveTyped
<1>3. UNCHANGED <<configured, chosen, admitted>>
  <2>1. ASSUME NEW g, PersistGroup(g)
        PROVE  UNCHANGED <<configured, chosen, admitted>>
    <3>1. UNCHANGED <<admitted, ghostVars>> BY <2>1 DEF PersistGroup
    <3> QED BY <3>1 DEF ghostVars
  <2>2. CASE TrimGroup
    <3>1. UNCHANGED <<memoryVars, ghostVars>> BY <2>2 DEF TrimGroup
    <3> QED BY <3>1 DEF memoryVars, ghostVars
  <2>3. CASE WriterTake \/ WriterCollect \/ WriterClose \/ WriterGivesUp \/ WriterDone
    <3>1. UNCHANGED <<memoryVars, ghostVars>>
      BY <2>3 DEF WriterTake, WriterCollect, WriterClose, WriterGivesUp, WriterDone
    <3> QED BY <3>1 DEF memoryVars, ghostVars
  <2> QED BY <2>1, <2>2, <2>3 DEF Writing
<1>4. CASE WriterTake
  <2>1. /\ queue # <<>> /\ queue' = Tail(queue) /\ writer.batch = <<>>
        /\ writer.trim = None /\ (disabled => disabled')
    BY <1>2, <1>4 DEF WriterTake, latchVars
  <2>2. writer' = writer \/ writer' = [writer EXCEPT !.step = "collect",
                                                     !.batch = <<Head(queue)>>]
    BY <1>4 DEF WriterTake
  <2>3. /\ writer'.batch = writer.batch \/ writer'.batch = <<Head(queue)>>
        /\ writer'.trim = None
    BY <1>2, <2>1, <2>2
  <2>4. Append(<<>>, Head(queue)) = <<Head(queue)>> OBVIOUS
  <2>5. Handed BY <2>1, <2>3, <2>4 DEF Handed
  <2>6. Head(queue).owner \in Owners BY <1>2, <2>1, TailIs, MessageParts
  <2>7. op' = op \/ op' = Replied(Head(queue).owner, Active)
    BY <1>4 DEF WriterTake
  <2>8. CASE op' = op BY <1>3, <2>1, <2>3, <2>5, <2>8, SameForced
  <2>9. CASE op' = Replied(Head(queue).owner, Active)
    BY <1>2, <1>3, <2>1, <2>3, <2>5, <2>6, <2>9, RepliedForce
  <2> QED BY <2>7, <2>8, <2>9
<1>5. CASE WriterDone
  <2>1. /\ queue' = queue /\ disabled' = disabled /\ writer' = WriterIdle
        /\ op' = Replied(writer.barrier, Active) /\ writer.batch = <<>>
    BY <1>5 DEF WriterDone, latchVars
  <2>2. writer'.batch = <<>> /\ writer'.trim = None BY <2>1 DEF WriterIdle
  <2>3. Handed BY <2>1, <2>2 DEF Handed
  <2> QED BY <1>2, <1>3, <2>1, <2>2, <2>3, RepliedForce
<1>6. CASE WriterCollect
  <2>1. queue # <<>> /\ queue' = Tail(queue) /\ op' = op /\ disabled' = disabled
    BY <1>6 DEF WriterCollect, latchVars
  <2>2. /\ writer'.batch \in {writer.batch, Append(writer.batch, Head(queue))}
        /\ writer'.trim = writer.trim
    BY <1>2, <1>6 DEF WriterCollect
  <2>3. Handed BY <2>1, <2>2 DEF Handed
  <2> QED BY <1>3, <2>1, <2>2, <2>3, SameForced
<1>7. CASE WriterClose \/ WriterGivesUp
  <2>1. queue' = queue /\ op' = op /\ disabled' = disabled
    BY <1>7 DEF WriterClose, WriterGivesUp, latchVars
  <2>2. /\ writer'.batch = writer.batch \/ writer'.batch = <<>>
        /\ writer'.trim = writer.trim
    BY <1>2, <1>7 DEF WriterClose, WriterGivesUp
  <2>3. Handed BY <2>1, <2>2 DEF Handed
  <2> QED BY <1>3, <2>1, <2>2, <2>3, SameForced
<1>8. ASSUME Stops, op' = op
      PROVE  \A p \in Owners : ForceOK(p)' /\ StepOK(p)'
  <2>1. disabled' /\ queue' = <<>> /\ writer'.batch = <<>> /\ writer'.trim = None
    BY <1>8 DEF Stops, WriterStopped, WriterIdle
  <2>2. Handed BY <2>1 DEF Handed
  <2> QED BY <1>3, <1>8, <2>1, <2>2, SameForced
<1>9. CASE TrimGroup
  <2>1. op' = op BY <1>9 DEF TrimGroup
  <2>2. CASE Stop BY <1>8, <2>1, <2>2 DEF Stop, Stops
  <2>3. CASE writer' = [writer EXCEPT !.trim = None] /\ queue' = queue /\ disabled' = disabled
    <3>1. writer'.batch = writer.batch /\ writer'.trim = None BY <1>2, <2>3
    <3>2. Handed BY <2>3, <3>1 DEF Handed
    <3> QED BY <1>3, <2>1, <2>3, <3>1, <3>2, SameForced
  <2> QED BY <1>9, <2>2, <2>3 DEF TrimGroup
<1>10. ASSUME NEW g \in Groups, PersistGroup(g)
       PROVE  \A p \in Owners : ForceOK(p)' /\ StepOK(p)'
  <2>1. Members(writer.batch, g) # <<>> /\ op' = op BY <1>10, PersistIs
  <2>2. UniqueOK(g.owner) BY <1>1 DEF Groups
  <2>3. StoresGroup(g) \/ Stops BY <1>1, <1>10, <2>2, StoresOnce
  <2> QED BY <1>3, <1>8, <2>1, <2>3, StoresForce DEF StoresGroup
<1>11. ASSUME NEW o \in Owners, NEW s \in Settings \cup {DefaultSettings},
              PersistGroup([owner |-> o, settings |-> s])
       PROVE  \A p \in Owners : ForceOK(p)' /\ StepOK(p)'
  <2>1. [owner |-> o, settings |-> s] \in Groups BY BusConstants DEF Groups
  <2> QED BY <1>10, <1>11, <2>1
<1> QED BY <1>4, <1>5, <1>6, <1>7, <1>9, <1>11 DEF Writing

LEMMA RestartForce ==
    ASSUME ForceInv, Restart
    PROVE  \A p \in Owners : ForceOK(p)' /\ StepOK(p)'
<1>1. ASSUME NEW p \in Owners PROVE ForceOK(p)' /\ StepOK(p)'
  <2>1. queue' = <<>> /\ writer' = WriterIdle /\ op'[p] = Idle
    BY DEF Restart
  <2>2. DOMAIN queue' = {} /\ DOMAIN writer'.batch = {} /\ writer'.trim = None
    BY <2>1 DEF WriterIdle
  <2>3. \A s : Under(p, s)' BY <2>2 DEF Under
  <2>4. op'[p].step = "idle" BY <2>1, IdleIs
  <2>5. Under(p, chosen[p])' BY <2>2 DEF Under
  <2>6. ForceOK(p)' BY <2>2, <2>4, <2>5 DEF ForceOK
  <2>7. StepOK(p)' BY <2>4 DEF StepOK
  <2> QED BY <2>6, <2>7
<1> QED BY <1>1

LEMMA NextForce ==
    ASSUME ForceInv, SettingsInv', [Next]_busVars, FaultsKnown
    PROVE  \A p \in Owners : ForceOK(p)' /\ StepOK(p)'
<1>1. ASSUME UNCHANGED <<queue, writer, op, disabled, configured, chosen, admitted>>
      PROVE  \A p \in Owners : ForceOK(p)' /\ StepOK(p)'
  <2>1. Handed BY <1>1 DEF Handed
  <2> QED BY <1>1, <2>1, SameForced
<1>2. CASE UNCHANGED busVars
  BY <1>1, <1>2 DEF busVars, memoryVars, latchVars, ghostVars
<1>3. ASSUME NEW o \in Owners, ReadMiss(o) \/ ReadStore(o) \/ CountExpires(o)
      PROVE  \A p \in Owners : ForceOK(p)' /\ StepOK(p)'
  BY <1>1, <1>3 DEF ReadMiss, ReadStore, CountExpires, memoryVars, latchVars, ghostVars
<1> QED BY <1>2, <1>3, PublishingForce, ProceedForce, WritingForce, RestartForce DEF Next

LEMMA ForceInit == Init => \A p \in Owners : ForceOK(p) /\ StepOK(p)
<1> SUFFICES ASSUME Init, NEW p \in Owners PROVE ForceOK(p) /\ StepOK(p)
  OBVIOUS
<1>1. queue = <<>> /\ writer = WriterIdle /\ op[p] = Idle
  BY DEF Init, MemoryInit
<1>2. /\ DOMAIN queue = {} /\ DOMAIN writer.batch = {} /\ writer.trim = None
      /\ op[p].step = "idle"
  BY <1>1, IdleIs DEF WriterIdle
<1>3. ForceOK(p) BY <1>2 DEF ForceOK, Under
<1>4. StepOK(p) BY <1>2 DEF StepOK
<1> QED BY <1>3, <1>4

-----------------------------------------------------------------------------
(* The counts.  Between its statement and its last step a deletion or a      *)
(* change of settings leaves the memory behind the tables.                   *)
Behind(o) == op[o].step = "apply" /\ op[o].kind # "read"
Taken(o) == Cardinality(rows[o]) + Cardinality(Pending(o))
DropsNew(o) == chosen[o].policy = "drop_new"

CountOK(o) ==
    /\ DropsNew(o) => Cardinality(rows[o]) <= chosen[o].max
    /\ Active /\ DropsNew(o) => Taken(o) <= chosen[o].max
    /\ Active /\ ~Behind(o) =>
        /\ admitted[o] # None => admitted[o] = Taken(o) /\ DropsNew(o)
        /\ admitted[o] = None /\ DropsNew(o) => Pending(o) = {}
        /\ counts[o] # None => counts[o] = Cardinality(rows[o]) /\ DropsNew(o)

CountInv == ForceInv /\ \A o \in Owners : CountOK(o)

LEMMA CountParts ==
    ASSUME CountInv
    PROVE  /\ ForceInv /\ OnceInv /\ SettingsInv /\ FinalInv /\ ShapeInv
           /\ \A o \in Owners : /\ CountOK(o) /\ ForceOK(o) /\ StepOK(o)
                                /\ SettingsOK(o) /\ UniqueOK(o) /\ RowsOK(o)
                                /\ OwnerOK(o)
BY DEF CountInv, ForceInv, OnceInv, SettingsInv, FinalInv

(* The trim leaves as many rows as it should: each has a number of newer     *)
(* ones of its own.                                                          *)
LEMMA TrimmedBound ==
    ASSUME NEW T \in SUBSET Row, IsFiniteSet(T), NEW m \in Nat,
           \A r, s \in T : r.key = s.key => r = s
    PROVE  Cardinality(Trimmed(T, m)) <= m
<1> DEFINE above(r) == {s \in T : Newer(s, r)}
           K == Trimmed(T, m)
           f == [r \in K |-> Cardinality(above(r)) + 1]
<1>1. \A r \in T : r.key \in Int /\ r.event.at \in Int BY DEF Row, Events
<1>2. \A r \in T : IsFiniteSet(above(r)) /\ Cardinality(above(r)) \in Nat
  <2>1. ASSUME NEW r \in T PROVE IsFiniteSet(above(r)) /\ Cardinality(above(r)) \in Nat
    <3>1. above(r) \in SUBSET T OBVIOUS
    <3> HIDE DEF above
    <3> QED BY <3>1, FS_Subset, FS_CardinalityType
  <2> QED BY <2>1
<1>3. K = {r \in T : Cardinality(above(r)) < m} BY DEF Trimmed
<1>4. ASSUME NEW r \in T, NEW s \in T, Newer(s, r)
      PROVE  Cardinality(above(s)) # Cardinality(above(r))
  <2>1. above(s) \in SUBSET above(r)
    <3>1. ASSUME NEW x \in above(s) PROVE x \in above(r)
      <4>1. x \in T /\ Newer(x, s) OBVIOUS
      <4>2. Newer(x, r) BY <1>1, <1>4, <4>1 DEF Newer
      <4> QED BY <4>1, <4>2
    <3> QED BY <3>1
  <2>2. s \in above(r) BY <1>4
  <2>3. s \notin above(s) BY <1>1 DEF Newer
  <2> HIDE DEF above
  <2> QED BY <1>2, <2>1, <2>2, <2>3, FS_Subset
<1>5. ASSUME NEW r \in T, NEW s \in T, r # s
      PROVE  Newer(r, s) \/ Newer(s, r)
  <2>1. r.key # s.key BY <1>5
  <2> QED BY <1>1, <2>1 DEF Newer
<1> HIDE DEF above
<1>6. f \in Injection(K, 1 .. m)
  <2>1. ASSUME NEW r \in K PROVE f[r] \in 1 .. m BY <1>2, <1>3
  <2>2. f \in [K -> 1 .. m] BY <2>1
  <2>3. ASSUME NEW r \in K, NEW s \in K, f[r] = f[s] PROVE r = s
    <3>1. r \in T /\ s \in T BY <1>3
    <3>2. Cardinality(above(r)) = Cardinality(above(s)) BY <1>2, <2>3, <3>1
    <3> QED BY <1>4, <1>5, <3>1, <3>2
  <2> HIDE DEF f, K
  <2> QED BY <2>2, <2>3 DEF Injection, IsInjective
<1>7. IsFiniteSet(1 .. m) /\ Cardinality(1 .. m) = m BY UpTo
<1> HIDE DEF f, K
<1>8. Cardinality(K) <= Cardinality(1 .. m) BY <1>6, <1>7, FS_Injection
<1> QED BY <1>7, <1>8 DEF K

LEMMA MarkedCount ==
    ASSUME NEW T \in SUBSET Row, IsFiniteSet(T),
           \A r, s \in T : r.key = s.key => r = s
    PROVE  Cardinality({[r EXCEPT !.read = TRUE] : r \in T}) = Cardinality(T)
<1> DEFINE f == [r \in T |-> [r EXCEPT !.read = TRUE]]
           M == {[r EXCEPT !.read = TRUE] : r \in T}
<1>1. \A r \in T : f[r].key = r.key BY DEF Row
<1>2. f \in Surjection(T, M) BY DEF Surjection
<1>3. f \in [T -> M] OBVIOUS
<1> HIDE DEF f
<1>4. \A r, s \in T : f[r] = f[s] => r = s BY <1>1
<1>5. f \in Injection(T, M) BY <1>3, <1>4 DEF Injection, IsInjective
<1> HIDE DEF M
<1>6. Cardinality(M) = Cardinality(T) BY <1>2, <1>5, FS_Surjection
<1> QED BY <1>6 DEF M

(* Places of a finite sequence hold finitely many values.                    *)
LEMMA ValuesFinite ==
    ASSUME NEW s \in Seq(Messages)
    PROVE  IsFiniteSet({s[i].event : i \in DOMAIN s})
<1> DEFINE f == [i \in DOMAIN s |-> s[i].event]
           V == {s[i].event : i \in DOMAIN s}
<1>1. f \in Surjection(DOMAIN s, V) BY DEF Surjection
<1>2. IsFiniteSet(DOMAIN s)
  <2>1. DOMAIN s = 1 .. Len(s) /\ Len(s) \in Nat BY LenProperties
  <2> QED BY ONLY <2>1, UpTo
<1> HIDE DEF f, V
<1>3. IsFiniteSet(V) BY <1>1, <1>2, FS_Surjection
<1> QED BY <1>3 DEF V

LEMMA PendingFinite ==
    ASSUME ShapeInv, NEW o
    PROVE  IsFiniteSet(Pending(o)) /\ Cardinality(Pending(o)) \in Nat
<1>1. queue \in Seq(Messages) /\ writer.batch \in Seq(Messages) BY WriterParts
<1>2. PICK Q : Q = {queue[i].event : i \in DOMAIN queue} BY Zenon
<1>3. PICK B : B = {writer.batch[i].event : i \in DOMAIN writer.batch} BY Zenon
<1>4. IsFiniteSet(Q) BY <1>1, <1>2, ValuesFinite
<1>5. IsFiniteSet(B) BY <1>1, <1>3, ValuesFinite
<1>6. IsFiniteSet(Q \cup B) BY <1>4, <1>5, FS_Union
<1>7. \A e \in Pending(o) : e \in Q \cup B BY <1>2, <1>3, PendingIs
<1>8. Pending(o) \in SUBSET (Q \cup B) BY <1>7
<1> QED BY <1>6, <1>8, FS_Subset, FS_CardinalityType

LEMMA CountsTyped ==
    ASSUME ShapeInv, NEW o \in Owners
    PROVE  /\ IsFiniteSet(rows[o]) /\ Cardinality(rows[o]) \in Nat
           /\ IsFiniteSet(Pending(o)) /\ Cardinality(Pending(o)) \in Nat
           /\ chosen[o].max \in Nat \ {0} /\ chosen[o] \in Retention
           /\ counts[o] \in Nat \cup {None} /\ admitted[o] \in Nat \cup {None}
           /\ None \notin Nat /\ rows[o] \in SUBSET Row
<1>1. IsFiniteSet(rows[o]) /\ chosen[o] \in Retention
      /\ counts[o] \in Nat \cup {None} /\ admitted[o] \in Nat \cup {None}
      /\ rows[o] \in SUBSET Row
  BY DEF ShapeInv, BusTyped
<1>2. chosen[o].max \in Nat \ {0} BY <1>1 DEF Retention
<1> QED BY <1>1, <1>2, PendingFinite, FS_CardinalityType, ConstantsTyped

-----------------------------------------------------------------------------
(* A step that moves no event between publishers, queue and tables, or gives *)
(* up with storage.                                                          *)
Counted(p) ==
    /\ Active' => Active
    /\ chosen'[p] = chosen[p] /\ admitted'[p] = admitted[p]
    /\ counts'[p] \in {counts[p], None}
    /\ Cardinality(rows'[p]) = Cardinality(rows[p])
    /\ Active' => Pending(p)' = Pending(p)
    /\ Active' /\ Behind(p) => Behind(p)'

LEMMA CountedKeeps ==
    ASSUME NEW p, CountOK(p), Counted(p)
    PROVE  CountOK(p)'
<1>1. PICK n, k, s : /\ n = Cardinality(rows[p]) /\ k = Cardinality(Pending(p))
                     /\ s = chosen[p]
  OBVIOUS
<1>2. /\ Cardinality(rows'[p]) = n /\ chosen'[p] = s
      /\ Active' => Cardinality(Pending(p)') = k
  BY <1>1 DEF Counted
<1>3. /\ s.policy = "drop_new" => n <= s.max
      /\ Active /\ s.policy = "drop_new" => n + k <= s.max
      /\ Active /\ ~Behind(p) =>
        /\ admitted[p] # None => admitted[p] = n + k /\ s.policy = "drop_new"
        /\ admitted[p] = None /\ s.policy = "drop_new" => Pending(p) = {}
        /\ counts[p] # None => counts[p] = n /\ s.policy = "drop_new"
  BY <1>1 DEF CountOK, Taken, DropsNew
<1>4. Active' => /\ Active /\ (Behind(p) => Behind(p)') /\ Pending(p)' = Pending(p)
                 /\ Taken(p)' = n + k
  BY <1>2 DEF Counted, Taken
<1>5. admitted'[p] = admitted[p] /\ counts'[p] \in {counts[p], None}
  BY DEF Counted
<1> QED BY <1>2, <1>3, <1>4, <1>5 DEF CountOK, DropsNew

(* Steps of an operation that touch no table, queue or count.                *)
LEMMA SameCounted ==
    ASSUME ShapeInv, NEW p \in Owners, queue' = queue, writer'.batch = writer.batch,
           rows' = rows, UNCHANGED <<configured, chosen, admitted>>,
           counts'[p] \in {counts[p], None}, disabled => disabled',
           Active' /\ Behind(p) => Behind(p)'
    PROVE  Counted(p)
<1>1. disabled \in BOOLEAN BY DEF ShapeInv, BusTyped
<1>2. Pending(p)' = Pending(p) BY DEF Pending
<1> QED BY <1>1, <1>2 DEF Counted, Active

LEMMA OpCounted ==
    ASSUME CountInv, NEW o \in Owners, NEW x, op' = [op EXCEPT ![o] = x],
           queue' = queue, writer' = writer, rows' = rows,
           UNCHANGED <<configured, chosen, admitted, counts>>, disabled => disabled',
           Active' /\ Behind(o) => x.step = "apply" /\ x.kind # "read"
    PROVE  \A p \in Owners : CountOK(p)'
<1>1. ShapeInv /\ op \in [Owners -> Operation]
  BY CountParts DEF ShapeInv, BusTyped
<1>2. op'[o] = x /\ \A p \in Owners \ {o} : op'[p] = op[p] BY <1>1
<1>3. ASSUME NEW p \in Owners PROVE CountOK(p)'
  <2>1. Active' /\ Behind(p) => Behind(p)' BY <1>2 DEF Behind
  <2>2. Counted(p) BY <1>1, <2>1, SameCounted
  <2> QED BY <2>2, CountParts, CountedKeeps
<1> QED BY <1>3

LEMMA PublishingCount ==
    ASSUME CountInv, NEW o \in Owners, Publishing(o) \/ Mutating(o)
    PROVE  \A p \in Owners : CountOK(p)'
<1>1. ShapeInv /\ op[o] \in Operation /\ OpOK(o)
      /\ (op[o].kind = "publish" <=> op[o].step \in PublishSteps)
  BY CountParts, OpParts
<1>2. /\ UNCHANGED <<queue, writer, rows, disabled, configured, chosen, admitted, counts>>
  BY DEF Publishing, Mutating, StartPublish, CancelPublish, StartMutation,
         CallerLeaves, memoryVars, latchVars, ghostVars, tableVars
<1>3. ASSUME NEW x, op' = [op EXCEPT ![o] = x],
             Active' /\ Behind(o) => x.step = "apply" /\ x.kind # "read"
      PROVE  \A p \in Owners : CountOK(p)'
  BY <1>2, <1>3, OpCounted
<1>4. CASE CancelPublish(o)
  <2>1. op' = [op EXCEPT ![o] = Idle] /\ op[o].step \in PublishSteps
    BY <1>1, <1>4 DEF CancelPublish
  <2>2. ~Behind(o) BY <2>1 DEF PublishSteps, Behind
  <2> QED BY <1>3, <2>1, <2>2
<1>5. CASE op[o] = Idle /\ \E x : op' = [op EXCEPT ![o] = x]
  <2>1. ~Behind(o) BY <1>5 DEF Behind, Idle
  <2> QED BY <1>3, <1>5, <2>1
<1>6. CASE CallerLeaves(o)
  <2>1. \/ op' = [op EXCEPT ![o] = Idle] /\ ~configured
        \/ op' = [op EXCEPT ![o] = [op[o] EXCEPT !.waiting = FALSE]]
    BY <1>6 DEF CallerLeaves
  <2>2. /\ [op[o] EXCEPT !.waiting = FALSE].step = op[o].step
        /\ [op[o] EXCEPT !.waiting = FALSE].kind = op[o].kind
    BY <1>1 DEF Operation
  <2>3. ~configured => ~Active' BY <1>2 DEF Active
  <2>4. Behind(o) => op[o].step = "apply" /\ op[o].kind # "read" BY DEF Behind
  <2>5. CASE op' = [op EXCEPT ![o] = Idle] /\ ~configured BY <1>3, <2>3, <2>5
  <2>6. CASE op' = [op EXCEPT ![o] = [op[o] EXCEPT !.waiting = FALSE]]
    BY <1>3, <2>2, <2>4, <2>6
  <2> QED BY <2>1, <2>5, <2>6
<1>7. ASSUME NEW kind, NEW at, StartPublish(o, kind, at)
      PROVE  op[o] = Idle /\ \E x : op' = [op EXCEPT ![o] = x]
  BY <1>7 DEF StartPublish
<1>8. ASSUME NEW kind, NEW filter, NEW settings, StartMutation(o, kind, filter, settings)
      PROVE  op[o] = Idle /\ \E x : op' = [op EXCEPT ![o] = x]
  BY <1>8 DEF StartMutation
<1> QED BY <1>4, <1>5, <1>6, <1>7, <1>8 DEF Publishing, Mutating

LEMMA CountAdmittedCount ==
    ASSUME CountInv, NEW o \in Owners, CountAdmitted(o)
    PROVE  \A p \in Owners : CountOK(p)'
<1>1. /\ ShapeInv /\ op \in [Owners -> Operation] /\ disabled \in BOOLEAN
      /\ admitted \in [Owners -> Nat \cup {None}]
  BY CountParts DEF ShapeInv, BusTyped
<1>2. /\ UNCHANGED <<queue, writer, rows, configured, chosen, counts>>
      /\ (disabled => disabled') /\ op[o].step = "count"
  BY DEF CountAdmitted, latchVars, ghostVars, tableVars
<1>3. ~Behind(o) BY <1>2 DEF Behind
<1>4. CASE admitted' = admitted
  <2>1. \/ op' = [op EXCEPT ![o].step = "accept"]
        \/ op' = [op EXCEPT ![o].step = "accept", ![o].count = admitted'[o]]
    BY DEF CountAdmitted
  <2>2. CASE op' = [op EXCEPT ![o].step = "accept"]
    BY <1>2, <1>3, <1>4, <2>2, OpCounted
  <2>3. CASE op' = [op EXCEPT ![o].step = "accept", ![o].count = admitted'[o]]
    <3>1. op' = [op EXCEPT ![o] = [op[o] EXCEPT !.step = "accept", !.count = admitted'[o]]]
      BY <2>3
    <3> QED BY <1>2, <1>3, <1>4, <3>1, OpCounted
  <2> QED BY <2>1, <2>2, <2>3
<1>5. CASE Active /\ admitted[o] = None
           /\ admitted' = [admitted EXCEPT ![o] = Cardinality(rows[o])]
           /\ \A p \in Owners \ {o} : op'[p] = op[p]
  <2>1. ASSUME NEW p \in Owners \ {o} PROVE CountOK(p)'
    <3>1. admitted'[p] = admitted[p] BY <1>1, <1>5
    <3>2. Pending(p)' = Pending(p) BY <1>2 DEF Pending
    <3>3. Behind(p)' = Behind(p) BY <1>5 DEF Behind
    <3>4. Counted(p) BY <1>1, <1>2, <3>1, <3>2, <3>3 DEF Counted, Active
    <3> QED BY <3>4, CountParts, CountedKeeps
  <2>2. CountOK(o)'
    <3>1. CountOK(o) /\ ForceOK(o) /\ StepOK(o) BY CountParts
    <3>2. op[o].settings = chosen[o] /\ op[o].settings.policy = "drop_new"
      BY <1>2, <1>5, <3>1 DEF ForceOK, StepOK
    <3>3. DropsNew(o) BY <3>2 DEF DropsNew
    <3>4. Pending(o) = {} BY <1>3, <1>5, <3>1, <3>3 DEF CountOK
    <3>5. Pending(o)' = {} BY <1>2, <3>4 DEF Pending
    <3>6. PICK n \in Nat : n = Cardinality(rows[o]) BY <1>1, CountsTyped
    <3>7. Taken(o)' = n /\ Taken(o) = n /\ admitted'[o] = n
      BY <1>1, <1>2, <1>5, <3>4, <3>5, <3>6, FS_EmptySet DEF Taken
    <3>8. n <= chosen[o].max /\ (counts[o] # None => counts[o] = n)
      BY <1>3, <1>5, <3>1, <3>3, <3>6 DEF CountOK
    <3>9. DropsNew(o)' /\ Cardinality(rows'[o]) = n /\ chosen'[o] = chosen[o]
          /\ counts'[o] = counts[o]
      BY <1>2, <3>3, <3>6 DEF DropsNew
    <3> QED BY <3>5, <3>7, <3>8, <3>9 DEF CountOK
  <2> QED BY <2>1, <2>2
<1>6. CASE Active
           /\ admitted' = [admitted EXCEPT ![o] = IF @ = None THEN Cardinality(rows[o]) ELSE @]
           /\ op' = [op EXCEPT ![o].step = "accept", ![o].count = admitted'[o]]
  <2>1. \A p \in Owners \ {o} : op'[p] = op[p] BY <1>1, <1>6
  <2>2. CASE admitted[o] = None
    <3>1. admitted' = [admitted EXCEPT ![o] = Cardinality(rows[o])] BY <1>6, <2>2
    <3> QED BY <1>5, <1>6, <2>1, <2>2, <3>1
  <2>3. CASE admitted[o] # None
    <3>1. admitted' = [admitted EXCEPT ![o] = admitted[o]] BY <1>6, <2>3
    <3>2. admitted' = admitted BY <1>1, <3>1
    <3> QED BY <1>4, <3>2
  <2> QED BY <2>2, <2>3
<1> QED BY <1>4, <1>6 DEF CountAdmitted

LEMMA AcceptCount ==
    ASSUME CountInv, NEW o \in Owners, Accept(o)
    PROVE  \A p \in Owners : CountOK(p)'
<1>1. /\ ShapeInv /\ op \in [Owners -> Operation] /\ disabled \in BOOLEAN
      /\ admitted \in [Owners -> Nat \cup {None}] /\ op[o] \in Operation /\ OpOK(o)
      /\ op[o].event # None /\ op[o].settings # None /\ op[o].step = "accept"
  <2>1. op[o].step = "accept" BY DEF Accept
  <2> QED BY <2>1, CountParts, OpParts DEF ShapeInv, BusTyped, OpOK, PublishSteps
<1>2. /\ UNCHANGED <<writer, rows, configured, chosen, counts>>
      /\ disabled => disabled'
  BY AcceptIs DEF Accept, ghostVars, tableVars
<1>3. op' = [op EXCEPT ![o] = Idle] BY AcceptIs
<1>4. ~Behind(o) /\ ~Behind(o)' /\ \A p \in Owners \ {o} : op'[p] = op[p]
  <2>1. op'[o] = Idle BY <1>1, <1>3
  <2>2. ~Behind(o) BY <1>1 DEF Behind
  <2>3. ~Behind(o)' BY <2>1 DEF Behind, Idle
  <2> QED BY <1>1, <1>3, <2>2, <2>3
<1>5. Active' => Active BY <1>1, <1>2 DEF Active
<1>6. CASE queue' = queue /\ admitted' = admitted
  BY <1>2, <1>3, <1>4, <1>6, OpCounted
<1>7. PICK e \in Events, s \in Retention :
        e = op[o].event /\ s = op[o].settings
  BY <1>1 DEF Operation
<1>8. PICK m \in Messages : m = Request(o, e, s) BY MessagesTyped
<1>9. m.type = "event" /\ m.owner = o /\ m.event = e BY <1>8 DEF Request
<1>10. CASE ~Full(o)
  <2>1. /\ admitted' = [admitted EXCEPT ![o] =
                            IF op[o].count = None THEN @ ELSE op[o].count + 1]
        /\ queue' = IF Active /\ CanSend THEN Append(queue, m) ELSE queue
        /\ disabled' = (disabled \/ (Active /\ ~CanSend))
    BY <1>7, <1>8, <1>10, AcceptIs
  <2>2. Active' => queue' = Append(queue, m) BY <1>5, <2>1 DEF Active
  <2>3. ASSUME NEW p \in Owners, p # o \/ ~Active'
        PROVE  /\ Active' => Pending(p)' = Pending(p)
    <3>1. CASE Active'
      <4>1. queue \in Seq(Messages) BY <1>1, WriterParts
      <4>2. /\ DOMAIN queue' = 1 .. Len(queue) + 1 /\ DOMAIN queue = 1 .. Len(queue)
            /\ \A i \in 1 .. Len(queue) : queue'[i] = queue[i]
            /\ queue'[Len(queue) + 1] = m /\ Len(queue) \in Nat
        BY <2>2, <3>1, <4>1, AppendIs, LenProperties
      <4>3. \A x : x \in Pending(p) => x \in Pending(p)'
        BY <1>2, <4>2, PendingIs DEF Pending, Requests
      <4>4. \A x : x \in Pending(p)' => x \in Pending(p)
        BY <1>1, <1>2, <1>9, <2>2, <2>3, <3>1, AppendMoves
      <4> QED BY <4>3, <4>4
    <3> QED BY <3>1
  <2>4. ASSUME NEW p \in Owners \ {o} PROVE CountOK(p)'
    <3>1. admitted'[p] = admitted[p] BY <1>1, <2>1
    <3>2. Behind(p)' = Behind(p) BY <1>4 DEF Behind
    <3>3. Counted(p) BY <1>2, <1>5, <2>3, <3>1, <3>2 DEF Counted
    <3> QED BY <3>3, CountParts, CountedKeeps
  <2>5. CASE ~Active'
    <3>1. CountOK(o) BY CountParts
    <3>2. DropsNew(o)' = DropsNew(o) BY <1>2 DEF DropsNew
    <3>3. CountOK(o)' BY <1>2, <2>5, <3>1, <3>2 DEF CountOK
    <3> QED BY <2>4, <3>3
  <2>6. CASE Active'
    <3>1. CountOK(o) /\ ForceOK(o) /\ StepOK(o) /\ OwnerOK(o) BY CountParts
    <3>2. Active /\ s = chosen[o] BY <1>1, <1>5, <1>7, <2>6, <3>1 DEF ForceOK
    <3>3. Pending(o)' = Pending(o) \cup {e} /\ e \notin Pending(o)
      <4>1. queue \in Seq(Messages) BY <1>1, WriterParts
      <4>2. /\ DOMAIN queue' = 1 .. Len(queue) + 1 /\ DOMAIN queue = 1 .. Len(queue)
            /\ \A i \in 1 .. Len(queue) : queue'[i] = queue[i]
            /\ queue'[Len(queue) + 1] = m /\ Len(queue) \in Nat
        BY <2>2, <2>6, <4>1, AppendIs, LenProperties
      <4>3. \A x : x \in Pending(o) => x \in Pending(o)'
        BY <1>2, <4>2, PendingIs DEF Pending, Requests
      <4>4. \A x : x \in Pending(o)' => x \in Pending(o) \/ x = e
        BY <1>1, <1>2, <1>9, <2>2, <2>6, AppendMoves
      <4>5. e \in Pending(o)'
        <5>1. Len(queue) + 1 \in DOMAIN queue' BY <4>2
        <5> QED BY <1>9, <4>2, <5>1 DEF Pending, Requests
      <4>6. e \notin Pending(o)
        <5>1. \A x \in Known(o) : x.id < e.id /\ x.id \in Nat
          BY <1>1, <1>7, <3>1, EventsTyped DEF OwnerOK, NumberedOK
        <5> QED BY <5>1 DEF Known
      <4> QED BY <4>3, <4>4, <4>5, <4>6
    <3>4. PICK k \in Nat, n \in Nat : /\ k = Cardinality(Pending(o))
                                      /\ n = Cardinality(rows[o])
      BY <1>1, CountsTyped
    <3>5. IsFiniteSet(Pending(o)) BY <1>1, CountsTyped
    <3>6. Cardinality(Pending(o)') = k + 1
      BY <3>3, <3>4, <3>5, FS_AddElement
    <3>7. Taken(o)' = n + (k + 1) /\ Taken(o) = n + k
          /\ DropsNew(o)' = DropsNew(o) /\ chosen'[o] = chosen[o]
          /\ Cardinality(rows'[o]) = n /\ counts'[o] = counts[o]
      BY <1>2, <3>4, <3>6 DEF Taken, DropsNew
    <3>8. counts[o] # None => counts[o] = n /\ DropsNew(o)
      BY <1>4, <3>1, <3>2, <3>4 DEF CountOK
    <3>9. CASE DropsNew(o)
      <4>1. op[o].count # None /\ op[o].count = admitted[o]
        BY <1>1, <1>7, <3>1, <3>2, <3>9 DEF StepOK, DropsNew
      <4>2. op[o].count = n + k BY <1>4, <3>1, <3>2, <3>7, <4>1 DEF CountOK
      <4>3. ~(n + k >= chosen[o].max)
        BY <1>7, <1>10, <3>2, <3>9, <4>1, <4>2 DEF Full, DropsNew
      <4>4. chosen[o].max \in Nat BY <1>1, CountsTyped
      <4>5. admitted'[o] = n + k + 1 BY <1>1, <2>1, <4>1, <4>2
      <4>6. /\ n + (k + 1) <= chosen[o].max /\ n <= chosen[o].max
            /\ admitted'[o] = n + (k + 1) /\ admitted'[o] # None
        BY <4>3, <4>4, <4>5, ConstantsTyped
      <4>7. CountOK(o)' BY <3>7, <3>8, <3>9, <4>6 DEF CountOK
      <4> QED BY <2>4, <4>7
    <3>10. CASE ~DropsNew(o)
      <4>1. op[o].count = None
        BY <1>1, <1>7, <3>1, <3>2, <3>10 DEF StepOK, DropsNew
      <4>2. admitted[o] = None BY <1>4, <3>1, <3>2, <3>10 DEF CountOK
      <4>3. admitted'[o] = None BY <1>1, <2>1, <4>1, <4>2
      <4>4. CountOK(o)' BY <3>7, <3>8, <3>10, <4>3 DEF CountOK
      <4> QED BY <2>4, <4>4
    <3> QED BY <3>9, <3>10
  <2> QED BY <2>5, <2>6
<1> QED BY <1>6, <1>10, AcceptIs

LEMMA SendBarrierCount ==
    ASSUME CountInv, NEW o \in Owners, SendBarrier(o)
    PROVE  \A p \in Owners : CountOK(p)'
<1>1. ShapeInv /\ op \in [Owners -> Operation] /\ queue \in Seq(Messages)
  BY CountParts, WriterParts DEF ShapeInv, BusTyped
<1>2. /\ UNCHANGED <<writer, rows, disabled, configured, chosen, admitted, counts>>
      /\ op' = [op EXCEPT ![o].step = "await"] /\ op[o].step = "flush"
      /\ queue' = Append(queue, Barrier(o))
  BY DEF SendBarrier, memoryVars, latchVars, ghostVars, tableVars
<1>3. PICK m \in Messages : m = Barrier(o) /\ m.type # "event"
  BY MessagesTyped DEF Barrier
<1>4. /\ DOMAIN queue' = 1 .. Len(queue) + 1 /\ DOMAIN queue = 1 .. Len(queue)
      /\ \A i \in 1 .. Len(queue) : queue'[i] = queue[i]
      /\ queue'[Len(queue) + 1] = m /\ Len(queue) \in Nat
  BY <1>1, <1>2, <1>3, AppendIs, LenProperties
<1>5. ASSUME NEW p \in Owners PROVE CountOK(p)'
  <2>1. \A x : x \in Pending(p) => x \in Pending(p)'
    BY <1>2, <1>4, PendingIs DEF Pending, Requests
  <2>2. \A x : x \in Pending(p)' => x \in Pending(p)
    BY <1>1, <1>2, <1>3, AppendMoves
  <2>3. Pending(p)' = Pending(p) BY <2>1, <2>2
  <2>4. ~Behind(o) /\ \A q \in Owners \ {o} : op'[q] = op[q]
    BY <1>1, <1>2 DEF Behind
  <2>5. Counted(p) BY <1>2, <2>3, <2>4 DEF Counted, Active, Behind
  <2> QED BY <2>5, CountParts, CountedKeeps
<1> QED BY <1>5

LEMMA SqlCount ==
    ASSUME CountInv, NEW o \in Owners, Sql(o), FaultsKnown
    PROVE  \A p \in Owners : CountOK(p)'
<1>1. /\ ShapeInv /\ op \in [Owners -> Operation] /\ disabled \in BOOLEAN
      /\ chosen \in [Owners -> Retention] /\ rows \in [Owners -> SUBSET Row]
  BY CountParts DEF ShapeInv, BusTyped
<1>2. /\ UNCHANGED <<queue, writer, configured, admitted, counts>>
      /\ op[o].step = "sql"
  BY DEF Sql, memoryVars
<1>3. ~Behind(o) BY <1>2 DEF Behind
<1>4. Pending(o) = {} /\ Pending(o)' = {}
  <2>1. Pending(o) = {} BY <1>2, CountParts DEF OwnerOK, FlushedOK, FlushedSteps
  <2> QED BY <1>2, <2>1 DEF Pending
<1>5. \/ /\ op' = [op EXCEPT ![o] = Idle] /\ UNCHANGED <<rows, disabled, chosen>>
      \/ /\ Mutated(o) /\ op' = [op EXCEPT ![o].step = "apply"]
         /\ chosen' = Chosen(o) /\ disabled' = disabled
  <2>1. "lost" \notin Faults /\ "slow" \notin Faults BY DEF FaultsKnown
  <2>2. ~Fault("lost") /\ ~Fault("slow") BY <2>1 DEF Fault
  <2> QED BY <2>2 DEF Sql, latchVars, tableVars
<1>6. CASE op' = [op EXCEPT ![o] = Idle] /\ UNCHANGED <<rows, disabled, chosen>>
  BY <1>2, <1>3, <1>6, OpCounted
<1>7. CASE /\ Mutated(o) /\ op' = [op EXCEPT ![o].step = "apply"]
           /\ chosen' = Chosen(o) /\ disabled' = disabled
  <2>1. \A p \in Owners \ {o} : op'[p] = op[p] /\ rows'[p] = rows[p] /\ chosen'[p] = chosen[p]
    BY <1>1, <1>2, <1>7, MutatedTyped DEF Chosen
  <2>2. ASSUME NEW p \in Owners \ {o} PROVE CountOK(p)'
    <3>1. Pending(p)' = Pending(p) BY <1>2 DEF Pending
    <3>2. Behind(p)' = Behind(p) BY <2>1 DEF Behind
    <3>3. Counted(p) BY <1>2, <1>7, <2>1, <3>1, <3>2 DEF Counted, Active
    <3> QED BY <3>3, CountParts, CountedKeeps
  <2>3. op'[o].step = "apply" /\ op'[o].kind = op[o].kind /\ op[o] \in Operation
    BY <1>1, <1>7 DEF Operation
  <2>4. /\ rows[o] \in SUBSET Row /\ IsFiniteSet(rows[o])
        /\ \A r, s \in rows[o] : r.key = s.key => r = s
        /\ Cardinality(rows[o]) \in Nat
    BY <1>1, CountParts, CountsTyped DEF RowsOK
  <2>5. op[o].kind \in {"read", "delete", "settings"}
    BY <1>1, <1>2, OpParts DEF FlushedSteps, Mutation
  <2>6. CASE op[o].kind = "read"
    <3>1. rows'[o] = {[r EXCEPT !.read = TRUE] : r \in rows[o]} /\ chosen' = chosen
      BY <1>1, <1>7, <2>6 DEF Mutated, Chosen
    <3>2. Cardinality(rows'[o]) = Cardinality(rows[o]) BY <2>4, <3>1, MarkedCount
    <3>3. Counted(o) BY <1>2, <1>3, <1>4, <1>7, <3>1, <3>2 DEF Counted, Active
    <3>4. CountOK(o)' BY <3>3, CountParts, CountedKeeps
    <3> QED BY <2>2, <3>4
  <2>7. ASSUME op[o].kind \in {"delete", "settings"}, NEW n \in Nat,
               Cardinality(rows'[o]) = n, DropsNew(o)' => n <= chosen'[o].max
        PROVE  CountOK(o)'
    <3>1. Behind(o)' BY <2>3, <2>7 DEF Behind
    <3>2. Taken(o)' = n BY <1>4, <2>7, FS_EmptySet DEF Taken
    <3> QED BY <2>7, <3>1, <3>2 DEF CountOK
  <2>8. CASE op[o].kind = "delete"
    <3>1. rows'[o] \in SUBSET rows[o] /\ chosen' = chosen
      BY <1>1, <1>7, <2>8 DEF Mutated, Chosen
    <3>2. PICK n : n = Cardinality(rows'[o]) OBVIOUS
    <3>3. n \in Nat /\ n <= Cardinality(rows[o])
      BY <2>4, <3>1, <3>2, FS_Subset, FS_CardinalityType
    <3>4. DropsNew(o) => Cardinality(rows[o]) <= chosen[o].max /\ chosen[o].max \in Nat
      BY <1>1, CountParts, CountsTyped DEF CountOK
    <3>5. DropsNew(o)' => n <= chosen'[o].max
      BY <2>4, <3>1, <3>3, <3>4 DEF DropsNew
    <3>6. CountOK(o)' BY <2>7, <2>8, <3>2, <3>3, <3>5
    <3> QED BY <2>2, <3>6
  <2>9. CASE op[o].kind = "settings"
    <3>1. op[o].settings \in Retention
      BY <1>1, <2>3, <2>9, OpParts DEF OpOK, Operation
    <3>2. PICK m \in Nat : m = op[o].settings.max BY <3>1 DEF Retention
    <3>3. rows'[o] = Trimmed(rows[o], m) /\ chosen'[o].max = m
      BY <1>1, <1>7, <2>9, <3>1, <3>2 DEF Mutated, Chosen
    <3>4. PICK T : T = rows[o] BY Zenon
    <3>5. T \in SUBSET Row /\ IsFiniteSet(T) /\ \A r, s \in T : r.key = s.key => r = s
      BY <2>4, <3>4
    <3>6. Cardinality(Trimmed(T, m)) <= m BY <3>5, TrimmedBound
    <3>7. Trimmed(T, m) \in SUBSET T BY DEF Trimmed
    <3>8. Cardinality(Trimmed(T, m)) \in Nat
      BY <3>5, <3>7, FS_Subset, FS_CardinalityType
    <3>9. CountOK(o)' BY <2>7, <2>9, <3>3, <3>4, <3>6, <3>8
    <3> QED BY <2>2, <3>9
  <2> QED BY <2>5, <2>6, <2>8, <2>9
<1> QED BY <1>5, <1>6, <1>7

LEMMA ApplyCount ==
    ASSUME CountInv, NEW o \in Owners, Apply(o)
    PROVE  \A p \in Owners : CountOK(p)'
<1>1. /\ ShapeInv /\ op \in [Owners -> Operation] /\ OpOK(o)
      /\ counts \in [Owners -> Nat \cup {None}] /\ admitted \in [Owners -> Nat \cup {None}]
      /\ chosen \in [Owners -> Retention]
  BY CountParts, OpParts DEF ShapeInv, BusTyped
<1>2. /\ UNCHANGED <<queue, writer, rows, disabled, configured>>
      /\ op[o].step = "apply"
  BY DEF Apply, latchVars, tableVars, ghostVars
<1>3. Pending(o) = {} /\ Pending(o)' = {}
  <2>1. Pending(o) = {} BY <1>2, CountParts DEF OwnerOK, FlushedOK, FlushedSteps
  <2> QED BY <1>2, <2>1 DEF Pending
<1>4. CASE op[o].kind = "read"
  <2>1. /\ op' = [op EXCEPT ![o] = Idle] \/ op' = [op EXCEPT ![o].step = "report"]
        /\ UNCHANGED <<chosen, admitted, counts>>
    BY <1>1, <1>4, ApplyIs DEF memoryVars, ghostVars
  <2>2. ~Behind(o) BY <1>4 DEF Behind
  <2> QED BY <1>2, <2>1, <2>2, OpCounted
<1>5. CASE op[o].kind \in {"delete", "settings"}
  <2>1. /\ op' = [op EXCEPT ![o].step = "report"] /\ ForgetCounts(o)
        /\ chosen' = IF op[o].kind = "settings"
                     THEN [chosen EXCEPT ![o] = op[o].settings] ELSE chosen
    BY <1>1, <1>5, ApplyIs
  <2>2. /\ \A p \in Owners \ {o} : /\ op'[p] = op[p] /\ admitted'[p] = admitted[p]
                                   /\ counts'[p] = counts[p] /\ chosen'[p] = chosen[p]
        /\ admitted'[o] = None /\ counts'[o] = None
    BY <1>1, <2>1 DEF ForgetCounts
  <2>3. ASSUME NEW p \in Owners \ {o} PROVE CountOK(p)'
    <3>1. Pending(p)' = Pending(p) BY <1>2 DEF Pending
    <3>2. Behind(p)' = Behind(p) BY <2>2 DEF Behind
    <3>3. Counted(p) BY <1>2, <2>2, <3>1, <3>2 DEF Counted, Active
    <3> QED BY <3>3, CountParts, CountedKeeps
  <2>4. PICK n \in Nat : n = Cardinality(rows[o]) BY <1>1, CountsTyped
  <2>5. Taken(o)' = n /\ Cardinality(rows'[o]) = n
    BY <1>2, <1>3, <2>4, FS_EmptySet DEF Taken
  <2>6. DropsNew(o)' => n <= chosen'[o].max
    <3>1. DropsNew(o) => n <= chosen[o].max BY <2>4, CountParts DEF CountOK
    <3>2. CASE configured
      <4>1. op[o].kind = "settings" => chosen[o] = op[o].settings
        BY <1>2, <3>2, CountParts DEF SettingsOK, Applying
      <4>2. chosen'[o] = chosen[o] BY <1>1, <2>1, <4>1
      <4> QED BY <3>1, <4>2 DEF DropsNew
    <3>3. CASE ~configured
      <4>1. n = 0 BY <1>1, <2>4, <3>3, FS_EmptySet DEF ShapeInv, UnconfiguredOK
      <4>2. chosen'[o] \in Retention
        BY <1>1, <2>1, OpParts DEF OpOK, Operation
      <4>3. chosen'[o].max \in Nat BY <4>2 DEF Retention
      <4> QED BY <4>1, <4>3
    <3> QED BY <3>2, <3>3
  <2>7. CountOK(o)' BY <1>3, <2>2, <2>5, <2>6 DEF CountOK
  <2> QED BY <2>3, <2>7
<1> QED BY <1>1, <1>4, <1>5, ApplyIs DEF Mutation

LEMMA ProceedCount ==
    ASSUME CountInv, NEW o \in Owners, Proceed(o), FaultsKnown
    PROVE  \A p \in Owners : CountOK(p)'
<1>1. CASE LoadSettings(o)
  <2>1. /\ UNCHANGED <<queue, writer, rows, configured, chosen, admitted, counts>>
        /\ (disabled => disabled') /\ op[o].step = "load"
    BY <1>1 DEF LoadSettings, latchVars, ghostVars, tableVars
  <2>2. \E x : op' = [op EXCEPT ![o] = x]
    <3>1. PICK c, s : op' = [op EXCEPT ![o].settings = c, ![o].step = s]
      BY <1>1 DEF LoadSettings
    <3>2. op' = [op EXCEPT ![o] = [op[o] EXCEPT !.settings = c, !.step = s]]
      BY <3>1
    <3> QED BY <3>2
  <2>3. ~Behind(o) BY <2>1 DEF Behind
  <2> QED BY <2>1, <2>2, <2>3, OpCounted
<1>2. CASE FlushFails(o) \/ Report(o)
  <2>1. /\ UNCHANGED <<queue, writer, rows, configured, chosen, admitted, counts>>
        /\ op' = [op EXCEPT ![o] = Idle] /\ (disabled => disabled')
        /\ op[o].step # "apply"
    BY <1>2 DEF FlushFails, Report, memoryVars, latchVars, ghostVars, tableVars
  <2>2. ~Behind(o) BY <2>1 DEF Behind
  <2> QED BY <2>1, <2>2, OpCounted
<1> QED BY <1>1, <1>2, CountAdmittedCount, AcceptCount, SendBarrierCount, SqlCount,
           ApplyCount DEF Proceed

-----------------------------------------------------------------------------
(* The writer takes messages from the queue into its hands.                  *)
LEMMA PassedOn ==
    ASSUME ShapeInv, queue # <<>>, queue' = Tail(queue),
           \/ writer'.batch = Append(writer.batch, Head(queue))
           \/ writer'.batch = writer.batch /\ Head(queue).type = "barrier"
    PROVE  \A p : Pending(p)' = Pending(p)
<1>1. queue \in Seq(Messages) /\ writer.batch \in Seq(Messages)
  BY WriterParts
<1>2. /\ DOMAIN queue' = 1 .. Len(queue) - 1 /\ DOMAIN queue = 1 .. Len(queue)
      /\ \A i \in 1 .. Len(queue) - 1 : queue'[i] = queue[i + 1]
      /\ Len(queue) \in Nat \ {0} /\ Head(queue) = queue[1] /\ Head(queue) \in Messages
  BY <1>1, TailIs
<1>3. PICK m \in Messages : m = Head(queue) BY <1>2
<1>4. /\ \A i \in 1 .. Len(queue) - 1 : i + 1 \in 1 .. Len(queue)
      /\ \A i \in 1 .. Len(queue) : i = 1 \/ i - 1 \in 1 .. Len(queue) - 1
      /\ \A i \in 1 .. Len(queue) : (i - 1) + 1 = i
      /\ 1 \in 1 .. Len(queue)
  BY <1>2
<1>5. \A i \in DOMAIN queue : i = 1 \/ \E j \in DOMAIN queue' : queue'[j] = queue[i]
  <2>1. ASSUME NEW i \in DOMAIN queue, i # 1
        PROVE  i - 1 \in DOMAIN queue' /\ queue'[i - 1] = queue[i]
    <3>1. i - 1 \in 1 .. Len(queue) - 1 /\ (i - 1) + 1 = i BY <1>2, <1>4, <2>1
    <3> QED BY <1>2, <3>1
  <2> QED BY <2>1
<1>6. \A j \in DOMAIN queue' : \E i \in DOMAIN queue : queue'[j] = queue[i]
  BY <1>2, <1>4
<1>7. queue[1] = m /\ 1 \in DOMAIN queue BY <1>2, <1>3, <1>4
<1>8. ASSUME NEW p, NEW x
      PROVE  x \in Pending(p)' <=>
               \/ \E i \in DOMAIN queue' :
                    queue'[i].type = "event" /\ queue'[i].owner = p /\ x = queue'[i].event
               \/ \E i \in DOMAIN writer'.batch :
                    /\ writer'.batch[i].type = "event" /\ writer'.batch[i].owner = p
                    /\ x = writer'.batch[i].event
  BY DEF Pending, Requests
<1>9. CASE writer'.batch = Append(writer.batch, m)
  <2>1. /\ DOMAIN writer'.batch = 1 .. Len(writer.batch) + 1
        /\ \A i \in 1 .. Len(writer.batch) : writer'.batch[i] = writer.batch[i]
        /\ writer'.batch[Len(writer.batch) + 1] = m
        /\ Len(writer.batch) \in Nat /\ DOMAIN writer.batch = 1 .. Len(writer.batch)
    BY <1>1, <1>9, AppendIs, LenProperties
  <2>2. \A i \in 1 .. Len(writer.batch) + 1 :
            i \in 1 .. Len(writer.batch) \/ i = Len(writer.batch) + 1
    BY <2>1
  <2>3. 1 .. Len(writer.batch) \subseteq 1 .. Len(writer.batch) + 1
        /\ Len(writer.batch) + 1 \in 1 .. Len(writer.batch) + 1
    BY <2>1
  <2>4. /\ \A i \in DOMAIN writer.batch : \E j \in DOMAIN writer'.batch :
                writer'.batch[j] = writer.batch[i]
        /\ \E j \in DOMAIN writer'.batch : writer'.batch[j] = queue[1]
        /\ \A j \in DOMAIN writer'.batch :
                \/ \E i \in DOMAIN writer.batch : writer'.batch[j] = writer.batch[i]
                \/ writer'.batch[j] = queue[1]
    BY <1>7, <2>1, <2>2, <2>3
  <2>5. ASSUME NEW p, NEW x PROVE x \in Pending(p)' <=> x \in Pending(p)
    <3>1. ASSUME x \in Pending(p)' PROVE x \in Pending(p)
      BY <1>6, <1>7, <1>8, <2>4, <3>1, PendingIs
    <3>2. ASSUME x \in Pending(p) PROVE x \in Pending(p)'
      BY <1>5, <1>8, <2>4, <3>2, PendingIs
    <3> QED BY <3>1, <3>2
  <2>6. ASSUME NEW p PROVE Pending(p)' = Pending(p)
    <3>1. \A x : x \in Pending(p)' <=> x \in Pending(p) BY <2>5
    <3> QED BY <3>1
  <2> QED BY <2>6
<1>10. CASE writer'.batch = writer.batch /\ m.type = "barrier"
  <2>1. queue[1].type # "event" BY <1>7, <1>10
  <2>2. ASSUME NEW p, NEW x PROVE x \in Pending(p)' <=> x \in Pending(p)
    <3>1. ASSUME x \in Pending(p)' PROVE x \in Pending(p)
      BY <1>6, <1>8, <1>10, <3>1, PendingIs
    <3>2. ASSUME x \in Pending(p) PROVE x \in Pending(p)'
      BY <1>5, <1>8, <1>10, <2>1, <3>2, PendingIs
    <3> QED BY <3>1, <3>2
  <2>3. ASSUME NEW p PROVE Pending(p)' = Pending(p)
    <3>1. \A x : x \in Pending(p)' <=> x \in Pending(p) BY <2>2
    <3> QED BY <3>1
  <2> QED BY <2>3
<1> QED BY <1>3, <1>9, <1>10

(* A step of the writer that moves no event out of its hands, or gives up.   *)
HandsOn ==
    /\ UNCHANGED <<history, rows, configured, chosen, admitted, counts>>
    /\ disabled => disabled'
    /\ Active' => \A p : Pending(p)' = Pending(p)
    /\ \A p \in Owners : "apply" \in {op[p].step, op'[p].step} => op'[p] = op[p]

LEMMA HandedCount ==
    ASSUME CountInv, HandsOn
    PROVE  \A p \in Owners : CountOK(p)'
<1>1. ShapeInv /\ disabled \in BOOLEAN BY CountParts DEF ShapeInv, BusTyped
<1>2. ASSUME NEW p \in Owners PROVE CountOK(p)'
  <2>1. Behind(p) => Behind(p)' BY DEF Behind, HandsOn
  <2>2. Active' => Active BY <1>1 DEF Active, HandsOn
  <2>3. Counted(p) BY <2>1, <2>2 DEF Counted, HandsOn
  <2> QED BY <2>3, CountParts, CountedKeeps
<1> QED BY <1>2

(* The requests of a group leave the batch, each with an event of its own.   *)
LEMMA GroupLeaves ==
    ASSUME ShapeInv, NEW g \in Groups, UniqueOK(g.owner),
           queue' = queue, writer'.batch = Others(writer.batch, g)
    PROVE  /\ \A p : p # g.owner => Pending(p)' = Pending(p)
           /\ Cardinality(Pending(g.owner)) =
                Cardinality(Pending(g.owner)') + Len(Members(writer.batch, g))
           /\ IsFiniteSet(Pending(g.owner)') /\ Cardinality(Pending(g.owner)') \in Nat
<1> DEFINE b == writer.batch
<1>1. PICK R : R = Members(b, g) BY Zenon
<1>2. PICK O : O = Others(b, g) BY Zenon
<1>3. PICK o : o = g.owner OBVIOUS
<1>4. b \in Seq(Messages) /\ \A i \in DOMAIN b : b[i].type = "event"
  BY WriterParts
<1>5. /\ R \in EventRequests
      /\ \A i \in DOMAIN R : R[i].event \in Pending(o)
      /\ \A i, j \in DOMAIN R : R[i].event.id = R[j].event.id => i = j
      /\ \A i \in DOMAIN R :
           /\ \A j \in DOMAIN queue :
                IsOf(queue[j], o) => queue[j].event.id # R[i].event.id
           /\ \A j \in DOMAIN O : IsOf(O[j], o) => O[j].event.id # R[i].event.id
  BY <1>1, <1>2, <1>3, MembersOnce
<1>6. /\ \A j \in DOMAIN R : \E i \in DOMAIN b : R[j] = b[i] /\ GroupOf(b[i]) = g
      /\ \A j \in DOMAIN O : \E i \in DOMAIN b : O[j] = b[i] /\ GroupOf(b[i]) # g
  <2>1. \A j \in DOMAIN Members(b, g) :
            \E i \in DOMAIN b : Members(b, g)[j] = b[i] /\ GroupOf(b[i]) = g
    BY <1>4, MembersAre
  <2>2. \A j \in DOMAIN Others(b, g) :
            \E i \in DOMAIN b : Others(b, g)[j] = b[i] /\ GroupOf(b[i]) # g
    BY <1>4, MembersAre
  <2> QED BY <1>1, <1>2, <2>1, <2>2
<1>7. \A i \in DOMAIN b : GroupOf(b[i]) = g => \E j \in DOMAIN R : R[j] = b[i]
  <2> DEFINE places == {i \in DOMAIN b : GroupOf(b[i]) = g}
  <2>1. places \in SUBSET (DOMAIN b) OBVIOUS
  <2>2. R = Picked(b, places) BY <1>1 DEF Members
  <2> HIDE DEF places, b
  <2>3. \A i \in places : \E j \in DOMAIN R : R[j] = b[i]
    BY <1>4, <2>1, <2>2, PickedIs
  <2> QED BY <2>3 DEF places
<1>8. \A i \in DOMAIN b : GroupOf(b[i]) # g => \E j \in DOMAIN O : O[j] = b[i]
  <2> DEFINE places == {i \in DOMAIN b : GroupOf(b[i]) # g}
  <2>1. places \in SUBSET (DOMAIN b) OBVIOUS
  <2>2. O = Picked(b, places) BY <1>2 DEF Others
  <2> HIDE DEF places, b
  <2>3. \A i \in places : \E j \in DOMAIN O : O[j] = b[i]
    BY <1>4, <2>1, <2>2, PickedIs
  <2> QED BY <2>3 DEF places
<1>9. ASSUME NEW p, NEW x
      PROVE  x \in Pending(p)' <=>
               \/ \E i \in DOMAIN queue : IsOf(queue[i], p) /\ x = queue[i].event
               \/ \E i \in DOMAIN O : IsOf(O[i], p) /\ x = O[i].event
  BY <1>2 DEF Pending, Requests, IsOf
<1>10. ASSUME NEW p, NEW x
       PROVE  x \in Pending(p) <=>
               \/ \E i \in DOMAIN queue : IsOf(queue[i], p) /\ x = queue[i].event
               \/ \E i \in DOMAIN b : IsOf(b[i], p) /\ x = b[i].event
  BY DEF Pending, Requests, IsOf
<1>11. \A i \in DOMAIN b : GroupOf(b[i]) = g => b[i].owner = o
  BY <1>3 DEF GroupOf
<1> HIDE DEF b
<1>12. ASSUME NEW p, p # o PROVE Pending(p)' = Pending(p)
  <2>1. ASSUME NEW x, x \in Pending(p)' PROVE x \in Pending(p)
    BY <1>6, <1>9, <1>10, <2>1
  <2>2. ASSUME NEW x, x \in Pending(p) PROVE x \in Pending(p)'
    BY <1>8, <1>9, <1>10, <1>11, <1>12, <2>2 DEF IsOf
  <2> QED BY <2>1, <2>2
<1>13. PICK M : M = {R[i].event : i \in DOMAIN R} BY Zenon
<1>14. Pending(o) = Pending(o)' \cup M
  <2>1. ASSUME NEW x, x \in Pending(o)' PROVE x \in Pending(o)
    BY <1>6, <1>9, <1>10, <2>1
  <2>2. M \subseteq Pending(o) BY <1>5, <1>13
  <2>3. ASSUME NEW x, x \in Pending(o), x \notin M PROVE x \in Pending(o)'
    BY <1>7, <1>8, <1>9, <1>10, <1>13, <2>3
  <2> QED BY <2>1, <2>2, <2>3
<1>15. Pending(o)' \cap M = {}
  <2>1. ASSUME NEW x, x \in Pending(o)', x \in M PROVE FALSE
    <3>1. PICK i \in DOMAIN R : x = R[i].event BY <1>13, <2>1
    <3> QED BY <1>5, <1>9, <2>1, <3>1
  <2> QED BY <2>1
<1>16. DOMAIN R = 1 .. Len(R) /\ Len(R) \in Nat
  BY <1>5, LenProperties DEF EventRequests
<1>17. IsFiniteSet(M) /\ Cardinality(M) = Len(R)
  <2> DEFINE f == [i \in DOMAIN R |-> R[i].event]
  <2>1. f \in Surjection(DOMAIN R, M) BY <1>13 DEF Surjection
  <2>2. f \in [DOMAIN R -> M] BY <1>13
  <2>3. \A i, j \in DOMAIN R : f[i] = f[j] => i = j BY <1>5
  <2>4. IsFiniteSet(DOMAIN R) /\ Cardinality(DOMAIN R) = Len(R)
    BY ONLY <1>16, UpTo
  <2> HIDE DEF f
  <2>5. f \in Injection(DOMAIN R, M) BY <2>2, <2>3 DEF Injection, IsInjective
  <2> QED BY <2>1, <2>4, <2>5, FS_Surjection
<1>18. IsFiniteSet(Pending(o)) BY PendingFinite
<1>19. PICK P : P = Pending(o)' BY Zenon
<1>20. IsFiniteSet(P) /\ Cardinality(P) \in Nat
  <2>1. P \in SUBSET Pending(o) BY <1>14, <1>19
  <2> QED BY <1>18, <2>1, FS_Subset, FS_CardinalityType
<1>21. Cardinality(P \cup M) = Cardinality(P) + Len(R)
  <2>1. P \cap M = {} BY <1>15, <1>19
  <2>2. Cardinality(P \cup M) = Cardinality(P) + Cardinality(M) - Cardinality(P \cap M)
    BY <1>17, <1>20, FS_Union
  <2>3. Cardinality(P \cap M) = 0 BY <2>1, FS_EmptySet
  <2> QED BY ONLY <1>16, <1>17, <1>20, <2>2, <2>3
<1>22. Cardinality(Pending(o)) = Cardinality(Pending(o)') + Len(R)
  BY <1>14, <1>19, <1>21
<1> QED BY <1>1, <1>3, <1>12, <1>19, <1>20, <1>22 DEF b

(* A group under drop-new settings fits: what was admitted was counted.      *)
LEMMA GroupFits ==
    ASSUME CountInv, NEW g \in Groups, Members(writer.batch, g) # <<>>, Active,
           StoresGroup(g)
    PROVE  Fit(g) = Len(Members(writer.batch, g))
<1>1. ShapeInv /\ ForceInv BY CountParts
<1>2. PICK o \in Owners : o = g.owner BY DEF Groups
<1>3. UniqueOK(o) /\ CountOK(o) BY CountParts
<1>4. queue' = queue /\ writer'.batch = Others(writer.batch, g)
  BY <1>1, WriterParts DEF StoresGroup, Goes
<1>5. PICK R : R = Members(writer.batch, g) BY Zenon
<1>6. op[o].step \notin FlushedSteps /\ g.settings = chosen[o]
  BY <1>1, <1>2, GroupInForce
<1>7. ~Behind(o) BY <1>6 DEF Behind, FlushedSteps
<1>8. CASE ~DropsNew(o) BY <1>6, <1>8 DEF DropsNew, Fit
<1>9. CASE DropsNew(o)
  <2>1. /\ Cardinality(Pending(o)) = Cardinality(Pending(o)') + Len(R)
        /\ Cardinality(Pending(o)') \in Nat
    BY <1>1, <1>2, <1>3, <1>4, <1>5, GroupLeaves
  <2>2. PICK n \in Nat, k \in Nat, left \in Nat, r \in Nat :
            /\ n = Cardinality(rows[o]) /\ k = Cardinality(Pending(o))
            /\ left = Cardinality(Pending(o)') /\ r = Len(R)
    BY <1>1, <1>5, <2>1, CountsTyped, FitTyped
  <2>3. k = left + r BY <2>1, <2>2
  <2>4. n + k <= chosen[o].max /\ chosen[o].max \in Nat
    BY <1>1, <1>3, <1>9, <2>2, CountsTyped DEF CountOK, Taken
  <2>5. GroupCount(g) = n
    BY <1>2, <1>3, <1>7, <2>2 DEF CountOK, GroupCount
  <2>6. g.settings.policy = "drop_new" /\ g.settings.max = chosen[o].max
    BY <1>6, <1>9 DEF DropsNew
  <2>7. Fit(g) = Lower(r, IF chosen[o].max > n THEN chosen[o].max - n ELSE 0)
    BY <1>5, <2>2, <2>5, <2>6 DEF Fit, Room
  <2>8. Fit(g) = r BY <2>3, <2>4, <2>7 DEF Lower
  <2> QED BY <1>5, <2>2, <2>8
<1> QED BY <1>8, <1>9

LEMMA StoresCount ==
    ASSUME CountInv, NEW g \in Groups, Members(writer.batch, g) # <<>>, Active,
           StoresGroup(g), UNCHANGED <<op, configured, chosen, admitted>>
    PROVE  \A p \in Owners : CountOK(p)'
<1>1. /\ ShapeInv /\ rows \in [Owners -> SUBSET Row]
      /\ counts \in [Owners -> Nat \cup {None}]
      /\ writer = [step |-> writer.step, batch |-> writer.batch,
                    barrier |-> writer.barrier, trim |-> writer.trim]
  BY CountParts, WriterParts DEF ShapeInv, BusTyped
<1>2. PICK o \in Owners : o = g.owner BY DEF Groups
<1>3. UniqueOK(o) /\ CountOK(o) /\ ForceInv BY CountParts
<1>4. /\ queue' = queue /\ writer'.batch = Others(writer.batch, g)
      /\ disabled' = disabled
  BY <1>1 DEF StoresGroup, Goes
<1>5. Active' BY <1>4 DEF Active
<1>6. PICK R : R = Members(writer.batch, g) BY Zenon
<1>7. PICK T : T = rows[o] BY Zenon
<1>8. PICK N : N = NewRows(T, R, Fit(g), 0) BY Zenon
<1>9. rows'[o] = T \cup N /\ \A p \in Owners \ {o} : rows'[p] = rows[p]
  BY <1>1, <1>2, <1>6, <1>7, <1>8 DEF StoresGroup
<1>10. counts' = IF g.settings.policy = "drop_new"
                 THEN [counts EXCEPT ![o] = GroupCount(g) + Fit(g)] ELSE counts
  BY <1>2 DEF StoresGroup
<1>11. /\ \A p : p # o => Pending(p)' = Pending(p)
       /\ Cardinality(Pending(o)) = Cardinality(Pending(o)') + Len(R)
       /\ Cardinality(Pending(o)') \in Nat
  BY <1>1, <1>2, <1>3, <1>4, <1>6, GroupLeaves
<1>12. ASSUME NEW p \in Owners \ {o} PROVE CountOK(p)'
  <2>1. counts'[p] = counts[p] BY <1>1, <1>10
  <2>2. Behind(p)' = Behind(p) BY DEF Behind
  <2>3. Counted(p) BY <1>5, <1>9, <1>11, <2>1, <2>2 DEF Counted
  <2> QED BY <2>3, CountParts, CountedKeeps
<1>13. op[o].step \notin FlushedSteps /\ g.settings = chosen[o]
  BY <1>2, <1>3, GroupInForce
<1>14. ~Behind(o) BY <1>13 DEF Behind, FlushedSteps
<1>15. chosen'[o] = chosen[o] /\ DropsNew(o)' = DropsNew(o) /\ admitted'[o] = admitted[o]
  BY DEF DropsNew
<1>16. CASE ~DropsNew(o)
  <2>1. admitted[o] = None /\ counts[o] = None
    BY <1>3, <1>14, <1>16 DEF CountOK
  <2>2. counts'[o] = None BY <1>10, <1>13, <1>16, <2>1 DEF DropsNew
  <2>3. CountOK(o)' BY <1>15, <1>16, <2>1, <2>2 DEF CountOK
  <2> QED BY <1>12, <2>3
<1>17. CASE DropsNew(o)
  <2>1. PICK n \in Nat, k \in Nat, left \in Nat, r \in Nat :
            /\ n = Cardinality(T) /\ k = Cardinality(Pending(o))
            /\ left = Cardinality(Pending(o)') /\ r = Len(R)
    BY <1>1, <1>6, <1>7, <1>11, CountsTyped, FitTyped
  <2>2. k = left + r BY <1>11, <2>1
  <2>3. n + k <= chosen[o].max /\ chosen[o].max \in Nat
    BY <1>1, <1>3, <1>7, <1>17, <2>1, CountsTyped DEF CountOK, Taken
  <2>4. GroupCount(g) = n
    BY <1>2, <1>3, <1>7, <1>14, <2>1 DEF CountOK, GroupCount
  <2>5. Fit(g) = r BY <1>6, <2>1, GroupFits
  <2>6. R \in EventRequests BY <1>1, <1>2, <1>3, <1>6, MembersOnce
  <2>7. T \in SUBSET Row /\ IsFiniteSet(T) BY <1>1, <1>7, CountsTyped
  <2>8. (\A x \in N : x.key > TopKey(T)) /\ Cardinality(N) = r
    BY <1>8, <2>1, <2>5, <2>6, <2>7, NewRowsAre
  <2>9. IsFiniteSet(N)
    <3>1. R \in Seq(Messages) /\ \A i \in DOMAIN R : R[i].type = "event"
      BY <2>6 DEF EventRequests
    <3>2. 0 \in Nat OBVIOUS
    <3> QED BY <1>8, <2>5, <2>7, <3>1, <3>2, NewRowsTyped
  <2>10. T \cap N = {}
    <3>1. TopKey(T) \in Nat /\ \A x \in T : x.key <= TopKey(T) /\ x.key \in Nat
      BY <2>7, TopKeyIsTop DEF Row
    <3> QED BY <2>8, <3>1
  <2>11. Cardinality(T \cup N) = n + r
    <3>1. Cardinality(T \cup N) = Cardinality(T) + Cardinality(N) - Cardinality(T \cap N)
      BY <2>7, <2>9, FS_Union
    <3>2. Cardinality(T \cap N) = 0 BY <2>10, FS_EmptySet
    <3> QED BY ONLY <2>1, <2>8, <3>1, <3>2
  <2>12. counts'[o] = n + r
    BY <1>1, <1>10, <1>13, <1>17, <2>4, <2>5 DEF DropsNew
  <2>13. Cardinality(rows'[o]) = n + r /\ Taken(o)' = (n + r) + left
    BY <1>9, <2>1, <2>11 DEF Taken
  <2>14. admitted[o] # None
    <3>1. R # <<>> BY <1>6
    <3>2. r # 0 BY <2>1, <2>6, <3>1, EmptySeq DEF EventRequests
    <3>3. k # 0 BY ONLY <2>2, <3>2, left \in Nat, r \in Nat
    <3>4. Pending(o) # {} BY <2>1, <3>3, FS_EmptySet
    <3> QED BY <1>3, <1>14, <1>17, <3>4 DEF CountOK
  <2>15. admitted[o] = n + k
    BY <1>3, <1>7, <1>14, <2>1, <2>14 DEF CountOK, Taken
  <2>16. /\ n + r <= chosen[o].max /\ (n + r) + left <= chosen[o].max
         /\ n + k = (n + r) + left
    BY <2>2, <2>3
  <2>17. CountOK(o)'
    BY <1>15, <1>17, <2>12, <2>13, <2>14, <2>15, <2>16 DEF CountOK
  <2> QED BY <1>12, <2>17
<1> QED BY <1>16, <1>17

(* A trim that takes place.                                                  *)
Trims ==
    /\ writer.trim # None
    /\ rows' = [rows EXCEPT ![writer.trim.owner] =
                    Trimmed(@, writer.trim.settings.max)]
    /\ writer' = [writer EXCEPT !.trim = None]
    /\ UNCHANGED <<disabled, queue, op, history, configured, chosen, admitted, counts>>

LEMMA TrimIs ==
    ASSUME ShapeInv, Trims
    PROVE  \E o \in Owners :
             /\ o = writer.trim.owner /\ writer.trim \in Groups
             /\ \A p : Pending(p)' = Pending(p)
             /\ \A p \in Owners \ {o} : rows'[p] = rows[p]
             /\ rows'[o] = Trimmed(rows[o], writer.trim.settings.max)
             /\ rows'[o] \in SUBSET rows[o]
<1>1. /\ rows \in [Owners -> SUBSET Row] /\ writer.trim \in Groups
      /\ writer = [step |-> writer.step, batch |-> writer.batch,
                    barrier |-> writer.barrier, trim |-> writer.trim]
  BY WriterParts DEF ShapeInv, BusTyped, Trims
<1>2. PICK o \in Owners : o = writer.trim.owner BY <1>1 DEF Groups
<1>3. writer'.batch = writer.batch /\ queue' = queue BY <1>1 DEF Trims
<1>4. \A p : Pending(p)' = Pending(p) BY <1>3 DEF Pending
<1>5. /\ \A p \in Owners \ {o} : rows'[p] = rows[p]
      /\ rows'[o] = Trimmed(rows[o], writer.trim.settings.max)
  BY <1>1, <1>2 DEF Trims
<1>6. rows'[o] \in SUBSET rows[o] BY <1>5 DEF Trimmed
<1> QED BY <1>1, <1>2, <1>4, <1>5, <1>6

LEMMA TrimCount ==
    ASSUME CountInv, Trims
    PROVE  \A p \in Owners : CountOK(p)'
<1>1. ShapeInv BY CountParts
<1>2. PICK o \in Owners :
             /\ o = writer.trim.owner /\ writer.trim \in Groups
             /\ \A p : Pending(p)' = Pending(p)
             /\ \A p \in Owners \ {o} : rows'[p] = rows[p]
             /\ rows'[o] \in SUBSET rows[o]
  BY <1>1, TrimIs
<1>3. UNCHANGED <<op, configured, chosen, admitted, counts>> /\ writer.trim # None
  BY DEF Trims
<1>4. Active' = Active BY DEF Active, Trims
<1>5. ASSUME NEW p \in Owners \ {o} PROVE CountOK(p)'
  <2>1. Behind(p)' = Behind(p) BY <1>3 DEF Behind
  <2>2. Counted(p) BY <1>2, <1>3, <1>4, <2>1 DEF Counted
  <2> QED BY <2>2, CountParts, CountedKeeps
<1>6. CountOK(o) /\ ForceOK(o) BY CountParts
<1>7. Active => ~DropsNew(o) BY <1>2, <1>3, <1>6 DEF ForceOK, DropsNew
<1>8. DropsNew(o)' = DropsNew(o) /\ Behind(o)' = Behind(o)
  BY <1>3 DEF DropsNew, Behind
<1>9. DropsNew(o) => Cardinality(rows'[o]) <= chosen[o].max
  <2>1. IsFiniteSet(rows[o]) /\ Cardinality(rows[o]) \in Nat /\ chosen[o].max \in Nat
    BY <1>1, CountsTyped
  <2>2. Cardinality(rows'[o]) <= Cardinality(rows[o]) /\ Cardinality(rows'[o]) \in Nat
    BY <1>2, <2>1, FS_Subset, FS_CardinalityType
  <2>3. DropsNew(o) => Cardinality(rows[o]) <= chosen[o].max
    BY <1>6 DEF CountOK
  <2> QED BY <2>1, <2>2, <2>3
<1>10. CountOK(o)' BY <1>3, <1>4, <1>6, <1>7, <1>8, <1>9 DEF CountOK
<1> QED BY <1>5, <1>10

(* What the writer does: it hands on, stores a group, or trims.              *)
StoresOne ==
    /\ Active
    /\ \E g \in Groups : Members(writer.batch, g) # <<>> /\ StoresGroup(g)
    /\ UNCHANGED <<op, history, configured, chosen, admitted>>

LEMMA WritingMoves ==
    ASSUME OnceInv, Writing, FaultsKnown
    PROVE  HandsOn \/ StoresOne \/ Trims
<1>1. ShapeInv /\ \A p \in Owners : UniqueOK(p) BY DEF OnceInv, FinalInv
<1>2. /\ queue \in Seq(Messages) /\ writer.barrier \in Owners \cup {None}
      /\ writer = [step |-> writer.step, batch |-> writer.batch,
                   barrier |-> writer.barrier, trim |-> writer.trim]
      /\ (writer.step = "idle" => writer.batch = <<>>)
      /\ Active \in BOOLEAN
  BY <1>1, WriterParts, ActiveTyped
<1>3. ASSUME NEW b \in Owners \cup {None}, op' = Replied(b, Active), configured' = configured
      PROVE  \A p \in Owners : "apply" \in {op[p].step, op'[p].step} => op'[p] = op[p]
  <2>1. op \in [Owners -> Operation] BY <1>1 DEF ShapeInv, BusTyped
  <2>2. ASSUME NEW p \in Owners, op[p].step = "await"
        PROVE  op'[p] = op[p] \/ (op[p].step # "apply" /\ op'[p].step # "apply")
    <3>1. CASE p = b
      <4>1. op'[p] = IF Active THEN [op[p] EXCEPT !.step = "sql"] ELSE Idle
        BY <1>1, <1>2, <1>3, <2>2, <3>1, RepliedMoves
      <4>2. op[p] \in Operation BY <2>1
      <4>3. [op[p] EXCEPT !.step = "sql"].step = "sql" BY <4>2 DEF Operation
      <4>4. op'[p].step \in {"sql", "idle"} BY <4>1, <4>3 DEF Idle
      <4> QED BY <2>2, <4>4
    <3>2. CASE p # b BY <1>1, <1>2, <1>3, <3>2, RepliedMoves
    <3> QED BY <3>1, <3>2
  <2>3. \A p \in Owners : op[p].step # "await" => op'[p] = op[p]
    BY <1>1, <1>2, <1>3, RepliedMoves
  <2> QED BY <2>2, <2>3
<1>4. CASE WriterTake
  <2>1. /\ queue # <<>> /\ queue' = Tail(queue) /\ writer.batch = <<>>
        /\ UNCHANGED <<history, rows, configured, chosen, admitted, counts>>
        /\ (disabled => disabled')
    BY <1>2, <1>4 DEF WriterTake, latchVars, memoryVars, ghostVars, tableVars
  <2>2. Head(queue).owner \in Owners BY <1>2, <2>1, TailIs, MessageParts
  <2>3. \A p \in Owners : "apply" \in {op[p].step, op'[p].step} => op'[p] = op[p]
    <3>1. op' = op \/ op' = Replied(Head(queue).owner, Active)
      BY <1>4 DEF WriterTake
    <3> QED BY <1>3, <2>1, <2>2, <3>1
  <2>4. Active' => \/ Head(queue).type = "barrier" /\ writer' = writer
                   \/ writer'.batch = <<Head(queue)>>
    <3>1. configured' = configured BY <2>1
    <3>2. CASE Head(queue).type = "barrier" /\ writer' = writer BY <3>2
    <3>3. CASE ~Active /\ disabled' = disabled BY <3>1, <3>3 DEF Active
    <3>4. CASE writer' = [writer EXCEPT !.step = "collect", !.batch = <<Head(queue)>>]
      BY <1>2, <3>4
    <3>5. CASE disabled' = TRUE BY <3>5 DEF Active
    <3> QED BY <1>4, <3>2, <3>3, <3>4, <3>5 DEF WriterTake, latchVars
  <2>5. Append(<<>>, Head(queue)) = <<Head(queue)>> OBVIOUS
  <2>6. Active' => \A p : Pending(p)' = Pending(p)
    BY <1>1, <2>1, <2>4, <2>5, PassedOn
  <2> QED BY <2>1, <2>3, <2>6 DEF HandsOn
<1>5. CASE WriterCollect
  <2>1. /\ queue # <<>> /\ queue' = Tail(queue)
        /\ UNCHANGED <<history, rows, configured, chosen, admitted, counts, op, disabled>>
    BY <1>5 DEF WriterCollect, latchVars, memoryVars, ghostVars, tableVars
  <2>2. \/ writer'.batch = Append(writer.batch, Head(queue))
        \/ Head(queue).type # "event" /\ writer'.batch = writer.batch
    BY <1>2, <1>5 DEF WriterCollect
  <2>3. Head(queue).type \in {"event", "barrier"} BY <1>2, <2>1, TailIs, MessageParts
  <2>4. \A p : Pending(p)' = Pending(p) BY <1>1, <2>1, <2>2, <2>3, PassedOn
  <2> QED BY <2>1, <2>4 DEF HandsOn
<1>6. CASE WriterClose
  <2>1. UNCHANGED <<history, queue, rows, configured, chosen, admitted, counts, op, disabled>>
    BY <1>6 DEF WriterClose, latchVars, memoryVars, ghostVars, tableVars
  <2>2. writer'.batch = writer.batch BY <1>2, <1>6 DEF WriterClose
  <2>3. \A p : Pending(p)' = Pending(p) BY <2>1, <2>2 DEF Pending
  <2> QED BY <2>1, <2>3 DEF HandsOn
<1>7. CASE WriterGivesUp
  <2>1. /\ UNCHANGED <<history, queue, rows, configured, chosen, admitted, counts, op, disabled>>
        /\ ~Active
    BY <1>7 DEF WriterGivesUp, latchVars, memoryVars, ghostVars, tableVars
  <2>2. ~Active' BY <2>1 DEF Active
  <2> QED BY <2>1, <2>2 DEF HandsOn
<1>8. CASE WriterDone
  <2>1. /\ UNCHANGED <<history, queue, rows, configured, chosen, admitted, counts, disabled>>
        /\ writer.batch = <<>> /\ writer' = WriterIdle
        /\ op' = Replied(writer.barrier, Active)
    BY <1>8 DEF WriterDone, latchVars, memoryVars, ghostVars, tableVars
  <2>2. writer'.batch = writer.batch BY <2>1 DEF WriterIdle
  <2>3. \A p : Pending(p)' = Pending(p) BY <2>1, <2>2 DEF Pending
  <2>4. \A p \in Owners : "apply" \in {op[p].step, op'[p].step} => op'[p] = op[p]
    BY <1>2, <1>3, <2>1
  <2> QED BY <2>1, <2>3, <2>4 DEF HandsOn
<1>9. ASSUME NEW g \in Groups, PersistGroup(g)
      PROVE  HandsOn \/ StoresOne
  <2>1. /\ Members(writer.batch, g) # <<>> /\ Active
        /\ UNCHANGED <<history, admitted, op, ghostVars>>
    BY <1>9, PersistIs
  <2>2. UNCHANGED <<op, history, configured, chosen, admitted>> BY <2>1 DEF ghostVars
  <2>3. UniqueOK(g.owner) BY <1>1 DEF Groups
  <2>4. StoresGroup(g) \/ (Stops /\ UNCHANGED <<rows, counts>>)
    BY <1>1, <1>9, <2>3, StoresOnce
  <2>5. CASE Stops /\ UNCHANGED <<rows, counts>>
    <3>1. disabled' /\ ~Active' BY <2>5 DEF Stops, Active
    <3> QED BY <2>2, <2>5, <3>1 DEF HandsOn
  <2> QED BY <2>1, <2>2, <2>4, <2>5 DEF StoresOne
<1>10. ASSUME NEW o \in Owners, NEW s \in Settings \cup {DefaultSettings},
              PersistGroup([owner |-> o, settings |-> s])
       PROVE  HandsOn \/ StoresOne
  <2>1. [owner |-> o, settings |-> s] \in Groups BY BusConstants DEF Groups
  <2> QED BY <1>9, <1>10, <2>1
<1>11. CASE TrimGroup
  <2>1. UNCHANGED <<history, op, configured, chosen, admitted, counts>>
        /\ writer.trim # None
    BY <1>11 DEF TrimGroup, memoryVars, ghostVars
  <2>2. CASE Stop /\ rows' = rows
    <3>1. disabled' /\ ~Active' BY <2>2 DEF Stop, Active
    <3> QED BY <2>1, <2>2, <3>1 DEF HandsOn
  <2>3. CASE /\ rows' = [rows EXCEPT ![writer.trim.owner] =
                            Trimmed(@, writer.trim.settings.max)]
             /\ writer' = [writer EXCEPT !.trim = None] /\ UNCHANGED <<disabled, queue>>
    BY <2>1, <2>3 DEF Trims
  <2> QED BY <1>11, <2>2, <2>3 DEF TrimGroup
<1> QED BY <1>4, <1>5, <1>6, <1>7, <1>8, <1>10, <1>11 DEF Writing

LEMMA WritingCount ==
    ASSUME CountInv, Writing, FaultsKnown
    PROVE  \A p \in Owners : CountOK(p)'
<1>1. HandsOn \/ StoresOne \/ Trims BY CountParts, WritingMoves
<1>2. CASE StoresOne
  <2>1. PICK g \in Groups : Members(writer.batch, g) # <<>> /\ StoresGroup(g)
    BY <1>2 DEF StoresOne
  <2>2. Active /\ UNCHANGED <<op, configured, chosen, admitted>>
    BY <1>2 DEF StoresOne
  <2> QED BY <2>1, <2>2, StoresCount
<1> QED BY <1>1, <1>2, HandedCount, TrimCount

(* A restart finds the tables as the settings want them.                     *)
LEMMA RestartCount ==
    ASSUME CountInv, Restart
    PROVE  \A p \in Owners : CountOK(p)'
<1>1. ASSUME NEW p \in Owners PROVE CountOK(p)'
  <2>1. /\ queue' = <<>> /\ writer' = WriterIdle /\ rows' = rows /\ chosen' = chosen
        /\ admitted'[p] = None /\ counts'[p] = None
    BY DEF Restart, tableVars, ghostVars
  <2>2. DOMAIN queue' = {} /\ DOMAIN writer'.batch = {}
    BY <2>1 DEF WriterIdle
  <2>3. Pending(p)' = {} BY <2>2 DEF Pending, Requests
  <2>4. PICK n \in Nat : n = Cardinality(rows[p]) BY CountParts, CountsTyped
  <2>5. Cardinality(rows'[p]) = n /\ Taken(p)' = n
    BY <2>1, <2>3, <2>4, FS_EmptySet DEF Taken
  <2>6. DropsNew(p) => n <= chosen[p].max BY <2>4, CountParts DEF CountOK
  <2>7. DropsNew(p)' = DropsNew(p) /\ chosen'[p] = chosen[p] BY <2>1 DEF DropsNew
  <2> QED BY <2>1, <2>3, <2>5, <2>6, <2>7 DEF CountOK
<1> QED BY <1>1

LEMMA NextCount ==
    ASSUME CountInv, [Next]_busVars, FaultsKnown
    PROVE  \A p \in Owners : CountOK(p)'
<1>1. ASSUME UNCHANGED <<queue, writer, op, rows, disabled, configured, chosen, admitted>>,
             \A p \in Owners : counts'[p] \in {counts[p], None}
      PROVE  \A p \in Owners : CountOK(p)'
  <2>1. ASSUME NEW p \in Owners PROVE CountOK(p)'
    <3>1. Behind(p)' = Behind(p) BY <1>1 DEF Behind
    <3>2. Counted(p) BY <1>1, <3>1, CountParts, SameCounted
    <3> QED BY <3>2, CountParts, CountedKeeps
  <2> QED BY <2>1
<1>2. CASE UNCHANGED busVars
  <2>1. UNCHANGED <<queue, writer, op, rows, disabled, configured, chosen, admitted, counts>>
    BY <1>2 DEF busVars, memoryVars, latchVars, ghostVars, tableVars
  <2> QED BY <1>1, <2>1
<1>3. ASSUME NEW o \in Owners, ReadMiss(o) \/ ReadStore(o)
      PROVE  \A p \in Owners : CountOK(p)'
  <2>1. UNCHANGED <<queue, writer, op, rows, disabled, configured, chosen, admitted, counts>>
    BY <1>3 DEF ReadMiss, ReadStore, memoryVars, latchVars, ghostVars, tableVars
  <2> QED BY <1>1, <2>1
<1>4. ASSUME NEW o \in Owners, CountExpires(o)
      PROVE  \A p \in Owners : CountOK(p)'
  <2>1. /\ UNCHANGED <<queue, writer, op, rows, disabled, configured, chosen, admitted>>
        /\ counts' = [counts EXCEPT ![o] = None]
    BY <1>4 DEF CountExpires, latchVars, ghostVars, tableVars
  <2>2. counts \in [Owners -> Nat \cup {None}] BY CountParts DEF ShapeInv, BusTyped
  <2>3. \A p \in Owners : counts'[p] \in {counts[p], None} BY <2>1, <2>2
  <2> QED BY <1>1, <2>1, <2>3
<1> QED BY <1>2, <1>3, <1>4, PublishingCount, ProceedCount, WritingCount, RestartCount
        DEF Next

LEMMA CountInit == Init => CountInv
<1> SUFFICES ASSUME Init PROVE CountInv
  OBVIOUS
<1>1. FinalInv /\ OnceInv BY FinalInit, OnceInit DEF OnceInv
<1>2. SettingsInv BY SettingsInit
<1>3. ForceInv BY <1>1, <1>2, ForceInit DEF ForceInv
<1>4. ASSUME NEW p \in Owners PROVE CountOK(p)
  <2>1. /\ queue = <<>> /\ writer.batch = <<>> /\ rows[p] = {}
        /\ admitted[p] = None /\ counts[p] = None
    BY DEF Init, MemoryInit, WriterIdle
  <2>2. DOMAIN queue = {} /\ DOMAIN writer.batch = {} BY <2>1
  <2>3. Pending(p) = {} BY <2>2 DEF Pending, Requests
  <2>4. Cardinality(rows[p]) = 0 /\ Taken(p) = 0
    BY <2>1, <2>3, FS_EmptySet DEF Taken
  <2>5. 0 <= chosen[p].max BY <1>1, CountsTyped DEF FinalInv
  <2> QED BY <2>1, <2>3, <2>4, <2>5 DEF CountOK
<1> QED BY <1>3, <1>4 DEF CountInv

LEMMA CountStep ==
    ASSUME CountInv, [Next]_busVars, FaultsKnown
    PROVE  CountInv'
<1>1. FinalInv' BY CountParts, FinalStep, FinalStutter
<1>2. OnceInv' BY <1>1, CountParts, OnceStep DEF OnceInv
<1>3. SettingsInv' BY <1>1, CountParts, NextSettings DEF SettingsInv
<1>4. ForceInv' BY <1>2, <1>3, CountParts, NextForce DEF ForceInv
<1> QED BY <1>4, NextCount DEF CountInv

(* While storage is active the slots counted as taken are exactly the stored *)
(* and the pending events, whichever of the writer, a cancelled publisher or *)
(* a mutation moved last: every event on its way was admitted under the      *)
(* settings in force and is counted once, and behind a barrier there is none.*)
THEOREM AdmissionStaysExact ==
    ASSUME FaultsKnown
    PROVE  SafetySpec => []AdmissionIsExact
<1>1. CountInv => AdmissionIsExact
  BY CountParts DEF AdmissionIsExact, CountOK, Taken, Behind
<1> QED BY <1>1, CountInit, CountStep, PTL DEF SafetySpec

-----------------------------------------------------------------------------
(* Memory and tables.  What is on its way or stored and newer than a         *)
(* retained event is retained too, so the trim takes none of the retained.   *)
StoredEvents(o) == {r.event : r \in rows[o]}
Around(o) == Pending(o) \cup StoredEvents(o)

RetainedOK(o) ==
    Active =>
        /\ \A x \in Around(o), e \in Held(o) : x.id > e.id => x \in Held(o)
        /\ ~(Behind(o) /\ op[o].kind = "settings") =>
                Len(history[o]) <= chosen[o].max
        /\ ~Behind(o) => Held(o) \subseteq Around(o)
        /\ Behind(o) /\ op[o].kind = "delete" =>
                \A e \in Held(o) : e.kind \notin op[o].filter => e \in StoredEvents(o)
        /\ Behind(o) /\ op[o].kind = "settings" =>
                \A i \in DOMAIN history[o] :
                    i > Len(history[o]) - op[o].settings.max
                        => history[o][i] \in StoredEvents(o)

RetainInv == CountInv /\ UnreadInv /\ \A o \in Owners : RetainedOK(o)

(* What an operation that is behind carries stays what it is.                *)
SameErrand(x, y) == x.kind = y.kind /\ x.filter = y.filter /\ x.settings = y.settings

(* A step that keeps memory and tables as far apart as they were.            *)
Retains(p) ==
    Active' =>
        /\ Active /\ history'[p] = history[p] /\ chosen'[p] = chosen[p]
        /\ \A x \in Around(p)' : x \in Around(p)
        /\ \A x \in Around(p) : x \in Around(p)'
        /\ \A x \in StoredEvents(p) : x \in StoredEvents(p)'
        /\ Behind(p)' <=> Behind(p)
        /\ Behind(p) => SameErrand(op'[p], op[p])

LEMMA RetainsKeeps ==
    ASSUME NEW p, RetainedOK(p), Retains(p)
    PROVE  RetainedOK(p)'
<1> SUFFICES ASSUME Active' PROVE RetainedOK(p)'
  BY DEF RetainedOK
<1>1. PICK h, H, A, S : /\ h = history[p] /\ H = Held(p) /\ A = Around(p)
                        /\ S = StoredEvents(p)
  OBVIOUS
<1>2. PICK A2, S2 : A2 = Around(p)' /\ S2 = StoredEvents(p)'
  OBVIOUS
<1>3. Active /\ history'[p] = h /\ Held(p)' = H BY <1>1 DEF Retains, Held
<1>4. (\A x \in A2 : x \in A) /\ (\A x \in A : x \in A2) /\ \A x \in S : x \in S2
  BY <1>1, <1>2 DEF Retains
<1>5. \A x \in A, e \in H : x.id > e.id => x \in H BY <1>1, <1>3 DEF RetainedOK
<1>6. /\ chosen'[p] = chosen[p] /\ (Behind(p)' <=> Behind(p))
      /\ Behind(p) => SameErrand(op'[p], op[p])
  BY DEF Retains
<1>7. \A x \in A2, e \in H : x.id > e.id => x \in H BY <1>4, <1>5
<1>8. ~(Behind(p)' /\ op'[p].kind = "settings") => Len(h) <= chosen'[p].max
  BY <1>1, <1>3, <1>6 DEF RetainedOK, SameErrand
<1>9. ~Behind(p)' => H \subseteq A2
  BY <1>1, <1>3, <1>4, <1>6 DEF RetainedOK
<1>10. Behind(p)' /\ op'[p].kind = "delete" =>
            \A e \in H : e.kind \notin op'[p].filter => e \in S2
  BY <1>1, <1>3, <1>4, <1>6 DEF RetainedOK, SameErrand
<1>11. Behind(p)' /\ op'[p].kind = "settings" =>
            \A i \in DOMAIN h : i > Len(h) - op'[p].settings.max => h[i] \in S2
  BY <1>1, <1>3, <1>4, <1>6 DEF RetainedOK, SameErrand
<1> QED BY <1>2, <1>3, <1>7, <1>8, <1>9, <1>10, <1>11 DEF RetainedOK

LEMMA RetainParts ==
    ASSUME RetainInv
    PROVE  /\ CountInv /\ ForceInv /\ FinalInv /\ ShapeInv /\ UnreadInv
           /\ \A o \in Owners : /\ RetainedOK(o) /\ CountOK(o) /\ ForceOK(o)
                                /\ StepOK(o) /\ SettingsOK(o) /\ UniqueOK(o)
                                /\ RowsOK(o) /\ OwnerOK(o) /\ UnreadOK(o)
BY CountParts DEF RetainInv, UnreadInv

(* Steps that leave history, tables, queue and batch alone.                  *)
LEMMA StillRetains ==
    ASSUME ShapeInv, NEW p \in Owners, history' = history, queue' = queue,
           writer'.batch = writer.batch, rows' = rows,
           UNCHANGED <<configured, chosen>>, disabled => disabled',
           Active' => (Behind(p)' <=> Behind(p)),
           Active' /\ Behind(p) => SameErrand(op'[p], op[p])
    PROVE  Retains(p)
<1>1. disabled \in BOOLEAN BY DEF ShapeInv, BusTyped
<1>2. Pending(p)' = Pending(p) BY DEF Pending
<1>3. StoredEvents(p)' = StoredEvents(p) BY DEF StoredEvents
<1>4. Around(p)' = Around(p) BY <1>2, <1>3 DEF Around
<1> QED BY <1>1, <1>3, <1>4 DEF Retains, Active

LEMMA OpRetains ==
    ASSUME RetainInv, NEW o \in Owners, NEW x, op' = [op EXCEPT ![o] = x],
           history' = history, queue' = queue, writer' = writer, rows' = rows,
           UNCHANGED <<configured, chosen>>, disabled => disabled',
           \/ ~Active'
           \/ ~Behind(o) /\ (x.step = "apply" => x.kind = "read")
           \/ x.step = op[o].step /\ SameErrand(x, op[o])
    PROVE  \A p \in Owners : RetainedOK(p)'
<1>1. ShapeInv /\ op \in [Owners -> Operation]
  BY RetainParts DEF ShapeInv, BusTyped
<1>2. op'[o] = x /\ \A p \in Owners \ {o} : op'[p] = op[p] BY <1>1
<1>3. ASSUME NEW p \in Owners PROVE RetainedOK(p)'
  <2>1. /\ Active' => (Behind(p)' <=> Behind(p))
        /\ Active' /\ Behind(p) => SameErrand(op'[p], op[p])
    <3>1. CASE p # o BY <1>2, <3>1 DEF Behind, SameErrand
    <3>2. CASE p = o BY <1>2, <3>2 DEF Behind, SameErrand
    <3> QED BY <3>1, <3>2
  <2>2. Retains(p) BY <1>1, <2>1, StillRetains
  <2> QED BY <2>2, RetainParts, RetainsKeeps
<1> QED BY <1>3

LEMMA PublishingRetains ==
    ASSUME RetainInv, NEW o \in Owners, Publishing(o) \/ Mutating(o)
    PROVE  \A p \in Owners : RetainedOK(p)'
<1>1. ShapeInv /\ op[o] \in Operation /\ OpOK(o)
      /\ (op[o].kind = "publish" <=> op[o].step \in PublishSteps)
  BY RetainParts, OpParts
<1>2. UNCHANGED <<history, queue, writer, rows, disabled, configured, chosen>>
  BY DEF Publishing, Mutating, StartPublish, CancelPublish, StartMutation,
         CallerLeaves, memoryVars, latchVars, ghostVars, tableVars
<1>3. ASSUME NEW x, op' = [op EXCEPT ![o] = x],
             \/ ~Active'
             \/ ~Behind(o) /\ (x.step = "apply" => x.kind = "read")
             \/ x.step = op[o].step /\ SameErrand(x, op[o])
      PROVE  \A p \in Owners : RetainedOK(p)'
  BY <1>2, <1>3, OpRetains
<1>4. ~configured => ~Active' BY <1>2 DEF Active
<1>5. Idle.step # "apply" BY DEF Idle
<1>6. CASE CancelPublish(o)
  <2>1. op' = [op EXCEPT ![o] = Idle] /\ op[o].step \in PublishSteps
    BY <1>1, <1>6 DEF CancelPublish
  <2>2. ~Behind(o) BY <2>1 DEF PublishSteps, Behind
  <2> QED BY <1>3, <1>5, <2>1, <2>2
<1>7. CASE CallerLeaves(o)
  <2>1. \/ op' = [op EXCEPT ![o] = Idle] /\ ~configured
        \/ op' = [op EXCEPT ![o] = [op[o] EXCEPT !.waiting = FALSE]]
    BY <1>7 DEF CallerLeaves
  <2>2. /\ [op[o] EXCEPT !.waiting = FALSE].step = op[o].step
        /\ SameErrand([op[o] EXCEPT !.waiting = FALSE], op[o])
    BY <1>1 DEF Operation, SameErrand
  <2>3. CASE op' = [op EXCEPT ![o] = Idle] /\ ~configured BY <1>3, <1>4, <1>5, <2>3
  <2>4. CASE op' = [op EXCEPT ![o] = [op[o] EXCEPT !.waiting = FALSE]]
    BY <1>3, <2>2, <2>4
  <2> QED BY <2>1, <2>3, <2>4
<1>8. ASSUME NEW kind, NEW at, StartPublish(o, kind, at)
      PROVE  \A p \in Owners : RetainedOK(p)'
  <2>1. PICK x : /\ op' = [op EXCEPT ![o] = x]
                 /\ x = [Idle EXCEPT !.kind = "publish", !.step = "load",
                             !.event = [id |-> published', at |-> at, kind |-> kind]]
    BY <1>8 DEF StartPublish
  <2>2. x.step = "load" BY <2>1 DEF Idle
  <2>3. ~Behind(o) BY <1>8 DEF StartPublish, Behind, Idle
  <2> QED BY <1>3, <2>1, <2>2, <2>3
<1>9. ASSUME NEW kind, NEW filter, NEW settings, StartMutation(o, kind, filter, settings)
      PROVE  \A p \in Owners : RetainedOK(p)'
  <2>1. PICK x : /\ op' = [op EXCEPT ![o] = x]
                 /\ x = [Idle EXCEPT !.kind = kind, !.filter = filter,
                             !.settings = settings, !.waiting = TRUE,
                             !.step = IF configured THEN "flush" ELSE "apply"]
    BY <1>9 DEF StartMutation
  <2>2. x.step = IF configured THEN "flush" ELSE "apply" BY <2>1 DEF Idle
  <2>3. ~Behind(o) BY <1>9 DEF StartMutation, Behind, Idle
  <2>4. x.step = "apply" => ~configured BY <2>2
  <2>5. x.step = "apply" => ~Active' BY <2>4, <1>4
  <2> QED BY <1>3, <2>1, <2>3, <2>5
<1> QED BY <1>6, <1>7, <1>8, <1>9 DEF Publishing, Mutating

(* The trim takes the oldest events: one that at most m - 1 retained events  *)
(* follow stays, if what is stored and newer is retained too.  Without skew  *)
(* the order of the timestamps is that of the publications.                  *)
LEMMA TrimKeeps ==
    ASSUME Skew = 0, NEW T \in SUBSET Row, IsFiniteSet(T),
           \A r, s \in T : r.event.id = s.event.id => r = s,
           NEW h \in Seq(Events), \A i, j \in DOMAIN h : i < j => h[i].id < h[j].id,
           NEW m \in Nat, NEW i \in DOMAIN h, Len(h) - i < m,
           NEW r \in T, r.event = h[i],
           \A s \in T : s.event.id > h[i].id => \E j \in DOMAIN h : s.event = h[j]
    PROVE  r \in Trimmed(T, m)
<1> DEFINE N == {s \in T : Newer(s, r)}
           f == [s \in N |-> CHOOSE j \in DOMAIN h : s.event = h[j]]
<1>1. /\ DOMAIN h = 1 .. Len(h) /\ Len(h) \in Nat /\ i \in Nat
      /\ \A j \in DOMAIN h : j \in Int /\ h[j] \in Events
  BY LenProperties, ElementOfSeq
<1>2. \A e \in Events : e.id \in Nat /\ e.at \in Int /\ e.at = e.id
  <2>1. ASSUME NEW e \in Events PROVE e.id \in Nat /\ e.at \in Int /\ e.at = e.id
    <3>1. e.id \in Nat /\ e.at \in Int /\ e.at <= e.id /\ e.id - Skew <= e.at
      BY DEF Events
    <3> QED BY <3>1
  <2> QED BY <2>1
<1>3. \A s \in T : s.event \in Events /\ s.key \in Nat BY DEF Row
<1>4. \A s \in N : s \in T /\ s.event.id > h[i].id
  <2>1. ASSUME NEW s \in N PROVE s.event.id > h[i].id
    <3>1. s \in T /\ Newer(s, r) OBVIOUS
    <3>2. PICK a \in Nat, b \in Nat : a = s.event.id /\ b = r.event.id
      BY <1>2, <1>3, <3>1
    <3>3. s.event.at = a /\ r.event.at = b BY <1>2, <1>3, <3>1, <3>2
    <3>4. a > b \/ (a = b /\ s.key > r.key) BY <3>1, <3>3 DEF Newer
    <3>5. a = b => s = r BY <3>1, <3>2
    <3>6. s = r => ~(s.key > r.key) BY <1>3
    <3> QED BY <3>2, <3>4, <3>5, <3>6
  <2> QED BY <2>1
<1>5. \A s \in N : /\ f[s] \in DOMAIN h /\ s.event = h[f[s]]
                   /\ f[s] \in i + 1 .. Len(h)
  <2>1. ASSUME NEW s \in N
        PROVE  /\ f[s] \in DOMAIN h /\ s.event = h[f[s]]
               /\ f[s] \in i + 1 .. Len(h)
    <3>1. \E j \in DOMAIN h : s.event = h[j] BY <1>4
    <3>2. f[s] \in DOMAIN h /\ s.event = h[f[s]] BY <3>1
    <3>3. PICK j \in DOMAIN h : j = f[s] BY <3>2
    <3>4. h[j].id > h[i].id /\ h[j].id \in Nat /\ h[i].id \in Nat
      BY <1>1, <1>2, <1>4, <3>2, <3>3
    <3>5. ~(j < i) /\ j # i BY <3>4
    <3>6. j \in i + 1 .. Len(h) BY <1>1, <3>5
    <3> QED BY <3>2, <3>3, <3>6
  <2> QED BY <2>1
<1>6. \A s, t \in N : f[s] = f[t] => s = t
  <2>1. ASSUME NEW s \in N, NEW t \in N, f[s] = f[t] PROVE s = t
    <3>1. s.event = h[f[s]] /\ t.event = h[f[t]] BY <1>5
    <3>2. s.event.id = t.event.id BY <2>1, <3>1
    <3> QED BY <1>4, <3>2
  <2> QED BY <2>1
<1>7. Cardinality(N) <= Len(h) - i
  <2>1. f \in Injection(N, i + 1 .. Len(h))
    BY <1>5, <1>6 DEF Injection, IsInjective
  <2>2. IsFiniteSet(i + 1 .. Len(h)) /\ Cardinality(i + 1 .. Len(h)) = Len(h) - i
    <3>1. i + 1 \in Int /\ Len(h) \in Int /\ i <= Len(h) BY <1>1
    <3>2. IsFiniteSet(i + 1 .. Len(h)) /\ Cardinality(i + 1 .. Len(h)) =
            IF i + 1 > Len(h) THEN 0 ELSE Len(h) - (i + 1) + 1
      BY <3>1, FS_Interval
    <3> QED BY <1>1, <3>1, <3>2
  <2> HIDE DEF N, f
  <2> QED BY <2>1, <2>2, FS_Injection
<1>8. Cardinality(N) \in Nat
  <2>1. N \in SUBSET T OBVIOUS
  <2> HIDE DEF N
  <2> QED BY <2>1, FS_Subset, FS_CardinalityType
<1>9. Cardinality(N) < m
  <2> HIDE DEF N
  <2> QED BY <1>1, <1>7, <1>8
<1> QED BY <1>9 DEF Trimmed

(* A stored group only changes sides.                                        *)
LEMMA StoresAround ==
    ASSUME CountInv, NEW g \in Groups, Members(writer.batch, g) # <<>>, Active,
           StoresGroup(g), NEW p \in Owners
    PROVE  /\ \A x \in Around(p)' : x \in Around(p)
           /\ \A x \in Around(p) : x \in Around(p)'
           /\ \A x \in StoredEvents(p) : x \in StoredEvents(p)'
<1>1. /\ ShapeInv /\ rows \in [Owners -> SUBSET Row] /\ writer.batch \in Seq(Messages)
      /\ queue' = queue /\ writer'.batch = Others(writer.batch, g)
  BY CountParts, WriterParts DEF ShapeInv, BusTyped, StoresGroup, Goes
<1>2. PICK o \in Owners : o = g.owner BY DEF Groups
<1>3. UniqueOK(o) /\ UniqueOK(p) BY CountParts
<1>4. \A x \in Pending(p)' : x \in Pending(p)
  <2>1. Handed BY <1>1 DEF Handed
  <2> QED BY <1>1, <1>3, <2>1, HandedOnce
<1>5. CASE p # o
  <2>1. Pending(p)' = Pending(p) BY <1>1, <1>2, <1>3, <1>5, GroupLeaves
  <2>2. rows'[p] = rows[p] BY <1>1, <1>2, <1>5 DEF StoresGroup
  <2>3. StoredEvents(p)' = StoredEvents(p) BY <2>2 DEF StoredEvents
  <2> QED BY <2>1, <2>3 DEF Around
<1>6. CASE p = o
  <2>1. PICK b \in Seq(Messages) : b = writer.batch BY <1>1
  <2>2. PICK R : R = Members(b, g) BY Zenon
  <2>3. PICK N : N = NewRows(rows[p], R, Len(R), 0) BY Zenon
  <2>4. rows'[p] = rows[p] \cup N
    <3>1. Fit(g) = Len(R) BY <2>1, <2>2, GroupFits
    <3> QED BY <1>1, <1>2, <1>6, <2>1, <2>2, <2>3, <3>1 DEF StoresGroup
  <2>5. /\ R \in EventRequests
        /\ \A i \in DOMAIN R : R[i].event \in Pending(p)
    BY <1>1, <1>2, <1>3, <1>6, <2>1, <2>2, MembersOnce
  <2>6. rows[p] \in SUBSET Row /\ IsFiniteSet(rows[p]) BY <1>1, CountsTyped
  <2>7. Len(R) \in Nat BY <2>5, LenProperties DEF EventRequests
  <2>8. \A i \in DOMAIN R : \E r \in N : r.event = R[i].event
    BY <2>3, <2>5, <2>6, <2>7, NewRowsAre
  <2>9. \A r \in N : \E i \in DOMAIN R : r.event = R[i].event
    <3>1. R \in Seq(Messages) /\ \A i \in DOMAIN R : R[i].type = "event"
      BY <2>5 DEF EventRequests
    <3>2. 0 \in Nat OBVIOUS
    <3> QED BY <2>3, <2>6, <2>7, <3>1, <3>2, NewRowsTyped
  <2>10. \A x \in StoredEvents(p) : x \in StoredEvents(p)'
    BY <2>4 DEF StoredEvents
  <2>11. \A x \in StoredEvents(p)' : x \in Around(p)
    <3>1. ASSUME NEW r \in rows'[p] PROVE r.event \in Around(p)
      <4>1. CASE r \in rows[p] BY <4>1 DEF Around, StoredEvents
      <4>2. CASE r \in N
        <5>1. r.event \in Pending(p) BY <2>5, <2>9, <4>2
        <5> QED BY <5>1 DEF Around
      <4> QED BY <2>4, <4>1, <4>2
    <3> QED BY <3>1 DEF StoredEvents
  <2>12. ASSUME NEW i \in DOMAIN b
         PROVE  \/ \E j \in DOMAIN R : R[j] = b[i]
                \/ \E j \in DOMAIN Others(b, g) : Others(b, g)[j] = b[i]
    <3>1. CASE GroupOf(b[i]) = g
      <4>1. PICK P \in SUBSET (DOMAIN b) : P = {k \in DOMAIN b : GroupOf(b[k]) = g}
        OBVIOUS
      <4>2. i \in P /\ R = Picked(b, P) BY <2>2, <3>1, <4>1 DEF Members
      <4>3. Place(P, i) \in DOMAIN R /\ R[Place(P, i)] = b[i]
        BY <2>1, <4>2, PickedIs
      <4> QED BY <4>3
    <3>2. CASE GroupOf(b[i]) # g
      <4>1. PICK P \in SUBSET (DOMAIN b) : P = {k \in DOMAIN b : GroupOf(b[k]) # g}
        OBVIOUS
      <4>2. i \in P /\ Others(b, g) = Picked(b, P) BY <3>2, <4>1 DEF Others
      <4>3. Place(P, i) \in DOMAIN Others(b, g) /\ Others(b, g)[Place(P, i)] = b[i]
        BY <2>1, <4>2, PickedIs
      <4> QED BY <4>3
    <3> QED BY <3>1, <3>2
  <2>13. ASSUME NEW x \in Pending(p) PROVE x \in Pending(p)' \/ x \in StoredEvents(p)'
    <3>1. ASSUME NEW i \in DOMAIN queue, queue[i].type = "event", queue[i].owner = p,
                 x = queue[i].event
          PROVE  x \in Pending(p)'
      BY <1>1, <3>1 DEF Pending, Requests
    <3>2. ASSUME NEW i \in DOMAIN b, b[i].type = "event", b[i].owner = p,
                 x = b[i].event
          PROVE  x \in Pending(p)' \/ x \in StoredEvents(p)'
      <4>1. CASE \E j \in DOMAIN R : R[j] = b[i]
        <5>1. \E r \in N : r.event = x BY <2>8, <3>2, <4>1
        <5> QED BY <2>4, <5>1 DEF StoredEvents
      <4>2. CASE \E j \in DOMAIN Others(b, g) : Others(b, g)[j] = b[i]
        <5>1. PICK j \in DOMAIN Others(b, g) : Others(b, g)[j] = b[i] BY <4>2
        <5>2. j \in DOMAIN writer'.batch /\ writer'.batch[j] = b[i] BY <1>1, <2>1, <5>1
        <5>3. x \in Pending(p)' BY <3>2, <5>2 DEF Pending, Requests
        <5> QED BY <5>3
      <4> QED BY <2>12, <4>1, <4>2
    <3> QED BY <2>1, <3>1, <3>2, PendingIs
  <2>14. \A x \in Around(p)' : x \in Around(p) BY <1>4, <2>11 DEF Around
  <2>15. \A x \in Around(p) : x \in Around(p)' BY <2>10, <2>13 DEF Around
  <2> QED BY <2>10, <2>14, <2>15
<1> QED BY <1>5, <1>6

(* The trim leaves every retained event where it is: the limit is that of    *)
(* the settings in force, and no more than that many are retained.           *)
LEMMA TrimRetains ==
    ASSUME RetainInv, Skew = 0, Trims
    PROVE  \A p \in Owners : RetainedOK(p)'
<1>1. ShapeInv BY RetainParts
<1>2. PICK o \in Owners :
             /\ o = writer.trim.owner /\ writer.trim \in Groups
             /\ \A p : Pending(p)' = Pending(p)
             /\ \A p \in Owners \ {o} : rows'[p] = rows[p]
             /\ rows'[o] = Trimmed(rows[o], writer.trim.settings.max)
             /\ rows'[o] \in SUBSET rows[o]
  BY <1>1, TrimIs
<1>3. UNCHANGED <<history, op, configured, chosen, disabled>> /\ writer.trim # None
  BY DEF Trims
<1>4. Active' = Active /\ \A p : Behind(p)' = Behind(p) BY <1>3 DEF Active, Behind
<1>5. \A p : Held(p)' = Held(p) BY <1>3 DEF Held
<1>6. ASSUME NEW p \in Owners \ {o} PROVE RetainedOK(p)'
  <2>1. StoredEvents(p)' = StoredEvents(p) BY <1>2 DEF StoredEvents
  <2>2. Around(p)' = Around(p) BY <1>2, <2>1 DEF Around
  <2>3. Retains(p) BY <1>3, <1>4, <2>1, <2>2 DEF Retains, SameErrand
  <2> QED BY <2>3, RetainParts, RetainsKeeps
<1>7. CASE ~Active BY <1>4, <1>6, <1>7 DEF RetainedOK
<1>8. CASE Active
  <2>1. RetainedOK(o) /\ ForceOK(o) /\ RowsOK(o) /\ UnreadOK(o) BY RetainParts
  <2>2. /\ op[o].step \notin FlushedSteps
        /\ writer.trim.settings.max = chosen[o].max
    BY <1>2, <1>3, <1>8, <2>1 DEF ForceOK
  <2>3. ~Behind(o) BY <2>2 DEF Behind, FlushedSteps
  <2>4. PICK T, h, m : T = rows[o] /\ h = history[o] /\ m = chosen[o].max
    OBVIOUS
  <2>5. /\ T \in SUBSET Row /\ IsFiniteSet(T) /\ h \in Seq(Events) /\ m \in Nat
        /\ \A r, s \in T : r.event.id = s.event.id => r = s
        /\ \A i, j \in DOMAIN h : i < j => h[i].id < h[j].id
    BY <1>1, <2>1, <2>4, CountsTyped, MemoryTyped
       DEF RowsOK, UnreadOK, UnreadRight
  <2>6. /\ Len(h) <= m /\ Held(o) \subseteq Around(o)
        /\ \A x \in Around(o), e \in Held(o) : x.id > e.id => x \in Held(o)
    BY <1>8, <2>1, <2>3, <2>4 DEF RetainedOK
  <2>7. \A x \in Held(o) : \E j \in DOMAIN h : x = h[j] BY <2>4 DEF Held
  <2>8. ASSUME NEW r \in T, r.event \in Held(o)
        PROVE  r \in Trimmed(T, m)
    <3>1. PICK i \in DOMAIN h : r.event = h[i] BY <2>7, <2>8
    <3>2. i \in 1 .. Len(h) /\ Len(h) \in Nat BY <2>5, LenProperties
    <3>3. Len(h) - i < m BY <2>5, <2>6, <3>2
    <3>4. ASSUME NEW s \in T, s.event.id > h[i].id
          PROVE  \E j \in DOMAIN h : s.event = h[j]
      <4>1. s.event \in Around(o) BY <2>4 DEF Around, StoredEvents
      <4>2. s.event \in Held(o) BY <2>6, <2>8, <3>1, <3>4, <4>1
      <4> QED BY <2>7, <4>2
    <3> QED BY <2>5, <3>1, <3>3, <3>4, TrimKeeps
  <2>9. \A x \in Around(o)' : x \in Around(o)
    BY <1>2 DEF Around, StoredEvents
  <2>10. \A x \in Held(o) : x \in Around(o)'
    <3>1. ASSUME NEW x \in Held(o) PROVE x \in Around(o)'
      <4>1. CASE x \in Pending(o) BY <1>2, <4>1 DEF Around
      <4>2. CASE x \in StoredEvents(o)
        <5>1. PICK r \in T : r.event = x BY <2>4, <4>2 DEF StoredEvents
        <5>2. r \in rows'[o] BY <1>2, <2>2, <2>4, <2>8, <5>1
        <5>3. x \in StoredEvents(o)' BY <5>1, <5>2 DEF StoredEvents
        <5> QED BY <5>3 DEF Around
      <4> QED BY <2>6, <4>1, <4>2 DEF Around
    <3> QED BY <3>1
  <2>11. PICK A2, H : A2 = Around(o)' /\ H = Held(o) OBVIOUS
  <2>12. /\ \A x \in A2, e \in H : x.id > e.id => x \in H
         /\ \A x \in H : x \in A2
    BY <2>6, <2>9, <2>10, <2>11
  <2>13. Held(o)' = H /\ Len(history'[o]) <= chosen'[o].max /\ ~Behind(o)'
    BY <1>3, <1>4, <1>5, <2>3, <2>4, <2>6, <2>11
  <2>14. RetainedOK(o)' BY <2>11, <2>12, <2>13 DEF RetainedOK
  <2> QED BY <1>6, <2>14
<1> QED BY <1>7, <1>8

LEMMA WritingRetains ==
    ASSUME RetainInv, Writing, FaultsKnown, Skew = 0
    PROVE  \A p \in Owners : RetainedOK(p)'
<1>1. OnceInv /\ CountInv /\ ShapeInv BY RetainParts, CountParts
<1>2. HandsOn \/ StoresOne \/ Trims BY <1>1, WritingMoves
<1>3. CASE HandsOn
  <2>1. ASSUME NEW p \in Owners PROVE RetainedOK(p)'
    <3>1. disabled \in BOOLEAN BY <1>1 DEF ShapeInv, BusTyped
    <3>2. Active' => Active BY <1>3, <3>1 DEF HandsOn, Active
    <3>3. StoredEvents(p)' = StoredEvents(p) BY <1>3 DEF HandsOn, StoredEvents
    <3>4. Active' => Around(p)' = Around(p) BY <1>3, <3>3 DEF HandsOn, Around
    <3>5. /\ Behind(p)' <=> Behind(p)
          /\ Behind(p) => SameErrand(op'[p], op[p])
      BY <1>3 DEF HandsOn, Behind, SameErrand
    <3>6. Retains(p) BY <1>3, <3>2, <3>3, <3>4, <3>5 DEF Retains, HandsOn
    <3> QED BY <3>6, RetainParts, RetainsKeeps
  <2> QED BY <2>1
<1>4. CASE StoresOne
  <2>1. PICK g \in Groups : Members(writer.batch, g) # <<>> /\ StoresGroup(g)
    BY <1>4 DEF StoresOne
  <2>2. Active /\ UNCHANGED <<op, history, configured, chosen>>
    BY <1>4 DEF StoresOne
  <2>3. ASSUME NEW p \in Owners PROVE RetainedOK(p)'
    <3>1. /\ \A x \in Around(p)' : x \in Around(p)
          /\ \A x \in Around(p) : x \in Around(p)'
          /\ \A x \in StoredEvents(p) : x \in StoredEvents(p)'
      BY <1>1, <2>1, <2>2, StoresAround
    <3>2. Behind(p)' <=> Behind(p) BY <2>2 DEF Behind
    <3>3. Retains(p) BY <2>2, <3>1, <3>2 DEF Retains, SameErrand
    <3> QED BY <3>3, RetainParts, RetainsKeeps
  <2> QED BY <2>3
<1> QED BY <1>2, <1>3, <1>4, TrimRetains

(* Steps that leave an owner alone.                                          *)
LEMMA ElseRetains ==
    ASSUME NEW p, history'[p] = history[p], rows'[p] = rows[p], op'[p] = op[p],
           chosen'[p] = chosen[p], Active' => Active,
           Active' => Pending(p)' = Pending(p)
    PROVE  Retains(p)
<1>1. StoredEvents(p)' = StoredEvents(p) BY DEF StoredEvents
<1>2. Active' => Around(p)' = Around(p) BY <1>1 DEF Around
<1>3. Behind(p)' <=> Behind(p) BY DEF Behind
<1> QED BY <1>1, <1>2, <1>3 DEF Retains, SameErrand

(* An event newer than one that survives a limit survives it too.            *)
LEMMA LaterStays ==
    ASSUME NEW h \in Seq(Events), \A i, j \in DOMAIN h : i < j => h[i].id < h[j].id,
           NEW n \in Nat, NEW i \in DOMAIN AtMost(h, n), NEW k \in DOMAIN h,
           h[k].id > AtMost(h, n)[i].id
    PROVE  \E j \in DOMAIN AtMost(h, n) : AtMost(h, n)[j] = h[k]
<1>1. PICK t \in Seq(Events) : t = AtMost(h, n) BY AtMostIs
<1>2. PICK a \in Nat, b \in Nat : /\ a = Len(h) /\ b = Len(t)
                                  /\ DOMAIN h = 1 .. a /\ DOMAIN t = 1 .. b
  BY <1>1, LenProperties
<1>3. b <= a /\ \A j \in 1 .. b : j + (a - b) \in 1 .. a /\ t[j] = h[j + (a - b)]
  <2>1. /\ Len(t) = IF Len(h) > n THEN n ELSE Len(h)
        /\ \A j \in DOMAIN t : /\ j + (Len(h) - Len(t)) \in DOMAIN h
                               /\ t[j] = h[j + (Len(h) - Len(t))]
    BY <1>1, AtMostIs
  <2>2. b <= a BY <1>2, <2>1
  <2>3. \A j \in 1 .. b : j + (a - b) \in 1 .. a /\ t[j] = h[j + (a - b)]
    BY <1>2, <2>1
  <2> QED BY <2>2, <2>3
<1>4. i \in 1 .. b /\ k \in 1 .. a /\ h[k].id > h[i + (a - b)].id
  BY <1>1, <1>2, <1>3
<1>5. PICK q \in 1 .. a : q = i + (a - b) BY <1>3, <1>4
<1>6. ~(k < q) /\ k # q
  <2>1. \A j \in DOMAIN h : h[j].id \in Nat
    BY <1>2, ElementOfSeq DEF Events
  <2>2. h[k].id \in Nat /\ h[q].id \in Nat /\ h[k].id > h[q].id
    BY <1>2, <1>4, <1>5, <2>1
  <2>3. k < q => h[k].id < h[q].id BY <1>2, <1>4, <1>5
  <2> QED BY <2>2, <2>3
<1>7. k - (a - b) \in 1 .. b /\ (k - (a - b)) + (a - b) = k
  <2>1. k \in 1 .. a /\ i \in 1 .. b BY <1>4
  <2>2. k >= i + (a - b) BY <1>5, <1>6, <2>1
  <2> QED BY <1>3, <2>1, <2>2
<1>8. t[k - (a - b)] = h[k] BY <1>3, <1>7
<1> QED BY <1>1, <1>2, <1>7, <1>8

LEMMA SqlRetains ==
    ASSUME RetainInv, NEW o \in Owners, Sql(o), FaultsKnown, Skew = 0
    PROVE  \A p \in Owners : RetainedOK(p)'
<1>1. /\ ShapeInv /\ op \in [Owners -> Operation] /\ disabled \in BOOLEAN
      /\ chosen \in [Owners -> Retention] /\ rows \in [Owners -> SUBSET Row]
  BY RetainParts DEF ShapeInv, BusTyped
<1>2. UNCHANGED <<history, queue, writer, configured>> /\ op[o].step = "sql"
  BY DEF Sql, memoryVars
<1>3. ~Behind(o) BY <1>2 DEF Behind
<1>4. \A p : Pending(p)' = Pending(p) /\ Held(p)' = Held(p)
  BY <1>2 DEF Pending, Held
<1>5. Pending(o) = {} BY <1>2, RetainParts DEF OwnerOK, FlushedOK, FlushedSteps
<1>6. \/ /\ op' = [op EXCEPT ![o] = Idle] /\ UNCHANGED <<rows, disabled, chosen>>
      \/ /\ Mutated(o) /\ op' = [op EXCEPT ![o].step = "apply"]
         /\ chosen' = Chosen(o) /\ disabled' = disabled
  <2>1. "lost" \notin Faults /\ "slow" \notin Faults BY DEF FaultsKnown
  <2>2. ~Fault("lost") /\ ~Fault("slow") BY <2>1 DEF Fault
  <2> QED BY <2>2 DEF Sql, latchVars, tableVars
<1>7. CASE op' = [op EXCEPT ![o] = Idle] /\ UNCHANGED <<rows, disabled, chosen>>
  <2>1. Idle.step # "apply" BY DEF Idle
  <2> QED BY <1>2, <1>3, <1>7, <2>1, OpRetains
<1>8. CASE /\ Mutated(o) /\ op' = [op EXCEPT ![o].step = "apply"]
           /\ chosen' = Chosen(o) /\ disabled' = disabled
  <2>1. Active' = Active BY <1>2, <1>8 DEF Active
  <2>2. \A p \in Owners \ {o} : op'[p] = op[p] /\ rows'[p] = rows[p] /\ chosen'[p] = chosen[p]
    BY <1>1, <1>2, <1>8, MutatedTyped DEF Chosen
  <2>3. ASSUME NEW p \in Owners \ {o} PROVE RetainedOK(p)'
    <3>1. Retains(p) BY <1>2, <1>4, <2>1, <2>2, ElseRetains
    <3> QED BY <3>1, RetainParts, RetainsKeeps
  <2>4. /\ op'[o].step = "apply" /\ op'[o].kind = op[o].kind /\ op[o] \in Operation
        /\ op'[o].filter = op[o].filter /\ op'[o].settings = op[o].settings
    BY <1>1, <1>8 DEF Operation
  <2>5. op[o].kind \in {"read", "delete", "settings"}
    BY <1>1, <1>2, OpParts DEF FlushedSteps, Mutation
  <2>6. RetainedOK(o) /\ UnreadOK(o) /\ RowsOK(o) BY RetainParts
  <2>7. CASE ~Active BY <2>1, <2>3, <2>7 DEF RetainedOK
  <2>8. CASE Active /\ op[o].kind = "read"
    <3>1. rows'[o] = {[r EXCEPT !.read = TRUE] : r \in rows[o]} /\ chosen' = chosen
      BY <1>1, <1>8, <2>8 DEF Mutated, Chosen
    <3>2. \A r \in rows[o] : [r EXCEPT !.read = TRUE].event = r.event
      BY <1>1 DEF Row
    <3>3. /\ \A x \in StoredEvents(o)' : x \in StoredEvents(o)
          /\ \A x \in StoredEvents(o) : x \in StoredEvents(o)'
      BY <3>1, <3>2 DEF StoredEvents
    <3>4. /\ \A x \in Around(o)' : x \in Around(o)
          /\ \A x \in Around(o) : x \in Around(o)'
      BY <1>4, <3>3 DEF Around
    <3>5. ~Behind(o)' BY <2>4, <2>8 DEF Behind
    <3>6. Retains(o) BY <1>2, <1>3, <2>1, <3>1, <3>3, <3>4, <3>5 DEF Retains
    <3>7. RetainedOK(o)' BY <2>6, <3>6, RetainsKeeps
    <3> QED BY <2>3, <3>7
  <2>9. ASSUME Active, op[o].kind \in {"delete", "settings"}
        PROVE  /\ Behind(o)' /\ Len(history[o]) <= chosen[o].max
               /\ \A x \in StoredEvents(o)' : x \in StoredEvents(o)
               /\ \A x \in Held(o) : \E r \in rows[o] : r.event = x
               /\ \A x \in StoredEvents(o), e \in Held(o) : x.id > e.id => x \in Held(o)
               /\ \A x \in Around(o)', e \in Held(o)' : x.id > e.id => x \in Held(o)'
    <3>1. Behind(o)' BY <2>4, <2>9 DEF Behind
    <3>2. rows'[o] \subseteq rows[o]
      BY <1>1, <1>8, <2>9 DEF Mutated, Trimmed
    <3>3. \A x \in StoredEvents(o)' : x \in StoredEvents(o)
      BY <3>2 DEF StoredEvents
    <3>4. \A x \in Held(o) : \E r \in rows[o] : r.event = x
      BY <1>3, <1>5, <2>6, <2>9 DEF RetainedOK, Around, StoredEvents
    <3>5. Len(history[o]) <= chosen[o].max
      BY <1>3, <2>6, <2>9 DEF RetainedOK
    <3>6. \A x \in StoredEvents(o), e \in Held(o) : x.id > e.id => x \in Held(o)
      BY <2>6, <2>9 DEF RetainedOK, Around
    <3>7. \A x \in Around(o)' : x \in StoredEvents(o)
      BY <1>4, <1>5, <3>3 DEF Around
    <3>8. PICK A2, H : A2 = Around(o)' /\ H = Held(o) OBVIOUS
    <3>9. Held(o)' = H BY <1>4, <3>8
    <3>10. \A x \in A2, e \in H : x.id > e.id => x \in H BY <3>6, <3>7, <3>8
    <3>11. \A x \in Around(o)', e \in Held(o)' : x.id > e.id => x \in Held(o)'
      BY <3>8, <3>9, <3>10
    <3> QED BY <3>1, <3>3, <3>4, <3>5, <3>6, <3>11
  <2>10. CASE Active /\ op[o].kind = "delete"
    <3>1. /\ rows'[o] = {r \in rows[o] : r.event.kind \notin op[o].filter}
          /\ chosen' = chosen
      BY <1>1, <1>8, <2>10 DEF Mutated, Chosen
    <3>2. \A x \in Held(o)' : x.kind \notin op'[o].filter => x \in StoredEvents(o)'
      <4>1. ASSUME NEW x \in Held(o), x.kind \notin op[o].filter
            PROVE  x \in StoredEvents(o)'
        <5>1. PICK r \in rows[o] : r.event = x BY <2>9, <2>10
        <5>2. r \in rows'[o] BY <3>1, <4>1, <5>1
        <5> QED BY <5>1, <5>2 DEF StoredEvents
      <4> QED BY <1>4, <2>4, <4>1
    <3>3. Len(history'[o]) <= chosen'[o].max BY <1>2, <2>9, <2>10, <3>1
    <3>4. op'[o].kind = "delete" BY <2>4, <2>10
    <3>5. RetainedOK(o)' BY <2>9, <2>10, <3>2, <3>3, <3>4 DEF RetainedOK
    <3> QED BY <2>3, <3>5
  <2>11. CASE Active /\ op[o].kind = "settings"
    <3>1. op[o].settings \in Retention
      BY <1>1, <2>4, <2>11, OpParts DEF OpOK, Operation
    <3>2. PICK m \in Nat : m = op[o].settings.max BY <3>1 DEF Retention
    <3>3. rows'[o] = Trimmed(rows[o], m)
      BY <1>1, <1>8, <2>11, <3>2 DEF Mutated
    <3>4. PICK T, h : T = rows[o] /\ h = history[o] OBVIOUS
    <3>5. /\ T \in SUBSET Row /\ IsFiniteSet(T) /\ h \in Seq(Events)
          /\ \A r, s \in T : r.event.id = s.event.id => r = s
          /\ \A i, j \in DOMAIN h : i < j => h[i].id < h[j].id
      BY <1>1, <2>6, <3>4, CountsTyped, MemoryTyped
         DEF RowsOK, UnreadOK, UnreadRight
    <3>6. \A x \in Held(o) : \E j \in DOMAIN h : x = h[j] BY <3>4 DEF Held
    <3>7. ASSUME NEW i \in DOMAIN h, i > Len(h) - m
          PROVE  h[i] \in StoredEvents(o)'
      <4>1. h[i] \in Held(o) BY <3>4 DEF Held
      <4>2. PICK r \in T : r.event = h[i] BY <2>9, <2>11, <3>4, <4>1
      <4>3. i \in 1 .. Len(h) /\ Len(h) \in Nat BY <3>5, LenProperties
      <4>4. Len(h) - i < m BY <3>7, <4>3
      <4>5. ASSUME NEW s \in T, s.event.id > h[i].id
            PROVE  \E j \in DOMAIN h : s.event = h[j]
        <5>1. s.event \in StoredEvents(o) BY <3>4 DEF StoredEvents
        <5>2. s.event \in Held(o) BY <2>9, <2>11, <4>1, <4>5, <5>1
        <5> QED BY <3>6, <5>2
      <4>6. r \in Trimmed(T, m) BY <3>5, <4>2, <4>4, <4>5, TrimKeeps
      <4>7. r \in rows'[o] BY <3>3, <3>4, <4>6
      <4> QED BY <4>2, <4>7 DEF StoredEvents
    <3>8. \A i \in DOMAIN history'[o] :
            i > Len(history'[o]) - op'[o].settings.max => history'[o][i] \in StoredEvents(o)'
      BY <1>2, <2>4, <3>2, <3>4, <3>7
    <3>9. op'[o].kind = "settings" BY <2>4, <2>11
    <3>10. RetainedOK(o)' BY <2>9, <2>11, <3>8, <3>9 DEF RetainedOK
    <3> QED BY <2>3, <3>10
  <2> QED BY <2>5, <2>7, <2>8, <2>10, <2>11
<1> QED BY <1>6, <1>7, <1>8

LEMMA ApplyRetains ==
    ASSUME RetainInv, NEW o \in Owners, Apply(o)
    PROVE  \A p \in Owners : RetainedOK(p)'
<1>1. /\ ShapeInv /\ op \in [Owners -> Operation] /\ OpOK(o) /\ op[o] \in Operation
      /\ chosen \in [Owners -> Retention] /\ history \in [Owners -> Seq(Events)]
  BY RetainParts, OpParts DEF ShapeInv, BusTyped
<1>2. UNCHANGED <<queue, writer, rows, disabled, configured>> /\ op[o].step = "apply"
  BY DEF Apply, latchVars, tableVars, ghostVars
<1>3. /\ \A p : Pending(p)' = Pending(p) /\ StoredEvents(p)' = StoredEvents(p)
      /\ \A p : Around(p)' = Around(p)
      /\ Active' = Active
  BY <1>2 DEF Pending, StoredEvents, Around, Active
<1>4. Pending(o) = {} BY <1>2, RetainParts DEF OwnerOK, FlushedOK, FlushedSteps
<1>5. /\ RetainedOK(o) /\ UnreadOK(o) /\ DoneOK(o) /\ SettingsOK(o)
      /\ history[o] \in Seq(Events)
  BY <1>1, RetainParts DEF OwnerOK
<1>6. CASE op[o].kind = "read"
  <2>1. /\ op' = [op EXCEPT ![o] = Idle] \/ op' = [op EXCEPT ![o].step = "report"]
        /\ UNCHANGED <<history, chosen>>
    BY <1>1, <1>6, ApplyIs DEF memoryVars, ghostVars
  <2>2. ~Behind(o) BY <1>6 DEF Behind
  <2>3. Idle.step # "apply" /\ [op[o] EXCEPT !.step = "report"].step # "apply"
    BY <1>1 DEF Idle, Operation
  <2>4. CASE op' = [op EXCEPT ![o] = Idle] BY <1>2, <2>1, <2>2, <2>3, <2>4, OpRetains
  <2>5. CASE op' = [op EXCEPT ![o].step = "report"]
    <3>1. op' = [op EXCEPT ![o] = [op[o] EXCEPT !.step = "report"]] BY <2>5
    <3> QED BY <1>2, <2>1, <2>2, <2>3, <3>1, OpRetains
  <2> QED BY <2>1, <2>4, <2>5
<1>7. CASE op[o].kind \in {"delete", "settings"}
  <2>1. /\ op' = [op EXCEPT ![o].step = "report"]
        /\ op[o].kind = "delete" =>
                history' = [history EXCEPT ![o] = Kept(o)] /\ chosen' = chosen
        /\ op[o].kind = "settings" =>
                /\ history' = [history EXCEPT ![o] = AtMost(history[o], op[o].settings.max)]
                /\ chosen' = [chosen EXCEPT ![o] = op[o].settings]
    BY <1>1, <1>7, ApplyIs
  <2>2. /\ \A p \in Owners \ {o} : /\ op'[p] = op[p] /\ history'[p] = history[p]
                                   /\ chosen'[p] = chosen[p]
        /\ op'[o].step = "report"
    BY <1>1, <1>7, <2>1 DEF Operation
  <2>3. ASSUME NEW p \in Owners \ {o} PROVE RetainedOK(p)'
    <3>1. Retains(p) BY <1>2, <1>3, <2>2, ElseRetains
    <3> QED BY <3>1, RetainParts, RetainsKeeps
  <2>4. CASE ~Active BY <1>3, <2>3, <2>4 DEF RetainedOK
  <2>5. Behind(o) /\ ~Behind(o)' BY <1>2, <1>7, <2>2 DEF Behind
  <2>6. PICK S, H, h : /\ S = StoredEvents(o) /\ H = Held(o) /\ h = history[o]
    OBVIOUS
  <2>7. Around(o)' = S BY <1>3, <1>4, <2>6 DEF Around
  <2>8. Active => \A x \in S, e \in H : x.id > e.id => x \in H
    BY <1>5, <2>6 DEF RetainedOK, Around
  <2>9. H = {h[i] : i \in DOMAIN h} BY <2>6 DEF Held
  <2>10. CASE Active /\ op[o].kind = "delete"
    <3>1. PICK K : K = Kept(o) BY Zenon
    <3>2. history'[o] = K /\ chosen'[o] = chosen[o] BY <1>1, <2>1, <2>10, <3>1
    <3>3. PICK P \in SUBSET (DOMAIN h) : P = {i \in DOMAIN h : h[i].kind \notin op[o].filter}
      OBVIOUS
    <3>4. K = Picked(h, P) BY <2>6, <3>1, <3>3 DEF Kept, Matching
    <3>5. /\ \A i \in P : Place(P, i) \in DOMAIN K /\ K[Place(P, i)] = h[i]
          /\ \A j \in DOMAIN K : \E i \in P : K[j] = h[i]
          /\ Len(K) = Cardinality(P) /\ Cardinality(P) \in 0 .. Len(h)
      BY <1>5, <2>6, <3>4, PickedIs
    <3>6. PICK G : G = {K[j] : j \in DOMAIN K} OBVIOUS
    <3>7. \A x : x \in G <=> x \in H /\ x.kind \notin op[o].filter
      <4>1. ASSUME NEW j \in DOMAIN K PROVE K[j] \in H /\ K[j].kind \notin op[o].filter
        <5>1. PICK i \in P : K[j] = h[i] BY <3>5
        <5>2. i \in DOMAIN h /\ h[i].kind \notin op[o].filter BY <3>3
        <5> QED BY <2>9, <5>1, <5>2
      <4>2. ASSUME NEW i \in DOMAIN h, h[i].kind \notin op[o].filter PROVE h[i] \in G
        <5>1. i \in P BY <3>3, <4>2
        <5> QED BY <3>5, <3>6, <5>1
      <4> QED BY <2>9, <3>6, <4>1, <4>2
    <3>8. Held(o)' = G BY <3>2, <3>6 DEF Held
    <3>9. \A x \in S, e \in G : x.id > e.id => x \in G
      <4>1. \A x \in S : x.kind \notin op[o].filter
        BY <1>2, <1>5, <2>6, <2>10 DEF DoneOK, StoredEvents
      <4> QED BY <2>8, <2>10, <3>7, <4>1
    <3>10. \A x \in G : x \in S
      BY <1>5, <2>5, <2>6, <2>10, <3>7 DEF RetainedOK
    <3>11. Len(K) <= chosen[o].max
      <4>1. Len(h) <= chosen[o].max BY <1>5, <2>6, <2>10 DEF RetainedOK
      <4>2. Len(h) \in Nat /\ chosen[o].max \in Nat
        BY <1>1, <1>5, <2>6, LenProperties, CountsTyped
      <4> QED BY <3>5, <4>1, <4>2
    <3>12. RetainedOK(o)'
      BY <2>5, <2>7, <3>2, <3>8, <3>9, <3>10, <3>11 DEF RetainedOK
    <3> QED BY <2>3, <3>12
  <2>11. CASE Active /\ op[o].kind = "settings"
    <3>1. op[o].settings \in Retention BY <1>1, <2>11 DEF OpOK, Operation
    <3>2. PICK m \in Nat : m = op[o].settings.max BY <3>1 DEF Retention
    <3>3. PICK K : K = AtMost(h, m) BY Zenon
    <3>4. history'[o] = K /\ chosen'[o] = op[o].settings
      BY <1>1, <2>1, <2>6, <2>11, <3>2, <3>3
    <3>5. /\ h \in Seq(Events) /\ K \in Seq(Events)
          /\ Len(K) = IF Len(h) > m THEN m ELSE Len(h)
          /\ \A i \in DOMAIN K : /\ i + (Len(h) - Len(K)) \in DOMAIN h
                                 /\ K[i] = h[i + (Len(h) - Len(K))]
      BY <1>5, <2>6, <3>3, AtMostIs
    <3>6. Len(h) \in Nat /\ Len(K) \in Nat /\ DOMAIN K = 1 .. Len(K)
      BY <3>5, LenProperties
    <3>7. PICK G : G = {K[j] : j \in DOMAIN K} OBVIOUS
    <3>8. Held(o)' = G BY <3>4, <3>7 DEF Held
    <3>9. \A x \in G : x \in H BY <2>9, <3>5, <3>7
    <3>10. \A x \in S, e \in G : x.id > e.id => x \in G
      <4>1. ASSUME NEW x \in S, NEW e \in G, x.id > e.id PROVE x \in G
        <5>1. x \in H BY <2>8, <2>11, <3>9, <4>1
        <5>2. PICK k \in DOMAIN h : x = h[k] BY <2>9, <5>1
        <5>3. PICK i \in DOMAIN K : e = K[i] BY <3>7
        <5>4. \A a, b \in DOMAIN h : a < b => h[a].id < h[b].id
          BY <1>5, <2>6 DEF UnreadOK, UnreadRight
        <5>5. i \in DOMAIN AtMost(h, m) /\ h[k].id > AtMost(h, m)[i].id
          BY <3>3, <4>1, <5>2, <5>3
        <5>6. \E j \in DOMAIN K : K[j] = h[k]
          BY <3>3, <3>5, <5>4, <5>5, LaterStays
        <5> QED BY <3>7, <5>2, <5>6
      <4> QED BY <4>1
    <3>11. \A x \in G : x \in S
      <4>1. ASSUME NEW i \in DOMAIN K PROVE K[i] \in S
        <5>1. PICK k \in DOMAIN h : k = i + (Len(h) - Len(K)) /\ K[i] = h[k]
          BY <3>5
        <5>2. i \in Nat /\ i >= 1 BY <3>6
        <5>3. k > Len(h) - m BY <3>5, <3>6, <5>1, <5>2
        <5>4. \A j \in DOMAIN h : j > Len(h) - m => h[j] \in S
          BY <1>5, <2>5, <2>6, <2>11, <3>2 DEF RetainedOK
        <5> QED BY <5>1, <5>3, <5>4
      <4> QED BY <3>7, <4>1
    <3>12. Len(K) <= chosen'[o].max
      <4>1. Len(K) <= m BY <3>5, <3>6
      <4> QED BY <3>2, <3>4, <4>1
    <3>13. RetainedOK(o)'
      BY <2>5, <2>7, <3>4, <3>8, <3>10, <3>11, <3>12 DEF RetainedOK
    <3> QED BY <2>3, <3>13
  <2> QED BY <1>7, <2>4, <2>10, <2>11
<1> QED BY <1>1, <1>6, <1>7, ApplyIs DEF Mutation

LEMMA AcceptRetains ==
    ASSUME RetainInv, NEW o \in Owners, Accept(o)
    PROVE  \A p \in Owners : RetainedOK(p)'
<1>1. /\ ShapeInv /\ op \in [Owners -> Operation] /\ disabled \in BOOLEAN
      /\ history \in [Owners -> Seq(Events)] /\ op[o] \in Operation /\ OpOK(o)
      /\ op[o].event # None /\ op[o].settings # None /\ op[o].step = "accept"
  <2>1. op[o].step = "accept" BY DEF Accept
  <2> QED BY <2>1, RetainParts, OpParts DEF ShapeInv, BusTyped, OpOK, PublishSteps
<1>2. /\ UNCHANGED <<writer, rows, configured, chosen>>
      /\ disabled => disabled'
  BY AcceptIs DEF Accept, ghostVars, tableVars
<1>3. op' = [op EXCEPT ![o] = Idle] BY AcceptIs
<1>4. ~Behind(o) /\ ~Behind(o)' /\ \A p \in Owners \ {o} : op'[p] = op[p]
  <2>1. op'[o] = Idle BY <1>1, <1>3
  <2>2. ~Behind(o) BY <1>1 DEF Behind
  <2>3. ~Behind(o)' BY <2>1 DEF Behind, Idle
  <2> QED BY <1>1, <1>3, <2>2, <2>3
<1>5. Active' => Active BY <1>1, <1>2 DEF Active
<1>6. CASE Full(o)
  <2>1. Idle.step # "apply" BY DEF Idle
  <2>2. queue' = queue /\ history' = history BY <1>6, AcceptIs
  <2> QED BY <1>2, <1>3, <1>4, <2>1, <2>2, OpRetains
<1>7. PICK e \in Events, s \in Retention :
        e = op[o].event /\ s = op[o].settings
  BY <1>1 DEF Operation
<1>8. PICK m \in Messages : m = Request(o, e, s) BY MessagesTyped
<1>9. m.type = "event" /\ m.owner = o /\ m.event = e BY <1>8 DEF Request
<1>10. CASE ~Full(o) /\ ~Active' BY <1>10 DEF RetainedOK
<1>11. CASE ~Full(o) /\ Active'
  <2>1. PICK n \in Nat : s.max = n + 1
    <3>1. s.max \in Nat \ {0} BY DEF Retention
    <3>2. s.max - 1 \in Nat /\ s.max = (s.max - 1) + 1 BY <3>1
    <3> QED BY <3>2
  <2>2. s.max - 1 = n BY <2>1
  <2>3. /\ history' = [history EXCEPT ![o] = Append(AtMost(history[o], n), e)]
        /\ queue' = IF Active /\ CanSend THEN Append(queue, m) ELSE queue
        /\ disabled' = (disabled \/ (Active /\ ~CanSend))
    BY <1>7, <1>8, <1>11, <2>2, AcceptIs
  <2>4. queue' = Append(queue, m) BY <1>5, <1>11, <2>3 DEF Active
  <2>5. queue \in Seq(Messages) BY <1>1, WriterParts
  <2>6. /\ DOMAIN queue' = 1 .. Len(queue) + 1 /\ DOMAIN queue = 1 .. Len(queue)
        /\ \A i \in 1 .. Len(queue) : queue'[i] = queue[i]
        /\ queue'[Len(queue) + 1] = m /\ Len(queue) \in Nat
    BY <2>4, <2>5, AppendIs, LenProperties
  <2>7. \A p : \A x : x \in Pending(p) => x \in Pending(p)'
    BY <1>2, <2>6, PendingIs DEF Pending, Requests
  <2>8. ASSUME NEW p \in Owners \ {o} PROVE RetainedOK(p)'
    <3>1. \A x : x \in Pending(p)' => x \in Pending(p)
      BY <1>1, <1>2, <1>9, <2>4, AppendMoves
    <3>2. Pending(p)' = Pending(p) BY <2>7, <3>1
    <3>3. history'[p] = history[p] BY <1>1, <2>3
    <3>4. Retains(p) BY <1>2, <1>4, <1>5, <3>2, <3>3, ElseRetains
    <3> QED BY <3>4, RetainParts, RetainsKeeps
  <2>9. \A x : x \in Pending(o)' => x \in Pending(o) \/ x = e
    BY <1>1, <1>2, <1>9, <2>4, AppendMoves
  <2>10. e \in Pending(o)'
    <3>1. Len(queue) + 1 \in DOMAIN queue' BY <2>6
    <3> QED BY <1>9, <2>6, <3>1 DEF Pending, Requests
  <2>11. /\ RetainedOK(o) /\ UnreadOK(o) /\ ForceOK(o) /\ NumberedOK(o)
    BY RetainParts DEF OwnerOK
  <2>12. s = chosen[o] BY <1>1, <1>5, <1>7, <1>11, <2>11 DEF ForceOK
  <2>13. PICK h \in Seq(Events), K \in Seq(Events) :
            h = history[o] /\ K = AtMost(history[o], n)
    BY <1>1, AtMostIs
  <2>14. /\ history'[o] = Append(K, e)
         /\ DOMAIN Append(K, e) = 1 .. Len(K) + 1 /\ Len(Append(K, e)) = Len(K) + 1
         /\ DOMAIN K = 1 .. Len(K) /\ Len(K) \in Nat /\ Len(h) \in Nat
         /\ \A i \in 1 .. Len(K) : Append(K, e)[i] = K[i]
         /\ Append(K, e)[Len(K) + 1] = e
    BY <1>1, <2>3, <2>13, AppendIs, LenProperties
  <2>15. /\ Len(K) <= n
         /\ \A i \in DOMAIN K : \E j \in DOMAIN h : K[i] = h[j]
    <3>1. Len(K) = IF Len(h) > n THEN n ELSE Len(h) BY <2>13, AtMostIs
    <3>2. Len(K) <= n BY <2>14, <3>1
    <3>3. \A i \in DOMAIN K : \E j \in DOMAIN h : K[i] = h[j] BY <2>13, AtMostIs
    <3> QED BY <3>2, <3>3
  <2>16. PICK G : G = {K[i] : i \in DOMAIN K} OBVIOUS
  <2>17. \A x : x \in Held(o)' <=> x \in G \/ x = e
    <3>1. \A i \in 1 .. Len(K) + 1 : i \in 1 .. Len(K) \/ i = Len(K) + 1
      BY <2>14
    <3>2. 1 .. Len(K) \subseteq 1 .. Len(K) + 1 /\ Len(K) + 1 \in 1 .. Len(K) + 1
      BY <2>14
    <3>3. \A x : x \in {Append(K, e)[i] : i \in 1 .. Len(K) + 1} <=> x \in G \/ x = e
      BY <2>14, <2>16, <3>1, <3>2
    <3>4. Held(o)' = {Append(K, e)[i] : i \in 1 .. Len(K) + 1}
      BY <2>14 DEF Held
    <3> QED BY <3>3, <3>4
  <2>18. PICK H, A, A2, H2 : /\ H = Held(o) /\ A = Around(o) /\ A2 = Around(o)'
                             /\ H2 = Held(o)'
    OBVIOUS
  <2>19. StoredEvents(o)' = StoredEvents(o) BY <1>2 DEF StoredEvents
  <2>20. /\ \A x \in A2 : x \in A \/ x = e
         /\ \A x \in A : x \in A2
         /\ e \in A2
    BY <2>7, <2>9, <2>10, <2>18, <2>19 DEF Around
  <2>21. \A x \in G : x \in H BY <2>13, <2>15, <2>16, <2>18 DEF Held
  <2>22. /\ \A x \in A, y \in H : x.id > y.id => x \in H
         /\ \A x \in H : x \in A
    BY <1>4, <1>5, <1>11, <2>11, <2>18 DEF RetainedOK
  <2>23. \A x \in A : x.id < e.id /\ x.id \in Nat /\ e.id \in Nat
    <3>1. e.id \in Nat BY DEF Events
    <3>2. \A x \in A : x \in Known(o) BY <2>18 DEF Around, Known, StoredEvents
    <3> QED BY <1>1, <1>7, <2>11, <3>1, <3>2, EventsTyped DEF NumberedOK
  <2>24. \A x \in A, y \in G : x.id > y.id => x \in G
    <3>1. ASSUME NEW x \in A, NEW y \in G, x.id > y.id PROVE x \in G
      <4>1. x \in H BY <2>21, <2>22, <3>1
      <4>2. PICK k \in DOMAIN h : x = h[k] BY <2>13, <2>18, <4>1 DEF Held
      <4>3. PICK i \in DOMAIN K : y = K[i] BY <2>16
      <4>4. \A a, b \in DOMAIN h : a < b => h[a].id < h[b].id
        BY <2>11, <2>13 DEF UnreadOK, UnreadRight
      <4>5. /\ i \in DOMAIN AtMost(h, n) /\ h[k].id > AtMost(h, n)[i].id
        BY <2>13, <3>1, <4>2, <4>3
      <4>6. \E j \in DOMAIN AtMost(h, n) : AtMost(h, n)[j] = h[k]
        BY <4>4, <4>5, LaterStays
      <4> QED BY <2>13, <2>16, <4>2, <4>6
    <3> QED BY <3>1
  <2>25. \A x \in A2, y \in H2 : x.id > y.id => x \in H2
    <3>1. ASSUME NEW x \in A2, NEW y \in H2, x.id > y.id PROVE x \in H2
      <4>1. CASE x = e BY <2>17, <2>18, <4>1
      <4>2. CASE x \in A
        <5>1. x.id < e.id /\ x.id \in Nat /\ e.id \in Nat BY <2>23, <4>2
        <5>2. y # e BY <3>1, <5>1
        <5>3. y \in G BY <2>17, <2>18, <5>2
        <5> QED BY <2>17, <2>18, <2>24, <3>1, <4>2, <5>3
      <4> QED BY <2>20, <4>1, <4>2
    <3> QED BY <3>1
  <2>26. \A x \in H2 : x \in A2 BY <2>17, <2>18, <2>20, <2>21, <2>22
  <2>27. Len(history'[o]) <= chosen'[o].max
    <3>1. Len(K) + 1 <= n + 1 BY <2>14, <2>15
    <3>2. chosen'[o].max = n + 1 BY <1>2, <2>1, <2>12
    <3> QED BY <2>14, <3>1, <3>2
  <2>28. RetainedOK(o)' BY <1>4, <2>18, <2>25, <2>26, <2>27 DEF RetainedOK
  <2> QED BY <2>8, <2>28
<1> QED BY <1>6, <1>10, <1>11

LEMMA SendBarrierRetains ==
    ASSUME RetainInv, NEW o \in Owners, SendBarrier(o)
    PROVE  \A p \in Owners : RetainedOK(p)'
<1>1. ShapeInv /\ op \in [Owners -> Operation] /\ queue \in Seq(Messages)
  BY RetainParts, WriterParts DEF ShapeInv, BusTyped
<1>2. /\ UNCHANGED <<history, writer, rows, disabled, configured, chosen>>
      /\ op' = [op EXCEPT ![o].step = "await"] /\ op[o].step = "flush"
      /\ queue' = Append(queue, Barrier(o))
  BY DEF SendBarrier, memoryVars, latchVars, ghostVars, tableVars
<1>3. PICK m \in Messages : m = Barrier(o) /\ m.type # "event"
  BY MessagesTyped DEF Barrier
<1>4. /\ DOMAIN queue' = 1 .. Len(queue) + 1 /\ DOMAIN queue = 1 .. Len(queue)
      /\ \A i \in 1 .. Len(queue) : queue'[i] = queue[i]
      /\ queue'[Len(queue) + 1] = m /\ Len(queue) \in Nat
  BY <1>1, <1>2, <1>3, AppendIs, LenProperties
<1>5. /\ op'[o].step = "await" /\ \A p \in Owners \ {o} : op'[p] = op[p]
  BY <1>1, <1>2 DEF Operation
<1>6. ASSUME NEW p \in Owners PROVE RetainedOK(p)'
  <2>1. \A x : x \in Pending(p) => x \in Pending(p)'
    BY <1>2, <1>4, PendingIs DEF Pending, Requests
  <2>2. \A x : x \in Pending(p)' => x \in Pending(p)
    BY <1>1, <1>2, <1>3, AppendMoves
  <2>3. Pending(p)' = Pending(p) BY <2>1, <2>2
  <2>4. StoredEvents(p)' = StoredEvents(p) BY <1>2 DEF StoredEvents
  <2>5. Around(p)' = Around(p) BY <2>3, <2>4 DEF Around
  <2>6. (Behind(p)' <=> Behind(p)) /\ (Behind(p) => op'[p] = op[p])
    <3>1. CASE p = o BY <1>2, <1>5, <3>1 DEF Behind
    <3>2. CASE p # o BY <1>5, <3>2 DEF Behind
    <3> QED BY <3>1, <3>2
  <2>7. Active' = Active BY <1>2 DEF Active
  <2>8. Retains(p) BY <1>2, <2>4, <2>5, <2>6, <2>7 DEF Retains, SameErrand
  <2> QED BY <2>8, RetainParts, RetainsKeeps
<1> QED BY <1>6

LEMMA ProceedRetains ==
    ASSUME RetainInv, NEW o \in Owners, Proceed(o), FaultsKnown, Skew = 0
    PROVE  \A p \in Owners : RetainedOK(p)'
<1>1. op[o] \in Operation BY RetainParts, OpParts
<1>2. CASE LoadSettings(o)
  <2>1. /\ UNCHANGED <<history, queue, writer, rows, configured, chosen>>
        /\ (disabled => disabled') /\ op[o].step = "load"
    BY <1>2 DEF LoadSettings, latchVars, ghostVars, tableVars
  <2>2. PICK c, s : /\ op' = [op EXCEPT ![o].settings = c, ![o].step = s]
                    /\ s = IF c.policy = "drop_new" THEN "count" ELSE "accept"
    BY <1>2 DEF LoadSettings
  <2>3. PICK x : x = [op[o] EXCEPT !.settings = c, !.step = s] OBVIOUS
  <2>4. op' = [op EXCEPT ![o] = x] BY <2>2, <2>3
  <2>5. x.step = s BY <1>1, <2>3 DEF Operation
  <2>6. x.step # "apply" BY <2>2, <2>5
  <2>7. ~Behind(o) BY <2>1 DEF Behind
  <2> QED BY <2>1, <2>4, <2>6, <2>7, OpRetains
<1>3. CASE CountAdmitted(o)
  <2>1. /\ UNCHANGED <<history, queue, writer, rows, configured, chosen>>
        /\ (disabled => disabled') /\ op[o].step = "count"
    BY <1>3 DEF CountAdmitted, latchVars, ghostVars, tableVars
  <2>2. \/ op' = [op EXCEPT ![o].step = "accept"]
        \/ \E n : op' = [op EXCEPT ![o].step = "accept", ![o].count = n]
    BY <1>3 DEF CountAdmitted
  <2>3. ~Behind(o) BY <2>1 DEF Behind
  <2>4. CASE op' = [op EXCEPT ![o].step = "accept"]
    <3>1. PICK x : x = [op[o] EXCEPT !.step = "accept"] OBVIOUS
    <3>2. op' = [op EXCEPT ![o] = x] BY <2>4, <3>1
    <3>3. x.step # "apply" BY <1>1, <3>1 DEF Operation
    <3> QED BY <2>1, <2>3, <3>2, <3>3, OpRetains
  <2>5. ASSUME NEW n, op' = [op EXCEPT ![o].step = "accept", ![o].count = n]
        PROVE  \A p \in Owners : RetainedOK(p)'
    <3>1. PICK x : x = [op[o] EXCEPT !.step = "accept", !.count = n] OBVIOUS
    <3>2. op' = [op EXCEPT ![o] = x] BY <2>5, <3>1
    <3>3. x.step = "accept" BY <1>1, <3>1 DEF Operation
    <3> QED BY <2>1, <2>3, <3>2, <3>3, OpRetains
  <2> QED BY <2>2, <2>4, <2>5
<1>4. CASE FlushFails(o) \/ Report(o)
  <2>1. /\ UNCHANGED <<history, queue, writer, rows, configured, chosen>>
        /\ op' = [op EXCEPT ![o] = Idle] /\ (disabled => disabled')
        /\ op[o].step # "apply"
    BY <1>4 DEF FlushFails, Report, memoryVars, latchVars, ghostVars, tableVars
  <2>2. ~Behind(o) BY <2>1 DEF Behind
  <2>3. Idle.step # "apply" BY DEF Idle
  <2> QED BY <2>1, <2>2, <2>3, OpRetains
<1> QED BY <1>2, <1>3, <1>4, AcceptRetains, SendBarrierRetains, SqlRetains,
           ApplyRetains DEF Proceed

LEMMA NextRetains ==
    ASSUME RetainInv, [Next]_busVars, FaultsKnown, Skew = 0
    PROVE  \A p \in Owners : RetainedOK(p)'
<1>1. ASSUME UNCHANGED <<history, queue, writer, op, rows, disabled, configured, chosen>>
      PROVE  \A p \in Owners : RetainedOK(p)'
  <2>1. ASSUME NEW p \in Owners PROVE RetainedOK(p)'
    <3>1. Pending(p)' = Pending(p) /\ Active' = Active BY <1>1 DEF Pending, Active
    <3>2. Retains(p) BY <1>1, <3>1, ElseRetains
    <3> QED BY <3>2, RetainParts, RetainsKeeps
  <2> QED BY <2>1
<1>2. CASE UNCHANGED busVars
  <2>1. UNCHANGED <<history, queue, writer, op, rows, disabled, configured, chosen>>
    BY <1>2 DEF busVars, memoryVars, latchVars, ghostVars, tableVars
  <2> QED BY <1>1, <2>1
<1>3. ASSUME NEW o \in Owners, ReadMiss(o) \/ ReadStore(o) \/ CountExpires(o)
      PROVE  \A p \in Owners : RetainedOK(p)'
  <2>1. UNCHANGED <<history, queue, writer, op, rows, disabled, configured, chosen>>
    BY <1>3 DEF ReadMiss, ReadStore, CountExpires, memoryVars, latchVars,
                ghostVars, tableVars
  <2> QED BY <1>1, <2>1
<1>4. CASE Restart
  <2>1. ASSUME NEW p \in Owners PROVE RetainedOK(p)'
    <3>1. history'[p] = <<>> /\ op'[p] = Idle /\ chosen' = chosen
      BY <1>4 DEF Restart, ghostVars
    <3>2. Held(p)' = {} BY <3>1 DEF Held
    <3>3. ~Behind(p)' BY <3>1 DEF Behind, Idle
    <3>4. Len(history'[p]) = 0 BY <3>1
    <3>5. chosen'[p].max \in Nat
      BY <3>1, RetainParts, CountsTyped
    <3>6. Len(history'[p]) <= chosen'[p].max BY <3>4, <3>5
    <3> QED BY <3>2, <3>3, <3>6 DEF RetainedOK
  <2> QED BY <2>1
<1> QED BY <1>2, <1>3, <1>4, PublishingRetains, ProceedRetains, WritingRetains
        DEF Next

LEMMA RetainInit == Init => RetainInv
<1> SUFFICES ASSUME Init PROVE RetainInv
  OBVIOUS
<1>1. CountInv BY CountInit
<1>2. ASSUME NEW p \in Owners PROVE UnreadOK(p) /\ RetainedOK(p)
  <2>1. history[p] = <<>> /\ unread[p] = 0 /\ op[p] = Idle
    BY DEF Init, MemoryInit
  <2>2. DOMAIN history[p] = {} /\ Len(history[p]) = 0 BY <2>1
  <2>3. Held(p) = {} BY <2>2 DEF Held
  <2>4. ~Behind(p) BY <2>1 DEF Behind, Idle
  <2>5. chosen[p].max \in Nat BY <1>1, CountParts, CountsTyped
  <2>6. Len(history[p]) <= chosen[p].max BY <2>2, <2>5
  <2>7. UnreadOK(p) BY <2>1, <2>2 DEF UnreadOK, UnreadRight
  <2> QED BY <2>3, <2>4, <2>6, <2>7 DEF RetainedOK
<1> QED BY <1>1, <1>2, CountParts DEF RetainInv, UnreadInv

LEMMA RetainStep ==
    ASSUME RetainInv, [Next]_busVars, FaultsKnown, Skew = 0
    PROVE  RetainInv'
<1>1. CountInv' BY RetainParts, CountStep
<1>2. FinalInv' BY RetainParts, FinalStep, FinalStutter
<1>3. UnreadInv'
  <2>1. CASE Next BY <1>2, <2>1, RetainParts, NextUnread DEF UnreadInv
  <2>2. CASE UNCHANGED busVars
    <3>1. UNCHANGED <<history, unread, seen>>
      BY <2>2 DEF busVars, memoryVars, ghostVars
    <3>2. \A p \in Owners : UnreadOK(p)' BY <3>1, RetainParts, UnreadStays
    <3> QED BY <1>2, <3>2 DEF UnreadInv
  <2> QED BY <2>1, <2>2
<1> QED BY <1>1, <1>3, NextRetains DEF RetainInv

-----------------------------------------------------------------------------
(* The queue and the batch keep within their capacities.                     *)
Sized == Len(queue) <= QueueCapacity /\ Len(writer.batch) <= BatchSize

LEMMA WritingSized ==
    ASSUME ShapeInv, Sized, Writing
    PROVE  Sized'
<1>1. /\ queue \in Seq(Messages) /\ writer.batch \in Seq(Messages)
      /\ Len(queue) \in Nat /\ Len(writer.batch) \in Nat
      /\ QueueCapacity \in Nat \ {0} /\ BatchSize \in Nat \ {0}
      /\ writer = [step |-> writer.step, batch |-> writer.batch,
                   barrier |-> writer.barrier, trim |-> writer.trim]
  BY WriterParts, LenProperties, BusConstants
<1>2. Len(<<>>) = 0 /\ 0 <= QueueCapacity /\ 0 <= BatchSize /\ 1 <= BatchSize
  BY <1>1
<1>3. queue # <<>> => Len(Tail(queue)) <= QueueCapacity
  <2>1. queue # <<>> => Len(Tail(queue)) = Len(queue) - 1 BY <1>1, TailIs
  <2> QED BY <1>1, <2>1 DEF Sized
<1>4. CASE UNCHANGED <<queue, writer.batch>> BY <1>4 DEF Sized
<1>5. CASE WriterTake
  <2>1. queue # <<>> /\ queue' = Tail(queue) BY <1>5 DEF WriterTake
  <2>2. \/ writer' = writer
        \/ writer' = [writer EXCEPT !.step = "collect", !.batch = <<Head(queue)>>]
    BY <1>5 DEF WriterTake
  <2>3. writer'.batch = writer.batch \/ writer'.batch = <<Head(queue)>>
    BY <1>1, <2>2
  <2>4. Len(<<Head(queue)>>) = 1 OBVIOUS
  <2>5. Len(writer'.batch) <= BatchSize BY <1>2, <2>3, <2>4 DEF Sized
  <2> QED BY <1>3, <2>1, <2>5 DEF Sized
<1>6. CASE WriterCollect
  <2>1. /\ queue # <<>> /\ queue' = Tail(queue) /\ Len(writer.batch) < BatchSize
        /\ \/ writer' = [writer EXCEPT !.batch = Append(@, Head(queue))]
           \/ writer' = [writer EXCEPT !.step = "persist", !.barrier = Head(queue).owner]
    BY <1>6 DEF WriterCollect
  <2>2. writer'.batch = writer.batch \/ writer'.batch = Append(writer.batch, Head(queue))
    BY <1>1, <2>1
  <2>3. Len(Append(writer.batch, Head(queue))) = Len(writer.batch) + 1
    BY <1>1, <2>1, TailIs, AppendIs
  <2>4. Len(writer'.batch) <= BatchSize BY <1>1, <2>1, <2>2, <2>3
  <2> QED BY <1>3, <2>1, <2>4 DEF Sized
<1>7. CASE WriterClose
  <2>1. queue' = queue /\ writer'.batch = writer.batch BY <1>1, <1>7 DEF WriterClose
  <2> QED BY <1>4, <2>1
<1>8. CASE WriterGivesUp
  <2>1. queue' = queue /\ writer'.batch = <<>> BY <1>1, <1>8 DEF WriterGivesUp
  <2> QED BY <1>2, <2>1 DEF Sized
<1>9. CASE WriterDone
  <2>1. queue' = queue /\ writer'.batch = <<>> BY <1>9 DEF WriterDone, WriterIdle
  <2> QED BY <1>2, <2>1 DEF Sized
<1>10. CASE Stops
  <2>1. queue' = <<>> /\ writer'.batch = <<>> BY <1>10, StopsIs
  <2> QED BY <1>2, <2>1 DEF Sized
<1>11. ASSUME NEW g \in Groups, PersistGroup(g)
       PROVE  Sized'
  <2>1. Goes(g) \/ Stops BY <1>11, PersistIs
  <2>2. CASE Goes(g)
    <3>1. queue' = queue /\ writer'.batch = Others(writer.batch, g)
      BY <1>1, <2>2 DEF Goes
    <3>2. Len(Others(writer.batch, g)) <= Len(writer.batch)
          /\ Len(Others(writer.batch, g)) \in Nat
      <4>1. PICK P \in SUBSET (DOMAIN writer.batch) :
                P = {i \in DOMAIN writer.batch : GroupOf(writer.batch[i]) # g}
        OBVIOUS
      <4>2. Others(writer.batch, g) = Picked(writer.batch, P) BY <4>1 DEF Others
      <4>3. /\ Len(Picked(writer.batch, P)) = Cardinality(P)
            /\ Cardinality(P) \in 0 .. Len(writer.batch)
        BY <1>1, PickedIs
      <4> QED BY <1>1, <4>2, <4>3
    <3> QED BY <1>1, <3>1, <3>2 DEF Sized
  <2> QED BY <1>10, <2>1, <2>2
<1>12. ASSUME NEW o \in Owners, NEW s \in Settings \cup {DefaultSettings},
              PersistGroup([owner |-> o, settings |-> s])
       PROVE  Sized'
  <2>1. [owner |-> o, settings |-> s] \in Groups BY BusConstants DEF Groups
  <2> QED BY <1>11, <1>12, <2>1
<1>13. CASE TrimGroup
  <2>1. \/ writer' = [writer EXCEPT !.trim = None] /\ UNCHANGED queue
        \/ Stop
    BY <1>13 DEF TrimGroup
  <2>2. CASE writer' = [writer EXCEPT !.trim = None] /\ UNCHANGED queue
    <3>1. writer'.batch = writer.batch BY <1>1, <2>2
    <3> QED BY <1>4, <2>2, <3>1
  <2> QED BY <1>10, <2>1, <2>2 DEF Stop, Stops
<1> QED BY <1>5, <1>6, <1>7, <1>8, <1>9, <1>12, <1>13 DEF Writing

LEMMA SizedStep ==
    ASSUME ShapeInv, Sized, [Next]_busVars
    PROVE  Sized'
<1>1. CASE UNCHANGED <<queue, writer>> BY <1>1 DEF Sized
<1>2. ASSUME NEW m \in Messages, CanSend, queue' = Append(queue, m), writer' = writer
      PROVE  Sized'
  <2>1. queue \in Seq(Messages) /\ QueueCapacity \in Nat BY WriterParts, BusConstants
  <2>2. Len(queue') = Len(queue) + 1 /\ Len(queue) \in Nat BY <1>2, <2>1, AppendIs
  <2>3. Len(queue') <= QueueCapacity BY <1>2, <2>1, <2>2 DEF CanSend
  <2> QED BY <1>2, <2>3 DEF Sized
<1>3. CASE UNCHANGED busVars BY <1>1, <1>3 DEF busVars
<1>4. ASSUME NEW o \in Owners, Publishing(o) \/ Mutating(o)
      PROVE  Sized'
  BY <1>1, <1>4 DEF Publishing, Mutating, StartPublish, CancelPublish, StartMutation,
                    CallerLeaves
<1>5. ASSUME NEW o \in Owners, ReadMiss(o) \/ ReadStore(o) \/ CountExpires(o)
      PROVE  Sized'
  BY <1>1, <1>5 DEF ReadMiss, ReadStore, CountExpires
<1>6. ASSUME NEW o \in Owners, Proceed(o)
      PROVE  Sized'
  <2>1. CASE LoadSettings(o) \/ CountAdmitted(o) \/ FlushFails(o) \/ Sql(o)
             \/ Apply(o) \/ Report(o)
    BY <1>1, <2>1 DEF LoadSettings, CountAdmitted, FlushFails, Sql, Apply, Report
  <2>2. CASE SendBarrier(o)
    <3>1. /\ CanSend /\ queue' = Append(queue, Barrier(o)) /\ writer' = writer
      BY <2>2 DEF SendBarrier
    <3> QED BY <1>2, <3>1, MessagesTyped
  <2>3. CASE Accept(o)
    <3>1. /\ op[o] \in Operation /\ op[o].step = "accept"
          /\ op[o].event # None /\ op[o].settings # None
      <4>1. op[o].step = "accept" BY <2>3 DEF Accept
      <4> QED BY <4>1, OpParts DEF OpOK, PublishSteps
    <3>2. op[o].event \in Events /\ op[o].settings \in Retention
      BY <3>1 DEF Operation
    <3>3. PICK m \in Messages : m = Request(o, op[o].event, op[o].settings)
      BY <3>2, MessagesTyped
    <3>4. writer' = writer BY <2>3 DEF Accept
    <3>5. queue' = queue \/ (CanSend /\ queue' = Append(queue, m))
      BY <2>3, <3>3, AcceptIs
    <3> QED BY <1>1, <1>2, <3>4, <3>5
  <2> QED BY <1>6, <2>1, <2>2, <2>3 DEF Proceed
<1>7. CASE Restart
  <2>1. queue' = <<>> /\ writer'.batch = <<>> BY <1>7 DEF Restart, WriterIdle
  <2>2. Len(<<>>) = 0 /\ 0 <= QueueCapacity /\ 0 <= BatchSize BY BusConstants
  <2> QED BY <2>1, <2>2 DEF Sized
<1> QED BY <1>3, <1>4, <1>5, <1>6, <1>7, WritingSized DEF Next

LEMMA SizedInit == Init => Sized
<1> SUFFICES ASSUME Init PROVE Sized
  OBVIOUS
<1>1. queue = <<>> /\ writer.batch = <<>> BY DEF Init, MemoryInit, WriterIdle
<1>2. Len(<<>>) = 0 /\ 0 <= QueueCapacity /\ 0 <= BatchSize BY BusConstants
<1> QED BY <1>1, <1>2 DEF Sized

(* What the invariants say of the types.                                     *)
LEMMA TypesFollow ==
    ASSUME FinalInv, Sized, \A o \in Owners : UnreadOK(o)
    PROVE  TypeOK
<1>1. ShapeInv /\ BusTyped /\ WriterOK BY DEF FinalInv, ShapeInv
<1>2. published \in 0 .. MaxEvents BY <1>1 DEF BusTyped
<1>3. ASSUME NEW e \in Events, e.id <= published PROVE e \in Event
  <2>1. e.id \in Nat \ {0} BY DEF Events
  <2>2. MaxEvents \in Nat BY BusConstants
  <2>3. e.id \in 1 .. MaxEvents BY <1>2, <1>3, <2>1, <2>2
  <2> QED BY <2>3 DEF Events, Event
<1>4. None \notin Event
  <2>1. \A e \in Event : e \in [id : Nat, at : Int, kind : Kinds] BY DEF Event
  <2> QED BY <2>1, BusConstants
<1>5. ASSUME NEW o \in Owners
      PROVE  \A e \in Known(o) : e \in Event
  <2>1. \A e \in Known(o) : e \in Events BY <1>1, EventsTyped
  <2>2. \A e \in Known(o) : e.id <= published BY DEF FinalInv, OwnerOK, NumberedOK
  <2> QED BY <1>3, <2>1, <2>2
<1>6. ASSUME NEW m \in Messages, NEW o \in Owners, m.owner = o,
             m.type = "event" => m.event \in Known(o)
      PROVE  m \in Message
  <2>1. CASE m.type = "event"
    <3>1. m \in [type : {"event"}, owner : Owners, event : Events, settings : Retention]
      BY <2>1 DEF Messages
    <3>2. m.event \in Event BY <1>5, <1>6, <2>1
    <3> QED BY <3>1, <3>2 DEF Message
  <2>2. CASE m.type # "event" BY <2>2 DEF Messages, Message
  <2> QED BY <2>1, <2>2
<1>7. ASSUME NEW i \in DOMAIN queue PROVE queue[i] \in Message
  <2>1. queue \in Seq(Messages) BY <1>1, WriterParts
  <2>2. queue[i] \in Messages /\ queue[i].owner \in Owners
    BY <2>1, ElementOfSeq, LenProperties, MessageParts
  <2>3. queue[i].type = "event" => queue[i].event \in Known(queue[i].owner)
    BY PendingIs DEF Known
  <2> QED BY <1>6, <2>2, <2>3
<1>8. ASSUME NEW i \in DOMAIN writer.batch PROVE writer.batch[i] \in Message
  <2>1. writer.batch \in Seq(Messages) BY <1>1, WriterParts
  <2>2. writer.batch[i] \in Messages /\ writer.batch[i].owner \in Owners
    BY <2>1, ElementOfSeq, LenProperties, MessageParts
  <2>3. writer.batch[i].type = "event" =>
            writer.batch[i].event \in Known(writer.batch[i].owner)
    BY PendingIs DEF Known
  <2> QED BY <1>6, <2>2, <2>3
<1>9. ASSUME NEW o \in Owners
      PROVE  /\ Held(o) \subseteq Event /\ unread[o] \in 0 .. Len(history[o])
             /\ cache[o] \in Retention \cup {None} /\ stored[o] \in Retention \cup {None}
             /\ counts[o] \in Nat \cup {None} /\ admitted[o] \in Nat \cup {None}
             /\ rows[o] \subseteq [key : Nat, event : Event, read : BOOLEAN]
             /\ op[o].step \in {"count", "accept"} => op[o].settings \in Retention
             /\ op[o].kind = "publish" <=> op[o].event \in Event
  <2>1. Held(o) \subseteq Event BY <1>5 DEF Known
  <2>2. unread[o] \in 0 .. Len(history[o])
    <3>1. unread[o] \in Nat /\ Len(history[o]) \in Nat
      BY <1>1, MemoryTyped, LenProperties
    <3>2. unread[o] <= Len(history[o]) BY DEF UnreadOK, UnreadRight
    <3> QED BY <3>1, <3>2
  <2>3. /\ cache[o] \in Retention \cup {None} /\ stored[o] \in Retention \cup {None}
        /\ counts[o] \in Nat \cup {None} /\ admitted[o] \in Nat \cup {None}
        /\ rows[o] \in SUBSET Row
    BY <1>1 DEF BusTyped
  <2>4. rows[o] \subseteq [key : Nat, event : Event, read : BOOLEAN]
    <3>1. ASSUME NEW r \in rows[o] PROVE r \in [key : Nat, event : Event, read : BOOLEAN]
      <4>1. r.event \in Event BY <1>5 DEF Known
      <4> QED BY <2>3, <4>1 DEF Row
    <3> QED BY <3>1
  <2>5. /\ op[o] \in Operation /\ OpOK(o)
        /\ (op[o].kind = "publish" <=> op[o].event # None)
    BY <1>1, OpParts
  <2>6. op[o].step \in {"count", "accept"} => op[o].settings \in Retention
    BY <2>5 DEF OpOK, Operation
  <2>7. op[o].event # None => op[o].event \in Event
    <3>1. op[o].event # None => op[o].event \in Events /\ op[o].event.id <= published
      BY <2>5 DEF Operation, FinalInv, OwnerOK, NumberedOK
    <3> QED BY <1>3, <3>1
  <2>8. op[o].kind = "publish" <=> op[o].event \in Event BY <1>4, <2>5, <2>7
  <2> QED BY <2>1, <2>2, <2>3, <2>4, <2>6, <2>8
<1>10. writer.step = "stopped" => disabled BY <1>1 DEF WriterOK
<1> QED BY <1>7, <1>8, <1>9, <1>10 DEF TypeOK, Sized

(* Memory and table keep in step while storage is active: what the bus shows *)
(* is stored or on its way, trims, deletions, smaller limits and restarts    *)
(* included, and an owner with drop-new settings never has more stored than  *)
(* they allow.  Events are trimmed by their timestamps, so the theorem is    *)
(* about publications whose timestamps follow their order.                   *)
THEOREM TableKeepsUp ==
    ASSUME FaultsKnown, Skew = 0
    PROVE  SafetySpec => []TableFollowsHistory
<1>1. ASSUME RetainInv, Sized PROVE TableFollowsHistory
  <2>1. TypeOK BY <1>1, RetainParts, TypesFollow
  <2>2. RetainedIsStored
    BY <1>1, RetainParts DEF RetainedIsStored, RetainedOK, Behind, Around, StoredEvents
  <2>3. DropNewBoundsTable
    <3>1. ASSUME NEW o \in Owners, StoredSettings(o).policy = "drop_new"
          PROVE  Cardinality(rows[o]) <= StoredSettings(o).max
      <4>1. CASE configured
        <5>1. StoredSettings(o) = chosen[o] BY <1>1, <4>1, RetainParts DEF SettingsOK
        <5>2. Cardinality(rows[o]) <= chosen[o].max
          BY <1>1, <3>1, <5>1, RetainParts DEF CountOK, DropsNew
        <5> QED BY <5>1, <5>2
      <4>2. CASE ~configured
        <5>1. ShapeInv /\ BusTyped BY <1>1, RetainParts DEF ShapeInv
        <5>2. rows[o] = {} BY <4>2, <5>1 DEF ShapeInv, UnconfiguredOK
        <5>3. Cardinality(rows[o]) = 0 BY <5>2, FS_EmptySet
        <5>4. StoredSettings(o).max \in Nat
          BY <5>1, StoredSettingsTyped DEF Retention
        <5> QED BY <5>3, <5>4
      <4> QED BY <4>1, <4>2
    <3> QED BY <3>1 DEF DropNewBoundsTable
  <2> QED BY <2>1, <2>2, <2>3 DEF TableFollowsHistory
<1>2. Init => RetainInv /\ Sized BY RetainInit, SizedInit
<1>3. RetainInv /\ Sized /\ [Next]_busVars => RetainInv' /\ Sized'
  BY RetainParts, RetainStep, SizedStep
<1> QED BY <1>1, <1>2, <1>3, PTL DEF SafetySpec
=============================================================================
