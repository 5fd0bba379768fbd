------------------------- MODULE LearningStoreProofs -------------------------
(* Proofs about the learning store, for every number of calls and restarts.  *)
EXTENDS LearningStore, TLAPS

LEMMA RowChanges ==
    ASSUME NEW rows \in Rows, NEW a \in Records, NEW v \in Reviews
    PROVE  /\ [rows EXCEPT ![a] = <<>>] \in Rows
           /\ rows[a] # Absent => [rows EXCEPT ![a] = Append(@, v)] \in Rows
BY DEF Rows

LEMMA NoRowsTyped == NoRows \in Rows
BY DEF Rows, NoRows

(* Attempts are known once a call has begun.                                 *)
Named == \A c \in Calls : call[c].at # "idle" => call[c].attempt \in Records

CallsTyped == call \in [Calls -> CallRecord]

SameName(old, new) ==
    new.attempt = old.attempt /\ new.expected = old.expected /\ new.after = old.after
SameAnswer(old, new) == new.answer = old.answer /\ new.via = old.via

(* Everything about a call save where it is and how it was answered.         *)
SameCall(old, new) ==
    SameName(old, new) /\ new.statement = old.statement /\ new.seen = old.seen

LEMMA GoFrame ==
    ASSUME CallsTyped, NEW c \in Calls,
           NEW place \in {"idle"} \cup InDatabase \cup Local \cup Ended, Go(c, place)
    PROVE  /\ CallsTyped'
           /\ \A k \in Calls \ {c} : call'[k] = call[k]
           /\ SameCall(call[c], call'[c])
           /\ call'[c].at = place /\ call'[c].answer = call[c].answer
           /\ call'[c].via = call[c].via
BY DEF CallsTyped, CallRecord, Go, SameCall, SameName

LEMMA AnswerFrame ==
    ASSUME CallsTyped, NEW c \in Calls,
           NEW answer \in {"none", "ok", "conflict", "missing", "failed"},
           NEW via \in {"none", "database", "local"}, Answer(c, answer, via)
    PROVE  /\ CallsTyped'
           /\ \A k \in Calls \ {c} : call'[k] = call[k]
           /\ SameCall(call[c], call'[c])
           /\ call'[c].at = "done" /\ call'[c].answer = answer /\ call'[c].via = via
<1> DEFINE r == [call[c] EXCEPT !.at = "done", !.answer = answer, !.via = via]
<1>0. call' = [call EXCEPT ![c] = r]
  BY DEF Answer, CallsTyped
<1>3. r \in CallRecord
  <2> DEFINE d == [call[c] EXCEPT !.at = "done"]
             a == [d EXCEPT !.answer = answer]
             v == [a EXCEPT !.via = via]
  <2>1. d \in CallRecord
    BY DEF CallsTyped, CallRecord, Ended
  <2>2. a \in CallRecord
    BY <2>1 DEF CallRecord
  <2>3. v \in CallRecord
    BY <2>2 DEF CallRecord
  <2>4. r = v
    OBVIOUS
  <2> QED
    BY <2>3, <2>4
<1>1. CallsTyped'
  BY <1>0, <1>3 DEF CallsTyped
<1>2. \A k \in Calls \ {c} : call'[k] = call[k]
  BY DEF CallsTyped, Answer
<1> QED
  BY <1>1, <1>2 DEF CallsTyped, CallRecord, Answer, SameCall, SameName

LEMMA Places ==
    {"idle", "done", "gone", "schema", "sent", "exists", "local", "loading", "admission",
     "commit", "snapshot"} = {"idle"} \cup InDatabase \cup Local \cup Ended
BY DEF InDatabase, Local, Ended

(* The other shapes in which a call changes.                                 *)
LEMMA BeginFrame ==
    ASSUME CallsTyped, NEW c \in Calls, Begin(c)
    PROVE  /\ CallsTyped'
           /\ \A k \in Calls \ {c} : call'[k] = call[k]
           /\ call'[c].at \in {"done", "schema", "local"}
           /\ call'[c].statement = call[c].statement /\ call'[c].via = call[c].via
           /\ call'[c].seen = call[c].seen
           /\ call'[c].answer \in {"none", "failed"}
           /\ call'[c].attempt \in Records /\ (c \in Records => call'[c].attempt = c)
           /\ call'[c].after \subseteq Confirmed
<1>1. PICK a \in Records, n \in 0..MaxRevision :
        /\ c \in Records => a = c
        /\ call' = [call EXCEPT
             ![c].attempt = a, ![c].expected = n,
             ![c].after = IF c \in Reads THEN Confirmed ELSE {},
             ![c].at = IF c \in Reviews /\ n = MaxRevision THEN "done"
                       ELSE IF ActivePool THEN "schema" ELSE "local",
             ![c].answer = IF c \in Reviews /\ n = MaxRevision THEN "failed" ELSE "none"]
  BY DEF Begin
<1> DEFINE s == IF c \in Reads THEN Confirmed ELSE {}
           p == IF c \in Reviews /\ n = MaxRevision THEN "done"
                ELSE IF ActivePool THEN "schema" ELSE "local"
           w == IF c \in Reviews /\ n = MaxRevision THEN "failed" ELSE "none"
           r1 == [call[c] EXCEPT !.attempt = a]
           r2 == [r1 EXCEPT !.expected = n]
           r3 == [r2 EXCEPT !.after = s]
           r4 == [r3 EXCEPT !.at = p]
           r5 == [r4 EXCEPT !.answer = w]
<1>2. /\ s \subseteq Calls /\ s \subseteq Confirmed
      /\ p \in {"done", "schema", "local"} /\ w \in {"none", "failed"}
  BY DEF Confirmed
<1>3. call' = [call EXCEPT ![c] = r5]
  BY <1>1 DEF CallsTyped
<1> HIDE DEF s, p, w
<1>4. r1 \in CallRecord
  BY DEF CallsTyped, CallRecord
<1>5. r2 \in CallRecord
  BY <1>4 DEF CallRecord
<1>6. r3 \in CallRecord
  BY <1>5, <1>2 DEF CallRecord
<1>7. r4 \in CallRecord
  BY <1>6, <1>2 DEF CallRecord, InDatabase, Local, Ended
<1>8. r5 \in CallRecord
  BY <1>7, <1>2 DEF CallRecord
<1>9. CallsTyped' /\ call'[c] = r5 /\ \A k \in Calls \ {c} : call'[k] = call[k]
  BY <1>3, <1>8 DEF CallsTyped
<1>10. /\ r5.at = p /\ r5.answer = w /\ r5.after = s /\ r5.attempt = a
       /\ r5.statement = call[c].statement /\ r5.via = call[c].via /\ r5.seen = call[c].seen
  BY DEF CallsTyped, CallRecord
<1> QED
  BY <1>1, <1>2, <1>9, <1>10

LEMMA SentFrame ==
    ASSUME CallsTyped, NEW c \in Calls,
           call' = [call EXCEPT ![c].at = "sent", ![c].statement = "sent"]
    PROVE  /\ CallsTyped'
           /\ \A k \in Calls \ {c} : call'[k] = call[k]
           /\ call'[c].at = "sent" /\ call'[c].statement = "sent"
           /\ SameAnswer(call[c], call'[c]) /\ SameName(call[c], call'[c])
           /\ call'[c].seen = call[c].seen
<1> DEFINE r1 == [call[c] EXCEPT !.at = "sent"]
           r2 == [r1 EXCEPT !.statement = "sent"]
<1>1. call' = [call EXCEPT ![c] = r2]
  BY DEF CallsTyped
<1>2. r1 \in CallRecord
  BY DEF CallsTyped, CallRecord, InDatabase
<1>3. r2 \in CallRecord
  BY <1>2 DEF CallRecord
<1>4. call'[c] = r2 /\ CallsTyped' /\ \A k \in Calls \ {c} : call'[k] = call[k]
  BY <1>1, <1>3 DEF CallsTyped
<1>5. /\ r2.at = "sent" /\ r2.statement = "sent" /\ r2.seen = call[c].seen
      /\ SameAnswer(call[c], r2) /\ SameName(call[c], r2)
  BY DEF CallsTyped, CallRecord, SameAnswer, SameName
<1> QED
  BY <1>4, <1>5

LEMMA RanFrame ==
    ASSUME CallsTyped, NEW c \in Calls, NEW what \in {"saved", "void"},
           call' = [call EXCEPT ![c].statement = what]
    PROVE  /\ CallsTyped'
           /\ \A k \in Calls \ {c} : call'[k] = call[k]
           /\ call'[c].at = call[c].at /\ call'[c].statement = what
           /\ SameAnswer(call[c], call'[c]) /\ SameName(call[c], call'[c])
           /\ call'[c].seen = call[c].seen
BY DEF CallsTyped, CallRecord, SameAnswer, SameName

LEMMA ReadFrame ==
    ASSUME CallsTyped, NEW c \in Calls, NEW rows \in Rows,
           call' = [call EXCEPT ![c].statement = "saved", ![c].seen = rows]
    PROVE  /\ CallsTyped'
           /\ \A k \in Calls \ {c} : call'[k] = call[k]
           /\ call'[c].at = call[c].at /\ call'[c].statement = "saved"
           /\ SameAnswer(call[c], call'[c]) /\ SameName(call[c], call'[c])
           /\ call'[c].seen = rows
<1> DEFINE r1 == [call[c] EXCEPT !.statement = "saved"]
           r2 == [r1 EXCEPT !.seen = rows]
<1>1. call' = [call EXCEPT ![c] = r2]
  BY DEF CallsTyped
<1>2. r1 \in CallRecord
  BY DEF CallsTyped, CallRecord
<1>3. r2 \in CallRecord
  BY <1>2 DEF CallRecord
<1>4. call'[c] = r2 /\ CallsTyped' /\ \A k \in Calls \ {c} : call'[k] = call[k]
  BY <1>1, <1>3 DEF CallsTyped
<1>5. /\ r2.at = call[c].at /\ r2.statement = "saved" /\ r2.seen = rows
      /\ SameAnswer(call[c], r2) /\ SameName(call[c], r2)
  BY DEF CallsTyped, CallRecord, SameAnswer, SameName
<1> QED
  BY <1>4, <1>5

LEMMA ShownFrame ==
    ASSUME CallsTyped, NEW c \in Calls, NEW rows \in Rows,
           call' = [call EXCEPT ![c].at = "done", ![c].answer = "ok",
                                ![c].via = "local", ![c].seen = rows]
    PROVE  /\ CallsTyped'
           /\ \A k \in Calls \ {c} : call'[k] = call[k]
           /\ call'[c].at = "done" /\ call'[c].answer = "ok" /\ call'[c].via = "local"
           /\ call'[c].statement = call[c].statement /\ SameName(call[c], call'[c])
           /\ call'[c].seen = rows
<1> DEFINE r1 == [call[c] EXCEPT !.at = "done"]
           r2 == [r1 EXCEPT !.answer = "ok"]
           r3 == [r2 EXCEPT !.via = "local"]
           r4 == [r3 EXCEPT !.seen = rows]
<1>1. call' = [call EXCEPT ![c] = r4]
  BY DEF CallsTyped
<1>2. r1 \in CallRecord
  BY DEF CallsTyped, CallRecord, Ended
<1>3. r2 \in CallRecord
  BY <1>2 DEF CallRecord
<1>4. r3 \in CallRecord
  BY <1>3 DEF CallRecord
<1>5. r4 \in CallRecord
  BY <1>4 DEF CallRecord
<1>6. call'[c] = r4 /\ CallsTyped' /\ \A k \in Calls \ {c} : call'[k] = call[k]
  BY <1>1, <1>5 DEF CallsTyped
<1>7. /\ r4.at = "done" /\ r4.answer = "ok" /\ r4.via = "local" /\ r4.seen = rows
      /\ r4.statement = call[c].statement /\ SameName(call[c], r4)
  BY DEF CallsTyped, CallRecord, SameName
<1> QED
  BY <1>6, <1>7

LEMMA RestartFrame ==
    ASSUME CallsTyped, Restart
    PROVE  /\ CallsTyped'
           /\ \A k \in Calls : /\ SameCall(call[k], call'[k])
                               /\ call'[k].answer = call[k].answer
                               /\ call'[k].via = call[k].via
                               /\ \/ call'[k].at = "gone" /\ call[k].at # "idle"
                                  \/ call[k].at \in {"idle", "done", "gone"}
                                     /\ call'[k].at = call[k].at
BY DEF CallsTyped, CallRecord, Restart, SameCall, SameName, InDatabase, Local, Ended

-----------------------------------------------------------------------------
(* Rows and what they hold.                                                  *)
Keeps(rows, c, a, n) ==
    /\ rows[a] # Absent
    /\ c \in Reviews => Len(rows[a]) > n /\ rows[a][n + 1] = c

LEMMA HoldsIsKeeps ==
    ASSUME NEW rows, NEW c \in Calls
    PROVE  Holds(rows, c) <=> Keeps(rows, c, call[c].attempt, call[c].expected)
BY DEF Holds, Keeps

LEMMA RowIsSequence ==
    ASSUME NEW rows \in Rows, NEW a \in Records
    PROVE  rows[a] # Absent => rows[a] \in Seq(Reviews)
BY DEF Rows

LEMMA ExtendsSelf ==
    ASSUME NEW rows \in Rows PROVE Extends(rows, rows)
<1> SUFFICES ASSUME NEW a \in Records, rows[a] # Absent
             PROVE  Len(rows[a]) <= Len(rows[a]) /\ SubSeq(rows[a], 1, Len(rows[a])) = rows[a]
  BY DEF Extends
<1>1. rows[a] \in Seq(Reviews)
  BY RowIsSequence
<1> QED
  BY <1>1

LEMMA RecordGrows ==
    ASSUME NEW rows \in Rows, NEW c \in Records, rows[c] = Absent
    PROVE  /\ WithRecord(rows, c) \in Rows
           /\ Extends(rows, WithRecord(rows, c))
           /\ WithRecord(rows, c)[c] = <<>>
           /\ \A a \in Records \ {c} : WithRecord(rows, c)[a] = rows[a]
<1>1. /\ WithRecord(rows, c)[c] = <<>>
      /\ \A a \in Records \ {c} : WithRecord(rows, c)[a] = rows[a]
  BY DEF WithRecord, Rows
<1>2. WithRecord(rows, c) \in Rows
  BY DEF WithRecord, Rows
<1>3. Extends(rows, WithRecord(rows, c))
  BY <1>1, ExtendsSelf DEF Extends
<1> QED
  BY <1>1, <1>2, <1>3

LEMMA FeedbackGrows ==
    ASSUME NEW rows \in Rows, NEW c \in Reviews, call[c].attempt \in Records,
           UpdateMatches(rows, c)
    PROVE  /\ WithFeedback(rows, c) \in Rows
           /\ Extends(rows, WithFeedback(rows, c))
           /\ Holds(WithFeedback(rows, c), c)
           /\ \A a \in Records : rows[a] = Absent => WithFeedback(rows, c)[a] = Absent
<1> DEFINE t == call[c].attempt
<1>1. rows[t] \in Seq(Reviews) /\ rows[t] # Absent /\ Len(rows[t]) = call[c].expected
  BY RowIsSequence DEF UpdateMatches
<1> DEFINE s == Append(rows[t], c)
<1>2. /\ s \in Seq(Reviews) /\ Len(s) = Len(rows[t]) + 1 /\ s[Len(rows[t]) + 1] = c
      /\ SubSeq(s, 1, Len(rows[t])) = rows[t]
  BY <1>1
<1>3. s # Absent
  BY <1>2, LearnConstants
<1>4. /\ WithFeedback(rows, c)[t] = s
      /\ \A a \in Records \ {t} : WithFeedback(rows, c)[a] = rows[a]
  BY DEF WithFeedback, Rows
<1> HIDE DEF s
<1>5. WithFeedback(rows, c) \in Rows
  <2>1. WithFeedback(rows, c) = [rows EXCEPT ![t] = s]
    BY DEF WithFeedback, s
  <2> QED
    BY <2>1, <1>2 DEF Rows
<1>6. Extends(rows, WithFeedback(rows, c))
  <2> SUFFICES ASSUME NEW a \in Records, rows[a] # Absent
               PROVE  /\ WithFeedback(rows, c)[a] # Absent
                      /\ Len(rows[a]) <= Len(WithFeedback(rows, c)[a])
                      /\ SubSeq(WithFeedback(rows, c)[a], 1, Len(rows[a])) = rows[a]
    BY DEF Extends
  <2>1. CASE a = t
    <3>1. Len(rows[t]) \in Nat
      BY <1>1
    <3> QED
      BY <2>1, <3>1, <1>2, <1>3, <1>4
  <2>2. CASE a # t
    BY <2>2, <1>4, ExtendsSelf DEF Extends
  <2> QED
    BY <2>1, <2>2
<1>7. Len(rows[t]) \in Nat
  BY <1>1
<1>8. Holds(WithFeedback(rows, c), c)
  BY <1>1, <1>2, <1>3, <1>4, <1>7 DEF Holds
<1> QED
  BY <1>1, <1>4, <1>5, <1>6, <1>8

(* What a store holds it goes on holding while its rows grow.                *)
LEMMA KeepsGrow ==
    ASSUME NEW old \in Rows, NEW new \in Rows, Extends(old, new),
           NEW c \in Calls, NEW a \in Records, NEW n \in Nat, Keeps(old, c, a, n)
    PROVE  Keeps(new, c, a, n)
<1>1. /\ old[a] # Absent /\ new[a] # Absent /\ Len(old[a]) <= Len(new[a])
      /\ SubSeq(new[a], 1, Len(old[a])) = old[a]
  BY DEF Keeps, Extends
<1>2. old[a] \in Seq(Reviews) /\ new[a] \in Seq(Reviews)
  BY <1>1, RowIsSequence
<1>3. CASE c \in Reviews
  <2>1. Len(old[a]) > n /\ old[a][n + 1] = c
    BY <1>3 DEF Keeps
  <2>2. n + 1 \in 1..Len(old[a])
    BY <2>1, <1>2
  <2>3. SubSeq(new[a], 1, Len(old[a]))[n + 1] = new[a][n + 1]
    BY <2>2, <1>1, <1>2
  <2>4. Len(new[a]) > n
    BY <2>1, <1>1, <1>2
  <2> QED
    BY <1>1, <2>1, <2>3, <2>4 DEF Keeps
<1>4. CASE c \notin Reviews
  BY <1>1, <1>4 DEF Keeps
<1> QED
  BY <1>3, <1>4
-----------------------------------------------------------------------------
(* The inductive invariant.  What is true of each call;                      *)
PlaceSound(c) ==
    /\ call[c].at # "idle" => /\ call[c].attempt \in Records
                              /\ c \in Records => call[c].attempt = c
    /\ call[c].at \in {"idle", "schema"} => call[c].statement = "none"
    /\ call[c].answer = "ok" => call[c].via # "none"
    /\ call[c].via # "none" => call[c].at = "done"
    /\ call[c].answer = "ok" /\ call[c].via = "database" => call[c].statement = "saved"
    /\ call[c].at \in {"admission", "snapshot"} => loaded
    /\ call[c].at = "snapshot" => c \in Reads
    /\ call[c].at \in {"admission", "commit"} => c \notin Reads
    /\ c \in Reads /\ (call[c].at \in Local \/ call[c].via = "local") =>
         call[c].statement = "none"

AfterSound(c) == call[c].after \subseteq Confirmed

CallsSound == \A c \in Calls : PlaceSound(c) /\ AfterSound(c)

(* an attempt is in a store only because its call put it there;              *)
Landed == {"commit", "done", "gone"}

RowsFromCalls ==
    \A a \in Records :
        /\ table[a] # Absent => call[a].statement = "saved"
        /\ file[a] # Absent => call[a].at \in Landed
        /\ memory[a] # Absent => call[a].at \in Landed
        /\ worker # Absent /\ worker.rows[a] # Absent => call[a].at \in Landed

(* what the blocking worker has in hand;                                     *)
LoadSound ==
    worker # Absent /\ worker.kind = "load" =>
        /\ ~loaded
        /\ worker.at # "start" => worker.rows = file
        /\ worker.at = "ready" => memory = file

CommitSound ==
    worker # Absent /\ worker.kind = "commit" =>
        /\ loaded /\ worker.for \notin Reads /\ call[worker.for].at # "idle"
        /\ worker.at # "ready"
        /\ worker.at = "start" => memory = file
        /\ worker.at = "publish" => file = worker.rows
        /\ Extends(memory, worker.rows) /\ Holds(worker.rows, worker.for)

EmptyUntilLoaded ==
    ~loaded => \/ memory = NoRows
               \/ worker # Absent /\ worker.kind = "load" /\ worker.at = "ready"

StoresSound ==
    /\ RowsFromCalls /\ LoadSound /\ CommitSound /\ EmptyUntilLoaded /\ MemoryFollowsFile

(* what the stores hold of the calls, and what a read has seen of them.      *)
StatementsHold == \A c \in Calls \ Reads : call[c].statement = "saved" => Holds(table, c)

MemoryHolds ==
    loaded => \A c \in Confirmed \ Reads : call[c].via = "local" => Holds(memory, c)

SeenHolds ==
    \A c \in Reads : call[c].statement = "saved" =>
        \A k \in call[c].after \ Reads : call[k].via = "database" => Holds(call[c].seen, k)

CallsHeld ==
    /\ StatementsHold /\ MemoryHolds /\ ConfirmedIsKept /\ SeenHolds /\ ReadsAreCurrent

LearnInv == LearnTypeOK /\ CallsSound /\ StoresSound /\ CallsHeld

(* How a step may change a call: once begun it stays what it is, once        *)
(* confirmed it stays so, and what a statement did is done.                  *)
Steady(c) ==
    /\ call[c].at # "idle" => /\ call'[c].at # "idle"
                              /\ call'[c].attempt = call[c].attempt
                              /\ call'[c].expected = call[c].expected
                              /\ call'[c].after = call[c].after
    /\ call[c].answer = "ok" => call'[c].answer = "ok" /\ call'[c].via = call[c].via
    /\ call[c].statement = "saved" => call'[c].statement = "saved"
    /\ call[c].statement = "saved" \/ call[c].answer = "ok" => call'[c].seen = call[c].seen
    /\ call[c].at \in Landed => call'[c].at \in Landed
CallsMove == CallsTyped' /\ CallsSound' /\ \A k \in Calls : Steady(k)

(* A step that moves one call has to look at that call alone.                *)
LEMMA OneCall ==
    ASSUME CallsTyped', CallsSound, loaded => loaded', NEW c \in Calls,
           \A k \in Calls \ {c} : call'[k] = call[k],
           Steady(c), PlaceSound(c)', call'[c].after \subseteq Confirmed
    PROVE  CallsMove
<1>1. \A k \in Calls : Steady(k)
  BY DEF Steady
<1>2. Confirmed \subseteq Confirmed'
  BY <1>1 DEF Confirmed, Steady
<1>3. \A k \in Calls : PlaceSound(k)'
  BY DEF CallsSound, PlaceSound
<1>4. \A k \in Calls : AfterSound(k)'
  BY <1>2 DEF CallsSound, AfterSound
<1> QED
  BY <1>1, <1>3, <1>4 DEF CallsSound, CallsMove

LEMMA NoCall ==
    ASSUME CallsTyped, CallsSound, loaded => loaded', call' = call
    PROVE  CallsMove
BY DEF CallsMove, CallsTyped, CallsSound, PlaceSound, AfterSound, Confirmed, Steady

LEMMA TypedCalls ==
    ASSUME LearnInv
    PROVE  /\ CallsTyped /\ CallsSound
           /\ \A c \in Calls : PlaceSound(c) /\ call[c].after \subseteq Confirmed
BY DEF LearnInv, LearnTypeOK, CallsTyped, CallsSound, AfterSound

(* A call that has begun and is not over goes on, or ends unconfirmed.       *)
LEMMA GoMoves ==
    ASSUME LearnInv, NEW c \in Calls, NEW place \in InDatabase \cup Local \cup Ended,
           Go(c, place), loaded => loaded',
           call[c].at \in InDatabase \cup Local,
           call[c].at = "commit" => place \in Landed,
           place = "schema" => FALSE,
           place \in {"admission", "snapshot"} => loaded',
           place = "snapshot" => c \in Reads,
           place \in {"admission", "commit"} => c \notin Reads,
           c \in Reads /\ place \in Local => call[c].statement = "none"
    PROVE  CallsMove
<1>1. /\ CallsTyped /\ CallsSound /\ PlaceSound(c)
      /\ call[c].after \subseteq Confirmed
  BY TypedCalls
<1>2. /\ CallsTyped'
      /\ \A k \in Calls \ {c} : call'[k] = call[k]
      /\ SameCall(call[c], call'[c])
      /\ call'[c].at = place /\ call'[c].answer = call[c].answer
      /\ call'[c].via = call[c].via
  BY <1>1, GoFrame
<1>3. /\ call[c].at \notin {"idle", "done", "gone"} /\ place # "idle"
      /\ call[c].answer # "ok"
  BY <1>1 DEF PlaceSound, InDatabase, Local, Ended
<1>4. Steady(c)
  BY <1>2, <1>3 DEF Steady, SameCall, SameName, Landed
<1>5. PlaceSound(c)'
  BY <1>1, <1>2, <1>3 DEF PlaceSound, SameCall, SameName
<1> QED
  BY <1>1, <1>2, <1>4, <1>5, OneCall DEF SameCall, SameName

LEMMA AnswerMoves ==
    ASSUME LearnInv, NEW c \in Calls, NEW answer \in {"none", "ok", "conflict", "missing", "failed"},
           NEW via \in {"database", "local"}, Answer(c, answer, via), loaded => loaded',
           call[c].at \in InDatabase \cup Local,
           answer = "ok" /\ via = "database" => call[c].statement = "saved",
           c \in Reads /\ via = "local" => call[c].statement = "none"
    PROVE  CallsMove
<1>1. /\ CallsTyped /\ CallsSound /\ PlaceSound(c)
      /\ call[c].after \subseteq Confirmed
  BY TypedCalls
<1>2. /\ CallsTyped'
      /\ \A k \in Calls \ {c} : call'[k] = call[k]
      /\ SameCall(call[c], call'[c])
      /\ call'[c].at = "done" /\ call'[c].answer = answer
      /\ call'[c].via = via
  BY <1>1, AnswerFrame
<1>3. /\ call[c].at \notin {"idle", "done", "gone"}
      /\ call[c].answer # "ok"
  BY <1>1 DEF PlaceSound, InDatabase, Local
<1>4. Steady(c)
  BY <1>2, <1>3 DEF Steady, SameCall, SameName, Landed
<1>5. PlaceSound(c)'
  BY <1>1, <1>2, <1>3 DEF PlaceSound, SameCall, SameName, Local
<1> QED
  BY <1>1, <1>2, <1>4, <1>5, OneCall DEF SameCall, SameName

LEMMA ClientSteps ==
    ASSUME LearnInv, NEW c \in Calls,
           \/ Begin(c) \/ SchemaReady(c) \/ SchemaFails(c) \/ RunStatement(c)
           \/ StatementAnswers(c) \/ StatementFails(c) \/ TellWhy(c)
           \/ AlreadyLoaded(c) \/ StartLoading(c) \/ TakeSnapshot(c)
           \/ AdmitRecord(c) \/ AdmitReview(c) \/ Disconnect(c)
    PROVE  CallsMove
<1>1. /\ CallsTyped /\ CallsSound /\ PlaceSound(c)
      /\ call[c].after \subseteq Confirmed
      /\ \A k \in Calls \ {c} : PlaceSound(k)
      /\ table \in Rows /\ memory \in Rows
  BY TypedCalls DEF LearnInv, LearnTypeOK
<1>2. CASE Begin(c)
  <2>1. loaded' = loaded /\ call[c].at = "idle"
    BY <1>2 DEF Begin, localVars
  <2>2. /\ CallsTyped'
        /\ \A k \in Calls \ {c} : call'[k] = call[k]
        /\ call'[c].at \in {"done", "schema", "local"}
        /\ call'[c].statement = call[c].statement /\ call'[c].via = call[c].via
        /\ call'[c].seen = call[c].seen
        /\ call'[c].answer \in {"none", "failed"}
        /\ call'[c].attempt \in Records /\ (c \in Records => call'[c].attempt = c)
        /\ call'[c].after \subseteq Confirmed
    BY <1>1, <1>2, BeginFrame
  <2>3. Steady(c)
    BY <1>1, <2>1, <2>2 DEF Steady, PlaceSound, Landed
  <2>4. PlaceSound(c)'
    BY <1>1, <2>1, <2>2 DEF PlaceSound
  <2> QED
    BY <1>1, <2>1, <2>2, <2>3, <2>4, OneCall
<1>3. CASE SchemaReady(c)
  <2>1. /\ loaded' = loaded /\ call[c].at = "schema"
        /\ call' = [call EXCEPT ![c].at = "sent", ![c].statement = "sent"]
    BY <1>3 DEF SchemaReady, localVars
  <2>2. /\ CallsTyped'
        /\ \A k \in Calls \ {c} : call'[k] = call[k]
        /\ call'[c].at = "sent" /\ call'[c].statement = "sent"
        /\ SameAnswer(call[c], call'[c]) /\ SameName(call[c], call'[c])
        /\ call'[c].seen = call[c].seen
    BY <1>1, <2>1, SentFrame
  <2>3. call[c].statement = "none" /\ call[c].answer # "ok"
    BY <1>1, <2>1 DEF PlaceSound
  <2>4. Steady(c)
    BY <2>1, <2>2, <2>3 DEF Steady, SameAnswer, SameName, Landed
  <2>5. PlaceSound(c)'
    <3>1. call[c].via = "none"
      BY <1>1, <2>1 DEF PlaceSound
    <3> QED
      BY <1>1, <2>1, <2>2, <2>3, <3>1 DEF PlaceSound, SameAnswer, SameName, Local
  <2> QED
    BY <1>1, <2>1, <2>2, <2>4, <2>5, OneCall DEF SameName
<1>4. CASE SchemaFails(c)
  <2>1. loaded' = loaded /\ call[c].at = "schema" /\ call[c].statement = "none"
    BY <1>1, <1>4 DEF SchemaFails, localVars, PlaceSound
  <2>2. CASE c \in Records
    <3>1. Go(c, "local") /\ c \notin Reads
      BY <1>4, <2>2, LearnConstants DEF SchemaFails
    <3> QED
      BY <2>1, <3>1, GoMoves, Places DEF InDatabase, Local
  <2>3. CASE c \notin Records
    <3>1. Answer(c, "failed", "database")
      BY <1>4, <2>3 DEF SchemaFails
    <3> QED
      BY <2>1, <3>1, AnswerMoves DEF InDatabase
  <2> QED
    BY <2>2, <2>3
<1>5. CASE RunStatement(c)
  <2>1. loaded' = loaded /\ call[c].statement = "sent" /\ call[c].at \notin {"idle", "schema"}
    BY <1>1, <1>5 DEF RunStatement, localVars, PlaceSound
  <2>2. CASE c \in Reads
    <3>1. call' = [call EXCEPT ![c].statement = "saved", ![c].seen = table]
      BY <1>5, <2>2, LearnConstants DEF RunStatement
    <3>2. /\ CallsTyped'
          /\ \A k \in Calls \ {c} : call'[k] = call[k]
          /\ call'[c].at = call[c].at /\ call'[c].statement = "saved"
          /\ SameAnswer(call[c], call'[c]) /\ SameName(call[c], call'[c])
          /\ call'[c].seen = table
      BY <1>1, <3>1, ReadFrame
    <3>3. call[c].via \in {"none", "database", "local"}
      BY <1>1 DEF CallsTyped, CallRecord
    <3>4. call[c].answer # "ok" /\ call[c].at \notin Local /\ call[c].via # "local"
      BY <1>1, <2>1, <2>2, <3>3 DEF PlaceSound
    <3>5. Steady(c)
      BY <2>1, <3>2, <3>4 DEF Steady, SameAnswer, SameName
    <3>6. PlaceSound(c)'
      BY <1>1, <2>1, <3>2, <3>4 DEF PlaceSound, SameAnswer, SameName
    <3> QED
      BY <1>1, <2>1, <3>2, <3>5, <3>6, OneCall DEF SameName
  <2>3. CASE c \notin Reads
    <3>1. PICK what \in {"saved", "void"} : call' = [call EXCEPT ![c].statement = what]
      BY <1>5, <2>3 DEF RunStatement
    <3>2. /\ CallsTyped'
          /\ \A k \in Calls \ {c} : call'[k] = call[k]
          /\ call'[c].at = call[c].at /\ call'[c].statement = what
          /\ SameAnswer(call[c], call'[c]) /\ SameName(call[c], call'[c])
          /\ call'[c].seen = call[c].seen
      BY <1>1, <3>1, RanFrame
    <3>4. Steady(c)
      BY <2>1, <3>2 DEF Steady, SameAnswer, SameName
    <3>5. PlaceSound(c)'
      BY <1>1, <2>1, <2>3, <3>2 DEF PlaceSound, SameAnswer, SameName
    <3> QED
      BY <1>1, <2>1, <3>2, <3>4, <3>5, OneCall DEF SameName
  <2> QED
    BY <2>2, <2>3
<1>6. CASE StatementAnswers(c)
  <2>1. loaded' = loaded /\ call[c].at = "sent"
    BY <1>6 DEF StatementAnswers, localVars
  <2>2. CASE call[c].statement = "saved"
    <3>1. Answer(c, "ok", "database")
      BY <1>6, <2>2 DEF StatementAnswers
    <3> QED
      BY <2>1, <2>2, <3>1, AnswerMoves DEF InDatabase
  <2>3. CASE call[c].statement # "saved"
    <3>1. Go(c, "exists")
      BY <1>6, <2>3 DEF StatementAnswers
    <3> QED
      BY <2>1, <3>1, GoMoves, Places DEF InDatabase, Local
  <2> QED
    BY <2>2, <2>3
<1>7. CASE StatementFails(c)
  <2>1. loaded' = loaded /\ call[c].at = "sent"
    BY <1>7 DEF StatementFails, localVars
  <2>2. CASE c \in Records
    <3>1. Go(c, "local") /\ c \notin Reads
      BY <1>7, <2>2, LearnConstants DEF StatementFails
    <3> QED
      BY <2>1, <3>1, GoMoves DEF InDatabase, Local
  <2>3. CASE c \notin Records
    <3>1. Answer(c, "failed", "database")
      BY <1>7, <2>3 DEF StatementFails
    <3> QED
      BY <2>1, <3>1, AnswerMoves DEF InDatabase
  <2> QED
    BY <2>2, <2>3
<1>8. CASE TellWhy(c)
  <2>1. loaded' = loaded /\ call[c].at = "exists"
    BY <1>8 DEF TellWhy, localVars
  <2>2. \E answer \in {"conflict", "missing", "failed"} : Answer(c, answer, "database")
    BY <1>8 DEF TellWhy
  <2> QED
    BY <2>1, <2>2, AnswerMoves DEF InDatabase
<1>9. CASE AlreadyLoaded(c)
  <2>1. /\ loaded' = loaded /\ call[c].at = "local" /\ loaded /\ Go(c, Warm(c))
        /\ c \in Reads => call[c].statement = "none"
    BY <1>1, <1>9 DEF AlreadyLoaded, localVars, PlaceSound, Local
  <2>2. CASE c \in Reads
    <3>1. Go(c, "snapshot")
      BY <2>1, <2>2 DEF Warm
    <3> QED
      BY <2>1, <2>2, <3>1, GoMoves DEF Local
  <2>3. CASE c \notin Reads
    <3>1. Go(c, "admission")
      BY <2>1, <2>3 DEF Warm
    <3> QED
      BY <2>1, <2>3, <3>1, GoMoves DEF Local
  <2> QED
    BY <2>2, <2>3
<1>10. CASE StartLoading(c)
  <2>1. /\ loaded' = loaded /\ call[c].at = "local" /\ Go(c, "loading")
        /\ c \in Reads => call[c].statement = "none"
    BY <1>1, <1>10 DEF StartLoading, PlaceSound, Local
  <2> QED
    BY <2>1, GoMoves DEF Local
<1>11. CASE TakeSnapshot(c)
  <2>1. /\ loaded' = loaded /\ call[c].at = "snapshot" /\ c \in Reads
        /\ call' = [call EXCEPT ![c].at = "done", ![c].answer = "ok",
                                ![c].via = "local", ![c].seen = memory]
        /\ call[c].statement = "none" /\ call[c].answer # "ok"
    BY <1>1, <1>11 DEF TakeSnapshot, localVars, PlaceSound, Local
  <2>2. /\ CallsTyped'
        /\ \A k \in Calls \ {c} : call'[k] = call[k]
        /\ call'[c].at = "done" /\ call'[c].answer = "ok" /\ call'[c].via = "local"
        /\ call'[c].statement = call[c].statement /\ SameName(call[c], call'[c])
        /\ call'[c].seen = memory
    BY <1>1, <2>1, ShownFrame
  <2>3. Steady(c)
    BY <2>1, <2>2 DEF Steady, SameName, Landed
  <2>4. PlaceSound(c)'
    BY <1>1, <2>1, <2>2 DEF PlaceSound, SameName
  <2> QED
    BY <1>1, <2>1, <2>2, <2>3, <2>4, OneCall DEF SameName
<1>12. CASE AdmitRecord(c)
  <2>1. /\ loaded' = loaded /\ call[c].at = "admission" /\ Go(c, "commit") /\ c \notin Reads
    BY <1>12, LearnConstants DEF AdmitRecord, HandOff
  <2> QED
    BY <2>1, GoMoves DEF Local, Landed
<1>13. CASE AdmitReview(c)
  <2>1. /\ loaded' = loaded /\ call[c].at = "admission" /\ c \notin Reads
    BY <1>13, LearnConstants DEF AdmitReview
  <2>2. \/ Go(c, "commit")
        \/ \E answer \in {"conflict", "missing"} : Answer(c, answer, "local")
    BY <1>13 DEF AdmitReview, HandOff
  <2>3. CASE Go(c, "commit")
    BY <2>1, <2>3, GoMoves DEF Local, Landed
  <2>4. CASE \E answer \in {"conflict", "missing"} : Answer(c, answer, "local")
    BY <2>1, <2>4, AnswerMoves DEF Local
  <2> QED
    BY <2>2, <2>3, <2>4
<1>14. CASE Disconnect(c)
  <2>1. loaded' = loaded /\ call[c].at \in InDatabase \cup Local /\ Go(c, "gone")
    BY <1>14 DEF Disconnect, localVars
  <2> QED
    BY <2>1, GoMoves DEF Ended, Landed, Local
<1> QED
  BY <1>2, <1>3, <1>4, <1>5, <1>6, <1>7, <1>8, <1>9, <1>10, <1>11, <1>12, <1>13, <1>14

LEMMA WorkerCall ==
    ASSUME LearnInv, worker # Absent
    PROVE  worker.for \in Calls
BY DEF LearnInv, LearnTypeOK, WorkerRecord

LEMMA WorkerSteps ==
    ASSUME LearnInv,
           \/ ReadFile \/ PublishLoaded \/ SetReady \/ WriteAndRename
           \/ PublishCommit \/ WorkerFails
    PROVE  CallsMove
<1>1. CallsTyped /\ CallsSound
  BY TypedCalls
<1>2. CASE ReadFile \/ PublishLoaded \/ WriteAndRename
  <2>1. loaded' = loaded /\ call' = call
    BY <1>2 DEF ReadFile, PublishLoaded, WriteAndRename
  <2> QED
    BY <1>1, <2>1, NoCall
<1>3. CASE SetReady
  <2>1. worker # Absent /\ loaded' = TRUE
    BY <1>3 DEF SetReady
  <2> DEFINE c == worker.for
  <2>2. c \in Calls /\ PlaceSound(c)
    BY <2>1, WorkerCall, TypedCalls
  <2>3. CASE call[c].at = "loading"
    <3>1. Go(c, Warm(c)) /\ (c \in Reads => call[c].statement = "none")
      BY <1>3, <2>2, <2>3 DEF SetReady, PlaceSound, Local
    <3> HIDE DEF c
    <3>2. CASE c \in Reads
      <4>1. Go(c, "snapshot")
        BY <3>1, <3>2 DEF Warm
      <4> QED
        BY <2>1, <2>2, <2>3, <3>1, <3>2, <4>1, GoMoves DEF Local
    <3>3. CASE c \notin Reads
      <4>1. Go(c, "admission")
        BY <3>1, <3>3 DEF Warm
      <4> QED
        BY <2>1, <2>2, <2>3, <3>3, <4>1, GoMoves DEF Local
    <3> QED
      BY <3>2, <3>3
  <2>4. CASE call[c].at # "loading"
    <3>1. call' = call
      BY <1>3, <2>4 DEF SetReady
    <3> QED
      BY <1>1, <2>1, <3>1, NoCall
  <2> QED
    BY <2>3, <2>4
<1>4. CASE PublishCommit
  <2>1. worker # Absent /\ loaded' = loaded /\ worker.kind = "commit"
    BY <1>4 DEF PublishCommit
  <2> DEFINE c == worker.for
  <2>2. c \in Calls /\ PlaceSound(c) /\ c \notin Reads
    BY <2>1, WorkerCall, TypedCalls DEF LearnInv, StoresSound, CommitSound
  <2>3. CASE call[c].at = "commit"
    <3>1. Answer(c, "ok", "local")
      BY <1>4, <2>3 DEF PublishCommit
    <3> HIDE DEF c
    <3> QED
      BY <2>1, <2>2, <2>3, <3>1, AnswerMoves DEF Local
  <2>4. CASE call[c].at # "commit"
    <3>1. call' = call
      BY <1>4, <2>4 DEF PublishCommit
    <3> QED
      BY <1>1, <2>1, <3>1, NoCall
  <2> QED
    BY <2>3, <2>4
<1>5. CASE WorkerFails
  <2>1. worker # Absent /\ loaded' = loaded
    BY <1>5 DEF WorkerFails
  <2> DEFINE c == worker.for
  <2>2. c \in Calls /\ PlaceSound(c)
    BY <2>1, WorkerCall, TypedCalls
  <2>3. CASE call[c].at \in {"loading", "commit"}
    <3>1. Answer(c, "failed", "local") /\ (c \in Reads => call[c].statement = "none")
      BY <1>5, <2>2, <2>3 DEF WorkerFails, PlaceSound, Local
    <3> HIDE DEF c
    <3> QED
      BY <2>1, <2>2, <2>3, <3>1, AnswerMoves DEF Local
  <2>4. CASE call[c].at \notin {"loading", "commit"}
    <3>1. call' = call
      BY <1>5, <2>4 DEF WorkerFails
    <3> QED
      BY <1>1, <2>1, <3>1, NoCall
  <2> QED
    BY <2>3, <2>4
<1> QED
  BY <1>2, <1>3, <1>4, <1>5

LEMMA RestartMoves ==
    ASSUME LearnInv, Restart
    PROVE  CallsMove
<1>1. /\ CallsTyped /\ CallsSound
      /\ \A c \in Calls : PlaceSound(c) /\ call[c].after \subseteq Confirmed
  BY TypedCalls
<1>2. /\ CallsTyped'
      /\ \A k \in Calls : /\ SameCall(call[k], call'[k])
                          /\ call'[k].answer = call[k].answer
                          /\ call'[k].via = call[k].via
                          /\ \/ call'[k].at = "gone" /\ call[k].at # "idle"
                             \/ call[k].at \in {"idle", "done", "gone"}
                                /\ call'[k].at = call[k].at
  BY <1>1, RestartFrame
<1>3. \A k \in Calls : call[k].at = "done" => call'[k].at = "done"
  BY DEF Restart, InDatabase, Local
<1>4. \A k \in Calls : Steady(k)
  BY <1>2 DEF Steady, SameCall, SameName, Landed
<1>5. \A k \in Calls : PlaceSound(k)'
  BY <1>1, <1>2, <1>3 DEF PlaceSound, SameCall, SameName, Local
<1>6. Confirmed \subseteq Confirmed'
  BY <1>2 DEF Confirmed
<1>7. \A k \in Calls : AfterSound(k)'
  BY <1>1, <1>2, <1>6 DEF AfterSound, SameCall, SameName
<1> QED
  BY <1>2, <1>4, <1>5, <1>7 DEF CallsMove, CallsSound

LEMMA EveryStepMoves ==
    ASSUME LearnInv, LearnNext
    PROVE  CallsMove
BY ClientSteps, WorkerSteps, RestartMoves DEF LearnNext
-----------------------------------------------------------------------------
(* Which steps change which store.                                           *)
LEMMA TableSteps ==
    ASSUME LearnNext
    PROVE  table' = table \/ \E c \in Calls : RunStatement(c)
BY DEF LearnNext, ReadFile, PublishLoaded, SetReady, WriteAndRename, PublishCommit,
       WorkerFails, Restart, Begin, SchemaReady, SchemaFails, StatementAnswers,
       StatementFails, TellWhy, AlreadyLoaded, StartLoading, TakeSnapshot,
       AdmitRecord, AdmitReview, Disconnect, databaseVars

LEMMA FileSteps ==
    ASSUME LearnNext
    PROVE  file' = file \/ WriteAndRename
BY DEF LearnNext, ReadFile, PublishLoaded, SetReady, PublishCommit,
       WorkerFails, Restart, Begin, SchemaReady, SchemaFails, RunStatement, StatementAnswers,
       StatementFails, TellWhy, AlreadyLoaded, StartLoading, TakeSnapshot,
       AdmitRecord, AdmitReview, Disconnect, localVars

LEMMA MemorySteps ==
    ASSUME LearnNext
    PROVE  memory' = memory \/ PublishLoaded \/ PublishCommit \/ Restart
BY DEF LearnNext, ReadFile, SetReady, WriteAndRename,
       WorkerFails, Begin, SchemaReady, SchemaFails, RunStatement, StatementAnswers,
       StatementFails, TellWhy, AlreadyLoaded, StartLoading, TakeSnapshot,
       AdmitRecord, AdmitReview, Disconnect, localVars

LEMMA ReadySteps ==
    ASSUME LearnNext
    PROVE  loaded' = loaded \/ SetReady \/ Restart
BY DEF LearnNext, ReadFile, PublishLoaded, WriteAndRename, PublishCommit,
       WorkerFails, Begin, SchemaReady, SchemaFails, RunStatement, StatementAnswers,
       StatementFails, TellWhy, AlreadyLoaded, StartLoading, TakeSnapshot,
       AdmitRecord, AdmitReview, Disconnect, localVars

(* The worker and what it works on move together.                            *)
Still == worker' = worker /\ file' = file /\ memory' = memory /\ loaded' = loaded

Admits(c) == (AdmitRecord(c) \/ AdmitReview(c)) /\ worker' # worker

WorkerMoves ==
    \/ ReadFile \/ PublishLoaded \/ SetReady \/ WriteAndRename \/ PublishCommit
    \/ WorkerFails \/ Restart \/ \E c \in Calls : StartLoading(c) \/ Admits(c)

LEMMA WorkerMovers ==
    ASSUME LearnNext
    PROVE  Still \/ WorkerMoves
BY DEF Still, Admits, WorkerMoves, LearnNext, Begin, SchemaReady, SchemaFails, RunStatement,
       StatementAnswers, StatementFails, TellWhy, AlreadyLoaded, TakeSnapshot, Disconnect,
       AdmitRecord, AdmitReview, localVars

LEMMA OtherSteps ==
    ASSUME LearnTypeOK, LearnNext
    PROVE  /\ loaded' \in BOOLEAN /\ disabled' \in BOOLEAN /\ schema' \in BOOLEAN
           /\ restarts' \in Nat /\ (restarts' = restarts \/ Restart)
<1>1. LearnNext => loaded' = loaded \/ loaded' \in {TRUE, FALSE}
  BY ReadySteps DEF SetReady, Restart
<1>2. disabled' = disabled \/ disabled' \in {TRUE, FALSE}
  BY DEF LearnNext, ReadFile, PublishLoaded, SetReady, WriteAndRename, PublishCommit,
         WorkerFails, Restart, Begin, SchemaReady, SchemaFails, RunStatement, StatementAnswers,
         StatementFails, TellWhy, AlreadyLoaded, StartLoading, TakeSnapshot,
         AdmitRecord, AdmitReview, Disconnect, databaseVars
<1>3. schema' = schema \/ schema' \in {TRUE, FALSE} \/ schema' = (schema \/ ActivePool)
  BY DEF LearnNext, ReadFile, PublishLoaded, SetReady, WriteAndRename, PublishCommit,
         WorkerFails, Restart, Begin, SchemaReady, SchemaFails, RunStatement, StatementAnswers,
         StatementFails, TellWhy, AlreadyLoaded, StartLoading, TakeSnapshot,
         AdmitRecord, AdmitReview, Disconnect, databaseVars
<1>4. restarts' = restarts \/ Restart
  BY DEF LearnNext, ReadFile, PublishLoaded, SetReady, WriteAndRename, PublishCommit,
         WorkerFails, Begin, SchemaReady, SchemaFails, RunStatement, StatementAnswers,
         StatementFails, TellWhy, AlreadyLoaded, StartLoading, TakeSnapshot,
         AdmitRecord, AdmitReview, Disconnect
<1>5. restarts' \in Nat
  BY <1>4 DEF Restart, LearnTypeOK
<1>6. loaded' \in BOOLEAN /\ disabled' \in BOOLEAN
  BY <1>1, <1>2 DEF LearnTypeOK
<1>7. schema' \in BOOLEAN
  BY <1>3 DEF LearnTypeOK
<1> QED
  BY <1>4, <1>5, <1>6, <1>7

-----------------------------------------------------------------------------
(* The rows each store gets.                                                 *)
LEMMA EmptyRow == <<>> # Absent
<1>1. <<>> \in Seq(Reviews)
  OBVIOUS
<1>2. Absent \notin Seq(Reviews)
  BY LearnConstants
<1> QED
  BY <1>1, <1>2

LEMMA StatementGrows ==
    ASSUME LearnInv, NEW c \in Calls, RunStatement(c)
    PROVE  /\ table' \in Rows /\ Extends(table, table')
           /\ \A a \in Records : table'[a] # Absent =>
                table[a] # Absent \/ (a = c /\ call'[c].statement = "saved")
           /\ c \notin Reads /\ call'[c].statement = "saved" => Holds(table', c)
<1>1. /\ table \in Rows /\ CallsTyped /\ call[c].statement = "sent"
      /\ call[c].at \notin {"idle", "schema"}
      /\ call[c].attempt \in Records /\ (c \in Records => call[c].attempt = c)
  BY TypedCalls DEF RunStatement, LearnInv, LearnTypeOK, PlaceSound
<1>2. CASE c \in Records
  <2>1. /\ table' = WithRecord(table, c) /\ call' = [call EXCEPT ![c].statement = "saved"]
        /\ c \notin Reviews
    BY <1>2, LearnConstants DEF RunStatement
  <2>2. call'[c].statement = "saved"
    BY <1>1, <2>1, RanFrame
  <2>3. table[c] = Absent
    BY <1>1, <1>2 DEF LearnInv, StoresSound, RowsFromCalls
  <2>4. /\ table' \in Rows /\ Extends(table, table') /\ table'[c] = <<>>
        /\ \A a \in Records \ {c} : table'[a] = table[a]
    BY <1>1, <1>2, <2>1, <2>3, RecordGrows
  <2>5. Holds(table', c)
    BY <1>1, <1>2, <2>1, <2>4, EmptyRow DEF Holds
  <2> QED
    BY <2>2, <2>4, <2>5
<1>3. CASE c \in Reviews /\ UpdateMatches(table, c)
  <2>1. table' = WithFeedback(table, c)
    BY <1>3, LearnConstants DEF RunStatement
  <2> QED
    BY <1>1, <1>3, <2>1, FeedbackGrows
<1>4. CASE c \in Reviews /\ ~UpdateMatches(table, c)
  <2>1. table' = table /\ call' = [call EXCEPT ![c].statement = "void"]
    BY <1>4, LearnConstants DEF RunStatement
  <2>2. call'[c].statement = "void"
    BY <1>1, <2>1, RanFrame
  <2> QED
    BY <1>1, <2>1, <2>2, ExtendsSelf
<1>5. CASE c \in Reads
  <2>1. table' = table
    BY <1>5, LearnConstants DEF RunStatement
  <2> QED
    BY <1>1, <1>5, <2>1, ExtendsSelf
<1> QED
  BY <1>2, <1>3, <1>4, <1>5 DEF Calls

LEMMA AdmissionGrows ==
    ASSUME LearnInv, NEW c \in Calls, Admits(c)
    PROVE  \E rows \in Rows :
             /\ worker' = [kind |-> "commit", at |-> "start", for |-> c, rows |-> rows]
             /\ Extends(memory, rows) /\ Holds(rows, c) /\ c \notin Reads
             /\ \A a \in Records : rows[a] # Absent => memory[a] # Absent \/ a = c
             /\ worker = Absent /\ loaded /\ Go(c, "commit")
<1>1. /\ memory \in Rows /\ CallsTyped /\ call[c].at = "admission" /\ worker = Absent
      /\ loaded /\ call[c].attempt \in Records /\ (c \in Records => call[c].attempt = c)
  BY TypedCalls DEF Admits, AdmitRecord, AdmitReview, LearnInv, LearnTypeOK, PlaceSound
<1>2. CASE AdmitRecord(c)
  <2>1. /\ c \in Records /\ Go(c, "commit") /\ c \notin Reviews /\ c \notin Reads
        /\ worker' = [kind |-> "commit", at |-> "start", for |-> c,
                      rows |-> WithRecord(memory, c)]
    BY <1>2, LearnConstants DEF AdmitRecord, HandOff
  <2>2. memory[c] = Absent
    BY <1>1, <2>1 DEF LearnInv, StoresSound, RowsFromCalls, Landed
  <2> DEFINE rows == WithRecord(memory, c)
  <2>3. /\ rows \in Rows /\ Extends(memory, rows) /\ rows[c] = <<>>
        /\ \A a \in Records \ {c} : rows[a] = memory[a]
    BY <1>1, <2>1, <2>2, RecordGrows
  <2>4. Holds(rows, c)
    BY <1>1, <2>1, <2>3, EmptyRow DEF Holds
  <2> QED
    BY <1>1, <2>1, <2>3, <2>4
<1>3. CASE AdmitReview(c)
  <2>1. /\ c \in Reviews /\ Go(c, "commit") /\ c \notin Reads /\ UpdateMatches(memory, c)
        /\ worker' = [kind |-> "commit", at |-> "start", for |-> c,
                      rows |-> WithFeedback(memory, c)]
    BY <1>3, LearnConstants DEF Admits, AdmitReview, HandOff
  <2> DEFINE rows == WithFeedback(memory, c)
  <2>2. /\ rows \in Rows /\ Extends(memory, rows) /\ Holds(rows, c)
        /\ \A a \in Records : memory[a] = Absent => rows[a] = Absent
    BY <1>1, <2>1, FeedbackGrows
  <2> QED
    BY <1>1, <2>1, <2>2
<1> QED
  BY <1>2, <1>3 DEF Admits
(* The worker's own steps.                                                   *)
LEMMA WorkerTyped ==
    ASSUME LearnInv, worker # Absent
    PROVE  /\ worker \in WorkerRecord /\ worker.rows \in Rows
           /\ worker.kind \in {"load", "commit"} /\ worker.at \in {"start", "publish", "ready"}
BY DEF LearnInv, LearnTypeOK, WorkerRecord

LEMMA NewWorker ==
    ASSUME NEW kind \in {"load", "commit"}, NEW c \in Calls, NEW rows \in Rows,
           worker' = [kind |-> kind, at |-> "start", for |-> c, rows |-> rows]
    PROVE  /\ worker' \in WorkerRecord /\ worker' # Absent
           /\ worker'.kind = kind /\ worker'.at = "start" /\ worker'.for = c /\ worker'.rows = rows
<1>1. worker' \in WorkerRecord
  BY DEF WorkerRecord
<1> QED
  BY <1>1, LearnAbsent

LEMMA WorkerGoesOn ==
    ASSUME LearnInv, worker # Absent, NEW place \in {"start", "publish", "ready"},
           worker' = [worker EXCEPT !.at = place]
    PROVE  /\ worker' \in WorkerRecord /\ worker' # Absent
           /\ worker'.kind = worker.kind /\ worker'.at = place
           /\ worker'.for = worker.for /\ worker'.rows = worker.rows
<1>1. worker \in WorkerRecord
  BY WorkerTyped
<1>2. /\ worker' \in WorkerRecord
      /\ worker'.kind = worker.kind /\ worker'.at = place
      /\ worker'.for = worker.for /\ worker'.rows = worker.rows
  BY <1>1 DEF WorkerRecord
<1> QED
  BY <1>2, LearnAbsent

LEMMA WorkerReads ==
    ASSUME LearnInv, ReadFile
    PROVE  /\ worker' \in WorkerRecord /\ worker' # Absent
           /\ worker'.kind = "load" /\ worker'.at = "publish" /\ worker'.rows = file
<1>1. /\ worker \in WorkerRecord /\ worker.kind = "load" /\ file \in Rows
      /\ worker' = [worker EXCEPT !.at = "publish", !.rows = file]
  BY WorkerTyped DEF ReadFile, LearnInv, LearnTypeOK
<1> DEFINE r1 == [worker EXCEPT !.at = "publish"]
           r2 == [r1 EXCEPT !.rows = file]
<1>2. worker' = r2
  BY <1>1
<1>3. r1 \in WorkerRecord /\ r1.kind = "load" /\ r1.at = "publish"
  BY <1>1 DEF WorkerRecord
<1>4. r2 \in WorkerRecord /\ r2.kind = "load" /\ r2.at = "publish" /\ r2.rows = file
  BY <1>1, <1>3 DEF WorkerRecord
<1> HIDE DEF r2
<1> QED
  BY <1>2, <1>4, LearnAbsent

LEMMA NextTyped ==
    ASSUME LearnInv, LearnNext
    PROVE  LearnTypeOK'
<1>1. LearnTypeOK /\ CallsMove
  BY EveryStepMoves DEF LearnInv
<1>2. table' \in Rows
  BY <1>1, TableSteps, StatementGrows DEF LearnTypeOK
<1>3. file' \in Rows
  BY <1>1, FileSteps, WorkerTyped DEF LearnTypeOK, WriteAndRename
<1>4. memory' \in Rows
  BY <1>1, MemorySteps, WorkerTyped, NoRowsTyped
  DEF LearnTypeOK, PublishLoaded, PublishCommit, Restart
<1>5. worker' \in WorkerRecord \cup {Absent}
  <2>1. CASE Still
    BY <1>1, <2>1 DEF Still, LearnTypeOK
  <2>2. CASE ReadFile
    BY <2>2, WorkerReads
  <2>3. CASE PublishLoaded
    <3>1. worker # Absent /\ worker' = [worker EXCEPT !.at = "ready"]
      BY <2>3 DEF PublishLoaded
    <3> QED
      BY <3>1, WorkerGoesOn
  <2>4. CASE WriteAndRename
    <3>1. worker # Absent /\ worker' = [worker EXCEPT !.at = "publish"]
      BY <2>4 DEF WriteAndRename
    <3> QED
      BY <3>1, WorkerGoesOn
  <2>5. CASE SetReady \/ PublishCommit \/ WorkerFails \/ Restart
    BY <2>5 DEF SetReady, PublishCommit, WorkerFails, Restart
  <2>6. ASSUME NEW c \in Calls, StartLoading(c) PROVE worker' \in WorkerRecord
    <3>1. worker' = [kind |-> "load", at |-> "start", for |-> c, rows |-> NoRows]
      BY <2>6 DEF StartLoading
    <3> QED
      BY <3>1, NewWorker, NoRowsTyped
  <2>7. ASSUME NEW c \in Calls, Admits(c) PROVE worker' \in WorkerRecord
    <3>1. PICK rows \in Rows :
            worker' = [kind |-> "commit", at |-> "start", for |-> c, rows |-> rows]
      BY <2>7, AdmissionGrows
    <3> QED
      BY <3>1, NewWorker
  <2> QED
    BY <2>1, <2>2, <2>3, <2>4, <2>5, <2>6, <2>7, WorkerMovers DEF WorkerMoves
<1>6. /\ loaded' \in BOOLEAN /\ disabled' \in BOOLEAN /\ schema' \in BOOLEAN
      /\ restarts' \in Nat
  BY <1>1, OtherSteps
<1>7. call' \in [Calls -> CallRecord]
  BY <1>1 DEF CallsMove, CallsTyped
<1> QED
  BY <1>2, <1>3, <1>4, <1>5, <1>6, <1>7 DEF LearnTypeOK

LEMMA NoRowsExtended ==
    ASSUME NEW rows PROVE Extends(NoRows, rows)
BY DEF Extends, NoRows

(* No store loses a row; the engine that ends loses its snapshot.            *)
LEMMA StoresGrow ==
    ASSUME LearnInv, LearnNext
    PROVE  /\ Extends(table, table') /\ Extends(file, file')
           /\ Restart \/ Extends(memory, memory')
<1>1. table \in Rows /\ file \in Rows /\ memory \in Rows
  BY DEF LearnInv, LearnTypeOK
<1>2. Extends(table, table')
  BY <1>1, TableSteps, StatementGrows, ExtendsSelf
<1>3. ASSUME WriteAndRename PROVE Extends(file, file')
  <2>1. /\ worker # Absent /\ worker.kind = "commit" /\ worker.at = "start"
        /\ file' = worker.rows
    BY <1>3 DEF WriteAndRename
  <2> QED
    BY <2>1 DEF LearnInv, StoresSound, CommitSound
<1>4. Extends(file, file')
  BY <1>1, <1>3, FileSteps, ExtendsSelf
<1>5. ASSUME PublishLoaded PROVE Extends(memory, memory')
  <2>1. /\ worker # Absent /\ worker.kind = "load" /\ worker.at = "publish"
    BY <1>5 DEF PublishLoaded
  <2>2. memory = NoRows
    BY <2>1 DEF LearnInv, StoresSound, LoadSound, EmptyUntilLoaded
  <2> QED
    BY <2>2, NoRowsExtended
<1>6. ASSUME PublishCommit PROVE Extends(memory, memory')
  <2>1. /\ worker # Absent /\ worker.kind = "commit" /\ memory' = worker.rows
    BY <1>6 DEF PublishCommit
  <2> QED
    BY <2>1 DEF LearnInv, StoresSound, CommitSound
<1>7. Restart \/ Extends(memory, memory')
  BY <1>1, <1>5, <1>6, MemorySteps, ExtendsSelf
<1> QED
  BY <1>2, <1>4, <1>7
LEMMA RowsStayFromCalls ==
    ASSUME LearnInv, LearnNext
    PROVE  RowsFromCalls'
<1>1. /\ RowsFromCalls /\ \A a \in Records : Steady(a)
  BY EveryStepMoves DEF LearnInv, StoresSound, CallsMove, Calls
<1> SUFFICES ASSUME NEW a \in Records
             PROVE  /\ table'[a] # Absent => call'[a].statement = "saved"
                    /\ file'[a] # Absent => call'[a].at \in Landed
                    /\ memory'[a] # Absent => call'[a].at \in Landed
                    /\ worker' # Absent /\ worker'.rows[a] # Absent => call'[a].at \in Landed
  BY DEF RowsFromCalls
<1>2. /\ table[a] # Absent => call'[a].statement = "saved"
      /\ file[a] # Absent => call'[a].at \in Landed
      /\ memory[a] # Absent => call'[a].at \in Landed
      /\ worker # Absent /\ worker.rows[a] # Absent => call'[a].at \in Landed
  BY <1>1 DEF RowsFromCalls, Steady
<1>3. NoRows[a] = Absent
  BY DEF NoRows
<1>4. table'[a] # Absent => call'[a].statement = "saved"
  BY <1>2, TableSteps, StatementGrows
<1>5. file'[a] # Absent => call'[a].at \in Landed
  BY <1>2, FileSteps DEF WriteAndRename
<1>6. memory'[a] # Absent => call'[a].at \in Landed
  BY <1>2, <1>3, MemorySteps DEF PublishLoaded, PublishCommit, Restart
<1>7. worker' # Absent /\ worker'.rows[a] # Absent => call'[a].at \in Landed
  <2>1. CASE Still
    BY <1>2, <2>1 DEF Still
  <2>2. CASE ReadFile
    BY <1>2, <2>2, WorkerReads
  <2>3. CASE PublishLoaded
    <3>1. worker # Absent /\ worker' = [worker EXCEPT !.at = "ready"]
      BY <2>3 DEF PublishLoaded
    <3> QED
      BY <1>2, <3>1, WorkerGoesOn
  <2>4. CASE WriteAndRename
    <3>1. worker # Absent /\ worker' = [worker EXCEPT !.at = "publish"]
      BY <2>4 DEF WriteAndRename
    <3> QED
      BY <1>2, <3>1, WorkerGoesOn
  <2>5. CASE SetReady \/ PublishCommit \/ WorkerFails \/ Restart
    BY <2>5 DEF SetReady, PublishCommit, WorkerFails, Restart
  <2>6. ASSUME NEW c \in Calls, StartLoading(c) PROVE worker'.rows[a] = Absent
    <3>1. worker' = [kind |-> "load", at |-> "start", for |-> c, rows |-> NoRows]
      BY <2>6 DEF StartLoading
    <3> QED
      BY <1>3, <3>1, NewWorker, NoRowsTyped
  <2>7. ASSUME NEW c \in Calls, Admits(c), worker'.rows[a] # Absent
        PROVE  call'[a].at \in Landed
    <3>1. PICK rows \in Rows :
            /\ worker' = [kind |-> "commit", at |-> "start", for |-> c, rows |-> rows]
            /\ rows[a] # Absent => memory[a] # Absent \/ a = c
            /\ Go(c, "commit")
      BY <2>7, AdmissionGrows
    <3>2. worker'.rows = rows
      BY <3>1
    <3>3. call'[c].at = "commit"
      BY <3>1, TypedCalls DEF Go, CallsTyped, CallRecord
    <3> QED
      BY <1>2, <2>7, <3>1, <3>2, <3>3 DEF Landed
  <2> QED
    BY <2>1, <2>2, <2>3, <2>4, <2>5, <2>6, <2>7, WorkerMovers DEF WorkerMoves
<1> QED
  BY <1>4, <1>5, <1>6, <1>7

(* What a store holds of a call that has begun it holds after any step.      *)
LEMMA HeldStays ==
    ASSUME LearnInv, NEW old \in Rows, NEW new \in Rows, Extends(old, new),
           NEW c \in Calls, Steady(c), call[c].at # "idle", Holds(old, c)
    PROVE  Keeps(new, c, call'[c].attempt, call'[c].expected)
<1>1. call[c].attempt \in Records /\ call[c].expected \in Nat
  BY TypedCalls, LearnConstants DEF PlaceSound, CallsTyped, CallRecord
<1>2. call'[c].attempt = call[c].attempt /\ call'[c].expected = call[c].expected
  BY DEF Steady
<1>3. Keeps(old, c, call[c].attempt, call[c].expected)
  BY DEF Holds, Keeps
<1> QED
  BY <1>1, <1>2, <1>3, KeepsGrow

WorkerSound == LoadSound /\ CommitSound /\ EmptyUntilLoaded /\ MemoryFollowsFile

LEMMA WorkerStaysSound ==
    ASSUME LearnInv, LearnNext
    PROVE  WorkerSound'
<1>1. /\ LoadSound /\ CommitSound /\ EmptyUntilLoaded /\ MemoryFollowsFile
      /\ \A c \in Calls : Steady(c)
      /\ file \in Rows /\ memory \in Rows
  BY EveryStepMoves DEF LearnInv, StoresSound, CallsMove, LearnTypeOK
<1> USE DEF WorkerSound, LoadSound, CommitSound, EmptyUntilLoaded, MemoryFollowsFile
<1>2. ASSUME worker # Absent, worker.kind = "commit"
      PROVE  /\ worker.for \in Calls /\ call'[worker.for].at # "idle"
             /\ Keeps(worker.rows, worker.for, call'[worker.for].attempt,
                      call'[worker.for].expected)
  <2>1. /\ worker.for \in Calls /\ worker.rows \in Rows /\ call[worker.for].at # "idle"
        /\ Holds(worker.rows, worker.for) /\ Steady(worker.for)
    BY <1>1, <1>2, WorkerCall, WorkerTyped
  <2>2. Extends(worker.rows, worker.rows)
    BY <2>1, ExtendsSelf
  <2>3. call'[worker.for].at # "idle"
    BY <2>1 DEF Steady
  <2> QED
    BY <2>1, <2>2, <2>3, HeldStays
<1>3. CASE Still
  <2>1. UNCHANGED <<worker, file, memory, loaded>>
    BY <1>3 DEF Still
  <2> QED
    BY <1>1, <1>2, <2>1 DEF Holds, Keeps
<1>4. CASE ReadFile
  <2>1. UNCHANGED <<file, memory, loaded>> /\ worker # Absent /\ worker.kind = "load"
        /\ worker.at = "start"
    BY <1>4 DEF ReadFile
  <2>2. /\ worker' \in WorkerRecord /\ worker' # Absent
        /\ worker'.kind = "load" /\ worker'.at = "publish" /\ worker'.rows = file
    BY <1>4, WorkerReads
  <2> QED
    BY <1>1, <2>1, <2>2
<1>5. CASE PublishLoaded
  <2>1. /\ UNCHANGED <<file, loaded>> /\ worker # Absent /\ worker.kind = "load"
        /\ worker.at = "publish" /\ memory' = worker.rows
        /\ worker' = [worker EXCEPT !.at = "ready"]
    BY <1>5 DEF PublishLoaded
  <2>2. /\ worker' \in WorkerRecord /\ worker' # Absent
        /\ worker'.kind = "load" /\ worker'.at = "ready" /\ worker'.rows = worker.rows
    BY <2>1, WorkerGoesOn
  <2> QED
    BY <1>1, <2>1, <2>2
<1>6. CASE SetReady
  <2>1. /\ UNCHANGED <<file, memory>> /\ worker # Absent /\ worker.kind = "load"
        /\ worker.at = "ready" /\ worker' = Absent /\ loaded' = TRUE
    BY <1>6 DEF SetReady
  <2> QED
    BY <1>1, <2>1
<1>7. CASE WriteAndRename
  <2>1. /\ UNCHANGED <<memory, loaded>> /\ worker # Absent /\ worker.kind = "commit"
        /\ worker.at = "start" /\ file' = worker.rows
        /\ worker' = [worker EXCEPT !.at = "publish"]
    BY <1>7 DEF WriteAndRename
  <2>2. /\ worker' \in WorkerRecord /\ worker' # Absent
        /\ worker'.kind = "commit" /\ worker'.at = "publish"
        /\ worker'.rows = worker.rows /\ worker'.for = worker.for
    BY <2>1, WorkerGoesOn
  <2> QED
    BY <1>1, <1>2, <2>1, <2>2 DEF Holds, Keeps
<1>8. CASE PublishCommit
  <2>1. /\ UNCHANGED <<file, loaded>> /\ worker # Absent /\ worker.kind = "commit"
        /\ worker.at = "publish" /\ worker' = Absent /\ memory' = worker.rows
    BY <1>8 DEF PublishCommit
  <2> QED
    BY <1>1, <2>1
<1>9. CASE WorkerFails
  <2>1. /\ UNCHANGED <<file, memory, loaded>> /\ worker # Absent
        /\ worker.at = "start" /\ worker' = Absent
    BY <1>9 DEF WorkerFails
  <2> QED
    BY <1>1, <2>1
<1>10. CASE Restart
  <2>1. worker' = Absent /\ memory' = NoRows /\ loaded' = FALSE
    BY <1>10 DEF Restart
  <2> QED
    BY <2>1
<1>11. ASSUME NEW c \in Calls, StartLoading(c) PROVE WorkerSound'
  <2>1. /\ worker' = [kind |-> "load", at |-> "start", for |-> c, rows |-> NoRows]
        /\ UNCHANGED <<file, memory, loaded>> /\ ~loaded /\ worker = Absent
    BY <1>11 DEF StartLoading
  <2>2. worker'.kind = "load" /\ worker'.at = "start"
    BY <2>1
  <2> QED
    BY <1>1, <2>1, <2>2
<1>12. ASSUME NEW c \in Calls, Admits(c) PROVE WorkerSound'
  <2>1. PICK rows \in Rows :
          /\ worker' = [kind |-> "commit", at |-> "start", for |-> c, rows |-> rows]
          /\ Extends(memory, rows) /\ Holds(rows, c) /\ c \notin Reads
          /\ worker = Absent /\ loaded /\ Go(c, "commit")
    BY <1>12, AdmissionGrows
  <2>2. /\ worker'.kind = "commit" /\ worker'.at = "start" /\ worker'.for = c
        /\ worker'.rows = rows
    BY <2>1
  <2>3. UNCHANGED <<file, memory, loaded>>
    BY <1>12 DEF Admits, AdmitRecord, AdmitReview
  <2>4. /\ call'[c].at = "commit" /\ call'[c].attempt = call[c].attempt
        /\ call'[c].expected = call[c].expected
    BY <2>1, TypedCalls DEF Go, CallsTyped, CallRecord
  <2> QED
    BY <1>1, <2>1, <2>2, <2>3, <2>4 DEF Holds
<1> QED
  BY <1>3, <1>4, <1>5, <1>6, <1>7, <1>8, <1>9, <1>10, <1>11, <1>12, WorkerMovers
  DEF WorkerMoves

LEMMA NextStores ==
    ASSUME LearnInv, LearnNext
    PROVE  StoresSound'
BY RowsStayFromCalls, WorkerStaysSound DEF StoresSound, WorkerSound
-----------------------------------------------------------------------------
(* Which steps run a statement, and which confirm a call.                    *)
Ran(k) == call'[k].statement = "saved" /\ call[k].statement # "saved"
Fresh(k) == call'[k].answer = "ok" /\ call[k].answer # "ok"

FreshFrom(k) ==
    \/ call'[k].via = "database" /\ call[k].statement = "saved"
    \/ TakeSnapshot(k)
    \/ PublishCommit /\ worker.for = k /\ call'[k].via = "local"

Accounted(k) == (Ran(k) => RunStatement(k)) /\ (Fresh(k) => FreshFrom(k))

LEMMA GoAccounted ==
    ASSUME LearnInv, NEW c \in Calls,
           NEW place \in {"idle"} \cup InDatabase \cup Local \cup Ended, Go(c, place)
    PROVE  \A k \in Calls : Accounted(k)
BY TypedCalls, GoFrame DEF Accounted, Ran, Fresh, SameCall

LEMMA AnswerAccounted ==
    ASSUME LearnInv, NEW c \in Calls,
           NEW answer \in {"none", "ok", "conflict", "missing", "failed"},
           NEW via \in {"none", "database", "local"}, Answer(c, answer, via),
           answer = "ok" => \/ via = "database" /\ call[c].statement = "saved"
                            \/ PublishCommit /\ worker.for = c /\ via = "local"
    PROVE  \A k \in Calls : Accounted(k)
<1>1. /\ \A k \in Calls \ {c} : call'[k] = call[k]
      /\ SameCall(call[c], call'[c])
      /\ call'[c].answer = answer /\ call'[c].via = via
  BY TypedCalls, AnswerFrame
<1>2. \A k \in Calls : ~Ran(k)
  BY <1>1 DEF Ran, SameCall
<1>3. \A k \in Calls \ {c} : ~Fresh(k)
  BY <1>1 DEF Fresh
<1>4. Fresh(c) => FreshFrom(c)
  BY <1>1 DEF Fresh, FreshFrom
<1> QED
  BY <1>2, <1>3, <1>4 DEF Accounted

LEMMA ClientAccounted ==
    ASSUME LearnInv, NEW c \in Calls,
           \/ Begin(c) \/ SchemaReady(c) \/ SchemaFails(c) \/ RunStatement(c)
           \/ StatementAnswers(c) \/ StatementFails(c) \/ TellWhy(c)
           \/ AlreadyLoaded(c) \/ StartLoading(c) \/ TakeSnapshot(c)
           \/ AdmitRecord(c) \/ AdmitReview(c) \/ Disconnect(c)
    PROVE  \A k \in Calls : Accounted(k)
<1>1. CallsTyped /\ table \in Rows /\ memory \in Rows
  BY TypedCalls DEF LearnInv, LearnTypeOK
<1>2. CASE Begin(c)
  <2>1. /\ \A k \in Calls \ {c} : call'[k] = call[k]
        /\ call'[c].statement = call[c].statement /\ call'[c].answer \in {"none", "failed"}
    BY <1>1, <1>2, BeginFrame
  <2> QED
    BY <2>1 DEF Accounted, Ran, Fresh
<1>3. CASE SchemaReady(c)
  <2>1. call' = [call EXCEPT ![c].at = "sent", ![c].statement = "sent"]
    BY <1>3 DEF SchemaReady
  <2>2. /\ \A k \in Calls \ {c} : call'[k] = call[k]
        /\ call'[c].statement = "sent" /\ SameAnswer(call[c], call'[c])
    BY <1>1, <2>1, SentFrame
  <2> QED
    BY <2>2 DEF Accounted, Ran, Fresh, SameAnswer
<1>4. CASE RunStatement(c)
  <2>1. \/ call' = [call EXCEPT ![c].statement = "saved", ![c].seen = table]
        \/ \E what \in {"saved", "void"} : call' = [call EXCEPT ![c].statement = what]
    BY <1>4 DEF RunStatement
  <2>2. /\ \A k \in Calls \ {c} : call'[k] = call[k]
        /\ SameAnswer(call[c], call'[c])
    BY <1>1, <2>1, ReadFrame, RanFrame
  <2> QED
    BY <1>4, <2>2 DEF Accounted, Ran, Fresh, SameAnswer
<1>5. CASE StatementAnswers(c)
  <2>1. \/ Answer(c, "ok", "database") /\ call[c].statement = "saved"
        \/ Go(c, "exists")
    BY <1>5 DEF StatementAnswers
  <2> QED
    BY <2>1, GoAccounted, AnswerAccounted DEF InDatabase
<1>6. CASE SchemaFails(c) \/ StatementFails(c)
  <2>1. Go(c, "local") \/ Answer(c, "failed", "database")
    BY <1>6 DEF SchemaFails, StatementFails
  <2> QED
    BY <2>1, GoAccounted, AnswerAccounted DEF Local
<1>7. CASE TellWhy(c) \/ AdmitRecord(c) \/ AdmitReview(c)
  <2>1. \/ Go(c, "commit")
        \/ \E answer \in {"conflict", "missing", "failed"}, via \in {"database", "local"} :
             Answer(c, answer, via)
    BY <1>7 DEF TellWhy, AdmitRecord, AdmitReview, HandOff
  <2>2. CASE Go(c, "commit")
    BY <2>2, GoAccounted DEF Local
  <2>3. CASE \E answer \in {"conflict", "missing", "failed"}, via \in {"database", "local"} :
               Answer(c, answer, via)
    <3>1. PICK answer \in {"conflict", "missing", "failed"}, via \in {"database", "local"} :
            Answer(c, answer, via)
      BY <2>3
    <3> QED
      BY <3>1, AnswerAccounted
  <2> QED
    BY <2>1, <2>2, <2>3
<1>8. CASE AlreadyLoaded(c) \/ StartLoading(c) \/ Disconnect(c)
  <2>1. \E place \in {"snapshot", "admission", "loading", "gone"} : Go(c, place)
    BY <1>8 DEF AlreadyLoaded, StartLoading, Disconnect, Warm
  <2> QED
    BY <2>1, GoAccounted DEF Local, Ended
<1>9. CASE TakeSnapshot(c)
  <2>1. call' = [call EXCEPT ![c].at = "done", ![c].answer = "ok",
                             ![c].via = "local", ![c].seen = memory]
    BY <1>9 DEF TakeSnapshot
  <2>2. /\ \A k \in Calls \ {c} : call'[k] = call[k]
        /\ call'[c].statement = call[c].statement
    BY <1>1, <2>1, ShownFrame
  <2> QED
    BY <1>9, <2>2 DEF Accounted, Ran, Fresh, FreshFrom
<1> QED
  BY <1>2, <1>3, <1>4, <1>5, <1>6, <1>7, <1>8, <1>9

LEMMA EveryStepAccounted ==
    ASSUME LearnInv, LearnNext
    PROVE  \A k \in Calls : Accounted(k)
<1>1. CASE ReadFile \/ PublishLoaded \/ WriteAndRename
  <2>1. call' = call
    BY <1>1 DEF ReadFile, PublishLoaded, WriteAndRename
  <2> QED
    BY <2>1 DEF Accounted, Ran, Fresh
<1>2. CASE SetReady \/ PublishCommit \/ WorkerFails
  <2> DEFINE c == worker.for
  <2>1. c \in Calls
    BY <1>2, WorkerCall DEF SetReady, PublishCommit, WorkerFails
  <2>2. \/ call' = call
        \/ Go(c, Warm(c))
        \/ Answer(c, "failed", "local")
        \/ PublishCommit /\ Answer(c, "ok", "local")
    BY <1>2 DEF SetReady, PublishCommit, WorkerFails
  <2>3. c = worker.for
    OBVIOUS
  <2> HIDE DEF c
  <2>4. Warm(c) \in {"snapshot", "admission"}
    BY DEF Warm
  <2>5. CASE call' = call
    BY <2>5 DEF Accounted, Ran, Fresh
  <2>6. CASE Go(c, Warm(c))
    BY <2>1, <2>4, <2>6, GoAccounted DEF Local
  <2>7. CASE Answer(c, "failed", "local")
    BY <2>1, <2>7, AnswerAccounted
  <2>8. CASE PublishCommit /\ Answer(c, "ok", "local")
    BY <2>1, <2>3, <2>8, AnswerAccounted
  <2> QED
    BY <2>2, <2>5, <2>6, <2>7, <2>8
<1>3. CASE Restart
  <2>1. \A k \in Calls : call'[k].answer = call[k].answer /\ call'[k].statement = call[k].statement
    BY <1>3, TypedCalls, RestartFrame DEF SameCall
  <2> QED
    BY <2>1 DEF Accounted, Ran, Fresh
<1> QED
  BY <1>1, <1>2, <1>3, ClientAccounted DEF LearnNext
-----------------------------------------------------------------------------
(* What the stores hold of the calls is held after every step.               *)
LEMMA Begun ==
    ASSUME LearnInv, NEW c \in Calls, call[c].statement # "none" \/ call[c].answer = "ok"
    PROVE  call[c].at # "idle"
BY TypedCalls DEF PlaceSound

LEMMA StatementsStayHeld ==
    ASSUME LearnInv, LearnNext
    PROVE  StatementsHold'
<1> SUFFICES ASSUME NEW c \in Calls \ Reads, call'[c].statement = "saved"
             PROVE  Keeps(table', c, call'[c].attempt, call'[c].expected)
  BY DEF StatementsHold, Holds, Keeps
<1>1. /\ Steady(c) /\ Accounted(c) /\ table \in Rows /\ table' \in Rows
      /\ Extends(table, table')
  BY EveryStepMoves, EveryStepAccounted, NextTyped, StoresGrow
  DEF CallsMove, LearnInv, LearnTypeOK
<1>2. CASE call[c].statement = "saved"
  <2>1. Holds(table, c)
    BY <1>2 DEF LearnInv, CallsHeld, StatementsHold
  <2> QED
    BY <1>1, <1>2, <2>1, Begun, HeldStays
<1>3. CASE call[c].statement # "saved"
  <2>1. RunStatement(c)
    BY <1>1, <1>3 DEF Accounted, Ran
  <2>2. Holds(table', c)
    BY <2>1, StatementGrows
  <2>3. call[c].statement # "none"
    BY <2>1 DEF RunStatement
  <2>4. call'[c].attempt = call[c].attempt /\ call'[c].expected = call[c].expected
    BY <1>1, <2>3, Begun DEF Steady
  <2> QED
    BY <2>2, <2>4 DEF Holds, Keeps
<1> QED
  BY <1>2, <1>3

(* A commit that confirms its call has put it in the file and the snapshot.  *)
LEMMA CommitConfirms ==
    ASSUME LearnInv, PublishCommit
    PROVE  /\ worker.for \in Calls \ Reads /\ file' = worker.rows /\ memory' = worker.rows
           /\ Holds(worker.rows, worker.for) /\ call[worker.for].at # "idle"
<1>1. /\ worker # Absent /\ worker.kind = "commit" /\ worker.at = "publish"
      /\ file' = file /\ memory' = worker.rows
  BY DEF PublishCommit
<1>2. worker.for \in Calls
  BY <1>1, WorkerCall
<1> QED
  BY <1>1, <1>2 DEF LearnInv, StoresSound, CommitSound

LEMMA ConfirmedStaysKept ==
    ASSUME LearnInv, LearnNext
    PROVE  ConfirmedIsKept'
<1>1. StatementsHold'
  BY StatementsStayHeld
<1> SUFFICES ASSUME NEW c \in Calls \ Reads, call'[c].answer = "ok"
             PROVE  /\ call'[c].via = "database" => Holds(table, c)'
                    /\ call'[c].via = "local" =>
                         Keeps(file', c, call'[c].attempt, call'[c].expected)
  BY DEF ConfirmedIsKept, Confirmed, Holds, Keeps
<1>2. /\ Steady(c) /\ Accounted(c) /\ file \in Rows /\ file' \in Rows
      /\ Extends(file, file')
  BY EveryStepMoves, EveryStepAccounted, NextTyped, StoresGrow
  DEF CallsMove, LearnInv, LearnTypeOK
<1>3. call'[c].via = "database" => Holds(table, c)'
  <2>1. CallsSound'
    BY EveryStepMoves DEF CallsMove
  <2>2. call'[c].via = "database" => call'[c].statement = "saved"
    BY <2>1 DEF CallsSound, PlaceSound
  <2> QED
    BY <1>1, <2>2 DEF StatementsHold
<1>4. ASSUME call'[c].via = "local"
      PROVE  Keeps(file', c, call'[c].attempt, call'[c].expected)
  <2>1. CASE call[c].answer = "ok"
    <3>1. call[c].via = "local"
      BY <1>2, <1>4, <2>1 DEF Steady
    <3>2. Holds(file, c)
      BY <2>1, <3>1 DEF LearnInv, CallsHeld, ConfirmedIsKept, Confirmed
    <3> QED
      BY <1>2, <2>1, <3>2, Begun, HeldStays
  <2>2. CASE call[c].answer # "ok"
    <3>1. FreshFrom(c)
      BY <1>2, <2>2 DEF Accounted, Fresh
    <3>2. ~TakeSnapshot(c)
      BY TypedCalls DEF TakeSnapshot, PlaceSound
    <3>3. PublishCommit /\ worker.for = c
      BY <1>4, <3>1, <3>2 DEF FreshFrom
    <3>4. file' = worker.rows /\ Holds(worker.rows, c) /\ call[c].at # "idle"
      BY <3>3, CommitConfirms
    <3>5. call'[c].attempt = call[c].attempt /\ call'[c].expected = call[c].expected
      BY <1>2, <3>4 DEF Steady
    <3> QED
      BY <3>4, <3>5 DEF Holds, Keeps
  <2> QED
    BY <2>1, <2>2
<1> QED
  BY <1>3, <1>4

LEMMA MemoryStaysHeld ==
    ASSUME LearnInv, LearnNext
    PROVE  MemoryHolds'
<1> SUFFICES ASSUME loaded', NEW c \in Calls \ Reads, call'[c].answer = "ok",
                    call'[c].via = "local"
             PROVE  Keeps(memory', c, call'[c].attempt, call'[c].expected)
  BY DEF MemoryHolds, Confirmed, Holds, Keeps
<1>1. /\ Steady(c) /\ Accounted(c) /\ memory \in Rows /\ memory' \in Rows
      /\ Restart \/ Extends(memory, memory')
  BY EveryStepMoves, EveryStepAccounted, NextTyped, StoresGrow
  DEF CallsMove, LearnInv, LearnTypeOK
<1>2. ~Restart
  BY DEF Restart
<1>3. CASE call[c].answer = "ok"
  <2>1. call[c].via = "local" /\ call[c].at # "idle"
    BY <1>1, <1>3, Begun DEF Steady
  <2>2. CASE loaded
    <3>1. Holds(memory, c)
      BY <1>3, <2>1, <2>2 DEF LearnInv, CallsHeld, MemoryHolds, Confirmed
    <3> QED
      BY <1>1, <1>2, <2>1, <3>1, HeldStays
  <2>3. CASE ~loaded
    <3>1. SetReady
      BY <1>2, <2>3, ReadySteps
    <3>2. memory = file
      BY <3>1 DEF SetReady, LearnInv, StoresSound, LoadSound
    <3>3. Holds(memory, c)
      BY <1>3, <2>1, <3>2 DEF LearnInv, CallsHeld, ConfirmedIsKept, Confirmed
    <3> QED
      BY <1>1, <1>2, <2>1, <3>3, HeldStays
  <2> QED
    BY <2>2, <2>3
<1>4. CASE call[c].answer # "ok"
  <2>1. FreshFrom(c) /\ ~TakeSnapshot(c)
    BY <1>1, <1>4, TypedCalls DEF Accounted, Fresh, TakeSnapshot, PlaceSound
  <2>2. PublishCommit /\ worker.for = c
    BY <2>1 DEF FreshFrom
  <2>3. memory' = worker.rows /\ Holds(worker.rows, c) /\ call[c].at # "idle"
    BY <2>2, CommitConfirms
  <2>4. call'[c].attempt = call[c].attempt /\ call'[c].expected = call[c].expected
    BY <1>1, <2>3 DEF Steady
  <2> QED
    BY <2>3, <2>4 DEF Holds, Keeps
<1> QED
  BY <1>3, <1>4

(* A confirmed call is the same after a step, and so is what was seen of it. *)
LEMMA SeenStays ==
    ASSUME LearnInv, NEW rows \in Rows, NEW k \in Calls, Steady(k),
           call[k].answer = "ok", Holds(rows, k)
    PROVE  Keeps(rows, k, call'[k].attempt, call'[k].expected)
BY Begun, ExtendsSelf, HeldStays

LEMMA RowsSeen ==
    ASSUME LearnInv, NEW c \in Calls
    PROVE  /\ call[c].seen \in Rows
           /\ \A k \in call[c].after : k \in Calls /\ call[k].answer = "ok"
<1>1. CallsTyped /\ call[c].after \subseteq Confirmed
  BY TypedCalls
<1> QED
  BY <1>1 DEF CallsTyped, CallRecord, Confirmed

LEMMA SeenStaysHeld ==
    ASSUME LearnInv, LearnNext
    PROVE  SeenHolds'
<1> SUFFICES ASSUME NEW c \in Reads, call'[c].statement = "saved",
                    NEW k \in call'[c].after, k \notin Reads, call'[k].via = "database"
             PROVE  Keeps(call'[c].seen, k, call'[k].attempt, call'[k].expected)
  BY DEF SeenHolds, Holds, Keeps
<1>1. c \in Calls /\ \A j \in Calls : Steady(j) /\ Accounted(j)
  BY EveryStepMoves, EveryStepAccounted DEF CallsMove, Calls
<1>2. table \in Rows
  BY DEF LearnInv, LearnTypeOK
<1>3. call[c].statement # "none"
  BY <1>1 DEF Accounted, Ran, RunStatement
<1>4. call'[c].after = call[c].after
  BY <1>1, <1>3, Begun DEF Steady
<1>5. k \in Calls /\ call[k].answer = "ok" /\ call[c].seen \in Rows
  BY <1>1, <1>4, RowsSeen
<1>6. call[k].via = "database"
  BY <1>1, <1>5 DEF Steady
<1>7. CASE call[c].statement = "saved"
  <2>1. call'[c].seen = call[c].seen
    BY <1>1, <1>7 DEF Steady
  <2>2. Holds(call[c].seen, k)
    BY <1>4, <1>6, <1>7 DEF LearnInv, CallsHeld, SeenHolds
  <2> QED
    BY <1>1, <1>5, <2>1, <2>2, SeenStays
<1>8. CASE call[c].statement # "saved"
  <2>1. RunStatement(c)
    BY <1>1, <1>8 DEF Accounted, Ran
  <2>2. call' = [call EXCEPT ![c].statement = "saved", ![c].seen = table]
    BY <2>1, LearnConstants DEF RunStatement
  <2>3. call'[c].seen = table
    BY <1>1, <1>2, <2>2, ReadFrame, TypedCalls
  <2>4. Holds(table, k)
    BY <1>5, <1>6 DEF LearnInv, CallsHeld, ConfirmedIsKept, Confirmed
  <2> QED
    BY <1>1, <1>2, <1>5, <2>3, <2>4, SeenStays
<1> QED
  BY <1>7, <1>8

LEMMA ReadsStayCurrent ==
    ASSUME LearnInv, LearnNext
    PROVE  ReadsAreCurrent'
<1> SUFFICES ASSUME NEW c \in Reads, call'[c].answer = "ok",
                    NEW k \in call'[c].after, k \notin Reads, call'[k].via = call'[c].via
             PROVE  Keeps(call'[c].seen, k, call'[k].attempt, call'[k].expected)
  BY DEF ReadsAreCurrent, Confirmed, Holds, Keeps
<1>1. c \in Calls /\ \A j \in Calls : Steady(j) /\ Accounted(j)
  BY EveryStepMoves, EveryStepAccounted DEF CallsMove, Calls
<1>2. memory \in Rows
  BY DEF LearnInv, LearnTypeOK
<1>3. CASE call[c].answer = "ok"
  <2>1. /\ call'[c].after = call[c].after /\ call'[c].seen = call[c].seen
        /\ call'[c].via = call[c].via
    BY <1>1, <1>3, Begun DEF Steady
  <2>2. k \in Calls /\ call[k].answer = "ok" /\ call[c].seen \in Rows
    BY <1>1, <2>1, RowsSeen
  <2>3. call[k].via = call[c].via
    BY <1>1, <2>1, <2>2 DEF Steady
  <2>4. Holds(call[c].seen, k)
    BY <1>1, <1>3, <2>1, <2>3 DEF LearnInv, CallsHeld, ReadsAreCurrent, Confirmed
  <2> QED
    BY <1>1, <2>1, <2>2, <2>4, SeenStays
<1>4. CASE call[c].answer # "ok"
  <2>1. FreshFrom(c)
    BY <1>1, <1>4 DEF Accounted, Fresh
  <2>2. CASE call'[c].via = "database" /\ call[c].statement = "saved"
    <3>1. call'[c].statement = "saved"
      BY <1>1, <2>2 DEF Steady
    <3>2. Holds(call[c].seen, k)'
      BY <2>2, <3>1, SeenStaysHeld DEF SeenHolds
    <3> QED
      BY <3>2 DEF Holds, Keeps
  <2>3. CASE TakeSnapshot(c)
    <3>1. /\ call[c].at = "snapshot"
          /\ call' = [call EXCEPT ![c].at = "done", ![c].answer = "ok",
                                  ![c].via = "local", ![c].seen = memory]
      BY <2>3 DEF TakeSnapshot
    <3>2. call'[c].via = "local" /\ call'[c].seen = memory
      BY <1>1, <1>2, <3>1, ShownFrame, TypedCalls
    <3>3. call'[c].after = call[c].after /\ loaded
      BY <1>1, <3>1, TypedCalls DEF Steady, PlaceSound
    <3>4. k \in Calls /\ call[k].answer = "ok"
      BY <1>1, <3>3, RowsSeen
    <3>5. call[k].via = "local"
      BY <1>1, <3>2, <3>4 DEF Steady
    <3>6. Holds(memory, k)
      BY <3>3, <3>4, <3>5 DEF LearnInv, CallsHeld, MemoryHolds, Confirmed
    <3> QED
      BY <1>1, <1>2, <3>2, <3>4, <3>6, SeenStays
  <2>4. CASE PublishCommit /\ worker.for = c
    BY <2>4, CommitConfirms
  <2> QED
    BY <2>1, <2>2, <2>3, <2>4 DEF FreshFrom
<1> QED
  BY <1>3, <1>4

-----------------------------------------------------------------------------
LEMMA LearnInvHolds ==
    LearnSpec => []LearnInv
<1>1. LearnInit => LearnInv
  <2> SUFFICES ASSUME LearnInit PROVE LearnInv
    OBVIOUS
  <2> DEFINE r == [at |-> "idle", statement |-> "none", answer |-> "none", via |-> "none",
                   attempt |-> Absent, expected |-> 0, seen |-> NoRows, after |-> {}]
  <2>1. r \in CallRecord
    BY NoRowsTyped, LearnConstants DEF CallRecord
  <2>2. /\ table = NoRows /\ file = NoRows /\ memory = NoRows /\ worker = Absent
        /\ loaded = FALSE /\ disabled = FALSE /\ schema = FALSE /\ restarts = 0
        /\ call = [c \in Calls |-> r]
    BY DEF LearnInit
  <2>3. /\ \A c \in Calls : /\ call[c].at = "idle" /\ call[c].statement = "none"
                            /\ call[c].answer = "none" /\ call[c].via = "none"
                            /\ call[c].after = {}
    BY <2>2
  <2>4. call \in [Calls -> CallRecord]
    BY <2>1, <2>2
  <2> HIDE DEF r
  <2>5. LearnTypeOK
    BY <2>2, <2>4, NoRowsTyped DEF LearnTypeOK
  <2>6. CallsSound
    BY <2>3 DEF CallsSound, PlaceSound, AfterSound, Local
  <2>7. StoresSound
    BY <2>2 DEF StoresSound, RowsFromCalls, LoadSound, CommitSound, EmptyUntilLoaded,
                MemoryFollowsFile, NoRows
  <2>8. Confirmed = {} /\ \A c \in Reads : c \in Calls
    BY <2>3 DEF Confirmed, Calls
  <2>9. CallsHeld
    BY <2>2, <2>3, <2>8 DEF CallsHeld, StatementsHold, MemoryHolds, ConfirmedIsKept, SeenHolds,
                           ReadsAreCurrent
  <2> QED
    BY <2>5, <2>6, <2>7, <2>9 DEF LearnInv
<1>2. LearnInv /\ [LearnNext]_learnVars => LearnInv'
  <2> SUFFICES ASSUME LearnInv, [LearnNext]_learnVars PROVE LearnInv'
    OBVIOUS
  <2>1. CASE LearnNext
    BY <2>1, NextTyped, EveryStepMoves, NextStores, StatementsStayHeld, MemoryStaysHeld,
       ConfirmedStaysKept, SeenStaysHeld, ReadsStayCurrent
    DEF LearnInv, CallsHeld, CallsMove
  <2>2. CASE UNCHANGED learnVars
    BY <2>2 DEF learnVars, LearnInv, LearnTypeOK, CallsSound, PlaceSound, AfterSound,
                StoresSound, RowsFromCalls, LoadSound, CommitSound, EmptyUntilLoaded,
                MemoryFollowsFile, CallsHeld, StatementsHold, MemoryHolds, ConfirmedIsKept,
                SeenHolds, ReadsAreCurrent, Confirmed, Holds
  <2> QED
    BY <2>1, <2>2
<1> QED
  BY <1>1, <1>2, PTL DEF LearnSpec

(* Every variable keeps its type, the snapshot follows the file, and what    *)
(* was confirmed is in the store that confirmed it: a lost answer, a dropped *)
(* request, a failed write or a restart takes nothing back.                  *)
THEOREM StoreKeepsItsPromises == LearnSpec => []LearnSound
<1>1. LearnInv => LearnSound
  BY DEF LearnInv, StoresSound, CallsHeld, LearnSound
<1> QED
  BY <1>1, LearnInvHolds, PTL

(* A read shows all that its store had confirmed when it began.              *)
THEOREM ReadsShowWhatWasConfirmed == LearnSpec => []ReadsAreCurrent
<1>1. LearnInv => ReadsAreCurrent
  BY DEF LearnInv, CallsHeld
<1> QED
  BY <1>1, LearnInvHolds, PTL

(* No step takes an attempt or a comment out of the database, of the file or *)
(* of the running engine's snapshot.                                         *)
THEOREM StoresOnlyGrow == LearnSpec => RowsOnlyGrow
<1> DEFINE Grow == /\ Extends(table, table') /\ Extends(file, file')
                   /\ restarts' = restarts => Extends(memory, memory')
<1>1. LearnInv /\ [LearnNext]_learnVars => [Grow]_learnVars
  <2> SUFFICES ASSUME LearnInv, LearnNext PROVE Grow
    OBVIOUS
  <2>1. restarts' = restarts => ~Restart
    BY DEF Restart, LearnInv, LearnTypeOK
  <2> QED
    BY <2>1, StoresGrow
<1> QED
  BY <1>1, LearnInvHolds, PTL DEF LearnSpec, RowsOnlyGrow
=============================================================================
