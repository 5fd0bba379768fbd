---------------------------- MODULE LearningStore ----------------------------
(* The store of lab attempts and teacher feedback,                           *)
(* services/learning_store.rs with loading.rs, persistence.rs, feedback.rs   *)
(* and attempt.rs.  A call selects the database when a pool is active and    *)
(* the local snapshot otherwise.  Local reads share one published snapshot;  *)
(* loading it and committing to it are done by a blocking worker that owns   *)
(* the admission lock and outlives a caller that has gone.  What a statement *)
(* does in the database and the answer to it are separate steps: an answer   *)
(* may be lost, and a statement may run after its caller has gone.           *)
EXTENDS Naturals, Sequences

CONSTANTS
    Records, Reviews, Reads,  \* the calls: runs to record, feedback, queries
    Absent,                   \* Option::None
    HasPool,                  \* DATABASE_URL is set and fallback is enabled
    MaxRevision,              \* u32::MAX
    MaxRestarts               \* bound

ASSUME LearnConstants ==
    /\ Records \cap Reviews = {} /\ Records \cap Reads = {} /\ Reviews \cap Reads = {}
    /\ Absent \notin Records \cup Reviews \cup Reads
    /\ Absent \notin Seq(Reviews)
    /\ HasPool \in BOOLEAN /\ MaxRevision \in Nat /\ MaxRestarts \in Nat

Calls == Records \cup Reviews \cup Reads

VARIABLES
    table,     \* learning_attempts in the database
    file,      \* attempts.json
    memory,    \* the published snapshot
    loaded,    \* memory_loaded
    disabled,  \* db_disabled
    schema,    \* schema_ready
    worker,    \* the blocking worker; it owns persist_lock while it exists
    call,      \* the calls
    restarts

learnVars == <<table, file, memory, loaded, disabled, schema, worker, call, restarts>>

(* An attempt is named by the call that records it.  A row is the sequence   *)
(* of the feedback saved on it: the code keeps the last one and their number.*)
Rows == [Records -> Seq(Reviews) \cup {Absent}]
NoRows == [a \in Records |-> Absent]

InDatabase == {"schema", "sent", "exists"}
Local == {"local", "loading", "admission", "commit", "snapshot"}
Ended == {"done", "gone"}

(* `statement': whether the call's SQL statement ran, and what it did.       *)
(* `after': the calls that were confirmed when a read began (history).       *)
CallRecord == [at        : {"idle"} \cup InDatabase \cup Local \cup Ended,
               statement : {"none", "sent", "saved", "void"},
               answer    : {"none", "ok", "conflict", "missing", "failed"},
               via       : {"none", "database", "local"},
               attempt   : Records \cup {Absent},
               expected  : 0..MaxRevision,
               seen      : Rows,
               after     : SUBSET Calls]

WorkerRecord == [kind : {"load", "commit"}, at : {"start", "publish", "ready"},
                 for : Calls, rows : Rows]
ASSUME LearnAbsent == Absent \notin WorkerRecord

LearnInit ==
    /\ table = NoRows /\ file = NoRows /\ memory = NoRows
    /\ loaded = FALSE /\ disabled = FALSE /\ schema = FALSE
    /\ worker = Absent
    /\ call = [c \in Calls |-> [at |-> "idle", statement |-> "none", answer |-> "none",
                                via |-> "none", attempt |-> Absent, expected |-> 0,
                                seen |-> NoRows, after |-> {}]]
    /\ restarts = 0

ActivePool == HasPool /\ ~disabled
Confirmed == {c \in Calls : call[c].answer = "ok"}

Go(c, place) == call' = [call EXCEPT ![c].at = place]
Answer(c, answer, via) ==
    call' = [call EXCEPT ![c].at = "done", ![c].answer = answer, ![c].via = via]

localVars == <<file, memory, loaded, worker>>
databaseVars == <<table, disabled, schema>>

-----------------------------------------------------------------------------
(* Every operation starts by choosing the backend.  Feedback names the       *)
(* attempt and the revision its author saw; the last revision has no next.   *)
Begin(c) ==
    /\ call[c].at = "idle"
    /\ \E a \in Records, n \in 0..MaxRevision :
        /\ c \in Records => a = c
        /\ c \notin Reviews => n = 0
        /\ call' = [call EXCEPT
             ![c].attempt = a, ![c].expected = n,
             ![c].after = IF c \in Reads THEN Confirmed ELSE {},
             ![c].at = IF c \in Reviews /\ n = MaxRevision THEN "done"
                       ELSE IF ActivePool THEN "schema" ELSE "local",
             ![c].answer = IF c \in Reviews /\ n = MaxRevision THEN "failed" ELSE "none"]
    /\ UNCHANGED <<databaseVars, localVars, restarts>>

(* ensure_schema; it has nothing to do once another call disabled the pool.  *)
SchemaReady(c) ==
    /\ call[c].at = "schema"
    /\ schema' = (schema \/ ActivePool)
    /\ call' = [call EXCEPT ![c].at = "sent", ![c].statement = "sent"]
    /\ UNCHANGED <<table, disabled, localVars, restarts>>

(* Only a record falls back; the pool stays active.                          *)
SchemaFails(c) ==
    /\ call[c].at = "schema" /\ ~schema /\ ActivePool
    /\ IF c \in Records THEN Go(c, "local") ELSE Answer(c, "failed", "database")
    /\ UNCHANGED <<databaseVars, localVars, restarts>>

(* The WHERE clause of the feedback UPDATE.                                  *)
UpdateMatches(rows, c) ==
    /\ rows[call[c].attempt] # Absent
    /\ Len(rows[call[c].attempt]) = call[c].expected

WithRecord(rows, c) == [rows EXCEPT ![c] = <<>>]
WithFeedback(rows, c) == [rows EXCEPT ![call[c].attempt] = Append(@, c)]

(* The database runs the statement of a call, which may be gone by then.     *)
RunStatement(c) ==
    /\ call[c].statement = "sent"
    /\ \/ /\ c \in Records
          /\ table' = WithRecord(table, c)
          /\ call' = [call EXCEPT ![c].statement = "saved"]
       \/ /\ c \in Reviews /\ UpdateMatches(table, c)
          /\ table' = WithFeedback(table, c)
          /\ call' = [call EXCEPT ![c].statement = "saved"]
       \/ /\ c \in Reviews /\ ~UpdateMatches(table, c)
          /\ call' = [call EXCEPT ![c].statement = "void"] /\ UNCHANGED table
       \/ /\ c \in Reads
          /\ call' = [call EXCEPT ![c].statement = "saved", ![c].seen = table]
          /\ UNCHANGED table
    /\ UNCHANGED <<disabled, schema, localVars, restarts>>

StatementAnswers(c) ==
    /\ call[c].at = "sent" /\ call[c].statement \in {"saved", "void"}
    /\ IF call[c].statement = "saved" THEN Answer(c, "ok", "database") ELSE Go(c, "exists")
    /\ UNCHANGED <<databaseVars, localVars, restarts>>

(* The statement failed, or its answer was lost.  A record disables the pool *)
(* for good and is written locally; feedback and reads report the failure.   *)
StatementFails(c) ==
    /\ call[c].at = "sent"
    /\ IF c \in Records
       THEN disabled' = TRUE /\ Go(c, "local")
       ELSE UNCHANGED disabled /\ Answer(c, "failed", "database")
    /\ UNCHANGED <<table, schema, localVars, restarts>>

(* No row was updated: a second query tells a conflict from an unknown one.  *)
TellWhy(c) ==
    /\ call[c].at = "exists"
    /\ \/ table[call[c].attempt] # Absent /\ Answer(c, "conflict", "database")
       \/ table[call[c].attempt] = Absent /\ Answer(c, "missing", "database")
       \/ Answer(c, "failed", "database")
    /\ UNCHANGED <<databaseVars, localVars, restarts>>

-----------------------------------------------------------------------------
(* load_memory.                                                              *)
Warm(c) == IF c \in Reads THEN "snapshot" ELSE "admission"

(* Slip: the snapshot is used before it is known to be loaded.               *)
AlreadyPublished(c) ==
    /\ call[c].at = "local"
    /\ Go(c, Warm(c))
    /\ UNCHANGED <<databaseVars, localVars, restarts>>

AlreadyLoaded(c) ==
    /\ call[c].at = "local" /\ loaded
    /\ Go(c, Warm(c))
    /\ UNCHANGED <<databaseVars, localVars, restarts>>

(* The lock is taken, and readiness checked again under it.                  *)
StartLoading(c) ==
    /\ call[c].at = "local" /\ ~loaded /\ worker = Absent
    /\ worker' = [kind |-> "load", at |-> "start", for |-> c, rows |-> NoRows]
    /\ Go(c, "loading")
    /\ UNCHANGED <<databaseVars, file, memory, loaded, restarts>>

(* Slip: readiness is announced before the snapshot is published.            *)
ReadFileEarlyReady ==
    /\ worker # Absent /\ worker.kind = "load" /\ worker.at = "start"
    /\ worker' = [worker EXCEPT !.at = "publish", !.rows = file]
    /\ loaded' = TRUE
    /\ UNCHANGED <<databaseVars, file, memory, call, restarts>>

ReadFile ==
    /\ worker # Absent /\ worker.kind = "load" /\ worker.at = "start"
    /\ worker' = [worker EXCEPT !.at = "publish", !.rows = file]
    /\ UNCHANGED <<databaseVars, file, memory, loaded, call, restarts>>

PublishLoaded ==
    /\ worker # Absent /\ worker.kind = "load" /\ worker.at = "publish"
    /\ memory' = worker.rows
    /\ worker' = [worker EXCEPT !.at = "ready"]
    /\ UNCHANGED <<databaseVars, file, loaded, call, restarts>>

SetReady ==
    /\ worker # Absent /\ worker.kind = "load" /\ worker.at = "ready"
    /\ loaded' = TRUE /\ worker' = Absent
    /\ IF call[worker.for].at = "loading" THEN Go(worker.for, Warm(worker.for))
       ELSE UNCHANGED call
    /\ UNCHANGED <<databaseVars, file, memory, restarts>>

-----------------------------------------------------------------------------
(* Reading and writing the local snapshot.                                   *)
TakeSnapshot(c) ==
    /\ call[c].at = "snapshot"
    /\ call' = [call EXCEPT ![c].at = "done", ![c].answer = "ok", ![c].via = "local",
                            ![c].seen = memory]
    /\ UNCHANGED <<databaseVars, localVars, restarts>>

HandOff(c, rows) ==
    /\ worker' = [kind |-> "commit", at |-> "start", for |-> c, rows |-> rows]
    /\ Go(c, "commit")

(* The lock is taken, the replacement built and handed to the worker.        *)
AdmitRecord(c) ==
    /\ c \in Records /\ call[c].at = "admission" /\ worker = Absent
    /\ HandOff(c, WithRecord(memory, c))
    /\ UNCHANGED <<databaseVars, file, memory, loaded, restarts>>

AdmitReview(c) ==
    /\ c \in Reviews /\ call[c].at = "admission" /\ worker = Absent
    /\ \/ /\ UpdateMatches(memory, c) /\ HandOff(c, WithFeedback(memory, c))
       \/ /\ memory[call[c].attempt] = Absent
          /\ Answer(c, "missing", "local") /\ UNCHANGED worker
       \/ /\ memory[call[c].attempt] # Absent /\ ~UpdateMatches(memory, c)
          /\ Answer(c, "conflict", "local") /\ UNCHANGED worker
    /\ UNCHANGED <<databaseVars, file, memory, loaded, restarts>>

(* The new file is written beside the old one and renamed over it.           *)
WriteAndRename ==
    /\ worker # Absent /\ worker.kind = "commit" /\ worker.at = "start"
    /\ file' = worker.rows
    /\ worker' = [worker EXCEPT !.at = "publish"]
    /\ UNCHANGED <<databaseVars, memory, loaded, call, restarts>>

PublishCommit ==
    /\ worker # Absent /\ worker.kind = "commit" /\ worker.at = "publish"
    /\ memory' = worker.rows /\ worker' = Absent
    /\ IF call[worker.for].at = "commit" THEN Answer(worker.for, "ok", "local")
       ELSE UNCHANGED call
    /\ UNCHANGED <<databaseVars, file, loaded, restarts>>

(* The file cannot be read or decoded, or cannot be written or renamed.      *)
WorkerFails ==
    /\ worker # Absent /\ worker.at = "start"
    /\ worker' = Absent
    /\ IF call[worker.for].at \in {"loading", "commit"}
       THEN Answer(worker.for, "failed", "local") ELSE UNCHANGED call
    /\ UNCHANGED <<databaseVars, file, memory, loaded, restarts>>

-----------------------------------------------------------------------------
(* Slip: the worker ends with its caller.                                    *)
DisconnectStopsWorker(c) ==
    /\ call[c].at \in InDatabase \cup Local
    /\ Go(c, "gone")
    /\ worker' = IF worker # Absent /\ worker.for = c THEN Absent ELSE worker
    /\ UNCHANGED <<databaseVars, file, memory, loaded, restarts>>

(* The client disconnects: the request is dropped where it waits.            *)
Disconnect(c) ==
    /\ call[c].at \in InDatabase \cup Local
    /\ Go(c, "gone")
    /\ UNCHANGED <<databaseVars, localVars, restarts>>

(* The engine ends and starts again; files and database stay.                *)
Restart ==
    /\ restarts < MaxRestarts
    /\ restarts' = restarts + 1
    /\ call' = [c \in Calls |-> IF call[c].at \in InDatabase \cup Local
                                THEN [call[c] EXCEPT !.at = "gone"] ELSE call[c]]
    /\ worker' = Absent /\ memory' = NoRows /\ loaded' = FALSE
    /\ disabled' = FALSE /\ schema' = FALSE
    /\ UNCHANGED <<table, file>>

LearnNext ==
    \/ ReadFile \/ PublishLoaded \/ SetReady
    \/ WriteAndRename \/ PublishCommit \/ WorkerFails \/ Restart
    \/ \E c \in Calls :
        \/ Begin(c) \/ SchemaReady(c) \/ SchemaFails(c) \/ RunStatement(c)
        \/ StatementAnswers(c) \/ StatementFails(c) \/ TellWhy(c)
        \/ AlreadyLoaded(c) \/ StartLoading(c) \/ TakeSnapshot(c)
        \/ AdmitRecord(c) \/ AdmitReview(c) \/ Disconnect(c)

LearnSpec == LearnInit /\ [][LearnNext]_learnVars

-----------------------------------------------------------------------------
(* Properties.                                                               *)
LearnTypeOK ==
    /\ table \in Rows /\ file \in Rows /\ memory \in Rows
    /\ loaded \in BOOLEAN /\ disabled \in BOOLEAN /\ schema \in BOOLEAN
    /\ worker \in WorkerRecord \cup {Absent}
    /\ call \in [Calls -> CallRecord]
    /\ restarts \in Nat

(* The snapshot every read and every next write starts from is the file,     *)
(* except while one worker is between its rename and its publication.        *)
MemoryFollowsFile ==
    loaded => \/ memory = file
              \/ /\ worker # Absent /\ worker.kind = "commit" /\ worker.at = "publish"
                 /\ file = worker.rows

(* The rows of a store hold what the call c saved: the attempt, or as        *)
(* feedback its own comment at the revision that follows the one it names.   *)
Holds(rows, c) ==
    /\ rows[call[c].attempt] # Absent
    /\ c \in Reviews =>
        /\ Len(rows[call[c].attempt]) > call[c].expected
        /\ rows[call[c].attempt][call[c].expected + 1] = c

(* What was confirmed is in the store that confirmed it, whatever is written *)
(* beside it, dropped or lost afterwards and over restarts; two comments are *)
(* never confirmed for one revision.                                         *)
ConfirmedIsKept ==
    \A c \in Confirmed \ Reads :
        /\ call[c].via = "database" => Holds(table, c)
        /\ call[c].via = "local" => Holds(file, c)

(* Local snapshot, file and database hold together what they promised.       *)
LearnSound == LearnTypeOK /\ MemoryFollowsFile /\ ConfirmedIsKept

(* A read shows everything its store had confirmed when the read began: a    *)
(* store not loaded yet, or unreadable, is never shown as an empty one.      *)
ReadsAreCurrent ==
    \A c \in Confirmed \cap Reads : \A k \in call[c].after \ Reads :
        call[k].via = call[c].via => Holds(call[c].seen, k)

Extends(old, new) ==
    \A a \in Records : old[a] # Absent =>
        /\ new[a] # Absent /\ Len(old[a]) <= Len(new[a])
        /\ SubSeq(new[a], 1, Len(old[a])) = old[a]

(* No step takes an attempt or a comment back, in the database, in the file  *)
(* or in the snapshot the running engine shows.                              *)
RowsOnlyGrow ==
    [][/\ Extends(table, table') /\ Extends(file, file')
       /\ restarts' = restarts => Extends(memory, memory')]_learnVars
=============================================================================
