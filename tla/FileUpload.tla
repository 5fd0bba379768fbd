----------------------------- MODULE FileUpload -----------------------------
(***************************************************************************)
(* The way of a large file into the engine: an intent is reserved, its     *)
(* chunks are staged under a write-ahead journal, and the whole file is    *)
(* published once.  Three PostgreSQL ledgers and one private directory are *)
(* never changed in one transaction, so what they say about each other     *)
(* must hold between any two steps of any caller.                          *)
(*                                                                         *)
(* A caller holds a one-shot attempt.  Dropping its future (cancellation,  *)
(* a ten-second deadline, an error) ends the attempt, while a blocking     *)
(* file job it dispatched runs on.  A COMMIT may be done although its      *)
(* answer is lost.  A process of the same user may touch the files.        *)
(***************************************************************************)
EXTENDS Integers, FiniteSets

CONSTANTS
    Uploads,        \* upload identifiers, with the manifest each stands for:
    Version,        \*   its immutable file version,
    Owner,          \*   its owner,
    Size,           \*   and its number of chunks (an empty file has none)
    Roots,          \* private directories, one staging adapter on each
    Attempts,       \* attempts, at the same time the nonces of their rows
    Controls,       \* control permits of an adapter (1..16)
    Workers,        \* worker permits of an adapter (1..16)
    Limits,         \* of the reservations: bytes (in chunks) and uploads, in
                    \*   all and of one owner
    MaxEntries,     \* rows of the chunk journal
    MaxPublications,
    MaxTouches      \* bound: times a foreign process touches a file

Chunks == UNION {{<<u, i>> : i \in 1..Size[u]} : u \in Uploads}

ASSUME UploadAssumption == Size \in [Uploads -> Nat] /\ MaxTouches \in Nat

VARIABLES
    reserved,       \* the reserved uploads
    rows,           \* the chunk journal: at most one row for each chunk
    files,          \* the entry of each chunk in each root
    published,      \* the publication of each upload
    at,             \* how far each attempt is
    plan,           \* what each attempt was prepared for
    seen,           \* the snapshots an attempt retains, by chunk index
    job,            \* the blocking file job of each attempt
    touches,        \* bound: times a file was touched
    moments         \* history: see Noting

ledgers == <<reserved, rows, published>>
vars == <<reserved, rows, files, published, at, plan, seen, job, touches,
          moments>>

NoRow == [state |-> "None"]
NoJob == [what |-> "none"]
NoPublication == [state |-> "None"]
Absent == [bytes |-> "none", snap |-> 0]
NoPlan == [kind |-> "none"]

(* The attempts whose future is alive: each holds a control permit.  The   *)
(* code calls an attempt Ready at "ready", Confirmed at "confirmed" and    *)
(* Unknown at every later place.                                           *)
Running == {a \in Attempts :
                at[a] \notin {"unused", "ready", "over", "confirmed"}}

HasPermit(root) ==
    Cardinality({a \in Running : plan[a].root = root}) < Controls
HasWorker(root) ==
    Cardinality({a \in Attempts : /\ job[a] # NoJob
                                  /\ plan[a].root = root}) < Workers

Chunk(a) == <<plan[a].upload, plan[a].index>>
EntryOf(a, i) == <<plan[a].root, <<plan[a].upload, i>>>>
Entry(a) == EntryOf(a, plan[a].index)
Indices(a) == 1..Size[plan[a].upload]

(* capture_confirmed_file and verify_confirmed_file: exactly the rows of   *)
(* the manifest, all Confirmed and all bound to this root.                 *)
ConfirmedFile(u, root) ==
    \A i \in 1..Size[u] : /\ rows[<<u, i>>].state = "Confirmed"
                          /\ rows[<<u, i>>].root = root

Init ==
    /\ reserved = {}
    /\ rows = [c \in Chunks |-> NoRow]
    /\ files = [e \in Roots \X Chunks |-> Absent]
    /\ published = [u \in Uploads |-> NoPublication]
    /\ at = [a \in Attempts |-> "unused"]
    /\ plan = [a \in Attempts |-> NoPlan]
    /\ seen = [a \in Attempts |-> <<>>]
    /\ job = [a \in Attempts |-> NoJob]
    /\ touches = 0
    /\ moments = {}

-----------------------------------------------------------------------------
(* Reservation: one immutable intent for an upload identifier and for a    *)
(* file version, within the limits of the store and of the owner.          *)
Bytes(us) == Cardinality({c \in Chunks : c[1] \in us})
Fits(us) ==
    LET mine(u) == {v \in us : Owner[v] = Owner[u]}
    IN /\ Bytes(us) <= Limits.bytes
       /\ Cardinality(us) <= Limits.uploads
       /\ \A u \in us : /\ Bytes(mine(u)) <= Limits.ownerBytes
                        /\ Cardinality(mine(u)) <= Limits.ownerUploads

Reserve(u) ==
    /\ \A v \in reserved : v # u /\ Version[v] # Version[u]
    /\ Fits(reserved \cup {u})
    /\ reserved' = reserved \cup {u}
    /\ UNCHANGED <<rows, files, published, at, plan, seen, job, touches>>

(* Preparation reads metadata only.  A publication is prepared for a file  *)
(* whose journal is complete, at the adapter of its root.                  *)
Prepare(a, p) ==
    /\ at[a] = "unused"
    /\ p.upload \in reserved
    /\ HasPermit(p.root)
    /\ at' = [at EXCEPT ![a] = "ready"]
    /\ plan' = [plan EXCEPT ![a] = p]
    /\ seen' = [seen EXCEPT ![a] = [i \in 1..Size[p.upload] |-> 0]]
    /\ UNCHANGED <<ledgers, files, job, touches>>

PrepareChunk(a) ==
    \E u \in Uploads, root \in Roots, kind \in {"journaled", "plain"} :
        \E i \in 1..Size[u] :
            Prepare(a, [kind |-> kind, upload |-> u, index |-> i,
                        root |-> root])
PreparePublication(a) ==
    \E u \in Uploads, root \in Roots :
        /\ ConfirmedFile(u, root)
        /\ Prepare(a, [kind |-> "publish", upload |-> u, root |-> root])

(* Admission: without a control permit the attempt stays Ready, with one   *)
(* it is Unknown before the first await.                                   *)
Start(a) ==
    /\ at[a] = "ready"
    /\ HasPermit(plan[a].root)
    /\ at' = [at EXCEPT ![a] = "begun"]
    /\ UNCHANGED <<ledgers, files, plan, seen, job, touches>>

-----------------------------------------------------------------------------
(* The journal.  A row is inserted as Unknown before any byte is written;  *)
(* every occupied chunk conflicts, whoever holds it, and so does another   *)
(* binding of the same upload.  "ack" is whether the caller learns of the  *)
(* COMMIT.                                                                 *)
Compatible(u, root) ==
    \A c \in Chunks : c[1] = u /\ rows[c] # NoRow => rows[c].root = root

\* Slip: a retry takes over a row that was never confirmed.
FreeUnlessConfirmed(c) == rows[c].state # "Confirmed"
Free(c) == rows[c] = NoRow

LogUnknown(a) ==
    /\ at[a] = "begun" /\ plan[a].kind = "journaled"
    /\ Free(Chunk(a))
    /\ Compatible(plan[a].upload, plan[a].root)
    /\ Cardinality({c \in Chunks : rows[c] # NoRow}) < MaxEntries
    /\ rows' = [rows EXCEPT ![Chunk(a)] =
                    [state |-> "Unknown", by |-> a, root |-> plan[a].root]]
    /\ \E ack \in BOOLEAN :
           at' = [at EXCEPT ![a] = IF ack THEN "logged" ELSE "over"]
    /\ UNCHANGED <<reserved, published, files, plan, seen, job, touches>>

(* Only the row of this very attempt is confirmed, and only once.          *)
LogConfirmed(a) ==
    /\ at[a] = "checked" /\ plan[a].kind = "journaled"
    /\ rows[Chunk(a)] = [state |-> "Unknown", by |-> a, root |-> plan[a].root]
    /\ rows' = [rows EXCEPT ![Chunk(a)] =
                    [state |-> "Confirmed", by |-> a, root |-> plan[a].root]]
    /\ \E ack \in BOOLEAN :
           at' = [at EXCEPT ![a] = IF ack THEN "noted" ELSE "over"]
    /\ UNCHANGED <<reserved, published, files, plan, seen, job, touches>>

-----------------------------------------------------------------------------
(* Staging.  The job creates the entry exclusively, writes, seals and      *)
(* reads it back; whatever it leaves when it fails stays there.            *)
Dispatch(a) ==
    /\ at[a] = IF plan[a].kind = "plain" THEN "begun" ELSE "logged"
    /\ plan[a].kind # "publish"
    /\ HasWorker(plan[a].root)
    /\ at' = [at EXCEPT ![a] = "staging"]
    /\ job' = [job EXCEPT ![a] = [what |-> "create"]]
    /\ UNCHANGED <<ledgers, files, plan, seen, touches>>

Create(a) ==
    /\ job[a].what = "create"
    /\ files[Entry(a)].bytes = "none"
    /\ files' = [files EXCEPT ![Entry(a)] =
                    [bytes |-> "partial", snap |-> @.snap + 1]]
    /\ job' = [job EXCEPT ![a] = [what |-> "write",
                                  snap |-> files[Entry(a)].snap + 1]]
    /\ UNCHANGED <<ledgers, at, plan, seen, touches>>

Occupied(a) ==
    /\ job[a].what = "create"
    /\ files[Entry(a)].bytes # "none"
    /\ job' = [job EXCEPT ![a] = NoJob]
    /\ at' = [at EXCEPT ![a] = "over"]
    /\ UNCHANGED <<ledgers, files, plan, seen, touches>>

Mine(a) == files[Entry(a)].snap = job[a].snap
Written(a) == [files EXCEPT ![Entry(a)] = [bytes |-> "right",
                                           snap |-> job[a].snap]]

(* The readback wants the entry that was created.  The last steps may fail *)
(* although the bytes are in place.                                        *)
WriteEnds(a) ==
    /\ job[a].what = "write"
    /\ job' = [job EXCEPT ![a] = NoJob]
    /\ \/ /\ Mine(a)
          /\ files' = Written(a)
          /\ IF at[a] = "staging"
             THEN /\ at' = [at EXCEPT ![a] = "staged"]
                  /\ seen' = [seen EXCEPT ![a][plan[a].index] = job[a].snap]
             ELSE UNCHANGED <<at, seen>>
       \/ /\ files' = files \/ (Mine(a) /\ files' = Written(a))
          /\ at' = [at EXCEPT ![a] = "over"]
          /\ UNCHANGED seen
    /\ UNCHANGED <<ledgers, plan, touches>>

(* The receipt is checked against the original object: before the row is   *)
(* confirmed, and again after.  A plain attempt checks once.               *)
Verify(a) ==
    /\ at[a] \in {"staged", "noted"}
    /\ HasWorker(plan[a].root)
    /\ files[Entry(a)] = [bytes |-> "right", snap |-> seen[a][plan[a].index]]
    /\ at' = [at EXCEPT ![a] =
                 IF at[a] = "staged" /\ plan[a].kind = "journaled"
                 THEN "checked" ELSE "confirmed"]
    /\ UNCHANGED <<ledgers, files, plan, seen, job, touches>>

-----------------------------------------------------------------------------
(* Publication.  Its three file jobs are scans over the chunks in order:   *)
(* the first reads every byte and then looks at every entry again, the     *)
(* others only look.  next is the index a scan has come to.                *)
ScanAfter ==
    [begun    |-> [at |-> "observing",  what |-> "read"],
     observed |-> [at |-> "rechecking", what |-> "look"],
     inserted |-> [at |-> "settling",   what |-> "look"]]

Scan(a) ==
    /\ plan[a].kind = "publish" /\ at[a] \in DOMAIN ScanAfter
    /\ ConfirmedFile(plan[a].upload, plan[a].root)
    /\ at[a] = "inserted" => published[plan[a].upload].by = a
    /\ HasWorker(plan[a].root)
    /\ at' = [at EXCEPT ![a] = ScanAfter[at[a]].at]
    /\ job' = [job EXCEPT ![a] = [what |-> ScanAfter[at[a]].what, next |-> 1]]
    /\ UNCHANGED <<ledgers, files, plan, seen, touches>>

ReadChunk(a) ==
    /\ job[a].what = "read" /\ job[a].next \in Indices(a)
    /\ LET e == EntryOf(a, job[a].next)
       IN /\ files[e].bytes = "right"
          /\ seen' = [seen EXCEPT ![a][job[a].next] = files[e].snap]
    /\ job' = [job EXCEPT ![a].next = @ + 1]
    /\ UNCHANGED <<ledgers, files, at, plan, touches>>

ReadEnds(a) ==
    /\ job[a].what = "read" /\ job[a].next \notin Indices(a)
    /\ job' = [job EXCEPT ![a] = [what |-> "look", next |-> 1]]
    /\ UNCHANGED <<ledgers, files, at, plan, seen, touches>>

\* Slip: it is enough that the entry is there.
SomeEntry(a, i) == files[EntryOf(a, i)].bytes # "none"
SameEntry(a, i) == files[EntryOf(a, i)].snap = seen[a][i]

LookAt(a) ==
    /\ job[a].what = "look" /\ job[a].next \in Indices(a)
    /\ SameEntry(a, job[a].next)
    /\ job' = [job EXCEPT ![a].next = @ + 1]
    /\ UNCHANGED <<ledgers, files, at, plan, seen, touches>>

AfterScan ==
    [observing |-> "observed", rechecking |-> "rechecked",
     settling |-> "confirmed"]

LookEnds(a) ==
    /\ job[a].what = "look" /\ job[a].next \notin Indices(a)
    /\ job' = [job EXCEPT ![a] = NoJob]
    /\ at' = IF at[a] = "over" THEN at
             ELSE [at EXCEPT ![a] = AfterScan[@]]
    /\ UNCHANGED <<ledgers, files, plan, seen, touches>>

(* The job finds a chunk missing, changed or wrong.                        *)
ScanFails(a) ==
    /\ job[a].what \in {"read", "look"} /\ job[a].next \in Indices(a)
    /\ job' = [job EXCEPT ![a] = NoJob]
    /\ at' = [at EXCEPT ![a] = "over"]
    /\ UNCHANGED <<ledgers, files, plan, seen, touches>>

(* One immutable row: upload identifier and file version are taken for     *)
(* ever, and a conflict comes before the capacity.                         *)
Insert(a) ==
    LET u == plan[a].upload
        taken == {v \in Uploads : published[v] # NoPublication}
    IN /\ at[a] = "rechecked"
       /\ \A v \in taken : v # u /\ Version[v] # Version[u]
       /\ Cardinality(taken) < MaxPublications
       /\ published' = [published EXCEPT ![u] =
              [state |-> "Published", by |-> a, root |-> plan[a].root]]
       /\ \E ack \in BOOLEAN :
              at' = [at EXCEPT ![a] = IF ack THEN "inserted" ELSE "over"]
       /\ UNCHANGED <<reserved, rows, files, plan, seen, job, touches>>

-----------------------------------------------------------------------------
(* Every await of an attempt may be its last: an error, a refusal of a     *)
(* ledger or of the worker budget, the deadline, or a dropped future.  The *)
(* control permit is free at once; a dispatched job goes on.               *)
Fail(a) ==
    /\ a \in Running
    /\ at' = [at EXCEPT ![a] = "over"]
    /\ UNCHANGED <<ledgers, files, plan, seen, job, touches>>

(* The engine ends: attempts and jobs are gone, ledgers and files stay.    *)
Restart ==
    /\ \E a \in Attempts : at[a] = "ready" \/ a \in Running \/ job[a] # NoJob
    /\ at' = [a \in Attempts |-> IF at[a] \in {"unused", "confirmed"}
                                 THEN at[a] ELSE "over"]
    /\ job' = [a \in Attempts |-> NoJob]
    /\ UNCHANGED <<ledgers, files, plan, seen, touches>>

(* A process of the same user replaces, changes or removes an entry; its   *)
(* snapshot (inode, length, mtime, ctime) is then another one.             *)
Touch(e) ==
    /\ touches < MaxTouches
    /\ files[e].bytes # "none"
    /\ \E b \in {"none", "wrong", "right"} :
           files' = [files EXCEPT ![e] = [bytes |-> b, snap |-> @.snap + 1]]
    /\ touches' = touches + 1
    /\ UNCHANGED <<ledgers, at, plan, seen, job>>

Step ==
    \/ \E u \in Uploads : Reserve(u)
    \/ \E a \in Attempts :
          \/ PrepareChunk(a) \/ PreparePublication(a) \/ Start(a)
          \/ LogUnknown(a) \/ LogConfirmed(a)
          \/ Dispatch(a) \/ Create(a) \/ Occupied(a) \/ WriteEnds(a)
          \/ Verify(a)
          \/ Scan(a) \/ ReadChunk(a) \/ ReadEnds(a) \/ LookAt(a)
          \/ LookEnds(a) \/ ScanFails(a) \/ Insert(a)
          \/ Fail(a)
    \/ Restart
    \/ \E e \in Roots \X Chunks : Touch(e)

(***************************************************************************)
(* History, noted with every step.  <<a, "sealed">>: the job of a staged   *)
(* the chunk.  <<a, "before">>: at one moment since a publishing attempt   *)
(* started, and before its row was inserted, every chunk of the file had   *)
(* the right bytes.  <<a, "after">>: that was so since the insert.         *)
(***************************************************************************)
AllRight(a) == \A i \in Indices(a) : files[EntryOf(a, i)].bytes = "right"
Phase(a) == IF at[a] \in {"inserted", "settling"} THEN "after" ELSE "before"
Whole == {a \in Running : plan[a].kind = "publish" /\ AllRight(a)}
Sealed == {a \in Running : at[a] = "staged"}
Noting == moments' = moments \cup {<<a, Phase(a)>> : a \in Whole}'
                             \cup {<<a, "sealed">> : a \in Sealed}'

Next == Step /\ Noting
Spec == Init /\ [][Next]_vars

-----------------------------------------------------------------------------
Places == {"unused", "ready", "begun", "logged", "staging", "staged",
           "checked", "noted", "observing", "observed", "rechecking",
           "rechecked", "inserted", "settling", "confirmed", "over"}

TypeOK ==
    /\ reserved \subseteq Uploads
    /\ rows \in [Chunks -> {NoRow} \cup
           [state : {"Unknown", "Confirmed"}, by : Attempts, root : Roots]]
    /\ files \in [Roots \X Chunks ->
           [bytes : {"none", "partial", "right", "wrong"}, snap : Nat]]
    /\ published \in [Uploads -> {NoPublication} \cup
           [state : {"Published"}, by : Attempts, root : Roots]]
    /\ at \in [Attempts -> Places]
    /\ touches \in 0..MaxTouches

(* The journal is written ahead of the files: a journaled attempt that may *)
(* write, or has written, holds the row of its chunk, with its own nonce   *)
(* and its own root.  So no chunk is ever dispatched twice through the     *)
(* journal, from whatever adapter and after whatever loss or restart.      *)
WriteAhead ==
    \A a \in Attempts :
        plan[a].kind = "journaled" /\ (\/ at[a] \in {"logged", "staging",
                                            "staged", "checked", "noted",
                                            "confirmed"}
                                      \/ job[a] # NoJob)
            => /\ rows[Chunk(a)].state # "None"
               /\ rows[Chunk(a)].by = a
               /\ rows[Chunk(a)].root = plan[a].root

(* The rows of one upload are bound to one root.                           *)
OneBinding ==
    \A c, d \in Chunks :
        c[1] = d[1] /\ rows[c] # NoRow /\ rows[d] # NoRow
            => rows[c].root = rows[d].root

(* A Confirmed row was earned by its own attempt: that attempt created,    *)
(* wrote, sealed and read back the chunk.                                  *)
ConfirmedIsEarned ==
    \A c \in Chunks :
        rows[c].state = "Confirmed" => <<rows[c].by, "sealed">> \in moments

(* A publication stands on a complete journal bound to its root, for an    *)
(* upload that was reserved, and no other publication has its version.     *)
PublishedIsBacked ==
    \A u \in Uploads :
        published[u].state = "Published" =>
            /\ u \in reserved
            /\ \A i \in 1..Size[u] : /\ rows[<<u, i>>].state = "Confirmed"
                                     /\ rows[<<u, i>>].root = published[u].root
            /\ \A v \in Uploads \ {u} :
                   published[v].state = "Published" => Version[v] # Version[u]

(* The three ledgers and the files agree, whatever was interrupted where.  *)
UploadSound ==
    TypeOK /\ WriteAhead /\ OneBinding /\ ConfirmedIsEarned
    /\ PublishedIsBacked

(* The bytes behind a publication were those of the manifest, all of them  *)
(* at one and the same moment, after its attempt started and before its    *)
(* row was inserted, although chunks are read one after another, without   *)
(* any lock, and may be touched in between.                                *)
PublishedWasWhole ==
    \A u \in Uploads :
        published[u].state = "Published"
            => <<published[u].by, "before">> \in moments

(* A receipt says more than the row: a publishing attempt is Confirmed     *)
(* only if its own row is there and the file was whole again after the     *)
(* insert; a staging attempt only if its own row is Confirmed.             *)
ReceiptIsTrue ==
    \A a \in Attempts :
        at[a] = "confirmed" =>
            CASE plan[a].kind = "publish" ->
                    /\ published[plan[a].upload].state = "Published"
                    /\ published[plan[a].upload].by = a
                    /\ <<a, "after">> \in moments
              [] plan[a].kind = "journaled" ->
                    /\ rows[Chunk(a)].state = "Confirmed"
                    /\ rows[Chunk(a)].by = a
              [] OTHER -> <<a, "sealed">> \in moments

ReceiptsHold == PublishedWasWhole /\ ReceiptIsTrue
=============================================================================
