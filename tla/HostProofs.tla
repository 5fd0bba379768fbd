----------------------------- MODULE HostProofs -----------------------------
(* What requests that are dropped half-way leave on the host.                *)
(*                                                                           *)
(* First the uploads, for any uploads, roots, attempts and limits: the       *)
(* ledgers and the files agree between any two steps, and what a publication *)
(* or a receipt says of the bytes was true of all of them at one moment.     *)
(*                                                                           *)
(* Then the programs of the kernel, for any requests, users and faults:      *)
(* there is one of a run at most, the list shows it, and what was reported   *)
(* as detached is gone.                                                      *)
EXTENDS FileUpload, EbpfRunner, TLAPS

(* What an attempt is prepared for: to stage one chunk, or to publish a   *)
(* file.                                                                  *)
ChunkPlan(p) == /\ p \in [kind : {"journaled", "plain"}, upload : Uploads,
                          index : Nat, root : Roots]
                /\ p.index \in 1..Size[p.upload]
PublishPlan(p) == p \in [kind : {"publish"}, upload : Uploads, root : Roots]

(* The blocking jobs of either kind.                                      *)
StagingJobs == [what : {"create"}] \cup [what : {"write"}, snap : Nat]
ScanJobs == [what : {"read", "look"}, next : Nat \ {0}]

(* Where an attempt is, given its kind and its job.                         *)
ChunkPlaces == {"logged", "staging", "staged", "checked", "noted"}
PublishPlaces == {"observing", "observed", "rechecking", "rechecked",
                  "inserted", "settling"}

(* An attempt has a plan for a reserved upload, and as many snapshots as  *)
(* chunks.                                                                *)
Planned ==
    /\ DOMAIN plan = Attempts /\ DOMAIN seen = Attempts
    /\ job \in [Attempts -> {NoJob} \cup StagingJobs \cup ScanJobs]
    /\ \A a \in Attempts :
        IF at[a] = "unused" THEN job[a] = NoJob
        ELSE /\ ChunkPlan(plan[a]) \/ PublishPlan(plan[a])
             /\ plan[a].upload \in reserved
             /\ seen[a] \in [1..Size[plan[a].upload] -> Nat]

(* An attempt is at a place of its kind, and runs a job only where one    *)
(* belongs.                                                               *)
Placed ==
    \A a \in Attempts :
        /\ at[a] \in ChunkPlaces => plan[a].kind # "publish"
        /\ at[a] \in {"logged", "checked", "noted"}
               => plan[a].kind = "journaled"
        /\ at[a] \in PublishPlaces => plan[a].kind = "publish"
        /\ job[a] \in StagingJobs
               => plan[a].kind # "publish" /\ at[a] \in {"staging", "over"}
        /\ job[a] \in ScanJobs
               => /\ plan[a].kind = "publish"
                  /\ at[a] \in {"observing", "rechecking", "settling", "over"}

Shape == TypeOK /\ Planned /\ Placed

-----------------------------------------------------------------------------
(* Nothing has happened: every attempt is unused, every record is the     *)
(* empty one.                                                             *)
LEMMA ShapeInit == Init => Shape
BY UploadAssumption DEF Init, Shape, TypeOK, Planned, Placed, Places, NoJob, NoRow,
   NoPublication, Absent, ChunkPlaces, PublishPlaces, StagingJobs, ScanJobs

(* The chunks of the manifests are those of the ledgers.                  *)
LEMMA ChunkIn ==
    ASSUME NEW u \in Uploads, NEW i \in 1..Size[u]
    PROVE  <<u, i>> \in Chunks
BY DEF Chunks

(* The chunk of an attempt that stages one.                                 *)
LEMMA ChunkOf ==
    ASSUME Shape, NEW a \in Attempts, at[a] # "unused", plan[a].kind # "publish"
    PROVE  /\ ChunkPlan(plan[a]) /\ Chunk(a) \in Chunks
           /\ Entry(a) \in Roots \X Chunks
<1>1. ChunkPlan(plan[a])
  BY DEF Shape, Planned, PublishPlan
<1>2. /\ plan[a].upload \in Uploads /\ plan[a].root \in Roots
      /\ plan[a].index \in 1..Size[plan[a].upload]
  BY <1>1 DEF ChunkPlan
<1>3. Chunk(a) \in Chunks
  BY <1>2, ChunkIn DEF Chunk
<1> QED BY <1>1, <1>2, <1>3 DEF Entry, EntryOf, Chunk

(* No step leaves the types, or puts an attempt where its kind and its    *)
(* job do not belong.                                                     *)
LEMMA ShapeStep ==
    Shape /\ Step => Shape'
<1> SUFFICES ASSUME Shape, Step PROVE Shape'
  OBVIOUS
<1> USE UploadAssumption, ChunkIn DEF ledgers, Shape, TypeOK, Planned,
   Placed, Places, NoJob, NoRow, NoPublication, Absent, ChunkPlaces,
   PublishPlaces, StagingJobs, ScanJobs, ChunkPlan, PublishPlan
<1>1. ASSUME NEW a \in Attempts, PrepareChunk(a) PROVE Shape'
  BY <1>1 DEF PrepareChunk, Prepare
<1>2. ASSUME NEW a \in Attempts, PreparePublication(a) PROVE Shape'
  BY <1>2 DEF PreparePublication, Prepare
<1>3. ASSUME NEW a \in Attempts, Start(a) PROVE Shape'
  BY <1>3 DEF Start
<1>4. ASSUME NEW a \in Attempts, LogUnknown(a) PROVE Shape'
  BY <1>4 DEF LogUnknown, Chunk
<1>5. ASSUME NEW a \in Attempts, LogConfirmed(a) PROVE Shape'
  BY <1>5 DEF LogConfirmed, Chunk
<1>6. ASSUME NEW a \in Attempts, Dispatch(a) PROVE Shape'
  BY <1>6 DEF Dispatch
<1>7. ASSUME NEW a \in Attempts, Create(a) PROVE Shape'
  BY <1>7 DEF Create, Entry, EntryOf, Chunk
<1>8. ASSUME NEW a \in Attempts, Occupied(a) PROVE Shape'
  BY <1>8 DEF Occupied
<1>9. ASSUME NEW a \in Attempts, WriteEnds(a) PROVE Shape'
  <2>1. /\ job[a] \in {NoJob} \cup StagingJobs \cup ScanJobs
        /\ job[a].what = "write"
    BY <1>9 DEF Shape, Planned, WriteEnds
  <2>2. job[a] \in StagingJobs /\ job[a].snap \in Nat
    BY <2>1 DEF NoJob, StagingJobs, ScanJobs
  <2>3. at[a] # "unused" /\ plan[a].kind # "publish"
    BY <2>1, <2>2 DEF Shape, Planned, Placed, NoJob
  <2>4. /\ ChunkPlan(plan[a]) /\ plan[a].upload \in reserved
        /\ seen[a] \in [Indices(a) -> Nat] /\ Entry(a) \in Roots \X Chunks
    BY <2>3, ChunkOf DEF Shape, Planned, Indices
  <2>5. Written(a) \in [Roots \X Chunks ->
           [bytes : {"none", "partial", "right", "wrong"}, snap : Nat]]
    BY <2>2, <2>4 DEF Shape, TypeOK, Written
  <2>6. TypeOK'
    BY <1>9, <2>5 DEF Shape, TypeOK, Places, WriteEnds
  <2>7. /\ job' = [job EXCEPT ![a] = NoJob]
        /\ UNCHANGED <<reserved, plan>>
        /\ \E p \in {at[a], "staged", "over"} : at' = [at EXCEPT ![a] = p]
        /\ \/ seen' = seen
           \/ seen' = [seen EXCEPT ![a][plan[a].index] = job[a].snap]
        /\ at[a] = "staging" \/ at'[a] \in {at[a], "over"}
    BY <1>9 DEF WriteEnds, Shape, TypeOK
  <2>8. seen'[a] \in [Indices(a) -> Nat] /\ DOMAIN seen' = Attempts
    BY <2>7, <2>4, <2>2 DEF Shape, Planned, ChunkPlan, Indices
  <2>9. Planned'
    <3>1. job' \in [Attempts -> {NoJob} \cup StagingJobs \cup ScanJobs]
      BY <2>7 DEF Shape, Planned
    <3>2. ASSUME NEW b \in Attempts, b # a
          PROVE at'[b] = at[b] /\ job'[b] = job[b] /\ seen'[b] = seen[b]
      BY <2>7, <3>2 DEF Shape, Planned, TypeOK
    <3>3. at'[a] # "unused"
      BY <2>7, <2>3 DEF Shape, TypeOK
    <3> QED BY <3>1, <3>2, <3>3, <2>4, <2>7, <2>8 DEF Shape, Planned, Indices
  <2>10. Placed'
    BY <2>2, <2>3, <2>7 DEF Shape, Placed, Planned, TypeOK, NoJob, StagingJobs,
       ScanJobs, ChunkPlaces, PublishPlaces
  <2> QED BY <2>6, <2>9, <2>10 DEF Shape
<1>10. ASSUME NEW a \in Attempts, Verify(a) PROVE Shape'
  BY <1>10 DEF Verify
<1>11. ASSUME NEW a \in Attempts, Scan(a) PROVE Shape'
  BY <1>11 DEF Scan, ScanAfter
<1>12. ASSUME NEW a \in Attempts, ReadChunk(a) PROVE Shape'
  BY <1>12 DEF ReadChunk, EntryOf, Indices
<1>13. ASSUME NEW a \in Attempts, ReadEnds(a) PROVE Shape'
  BY <1>13 DEF ReadEnds, Indices
<1>14. ASSUME NEW a \in Attempts, LookAt(a) PROVE Shape'
  BY <1>14 DEF LookAt, Indices
<1>15. ASSUME NEW a \in Attempts, LookEnds(a) PROVE Shape'
  BY <1>15 DEF LookEnds, AfterScan
<1>16. ASSUME NEW a \in Attempts, ScanFails(a) PROVE Shape'
  BY <1>16 DEF ScanFails, Indices
<1>17. ASSUME NEW a \in Attempts, Insert(a) PROVE Shape'
  BY <1>17 DEF Insert
<1>18. ASSUME NEW a \in Attempts, Fail(a) PROVE Shape'
  BY <1>18 DEF Fail, Running
<1>19. ASSUME NEW u \in Uploads, Reserve(u) PROVE Shape'
  BY <1>19 DEF Reserve
<1>20. ASSUME Restart PROVE Shape'
  BY <1>20 DEF Restart, Running
<1>21. ASSUME NEW e \in Roots \X Chunks, Touch(e) PROVE Shape'
  BY <1>21 DEF Touch
<1> QED BY <1>1, <1>2, <1>3, <1>4, <1>5, <1>6, <1>7, <1>8, <1>9, <1>10,
   <1>11, <1>12, <1>13, <1>14, <1>15, <1>16, <1>17, <1>18, <1>19, <1>20,
   <1>21 DEF Step

-----------------------------------------------------------------------------
(* What Noting notes.                                                       *)
LEMMA NotingNotes ==
    ASSUME Noting
    PROVE  /\ moments \subseteq moments'
           /\ \A a \in Attempts : at'[a] = "staged" => <<a, "sealed">> \in moments'
           /\ \A a \in Attempts : /\ a \in Running' /\ plan'[a].kind = "publish"
                                 /\ AllRight(a)'
                  => <<a, Phase(a)'>> \in moments'
<1>1. moments \subseteq moments'
  BY DEF Noting
<1>2. ASSUME NEW a \in Attempts, at'[a] = "staged"
      PROVE <<a, "sealed">> \in moments'
  BY <1>2 DEF Noting, Sealed, Running
<1>3. ASSUME NEW a \in Attempts, a \in Running', plan'[a].kind = "publish",
             AllRight(a)'
      PROVE <<a, Phase(a)'>> \in moments'
  <2>1. a \in Whole'
    BY <1>3 DEF Whole
  <2> QED BY <2>1 DEF Noting
<1> QED BY <1>1, <1>2, <1>3

(* Which steps change the ledgers, the files and the plan of an attempt.     *)
LEMMA StepKinds ==
    ASSUME Shape, Step
    PROVE  /\ reserved \subseteq reserved'
           /\ \/ rows' = rows
              \/ \E a \in Attempts : LogUnknown(a) \/ LogConfirmed(a)
           /\ published' = published \/ \E a \in Attempts : Insert(a)
           /\ \/ files' = files
              \/ \E a \in Attempts : Create(a) \/ WriteEnds(a)
              \/ \E e \in Roots \X Chunks : Touch(e)
           /\ \/ plan' = plan /\ \A a \in Attempts : at[a] = "unused"
                                                 => at'[a] = "unused"
              \/ \E a \in Attempts : PrepareChunk(a) \/ PreparePublication(a)
<1> DEFINE Kinds ==
        /\ reserved \subseteq reserved'
        /\ \/ rows' = rows
           \/ \E a \in Attempts : LogUnknown(a) \/ LogConfirmed(a)
        /\ published' = published \/ \E a \in Attempts : Insert(a)
        /\ \/ files' = files
           \/ \E a \in Attempts : Create(a) \/ WriteEnds(a)
           \/ \E e \in Roots \X Chunks : Touch(e)
        /\ \/ plan' = plan /\ \A a \in Attempts : at[a] = "unused"
                                              => at'[a] = "unused"
           \/ \E a \in Attempts : PrepareChunk(a) \/ PreparePublication(a)
<1> USE DEF ledgers, Shape, TypeOK, Planned, NoJob
<1>1. ASSUME NEW a \in Attempts, PrepareChunk(a) PROVE Kinds
  BY <1>1 DEF PrepareChunk, Prepare
<1>2. ASSUME NEW a \in Attempts, PreparePublication(a) PROVE Kinds
  BY <1>2 DEF PreparePublication, Prepare
<1>3. ASSUME NEW a \in Attempts, Start(a) PROVE Kinds
  BY <1>3 DEF Start
<1>4. ASSUME NEW a \in Attempts, LogUnknown(a) PROVE Kinds
  BY <1>4 DEF LogUnknown
<1>5. ASSUME NEW a \in Attempts, LogConfirmed(a) PROVE Kinds
  BY <1>5 DEF LogConfirmed
<1>6. ASSUME NEW a \in Attempts, Dispatch(a) PROVE Kinds
  BY <1>6 DEF Dispatch
<1>7. ASSUME NEW a \in Attempts, Create(a) PROVE Kinds
  BY <1>7 DEF Create
<1>8. ASSUME NEW a \in Attempts, Occupied(a) PROVE Kinds
  BY <1>8 DEF Occupied
<1>9. ASSUME NEW a \in Attempts, WriteEnds(a) PROVE Kinds
  <2>1. UNCHANGED <<reserved, rows, published, plan>>
    BY <1>9 DEF WriteEnds
  <2>2. \A b \in Attempts : at[b] = "unused" => at'[b] = "unused"
    BY <1>9 DEF WriteEnds
  <2> QED BY <1>9, <2>1, <2>2
<1>10. ASSUME NEW a \in Attempts, Verify(a) PROVE Kinds
  BY <1>10 DEF Verify
<1>11. ASSUME NEW a \in Attempts, Scan(a) PROVE Kinds
  BY <1>11 DEF Scan, ScanAfter
<1>12. ASSUME NEW a \in Attempts, ReadChunk(a) PROVE Kinds
  BY <1>12 DEF ReadChunk
<1>13. ASSUME NEW a \in Attempts, ReadEnds(a) PROVE Kinds
  BY <1>13 DEF ReadEnds
<1>14. ASSUME NEW a \in Attempts, LookAt(a) PROVE Kinds
  BY <1>14 DEF LookAt
<1>15. ASSUME NEW a \in Attempts, LookEnds(a) PROVE Kinds
  BY <1>15 DEF LookEnds, AfterScan
<1>16. ASSUME NEW a \in Attempts, ScanFails(a) PROVE Kinds
  BY <1>16 DEF ScanFails
<1>17. ASSUME NEW a \in Attempts, Insert(a) PROVE Kinds
  BY <1>17 DEF Insert
<1>18. ASSUME NEW a \in Attempts, Fail(a) PROVE Kinds
  BY <1>18 DEF Fail, Running
<1>19. ASSUME NEW u \in Uploads, Reserve(u) PROVE Kinds
  BY <1>19 DEF Reserve
<1>20. ASSUME Restart PROVE Kinds
  BY <1>20 DEF Restart, Running
<1>21. ASSUME NEW e \in Roots \X Chunks, Touch(e) PROVE Kinds
  <2>1. UNCHANGED <<reserved, rows, published, plan, at>>
    BY <1>21 DEF Touch
  <2> QED BY <1>21, <2>1
<1> QED BY <1>1, <1>2, <1>3, <1>4, <1>5, <1>6, <1>7, <1>8, <1>9, <1>10,
   <1>11, <1>12, <1>13, <1>14, <1>15, <1>16, <1>17, <1>18, <1>19, <1>20,
   <1>21 DEF Step

(* A row of the journal keeps its nonce and its root, and a Confirmed row   *)
(* is never changed.                                                        *)
RowsStay ==
    \A c \in Chunks :
        /\ rows[c].state # "None" => /\ rows'[c].state # "None"
                                     /\ rows'[c].by = rows[c].by
                                     /\ rows'[c].root = rows[c].root
        /\ rows[c].state = "Confirmed" => rows'[c].state = "Confirmed"

(* No step takes a row back.                                              *)
LEMMA RowsAreKept == Shape /\ Step => RowsStay
<1> SUFFICES ASSUME Shape, Step PROVE RowsStay
  OBVIOUS
<1>1. CASE rows' = rows
  BY <1>1 DEF RowsStay
<1>2. ASSUME NEW a \in Attempts, LogUnknown(a) PROVE RowsStay
  <2>1. Chunk(a) \in Chunks /\ rows[Chunk(a)] = NoRow
    BY <1>2, ChunkOf DEF LogUnknown, Free
  <2>2. ASSUME NEW c \in Chunks, c # Chunk(a) PROVE rows'[c] = rows[c]
    BY <1>2, <2>2 DEF LogUnknown, Shape, TypeOK
  <2>3. rows[Chunk(a)].state = "None"
    BY <2>1 DEF NoRow
  <2> QED BY <2>2, <2>3 DEF RowsStay
<1>3. ASSUME NEW a \in Attempts, LogConfirmed(a) PROVE RowsStay
  <2>1. Chunk(a) \in Chunks
    BY <1>3, ChunkOf DEF LogConfirmed
  <2>2. ASSUME NEW c \in Chunks, c # Chunk(a) PROVE rows'[c] = rows[c]
    BY <1>3, <2>2 DEF LogConfirmed, Shape, TypeOK
  <2>3. /\ rows[Chunk(a)] = [state |-> "Unknown", by |-> a, root |-> plan[a].root]
        /\ rows'[Chunk(a)] = [state |-> "Confirmed", by |-> a, root |-> plan[a].root]
    BY <1>3, <2>1 DEF LogConfirmed, Shape, TypeOK
  <2> QED BY <2>2, <2>3 DEF RowsStay
<1> QED BY <1>1, <1>2, <1>3, StepKinds

-----------------------------------------------------------------------------
(* What an attempt has earned at the places it comes to.                    *)
Earned ==
    \A a \in Attempts :
        \/ at[a] \in {"staged", "checked", "noted"}
        \/ at[a] = "confirmed" /\ plan[a].kind # "publish"
        => <<a, "sealed">> \in moments
(* The journal behind a publication is complete from its preparation on.  *)
Backed ==
    \A a \in Attempts :
        at[a] # "unused" /\ plan[a].kind = "publish"
            => ConfirmedFile(plan[a].upload, plan[a].root)
(* An attempt that was told of its row finds it as it wrote it.           *)
OwnRow ==
    \A a \in Attempts :
        /\ plan[a].kind = "journaled" /\ at[a] \in {"noted", "confirmed"}
               => rows[Chunk(a)].state = "Confirmed"
        /\ plan[a].kind = "publish" /\ at[a] \in {"inserted", "settling", "confirmed"}
               => /\ published[plan[a].upload].state = "Published"
                  /\ published[plan[a].upload].by = a

(* The inductive invariant of the ledgers.                                *)
LedgersAgree ==
    /\ WriteAhead /\ OneBinding /\ ConfirmedIsEarned /\ PublishedIsBacked
    /\ Earned /\ Backed /\ OwnRow

(* Empty ledgers agree.                                                   *)
LEMMA LedgersInit == Init => LedgersAgree
BY DEF Init, LedgersAgree, WriteAhead, OneBinding, ConfirmedIsEarned, PublishedIsBacked,
   Earned, Backed, OwnRow, NoRow, NoPublication, NoPlan, NoJob

(* Only the attempt whose row was inserted goes on to write, and the row  *)
(* stays.                                                                 *)
LEMMA WriteAheadStep ==
    Shape /\ Shape' /\ LedgersAgree /\ Step /\ Noting => WriteAhead'
<1> SUFFICES ASSUME Shape, Shape', LedgersAgree, Step, Noting PROVE WriteAhead'
  OBVIOUS
<1>0. RowsStay
  BY RowsAreKept
<1> USE UploadAssumption, <1>0, ChunkOf DEF ledgers, RowsStay, LedgersAgree,
   WriteAhead, Shape, TypeOK, Planned, Placed, NoJob, ChunkPlan,
   PublishPlan, ChunkPlaces, Chunk, StagingJobs, ScanJobs
<1>1. ASSUME NEW a \in Attempts, PrepareChunk(a) PROVE WriteAhead'
  BY <1>1 DEF PrepareChunk, Prepare
<1>2. ASSUME NEW a \in Attempts, PreparePublication(a) PROVE WriteAhead'
  BY <1>2 DEF PreparePublication, Prepare
<1>3. ASSUME NEW a \in Attempts, Start(a) PROVE WriteAhead'
  BY <1>3 DEF Start
<1>4. ASSUME NEW a \in Attempts, LogUnknown(a) PROVE WriteAhead'
  <2>1. /\ Chunk(a) \in Chunks /\ Chunk(a)' = Chunk(a)
        /\ plan' = plan /\ job' = job
        /\ \A b \in Attempts \ {a} : at'[b] = at[b]
    BY <1>4 DEF LogUnknown
  <2>2. /\ rows'[Chunk(a)].state = "Unknown" /\ rows'[Chunk(a)].by = a
        /\ rows'[Chunk(a)].root = plan[a].root
    BY <1>4, <2>1 DEF LogUnknown
  <2>3. ASSUME NEW b \in Attempts \ {a}, plan[b].kind = "journaled",
               at[b] # "unused"
        PROVE  Chunk(b) \in Chunks
    BY <2>3
  <2>4. ASSUME NEW b \in Attempts \ {a}, plan[b].kind = "journaled",
               \/ at[b] \in {"logged", "staging", "staged", "checked",
                            "noted", "confirmed"}
               \/ job[b] # NoJob
        PROVE  /\ rows'[Chunk(b)].state # "None" /\ rows'[Chunk(b)].by = b
               /\ rows'[Chunk(b)].root = plan[b].root
    <3>1. /\ rows[Chunk(b)].state # "None" /\ rows[Chunk(b)].by = b
          /\ rows[Chunk(b)].root = plan[b].root /\ Chunk(b) \in Chunks
      BY <2>3, <2>4
    <3> HIDE DEF Chunk, WriteAhead, Shape, LedgersAgree
    <3> QED BY <3>1
  <2>5. \A b \in Attempts : Chunk(b)' = Chunk(b)
    BY <2>1
  <2> HIDE DEF Chunk, Shape, LedgersAgree, RowsStay
  <2> QED BY <2>1, <2>2, <2>4, <2>5
<1>5. ASSUME NEW a \in Attempts, LogConfirmed(a) PROVE WriteAhead'
  BY <1>5 DEF LogConfirmed
<1>6. ASSUME NEW a \in Attempts, Dispatch(a) PROVE WriteAhead'
  BY <1>6 DEF Dispatch
<1>7. ASSUME NEW a \in Attempts, Create(a) PROVE WriteAhead'
  BY <1>7 DEF Create
<1>8. ASSUME NEW a \in Attempts, Occupied(a) PROVE WriteAhead'
  BY <1>8 DEF Occupied
<1>9. ASSUME NEW a \in Attempts, WriteEnds(a) PROVE WriteAhead'
  BY <1>9 DEF WriteEnds
<1>10. ASSUME NEW a \in Attempts, Verify(a) PROVE WriteAhead'
  BY <1>10 DEF Verify
<1>11. ASSUME NEW a \in Attempts, Scan(a) PROVE WriteAhead'
  BY <1>11 DEF Scan, ScanAfter
<1>12. ASSUME NEW a \in Attempts, ReadChunk(a) PROVE WriteAhead'
  BY <1>12 DEF ReadChunk
<1>13. ASSUME NEW a \in Attempts, ReadEnds(a) PROVE WriteAhead'
  BY <1>13 DEF ReadEnds
<1>14. ASSUME NEW a \in Attempts, LookAt(a) PROVE WriteAhead'
  BY <1>14 DEF LookAt
<1>15. ASSUME NEW a \in Attempts, LookEnds(a) PROVE WriteAhead'
  BY <1>15 DEF LookEnds, AfterScan
<1>16. ASSUME NEW a \in Attempts, ScanFails(a) PROVE WriteAhead'
  BY <1>16 DEF ScanFails
<1>17. ASSUME NEW a \in Attempts, Insert(a) PROVE WriteAhead'
  BY <1>17 DEF Insert
<1>18. ASSUME NEW a \in Attempts, Fail(a) PROVE WriteAhead'
  BY <1>18 DEF Fail, Running
<1>19. ASSUME NEW u \in Uploads, Reserve(u) PROVE WriteAhead'
  BY <1>19 DEF Reserve
<1>20. ASSUME Restart PROVE WriteAhead'
  BY <1>20 DEF Restart, Running
<1>21. ASSUME NEW e \in Roots \X Chunks, Touch(e) PROVE WriteAhead'
  BY <1>21 DEF Touch
<1> QED BY <1>1, <1>2, <1>3, <1>4, <1>5, <1>6, <1>7, <1>8, <1>9, <1>10,
   <1>11, <1>12, <1>13, <1>14, <1>15, <1>16, <1>17, <1>18, <1>19, <1>20,
   <1>21 DEF Step

(* A new row is compatible with those of its upload, a confirmed one      *)
(* keeps its root.                                                        *)
LEMMA OneBindingStep ==
    Shape /\ LedgersAgree /\ Step => OneBinding'
<1> SUFFICES ASSUME Shape, LedgersAgree, Step PROVE OneBinding'
  OBVIOUS
<1>1. CASE rows' = rows
  BY <1>1 DEF LedgersAgree, OneBinding
<1>2. ASSUME NEW a \in Attempts, LogUnknown(a) PROVE OneBinding'
  <2>1. Chunk(a) \in Chunks /\ Chunk(a)[1] = plan[a].upload
    BY <1>2, ChunkOf DEF LogUnknown, Chunk
  <2>2. ASSUME NEW c \in Chunks, c # Chunk(a) PROVE rows'[c] = rows[c]
    BY <1>2, <2>2 DEF LogUnknown, Shape, TypeOK
  <2>3. rows'[Chunk(a)].root = plan[a].root
    BY <1>2, <2>1 DEF LogUnknown, Shape, TypeOK
  <2>4. \A c \in Chunks : c[1] = plan[a].upload /\ rows[c] # NoRow
                         => rows[c].root = plan[a].root
    BY <1>2 DEF LogUnknown, Compatible
  <2> QED BY <2>1, <2>2, <2>3, <2>4 DEF LedgersAgree, OneBinding
<1>3. ASSUME NEW a \in Attempts, LogConfirmed(a) PROVE OneBinding'
  <2>1. Chunk(a) \in Chunks
    BY <1>3, ChunkOf DEF LogConfirmed
  <2>2. ASSUME NEW c \in Chunks, c # Chunk(a) PROVE rows'[c] = rows[c]
    BY <1>3, <2>2 DEF LogConfirmed, Shape, TypeOK
  <2>3. /\ rows[Chunk(a)] = [state |-> "Unknown", by |-> a, root |-> plan[a].root]
        /\ rows'[Chunk(a)] = [state |-> "Confirmed", by |-> a, root |-> plan[a].root]
    BY <1>3, <2>1 DEF LogConfirmed, Shape, TypeOK
  <2>4. \A c \in Chunks : rows'[c].root = rows[c].root \/ rows[c] = NoRow
    BY <2>2, <2>3
  <2>5. \A c \in Chunks : rows[c] = NoRow => rows'[c] = NoRow
    BY <2>2, <2>3 DEF NoRow
  <2> QED BY <2>4, <2>5 DEF LedgersAgree, OneBinding
<1> QED BY <1>1, <1>2, <1>3, StepKinds

(* A row is confirmed by the attempt that sealed its chunk.               *)
LEMMA ConfirmedIsEarnedStep ==
    Shape /\ LedgersAgree /\ Step /\ Noting => ConfirmedIsEarned'
<1> SUFFICES ASSUME Shape, LedgersAgree, Step, Noting PROVE ConfirmedIsEarned'
  OBVIOUS
<1>0. moments \subseteq moments'
  BY NotingNotes
<1>1. CASE rows' = rows
  BY <1>0, <1>1 DEF LedgersAgree, ConfirmedIsEarned
<1>2. ASSUME NEW a \in Attempts, LogUnknown(a) PROVE ConfirmedIsEarned'
  <2>1. \A c \in Chunks : rows'[c] = rows[c] \/ rows'[c].state = "Unknown"
    BY <1>2 DEF LogUnknown, Shape, TypeOK
  <2> QED BY <1>0, <2>1 DEF LedgersAgree, ConfirmedIsEarned
<1>3. ASSUME NEW a \in Attempts, LogConfirmed(a) PROVE ConfirmedIsEarned'
  <2>1. <<a, "sealed">> \in moments
    BY <1>3 DEF LogConfirmed, LedgersAgree, Earned
  <2>2. \A c \in Chunks : rows'[c] = rows[c] \/ rows'[c].by = a
    BY <1>3 DEF LogConfirmed, Shape, TypeOK
  <2> QED BY <1>0, <2>1, <2>2 DEF LedgersAgree, ConfirmedIsEarned
<1> QED BY <1>1, <1>2, <1>3, StepKinds

(* An insert finds the journal complete, the upload reserved and the      *)
(* version free.                                                          *)
LEMMA PublishedIsBackedStep ==
    Shape /\ LedgersAgree /\ Step => PublishedIsBacked'
<1> SUFFICES ASSUME Shape, LedgersAgree, Step PROVE PublishedIsBacked'
  OBVIOUS
<1>1. CASE published' = published
  <2>1. reserved \subseteq reserved' /\ RowsStay
    BY StepKinds, RowsAreKept
  <2> QED BY <1>1, <2>1, ChunkIn DEF LedgersAgree, PublishedIsBacked, RowsStay
<1>2. ASSUME NEW a \in Attempts, Insert(a) PROVE PublishedIsBacked'
  <2> DEFINE u == plan[a].upload
  <2>1. at[a] = "rechecked" /\ plan[a].kind = "publish"
    BY <1>2 DEF Insert, Shape, Placed, PublishPlaces
  <2>2. u \in Uploads /\ u \in reserved
    BY <2>1 DEF Shape, Planned, ChunkPlan, PublishPlan
  <2>3. ConfirmedFile(u, plan[a].root)
    BY <2>1 DEF LedgersAgree, Backed
  <2>4. /\ UNCHANGED <<reserved, rows>>
        /\ published' = [published EXCEPT ![u] =
               [state |-> "Published", by |-> a, root |-> plan[a].root]]
        /\ \A v \in Uploads : published[v] # NoPublication
               => v # u /\ Version[v] # Version[u]
    BY <1>2 DEF Insert
  <2>5. /\ published'[u].state = "Published" /\ published'[u].root = plan[a].root
        /\ \A v \in Uploads \ {u} : published'[v] = published[v]
    BY <2>2, <2>4 DEF Shape, TypeOK
  <2>6. \A v \in Uploads \ {u} : published'[v].state = "Published"
           => Version[v] # Version[u]
    BY <2>4, <2>5 DEF NoPublication
  <2>7. /\ u \in reserved'
        /\ \A i \in 1..Size[u] : /\ rows'[<<u, i>>].state = "Confirmed"
                                 /\ rows'[<<u, i>>].root = published'[u].root
    BY <2>2, <2>3, <2>4, <2>5 DEF ConfirmedFile
  <2>8. ASSUME NEW v \in Uploads \ {u}, published'[v].state = "Published"
        PROVE  /\ v \in reserved'
               /\ \A i \in 1..Size[v] : /\ rows'[<<v, i>>].state = "Confirmed"
                                        /\ rows'[<<v, i>>].root = published'[v].root
               /\ \A w \in Uploads \ {u, v} :
                      published'[w].state = "Published" => Version[w] # Version[v]
    BY <2>4, <2>5, <2>8 DEF LedgersAgree, PublishedIsBacked
  <2> QED BY <2>5, <2>6, <2>7, <2>8 DEF PublishedIsBacked
<1> QED BY <1>1, <1>2, StepKinds

(* An attempt comes past the staging of its chunk only by sealing it.     *)
LEMMA EarnedStep ==
    Shape /\ LedgersAgree /\ Step /\ Noting => Earned'
<1> SUFFICES ASSUME Shape, LedgersAgree, Step, Noting PROVE Earned'
  OBVIOUS
<1>0. /\ moments \subseteq moments'
      /\ \A a \in Attempts : at'[a] = "staged" => <<a, "sealed">> \in moments'
  BY NotingNotes
<1> USE UploadAssumption, <1>0 DEF ledgers, LedgersAgree, Earned, Shape,
   TypeOK, Planned, Placed, ChunkPlaces, PublishPlaces, ChunkPlan,
   PublishPlan, NoJob, ScanJobs, StagingJobs
<1>1. ASSUME NEW a \in Attempts, PrepareChunk(a) PROVE Earned'
  BY <1>1 DEF PrepareChunk, Prepare
<1>2. ASSUME NEW a \in Attempts, PreparePublication(a) PROVE Earned'
  BY <1>2 DEF PreparePublication, Prepare
<1>3. ASSUME NEW a \in Attempts, Start(a) PROVE Earned'
  BY <1>3 DEF Start
<1>4. ASSUME NEW a \in Attempts, LogUnknown(a) PROVE Earned'
  BY <1>4 DEF LogUnknown
<1>5. ASSUME NEW a \in Attempts, LogConfirmed(a) PROVE Earned'
  BY <1>5 DEF LogConfirmed
<1>6. ASSUME NEW a \in Attempts, Dispatch(a) PROVE Earned'
  BY <1>6 DEF Dispatch
<1>7. ASSUME NEW a \in Attempts, Create(a) PROVE Earned'
  BY <1>7 DEF Create
<1>8. ASSUME NEW a \in Attempts, Occupied(a) PROVE Earned'
  BY <1>8 DEF Occupied
<1>9. ASSUME NEW a \in Attempts, WriteEnds(a) PROVE Earned'
  BY <1>9 DEF WriteEnds
<1>10. ASSUME NEW a \in Attempts, Verify(a) PROVE Earned'
  BY <1>10 DEF Verify
<1>11. ASSUME NEW a \in Attempts, Scan(a) PROVE Earned'
  BY <1>11 DEF Scan, ScanAfter
<1>12. ASSUME NEW a \in Attempts, ReadChunk(a) PROVE Earned'
  BY <1>12 DEF ReadChunk
<1>13. ASSUME NEW a \in Attempts, ReadEnds(a) PROVE Earned'
  BY <1>13 DEF ReadEnds
<1>14. ASSUME NEW a \in Attempts, LookAt(a) PROVE Earned'
  BY <1>14 DEF LookAt
<1>15. ASSUME NEW a \in Attempts, LookEnds(a) PROVE Earned'
  BY <1>15 DEF LookEnds, AfterScan
<1>16. ASSUME NEW a \in Attempts, ScanFails(a) PROVE Earned'
  BY <1>16 DEF ScanFails
<1>17. ASSUME NEW a \in Attempts, Insert(a) PROVE Earned'
  BY <1>17 DEF Insert
<1>18. ASSUME NEW a \in Attempts, Fail(a) PROVE Earned'
  BY <1>18 DEF Fail, Running
<1>19. ASSUME NEW u \in Uploads, Reserve(u) PROVE Earned'
  BY <1>19 DEF Reserve
<1>20. ASSUME Restart PROVE Earned'
  BY <1>20 DEF Restart, Running
<1>21. ASSUME NEW e \in Roots \X Chunks, Touch(e) PROVE Earned'
  BY <1>21 DEF Touch
<1> QED BY <1>1, <1>2, <1>3, <1>4, <1>5, <1>6, <1>7, <1>8, <1>9, <1>10,
   <1>11, <1>12, <1>13, <1>14, <1>15, <1>16, <1>17, <1>18, <1>19, <1>20,
   <1>21 DEF Step

(* A journal that was complete when a publication was prepared stays so.  *)
LEMMA BackedStep == Shape /\ LedgersAgree /\ Step => Backed'
<1> SUFFICES ASSUME Shape, LedgersAgree, Step PROVE Backed'
  OBVIOUS
<1>0. RowsStay
  BY RowsAreKept
<1>1. \A u \in Uploads, r \in Roots : ConfirmedFile(u, r) => ConfirmedFile(u, r)'
  BY <1>0, ChunkIn DEF RowsStay, ConfirmedFile
<1>2. \A a \in Attempts : at[a] # "unused" /\ plan[a].kind = "publish"
          => plan[a].upload \in Uploads /\ plan[a].root \in Roots
  BY DEF Shape, Planned, ChunkPlan, PublishPlan
<1>3. CASE plan' = plan /\ \A a \in Attempts : at[a] = "unused" => at'[a] = "unused"
  BY <1>1, <1>2, <1>3 DEF LedgersAgree, Backed
<1>4. ASSUME NEW a \in Attempts, PrepareChunk(a) \/ PreparePublication(a)
      PROVE Backed'
  <2>1. \A b \in Attempts \ {a} : at'[b] = at[b] /\ plan'[b] = plan[b]
    BY <1>4 DEF PrepareChunk, PreparePublication, Prepare, Shape, TypeOK, Planned
  <2>2. plan'[a].kind = "publish"
           => /\ plan'[a].upload \in Uploads /\ plan'[a].root \in Roots
              /\ ConfirmedFile(plan'[a].upload, plan'[a].root)
    <3>1. plan' = [plan EXCEPT ![a] = plan'[a]] /\ DOMAIN plan = Attempts
      BY <1>4 DEF PrepareChunk, PreparePublication, Prepare, Shape, Planned
    <3> QED BY <1>4, <3>1 DEF PrepareChunk, PreparePublication, Prepare, Shape,
               Planned
  <2> QED BY <1>1, <1>2, <2>1, <2>2 DEF LedgersAgree, Backed
<1> QED BY <1>3, <1>4, StepKinds

(* An attempt that comes past its own row leaves it as it wrote it.       *)
LEMMA OwnRowStep ==
    Shape /\ LedgersAgree /\ Step => OwnRow'
<1> SUFFICES ASSUME Shape, LedgersAgree, Step PROVE OwnRow'
  OBVIOUS
<1>0. RowsStay
  BY RowsAreKept
<1> USE UploadAssumption, <1>0, ChunkOf, ChunkIn DEF ledgers, RowsStay,
   LedgersAgree, OwnRow, WriteAhead, Shape, TypeOK, Planned, Placed,
   ChunkPlaces, PublishPlaces, ChunkPlan, PublishPlan, Chunk, NoPublication
<1>1. ASSUME NEW a \in Attempts, PrepareChunk(a) PROVE OwnRow'
  BY <1>1 DEF PrepareChunk, Prepare
<1>2. ASSUME NEW a \in Attempts, PreparePublication(a) PROVE OwnRow'
  BY <1>2 DEF PreparePublication, Prepare
<1>3. ASSUME NEW a \in Attempts, Start(a) PROVE OwnRow'
  BY <1>3 DEF Start
<1>4. ASSUME NEW a \in Attempts, LogUnknown(a) PROVE OwnRow'
  BY <1>4 DEF LogUnknown
<1>5. ASSUME NEW a \in Attempts, LogConfirmed(a) PROVE OwnRow'
  BY <1>5 DEF LogConfirmed
<1>6. ASSUME NEW a \in Attempts, Dispatch(a) PROVE OwnRow'
  BY <1>6 DEF Dispatch
<1>7. ASSUME NEW a \in Attempts, Create(a) PROVE OwnRow'
  BY <1>7 DEF Create
<1>8. ASSUME NEW a \in Attempts, Occupied(a) PROVE OwnRow'
  BY <1>8 DEF Occupied
<1>9. ASSUME NEW a \in Attempts, WriteEnds(a) PROVE OwnRow'
  BY <1>9 DEF WriteEnds
<1>10. ASSUME NEW a \in Attempts, Verify(a) PROVE OwnRow'
  BY <1>10 DEF Verify
<1>11. ASSUME NEW a \in Attempts, Scan(a) PROVE OwnRow'
  BY <1>11 DEF Scan, ScanAfter
<1>12. ASSUME NEW a \in Attempts, ReadChunk(a) PROVE OwnRow'
  BY <1>12 DEF ReadChunk
<1>13. ASSUME NEW a \in Attempts, ReadEnds(a) PROVE OwnRow'
  BY <1>13 DEF ReadEnds
<1>14. ASSUME NEW a \in Attempts, LookAt(a) PROVE OwnRow'
  BY <1>14 DEF LookAt
<1>15. ASSUME NEW a \in Attempts, LookEnds(a) PROVE OwnRow'
  BY <1>15 DEF LookEnds, AfterScan, NoJob, ScanJobs, StagingJobs
<1>16. ASSUME NEW a \in Attempts, ScanFails(a) PROVE OwnRow'
  BY <1>16 DEF ScanFails
<1>17. ASSUME NEW a \in Attempts, Insert(a) PROVE OwnRow'
  BY <1>17 DEF Insert
<1>18. ASSUME NEW a \in Attempts, Fail(a) PROVE OwnRow'
  BY <1>18 DEF Fail, Running
<1>19. ASSUME NEW u \in Uploads, Reserve(u) PROVE OwnRow'
  BY <1>19 DEF Reserve
<1>20. ASSUME Restart PROVE OwnRow'
  BY <1>20 DEF Restart, Running
<1>21. ASSUME NEW e \in Roots \X Chunks, Touch(e) PROVE OwnRow'
  BY <1>21 DEF Touch
<1> QED BY <1>1, <1>2, <1>3, <1>4, <1>5, <1>6, <1>7, <1>8, <1>9, <1>10,
   <1>11, <1>12, <1>13, <1>14, <1>15, <1>16, <1>17, <1>18, <1>19, <1>20,
   <1>21 DEF Step

(* What the ledgers and the files say of each other, in the notes of Next.  *)
LEMMA LedgersStep ==
    Shape /\ Shape' /\ LedgersAgree /\ Step /\ Noting => LedgersAgree'
<1> SUFFICES ASSUME Shape, Shape', LedgersAgree, Step, Noting
             PROVE LedgersAgree'
  OBVIOUS
<1>1. WriteAhead' /\ OneBinding' /\ ConfirmedIsEarned' /\ PublishedIsBacked'
  BY WriteAheadStep, OneBindingStep, ConfirmedIsEarnedStep,
     PublishedIsBackedStep
<1>2. Earned' /\ Backed' /\ OwnRow'
  BY EarnedStep, BackedStep, OwnRowStep
<1> QED BY <1>1, <1>2 DEF LedgersAgree

(* The facts above are about the variables alone.                         *)
LEMMA StutterKeeps ==
    UNCHANGED vars /\ Shape /\ LedgersAgree => Shape' /\ LedgersAgree'
<1> SUFFICES ASSUME UNCHANGED vars, Shape, LedgersAgree
             PROVE Shape' /\ LedgersAgree'
  OBVIOUS
<1>1. Shape'
  BY DEF vars, Shape, TypeOK, Planned, Placed
<1>2. LedgersAgree'
  BY DEF vars, LedgersAgree, WriteAhead, OneBinding, ConfirmedIsEarned,
     PublishedIsBacked, Earned, Backed, OwnRow, ConfirmedFile, Chunk
<1> QED BY <1>1, <1>2

(* For any number of callers, roots and chunks, and wherever a step was      *)
(* cancelled, failed or was followed by a restart: a chunk that may be       *)
(* written has the row of its own attempt, an upload has one root, a         *)
(* Confirmed row was earned, and a publication stands on a complete journal. *)
THEOREM UploadIsSound == Spec => []UploadSound
<1>1. Init => Shape /\ LedgersAgree
  BY ShapeInit, LedgersInit
<1>2. Shape /\ LedgersAgree /\ [Next]_vars => Shape' /\ LedgersAgree'
  BY ShapeStep, LedgersStep, StutterKeeps DEF Next
<1>3. Shape /\ LedgersAgree => UploadSound
  BY DEF Shape, LedgersAgree, UploadSound
<1> QED BY <1>1, <1>2, <1>3, PTL DEF Spec

-----------------------------------------------------------------------------
(* A file changes its snapshot whenever its bytes go from right to something *)
(* else, and no snapshot comes twice.                                        *)
FilesMove ==
    \A e \in Roots \X Chunks :
        /\ files[e].snap <= files'[e].snap
        /\ files'[e].snap = files[e].snap /\ files[e].bytes = "right"
               => files'[e].bytes = "right"

(* Creation, writing and foreign changes move the files in no other way.  *)
LEMMA FilesAreMoved == Shape /\ Step => FilesMove
<1> SUFFICES ASSUME Shape, Step PROVE FilesMove
  OBVIOUS
<1>1. CASE files' = files
  BY <1>1 DEF FilesMove, Shape, TypeOK
<1>2. ASSUME NEW a \in Attempts, Create(a) PROVE FilesMove
  BY <1>2 DEF Create, FilesMove, Shape, TypeOK
<1>3. ASSUME NEW a \in Attempts, WriteEnds(a), files' # files PROVE FilesMove
  <2>1. Mine(a) /\ files' = Written(a)
    BY <1>3 DEF WriteEnds
  <2> QED BY <2>1 DEF Mine, Written, FilesMove, Shape, TypeOK
<1>4. ASSUME NEW e \in Roots \X Chunks, Touch(e) PROVE FilesMove
  BY <1>4 DEF Touch, FilesMove, Shape, TypeOK
<1> QED BY <1>1, <1>2, <1>3, <1>4, StepKinds

(* What a publishing attempt knows of its chunks: an entry with the snapshot *)
(* it retained has the right bytes.  Left are the chunks its last look has   *)
(* still to come to.                                                         *)
Same(a, i) == files[EntryOf(a, i)].snap = seen[a][i]
Known(a) == IF job[a].what = "read" THEN {i \in Indices(a) : i < job[a].next}
            ELSE Indices(a)
Left(a) == IF job[a].what = "look" THEN {i \in Indices(a) : i >= job[a].next}
           ELSE Indices(a)

(* A publishing attempt that waits for a job has one, of the right kind.  *)
JobFits(a) ==
    /\ at[a] = "observing" => job[a] # NoJob
    /\ at[a] \in {"rechecking", "settling"} => job[a].what = "look"
(* Snapshots only grow: what was retained is never ahead of the file.     *)
SeenIsPast(a) ==
    \A i \in Indices(a) : seen[a][i] <= files[EntryOf(a, i)].snap
(* An entry of a chunk that was read, if still the same, has the right    *)
(* bytes.                                                                 *)
SeenIsRight(a) ==
    at[a] \in PublishPlaces
        => \A i \in Known(a) :
               Same(a, i) => files[EntryOf(a, i)].bytes = "right"

(* The first look proves a moment before the insert, the last one a moment   *)
(* after it: the moment when the look began, unless it comes upon a chunk    *)
(* that was changed since it was read.                                       *)
Or(a, moment) == moment \in moments \/ \E i \in Left(a) : ~Same(a, i)

MomentBefore(a) ==
    /\ at[a] = "observing" /\ job[a].what = "look" => Or(a, <<a, "before">>)
    /\ at[a] \in (PublishPlaces \ {"observing"}) \cup {"confirmed"}
          => <<a, "before">> \in moments
MomentAfter(a) ==
    /\ at[a] \in {"inserted", "settling"} => Or(a, <<a, "after">>)
    /\ at[a] = "confirmed" => <<a, "after">> \in moments

(* All of it, for an attempt that publishes.                              *)
LookedBy(a) ==
    at[a] # "unused" /\ plan[a].kind = "publish"
        => /\ JobFits(a) /\ SeenIsPast(a) /\ SeenIsRight(a)
           /\ MomentBefore(a) /\ MomentAfter(a)
Looked == \A a \in Attempts : LookedBy(a)

(* No attempt has looked at anything.                                     *)
LEMMA LookedInit == Init => Looked /\ PublishedWasWhole
BY DEF Init, Looked, LookedBy, PublishedWasWhole, NoPublication

(* The entries an attempt looks at exist in the model.                    *)
LEMMA EntryIn ==
    ASSUME Shape, NEW a \in Attempts, at[a] # "unused", NEW i \in Indices(a)
    PROVE  EntryOf(a, i) \in Roots \X Chunks
BY ChunkIn DEF Shape, Planned, ChunkPlan, PublishPlan, Indices, EntryOf

(* What a step may be to a given attempt, if that one publishes after it.    *)
Still(b) == /\ at'[b] = at[b] /\ plan'[b] = plan[b]
            /\ seen'[b] = seen[b] /\ job'[b] = job[b]
Ended(b) == /\ at[b] # "unused" /\ at'[b] = "over"
            /\ plan'[b] = plan[b] /\ seen'[b] = seen[b]
Works(b) == \/ PreparePublication(b) \/ Start(b) \/ Scan(b) \/ ReadChunk(b)
            \/ ReadEnds(b) \/ LookAt(b) \/ LookEnds(b) \/ Insert(b)

(* There are no other steps for it.                                       *)
LEMMA StepsOfOne ==
    ASSUME Shape, Step, NEW b \in Attempts
    PROVE  Still(b) \/ Ended(b) \/ Works(b) \/ plan'[b].kind # "publish"
<1> DEFINE Kind == Still(b) \/ Ended(b) \/ Works(b) \/ plan'[b].kind # "publish"
<1> USE DEF ledgers, Still, Ended, Works, Shape, TypeOK, Planned, Placed, NoJob,
        StagingJobs, ScanJobs, ChunkPlaces, PublishPlaces
<1>1. ASSUME NEW a \in Attempts, PrepareChunk(a) PROVE Kind
  BY <1>1 DEF PrepareChunk, Prepare
<1>2. ASSUME NEW a \in Attempts, PreparePublication(a) PROVE Kind
  <2>1. CASE b = a
    BY <1>2, <2>1
  <2>2. CASE b # a
    BY <1>2, <2>2 DEF PreparePublication, Prepare
  <2> QED BY <2>1, <2>2
<1>3. ASSUME NEW a \in Attempts, Start(a) PROVE Kind
  BY <1>3 DEF Start
<1>4. ASSUME NEW a \in Attempts, LogUnknown(a) PROVE Kind
  BY <1>4 DEF LogUnknown
<1>5. ASSUME NEW a \in Attempts, LogConfirmed(a) PROVE Kind
  BY <1>5 DEF LogConfirmed
<1>6. ASSUME NEW a \in Attempts, Dispatch(a) PROVE Kind
  BY <1>6 DEF Dispatch
<1>7. ASSUME NEW a \in Attempts, Create(a) PROVE Kind
  BY <1>7 DEF Create
<1>8. ASSUME NEW a \in Attempts, Occupied(a) PROVE Kind
  BY <1>8 DEF Occupied
<1>9. ASSUME NEW a \in Attempts, WriteEnds(a) PROVE Kind
  BY <1>9 DEF WriteEnds
<1>10. ASSUME NEW a \in Attempts, Verify(a) PROVE Kind
  BY <1>10 DEF Verify
<1>11. ASSUME NEW a \in Attempts, Scan(a) PROVE Kind
  BY <1>11 DEF Scan, ScanAfter
<1>12. ASSUME NEW a \in Attempts, ReadChunk(a) PROVE Kind
  BY <1>12 DEF ReadChunk
<1>13. ASSUME NEW a \in Attempts, ReadEnds(a) PROVE Kind
  BY <1>13 DEF ReadEnds
<1>14. ASSUME NEW a \in Attempts, LookAt(a) PROVE Kind
  BY <1>14 DEF LookAt
<1>15. ASSUME NEW a \in Attempts, LookEnds(a) PROVE Kind
  BY <1>15 DEF LookEnds, AfterScan
<1>16. ASSUME NEW a \in Attempts, ScanFails(a) PROVE Kind
  BY <1>16 DEF ScanFails
<1>17. ASSUME NEW a \in Attempts, Insert(a) PROVE Kind
  <2>1. CASE b = a
    BY <1>17, <2>1
  <2>2. CASE b # a
    BY <1>17, <2>2 DEF Insert
  <2> QED BY <2>1, <2>2
<1>18. ASSUME NEW a \in Attempts, Fail(a) PROVE Kind
  BY <1>18 DEF Fail, Running
<1>19. ASSUME NEW u \in Uploads, Reserve(u) PROVE Kind
  BY <1>19 DEF Reserve
<1>20. ASSUME Restart PROVE Kind
  BY <1>20 DEF Restart, Running
<1>21. ASSUME NEW e \in Roots \X Chunks, Touch(e) PROVE Kind
  BY <1>21 DEF Touch
<1> QED BY <1>1, <1>2, <1>3, <1>4, <1>5, <1>6, <1>7, <1>8, <1>9, <1>10,
   <1>11, <1>12, <1>13, <1>14, <1>15, <1>16, <1>17, <1>18, <1>19, <1>20,
   <1>21 DEF Step

(* As long as an attempt retains what it saw, an entry that is still the     *)
(* same was the same before, and right bytes stay right.                     *)
LEMMA SeenKeeps ==
    ASSUME Shape, Shape', FilesMove, NEW b \in Attempts, at[b] # "unused",
           SeenIsPast(b), plan'[b] = plan[b], seen'[b] = seen[b]
    PROVE  /\ SeenIsPast(b)'
           /\ \A i \in Indices(b) :
                 Same(b, i)' => /\ Same(b, i)
                                /\ files[EntryOf(b, i)].bytes = "right"
                                      => files'[EntryOf(b, i)].bytes = "right"
<1>1. ASSUME NEW i \in Indices(b)
      PROVE  /\ EntryOf(b, i) \in Roots \X Chunks /\ EntryOf(b, i)' = EntryOf(b, i)
             /\ files[EntryOf(b, i)].snap \in Nat
             /\ files'[EntryOf(b, i)].snap \in Nat /\ seen[b][i] \in Nat
  <2>1. EntryOf(b, i) \in Roots \X Chunks /\ EntryOf(b, i)' = EntryOf(b, i)
    BY <1>1, EntryIn DEF EntryOf
  <2>2. \A e \in Roots \X Chunks : files[e].snap \in Nat /\ files'[e].snap \in Nat
    BY DEF Shape, TypeOK
  <2>3. seen[b][i] \in Nat
    BY <1>1 DEF Shape, Planned, Indices
  <2> QED BY <2>1, <2>2, <2>3
<1>2. Indices(b)' = Indices(b)
  BY DEF Indices
<1> QED BY <1>1, <1>2 DEF FilesMove, SeenIsPast, Same

(* The indices of an upload start at one.                                 *)
LEMMA IndicesAre ==
    ASSUME Shape, NEW b \in Attempts, at[b] # "unused"
    PROVE  \E n \in Nat : Indices(b) = 1..n
<1>1. plan[b].upload \in Uploads
  BY DEF Shape, Planned, ChunkPlan, PublishPlan
<1> QED BY <1>1, UploadAssumption DEF Indices

(* Each step of a publishing attempt, and each step of others, keeps what *)
(* it knows true.                                                         *)
LEMMA LookedStep ==
    Shape /\ Shape' /\ Looked /\ Step /\ Noting => Looked'
<1> SUFFICES ASSUME Shape, Shape', Looked, Step, Noting, NEW b \in Attempts,
                    at'[b] # "unused", plan'[b].kind = "publish"
             PROVE  (/\ JobFits(b) /\ SeenIsPast(b) /\ SeenIsRight(b)
                     /\ MomentBefore(b) /\ MomentAfter(b))'
  BY DEF Looked, LookedBy
<1>0. /\ FilesMove /\ moments \subseteq moments'
      /\ b \in Running' /\ AllRight(b)' => <<b, Phase(b)'>> \in moments'
  BY FilesAreMoved, NotingNotes
<1>1. ASSUME at[b] # "unused", plan'[b] = plan[b], seen'[b] = seen[b]
      PROVE  /\ SeenIsPast(b)' /\ Indices(b)' = Indices(b)
             /\ JobFits(b) /\ SeenIsRight(b) /\ MomentBefore(b) /\ MomentAfter(b)
             /\ \A i \in Indices(b) :
                   /\ Same(b, i)' => /\ Same(b, i)
                                     /\ files[EntryOf(b, i)].bytes = "right"
                                           => files'[EntryOf(b, i)].bytes = "right"
                   /\ EntryOf(b, i)' = EntryOf(b, i)
  BY <1>0, <1>1, SeenKeeps DEF Looked, LookedBy, Indices, EntryOf
<1>2. CASE Still(b)
  <2>1. at[b] # "unused" /\ UNCHANGED <<at[b], plan[b], seen[b], job[b]>>
    BY <1>2 DEF Still
  <2>2. Known(b)' = Known(b) /\ Left(b)' = Left(b)
    BY <2>1, <1>1 DEF Known, Left
  <2>3. JobFits(b)' /\ SeenIsPast(b)'
    BY <2>1, <1>1 DEF JobFits
  <2>4. SeenIsRight(b)'
    BY <2>1, <2>2, <1>1 DEF SeenIsRight, Known
  <2>5. ASSUME NEW m, Or(b, m) PROVE Or(b, m)'
    BY <2>1, <2>2, <2>5, <1>0, <1>1 DEF Or, Left
  <2>6. MomentBefore(b)' /\ MomentAfter(b)'
    BY <2>1, <2>5, <1>0, <1>1 DEF MomentBefore, MomentAfter
  <2> QED BY <2>3, <2>4, <2>6
<1>3. CASE Ended(b)
  BY <1>1, <1>3 DEF Ended, JobFits, SeenIsRight, MomentBefore, MomentAfter,
     PublishPlaces
<1>4. CASE PreparePublication(b)
  <2>1. at'[b] = "ready" /\ \A i \in Indices(b)' : seen'[b][i] = 0
    BY <1>4 DEF PreparePublication, Prepare, Shape, TypeOK, Planned, Indices
  <2>2. \A i \in Indices(b)' : files'[EntryOf(b, i)'].snap \in Nat
    BY ChunkIn DEF Shape, TypeOK, Planned, PublishPlan, ChunkPlan, Indices, EntryOf
  <2> QED BY <2>1, <2>2 DEF JobFits, SeenIsPast, SeenIsRight, MomentBefore,
          MomentAfter, PublishPlaces
<1>5. CASE Start(b)
  <2>1. /\ at[b] # "unused" /\ at'[b] = "begun"
        /\ plan'[b] = plan[b] /\ seen'[b] = seen[b]
    BY <1>5 DEF Start, Shape, TypeOK
  <2> QED BY <2>1, <1>1 DEF JobFits, SeenIsRight, MomentBefore, MomentAfter,
          PublishPlaces
<1>6. CASE Scan(b)
  <2>1. /\ at[b] # "unused" /\ plan'[b] = plan[b] /\ seen'[b] = seen[b]
        /\ job[b] = NoJob /\ job'[b].next = 1
        /\ \/ at[b] = "begun" /\ at'[b] = "observing" /\ job'[b].what = "read"
           \/ at[b] = "observed" /\ at'[b] = "rechecking" /\ job'[b].what = "look"
           \/ at[b] = "inserted" /\ at'[b] = "settling" /\ job'[b].what = "look"
    <3>1. /\ at[b] \in {"begun", "observed", "inserted"} /\ plan' = plan
          /\ seen' = seen /\ plan[b].kind = "publish"
          /\ at' = [at EXCEPT ![b] = ScanAfter[at[b]].at]
          /\ job' = [job EXCEPT ![b] = [what |-> ScanAfter[at[b]].what, next |-> 1]]
      BY <1>6 DEF Scan, ScanAfter
    <3>2. job[b] = NoJob
      BY <3>1 DEF Shape, Planned, Placed
    <3> QED BY <3>1, <3>2 DEF ScanAfter, Shape, TypeOK, Planned
  <2>2. /\ Known(b) = Indices(b) /\ Left(b) = Indices(b)
        /\ Left(b)' = Indices(b)
        /\ Known(b)' = IF at[b] = "begun" THEN {} ELSE Indices(b)
    <3>1. /\ Known(b) = Indices(b) /\ Left(b) = Indices(b)
      BY <2>1 DEF Known, Left, NoJob
    <3>2. \A i \in Indices(b) : i \in Int /\ i >= 1
      BY <2>1, IndicesAre
    <3>3. /\ Left(b)' = IF at[b] = "begun" THEN Indices(b)'
                        ELSE {i \in Indices(b)' : i >= 1}
          /\ Known(b)' = IF at[b] = "begun" THEN {i \in Indices(b)' : i < 1}
                         ELSE Indices(b)'
      BY <2>1 DEF Known, Left
    <3>4. Indices(b)' = Indices(b)
      BY <2>1, <1>1
    <3> QED BY <3>1, <3>2, <3>3, <3>4
  <2>3. JobFits(b)' /\ SeenIsPast(b)'
    BY <2>1, <1>1 DEF JobFits, NoJob
  <2>4. SeenIsRight(b)'
    BY <2>1, <2>2, <1>1 DEF SeenIsRight, PublishPlaces
  <2>5. ASSUME NEW m, Or(b, m) PROVE Or(b, m)'
    BY <2>2, <2>5, <1>0, <1>1, <2>1 DEF Or
  <2>6. MomentBefore(b)' /\ MomentAfter(b)'
    BY <2>1, <2>5, <1>0, <1>1 DEF MomentBefore, MomentAfter, PublishPlaces
  <2> QED BY <2>3, <2>4, <2>6
<1>7. CASE ReadChunk(b)
  <2> DEFINE k == job[b].next
  <2>1. /\ at[b] # "unused" /\ job[b] \in ScanJobs /\ job[b].what = "read"
        /\ k \in Indices(b) /\ files[EntryOf(b, k)].bytes = "right"
        /\ at' = at /\ plan' = plan /\ files' = files
        /\ seen' = [seen EXCEPT ![b][k] = files[EntryOf(b, k)].snap]
        /\ job' = [job EXCEPT ![b].next = @ + 1]
    BY <1>7 DEF ReadChunk, Shape, Planned, NoJob, StagingJobs, ScanJobs
  <2>2. /\ job'[b].what = "read" /\ job'[b].next = k + 1 /\ k \in Nat
        /\ Indices(b)' = Indices(b)
        /\ \A i \in Indices(b) : EntryOf(b, i)' = EntryOf(b, i)
        /\ LookedBy(b) /\ plan[b].kind = "publish"
    BY <2>1 DEF Shape, Planned, ScanJobs, Indices, EntryOf, Looked
  <2>3. /\ seen'[b][k] = files[EntryOf(b, k)].snap
        /\ \A i \in Indices(b) \ {k} : seen'[b][i] = seen[b][i]
    BY <2>1 DEF Shape, Planned, Indices
  <2>4. files[EntryOf(b, k)].snap \in Nat
    BY <2>1, EntryIn DEF Shape, TypeOK
  <2>5. SeenIsPast(b)'
    BY <2>1, <2>2, <2>3, <2>4 DEF SeenIsPast, LookedBy
  <2>6. Known(b)' = Known(b) \cup {k}
    BY <2>1, <2>2, IndicesAre DEF Known
  <2>7. SeenIsRight(b)'
    BY <2>1, <2>2, <2>3, <2>6 DEF SeenIsRight, Same, LookedBy, Known
  <2>8. at[b] \in {"observing", "over"}
    BY <2>1, <2>2 DEF Shape, Placed, JobFits, LookedBy
  <2> QED BY <2>1, <2>2, <2>5, <2>7, <2>8 DEF JobFits, MomentBefore, MomentAfter,
             NoJob, PublishPlaces
<1>8. CASE ReadEnds(b)
  <2>1. /\ at[b] # "unused" /\ job[b] \in ScanJobs /\ job[b].what = "read"
        /\ job[b].next \notin Indices(b)
        /\ at' = at /\ plan' = plan /\ files' = files /\ seen' = seen
        /\ job'[b] = [what |-> "look", next |-> 1]
    BY <1>8 DEF ReadEnds, Shape, Planned, NoJob, StagingJobs, ScanJobs
  <2>2. /\ Known(b) = Indices(b) /\ Known(b)' = Indices(b)
        /\ Left(b)' = Indices(b)
    BY <2>1, <1>1, IndicesAre DEF Known, Left, ScanJobs
  <2>3. at[b] \in {"observing", "over"}
    BY <2>1, <1>1 DEF Shape, Placed, JobFits
  <2>4. SeenIsRight(b)'
    BY <2>1, <2>2, <1>1 DEF SeenIsRight
  <2>5. ASSUME at[b] = "observing" PROVE Or(b, <<b, "before">>)'
    <3>1. CASE \A i \in Indices(b) : Same(b, i)'
      <4>1. AllRight(b)'
        BY <2>1, <2>2, <2>4, <2>5, <3>1, <1>1 DEF SeenIsRight, AllRight, PublishPlaces
      <4>2. b \in Running' /\ Phase(b)' = "before"
        BY <2>1, <2>5 DEF Running, Phase
      <4> QED BY <4>1, <4>2, <1>0 DEF Or
    <3>2. CASE \E i \in Indices(b) : ~Same(b, i)'
      BY <3>2, <2>2 DEF Or
    <3> QED BY <3>1, <3>2
  <2> QED BY <2>1, <2>3, <2>4, <2>5, <1>1 DEF JobFits, MomentBefore, MomentAfter,
             PublishPlaces, NoJob
<1>9. CASE LookAt(b)
  <2> DEFINE k == job[b].next
  <2>1. /\ at[b] # "unused" /\ job[b] \in ScanJobs /\ job[b].what = "look"
        /\ k \in Indices(b) /\ Same(b, k)
        /\ at' = at /\ plan' = plan /\ files' = files /\ seen' = seen
        /\ job'[b].what = "look" /\ job'[b].next = k + 1
    BY <1>9 DEF LookAt, SameEntry, Same, Shape, Planned, NoJob, StagingJobs,
       ScanJobs
  <2>2. /\ Known(b) = Indices(b) /\ Known(b)' = Indices(b)
        /\ Left(b)' = Left(b) \ {k}
    BY <2>1, <1>1, IndicesAre DEF Known, Left, ScanJobs
  <2>3. SeenIsRight(b)'
    BY <2>1, <2>2, <1>1 DEF SeenIsRight
  <2>4. ASSUME NEW m, Or(b, m) PROVE Or(b, m)'
    BY <2>1, <2>2, <2>4, <1>0, <1>1 DEF Or, Left, Same
  <2>5. MomentBefore(b)' /\ MomentAfter(b)'
    BY <2>1, <2>4, <1>0, <1>1 DEF MomentBefore, MomentAfter
  <2> QED BY <2>1, <2>3, <2>5, <1>1 DEF JobFits, NoJob
<1>10. CASE LookEnds(b)
  <2>1. /\ at[b] # "unused" /\ job[b] \in ScanJobs /\ job[b].what = "look"
        /\ job[b].next \notin Indices(b)
        /\ plan' = plan /\ files' = files /\ seen' = seen /\ job'[b] = NoJob
        /\ \/ at[b] = "over" /\ at'[b] = "over"
           \/ at[b] = "observing" /\ at'[b] = "observed"
           \/ at[b] = "rechecking" /\ at'[b] = "rechecked"
           \/ at[b] = "settling" /\ at'[b] = "confirmed"
    <3>1. /\ job[b].what = "look" /\ job[b].next \notin Indices(b)
          /\ plan' = plan /\ files' = files /\ seen' = seen
          /\ job' = [job EXCEPT ![b] = NoJob]
          /\ at' = IF at[b] = "over" THEN at
                    ELSE [at EXCEPT ![b] = AfterScan[at[b]]]
      BY <1>10 DEF LookEnds
    <3>2. job[b] \in ScanJobs /\ at[b] # "unused"
      BY <3>1 DEF Shape, Planned, NoJob, StagingJobs, ScanJobs
    <3>3. at[b] \in {"observing", "rechecking", "settling", "over"}
      BY <3>2 DEF Shape, Placed
    <3> QED BY <3>1, <3>2, <3>3 DEF AfterScan, Shape, TypeOK, Planned
  <2>2. /\ Known(b) = Indices(b) /\ Known(b)' = Indices(b) /\ Left(b) = {}
    BY <2>1, <1>1, IndicesAre DEF Known, Left, ScanJobs, NoJob
  <2>3. SeenIsRight(b)'
    BY <2>1, <2>2, <1>1 DEF SeenIsRight, PublishPlaces
  <2>4. \A m : Or(b, m) => m \in moments
    BY <2>2 DEF Or
  <2>5. MomentBefore(b)' /\ MomentAfter(b)'
    BY <2>1, <2>4, <1>0, <1>1 DEF MomentBefore, MomentAfter, PublishPlaces
  <2> QED BY <2>1, <2>3, <2>5, <1>1 DEF JobFits
<1>11. CASE Insert(b)
  <2>1. /\ at[b] = "rechecked" /\ at'[b] \in {"inserted", "over"}
        /\ plan' = plan /\ files' = files /\ seen' = seen /\ job' = job
    BY <1>11 DEF Insert, Shape, TypeOK
  <2>2. job[b] = NoJob
    BY <2>1 DEF Shape, Planned, Placed, StagingJobs, ScanJobs, PublishPlaces
  <2>3. /\ Known(b) = Indices(b) /\ Known(b)' = Indices(b)
        /\ Left(b)' = Indices(b)
    BY <2>1, <2>2, <1>1 DEF Known, Left, NoJob
  <2>4. SeenIsRight(b)'
    BY <2>1, <2>3, <1>1 DEF SeenIsRight, PublishPlaces
  <2>5. ASSUME at'[b] = "inserted" PROVE Or(b, <<b, "after">>)'
    <3>1. CASE \A i \in Indices(b) : Same(b, i)'
      <4>1. AllRight(b)'
        BY <2>1, <2>3, <2>4, <2>5, <3>1, <1>1 DEF SeenIsRight, AllRight, PublishPlaces
      <4>2. b \in Running' /\ Phase(b)' = "after"
        BY <2>5 DEF Running, Phase
      <4> QED BY <4>1, <4>2, <1>0 DEF Or
    <3>2. CASE \E i \in Indices(b) : ~Same(b, i)'
      BY <3>2, <2>3 DEF Or
    <3> QED BY <3>1, <3>2
  <2>6. MomentBefore(b)' /\ MomentAfter(b)'
    BY <2>1, <2>5, <1>0, <1>1 DEF MomentBefore, MomentAfter, PublishPlaces
  <2> QED BY <2>1, <2>4, <2>6, <1>1 DEF JobFits
<1> QED BY <1>2, <1>3, <1>4, <1>5, <1>6, <1>7, <1>8, <1>9, <1>10, <1>11,
           StepsOfOne DEF Works

(* A row is inserted by an attempt that has looked before.                *)
LEMMA PublishedWasWholeStep ==
    Shape /\ Looked /\ PublishedWasWhole /\ Step /\ Noting => PublishedWasWhole'
<1> SUFFICES ASSUME Shape, Looked, PublishedWasWhole, Step, Noting
             PROVE PublishedWasWhole'
  OBVIOUS
<1>0. moments \subseteq moments'
  BY NotingNotes
<1>1. CASE published' = published
  BY <1>0, <1>1 DEF PublishedWasWhole
<1>2. ASSUME NEW a \in Attempts, Insert(a) PROVE PublishedWasWhole'
  <2>1. at[a] = "rechecked" /\ plan[a].kind = "publish"
    BY <1>2 DEF Insert, Shape, Placed, PublishPlaces
  <2>2. <<a, "before">> \in moments
    BY <2>1 DEF Looked, LookedBy, MomentBefore, PublishPlaces
  <2>3. \A u \in Uploads : published'[u] = published[u] \/ published'[u].by = a
    BY <1>2 DEF Insert, Shape, TypeOK
  <2> QED BY <1>0, <2>2, <2>3 DEF PublishedWasWhole
<1> QED BY <1>1, <1>2, StepKinds

(* What a receipt or a publication says was true, for any number of chunks   *)
(* read one after another without a lock, and any number of other attempts,  *)
(* restarts and foreign changes in between.                                  *)
THEOREM ReceiptsAreTrue == Spec => []ReceiptsHold
<1> DEFINE Inv == Shape /\ LedgersAgree /\ Looked /\ PublishedWasWhole
<1>1. Init => Inv
  BY ShapeInit, LedgersInit, LookedInit
<1>2. Inv /\ [Next]_vars => Inv'
  <2>1. CASE Next
    BY <2>1, ShapeStep, LedgersStep, LookedStep, PublishedWasWholeStep DEF Next
  <2>2. ASSUME Inv, UNCHANGED vars PROVE Inv'
    <3>1. Shape' /\ LedgersAgree'
      BY <2>2, StutterKeeps
    <3>2. Looked' /\ PublishedWasWhole'
      BY <2>2 DEF vars, Looked, LookedBy, JobFits, SeenIsPast, SeenIsRight,
         MomentBefore, MomentAfter, Or, Same, Known, Left, Indices, EntryOf,
         PublishedWasWhole
    <3> QED BY <3>1, <3>2
  <2> QED BY <2>1, <2>2
<1>3. Inv => ReceiptsHold
  <2> SUFFICES ASSUME Inv PROVE ReceiptsHold
    OBVIOUS
  <2>1. ASSUME NEW a \in Attempts, at[a] = "confirmed", plan[a].kind = "publish"
        PROVE  /\ published[plan[a].upload].state = "Published"
               /\ published[plan[a].upload].by = a /\ <<a, "after">> \in moments
    BY <2>1 DEF LedgersAgree, OwnRow, Looked, LookedBy, MomentAfter
  <2>2. ASSUME NEW a \in Attempts, at[a] = "confirmed", plan[a].kind = "journaled"
        PROVE  rows[Chunk(a)].state = "Confirmed" /\ rows[Chunk(a)].by = a
    BY <2>2 DEF LedgersAgree, OwnRow, WriteAhead
  <2>3. ASSUME NEW a \in Attempts, at[a] = "confirmed", plan[a].kind # "publish"
        PROVE  <<a, "sealed">> \in moments
    BY <2>3 DEF LedgersAgree, Earned
  <2> QED BY <2>1, <2>2, <2>3 DEF ReceiptsHold, ReceiptIsTrue
<1> QED BY <1>1, <1>2, <1>3, PTL DEF Spec
-----------------------------------------------------------------------------
(* The programs of the kernel.                                               *)

(* Where a run is tells the backend it is with.                              *)
AtBpftool == Waiting \cup {"idle", "verify", "fallback"}
AtAya == Holding \cup {"openList"}
RunOK(r) == /\ run[r].at \in AtBpftool => run[r].backend = "bpftool"
            /\ run[r].at \in AtAya => run[r].backend = "aya"

(* p was due to be listed.  Once true it stays so, and nothing puts p in the *)
(* kernel or on the list any more.                                           *)
Past(p) ==
    IF p[2] = "aya"
    THEN run[p[1]].backend = "aya" /\ run[p[1]].at \in {"report", "ended"}
    ELSE \/ run[p[1]].backend = "aya"
         \/ run[p[1]].at \in {"verify", "fallback", "report", "ended"}

(* What bpftool loaded is gone before its run turns to Aya; a program is off *)
(* the list only around the steps that bring it there, or for a lost run.    *)
LoadedOK(p) == /\ p[2] = "bpftool" /\ run[p[1]].backend = "bpftool"
               /\ run[p[1]].at \notin {"idle", "compile"}
SessionOK(p) == /\ p[2] = "aya" /\ run[p[1]].backend = "aya"
                /\ run[p[1]].at \in {"openList", "report", "ended"}
OnItsWay(p) == p[1] \in lost \/ run[p[1]].at \in Waiting \cup {"openList"}
PlacesOK ==
    /\ \A p \in loaded : LoadedOK(p)
    /\ \A p \in sessions : SessionOK(p)
    /\ \A p \in listed : Past(p)
    /\ \A p \in (loaded \cup sessions) \ listed : OnItsWay(p)

(* A detach request holds its target until the target is out of the kernel.  *)
HasTarget == {"drop", "closing", "stat", "removing"}
TargetOK(c) ==
    /\ detach[c].at \in HasTarget => detach[c].path \in Paths /\ Past(detach[c].path)
    /\ detach[c].at \in HasTarget \ {"drop"} => detach[c].path \notin sessions
    /\ detach[c].at \in {"drop", "closing"} => detach[c].path[2] = "aya"
DoneOK(c) ==
    /\ \A p \in detach[c].todo \cup detach[c].done : Past(p)
    /\ detach[c].done \cap (loaded \cup sessions) = {}
    /\ detach[c].clean => detach[c].at = "ended" /\ detach[c].done \cap listed = {}

(* The cleanup of a debug run does not lose sight of the program it is for.  *)
InHand(c) == detach[c].done
             \cup (IF detach[c].at = "inspect" THEN {} ELSE detach[c].todo)
             \cup (IF detach[c].at \in HasTarget THEN {detach[c].path} ELSE {})
FallbackOK(r) == run[r].at = "fallback" =>
    /\ detach[r].at \in Detaching => <<r, "bpftool">> \in InHand(r)
    /\ detach[r].clean => <<r, "bpftool">> \in detach[r].done

EbpfInv ==
    /\ EbpfTypeOK
    /\ \A r \in Runs : RunOK(r) /\ FallbackOK(r)
    /\ PlacesOK
    /\ \A c \in Callers : TargetOK(c) /\ DoneOK(c)

-----------------------------------------------------------------------------
(* Paths, and records of runs and requests, taken apart.                     *)
LEMMA PathParts ==
    ASSUME NEW p \in Paths
    PROVE  p[1] \in Runs /\ p[2] \in Backends /\ p = <<p[1], p[2]>>
BY DEF Paths

LEMMA PathOfParts ==
    ASSUME EbpfTypeOK, NEW r \in Runs
    PROVE  /\ PathOf(r) \in Paths
           /\ PathOf(r)[1] = r /\ PathOf(r)[2] = run[r].backend
BY DEF EbpfTypeOK, RunRecord, PathOf, Paths

RunPlaces == {"idle", "ended"} \cup Active

LEMMA GoMoves ==
    ASSUME EbpfTypeOK, NEW r \in Runs, NEW place \in RunPlaces, Go(r, place)
    PROVE  /\ run' \in [Runs -> RunRecord]
           /\ run'[r].at = place
           /\ run'[r].asked = run[r].asked /\ run'[r].backend = run[r].backend
           /\ \A q \in Runs \ {r} : run'[q] = run[q]
BY DEF EbpfTypeOK, RunRecord, RunPlaces, Go

(* A run that goes on leaves what was due to be listed so.                   *)
Told == {"verify", "fallback", "report", "ended"}
Onward(r) ==
    /\ \A q \in Runs \ {r} : run'[q] = run[q]
    /\ run[r].backend = "aya" => run'[r].backend = "aya"
    /\ run[r].backend = "aya" /\ run[r].at \in {"report", "ended"}
          => run'[r].at \in {"report", "ended"}
    /\ run[r].at \in Told => run'[r].at \in Told \/ run'[r].backend = "aya"

LEMMA PastStays ==
    ASSUME NEW r \in Runs, Onward(r)
    PROVE  \A p \in Paths : Past(p) => Past(p)'
<1> SUFFICES ASSUME NEW p \in Paths, Past(p) PROVE Past(p)' OBVIOUS
<1>1. p[1] \in Runs BY PathParts
<1>2. CASE p[1] = r BY <1>2 DEF Past, Onward, Told
<1>3. CASE p[1] # r BY <1>1, <1>3 DEF Past, Onward
<1> QED BY <1>2, <1>3

LEMMA InitInv == EbpfInit => EbpfInv
BY EbpfConstants
   DEF EbpfInit, EbpfInv, EbpfTypeOK, RunRecord, DetachRecord, NoDetach, Backends,
       RunOK, FallbackOK, PlacesOK, TargetOK, DoneOK, Callers, Detaching, HasTarget,
       AtBpftool, AtAya, Waiting, Holding

-----------------------------------------------------------------------------
(* The steps of a run.                                                       *)
LEMMA RunFailsKeeps ==
    ASSUME EbpfInv, NEW r \in Runs, RunFails(r)
    PROVE  EbpfInv'
<1>1. EbpfTypeOK /\ RunOK(r) BY DEF EbpfInv
<1>2. /\ run[r].at \in {"compile", "load"} \cup Holding /\ run'[r].at \in {"report"}
      /\ run'[r].backend = run[r].backend
      /\ run' \in [Runs -> RunRecord] /\ \A q \in Runs \ {r} : run'[q] = run[q]
  BY <1>1, GoMoves DEF RunFails, RunPlaces, Active, Executing, Waiting, Holding
<1>3. EbpfTypeOK'
  BY <1>1, <1>2, EbpfConstants, PathOfParts
     DEF RunFails, EbpfTypeOK, places, history
<1>4. \A q \in Runs : RunOK(q)' /\ FallbackOK(q)'
  BY <1>1, <1>2
     DEF RunFails, EbpfInv, RunOK, FallbackOK, InHand, AtBpftool, AtAya,
         Waiting, Holding, Executing
<1>5. \A p \in Paths : Past(p) => Past(p)'
  <2>1. Onward(r)
    BY <1>1, <1>2
       DEF Onward, Told, RunOK, AtBpftool, AtAya, Waiting, Holding, Executing,
           RunFails
  <2> QED BY <2>1, PastStays
<1>6. PlacesOK'
  BY <1>1, <1>2, <1>5, PathParts, PathOfParts
     DEF RunFails, EbpfInv, EbpfTypeOK, PlacesOK, LoadedOK, SessionOK,
         OnItsWay, places, history, Waiting, Holding, Executing
<1>7. \A c \in Callers : TargetOK(c)' /\ DoneOK(c)'
  BY <1>1, <1>5
     DEF RunFails, EbpfInv, EbpfTypeOK, DetachRecord, TargetOK, DoneOK,
         places, HasTarget
<1> QED BY <1>3, <1>4, <1>6, <1>7 DEF EbpfInv

LEMMA LoadAnswersKeeps ==
    ASSUME EbpfInv, NEW r \in Runs, LoadAnswers(r)
    PROVE  EbpfInv'
<1>1. EbpfTypeOK /\ RunOK(r) BY DEF EbpfInv
<1>2. /\ run[r].at \in {"load"} /\ run'[r].at \in {"track"}
      /\ run'[r].backend = run[r].backend
      /\ run' \in [Runs -> RunRecord] /\ \A q \in Runs \ {r} : run'[q] = run[q]
  BY <1>1, GoMoves
     DEF LoadAnswers, RunPlaces, Active, Executing, Waiting, Holding
<1>3. EbpfTypeOK'
  BY <1>1, <1>2, EbpfConstants, PathOfParts
     DEF LoadAnswers, EbpfTypeOK, places, history
<1>4. \A q \in Runs : RunOK(q)' /\ FallbackOK(q)'
  BY <1>1, <1>2
     DEF LoadAnswers, EbpfInv, RunOK, FallbackOK, InHand, AtBpftool, AtAya,
         Waiting, Holding, Executing
<1>5. \A p \in Paths : Past(p) => Past(p)'
  <2>1. Onward(r)
    BY <1>1, <1>2
       DEF Onward, Told, RunOK, AtBpftool, AtAya, Waiting, Holding, Executing,
           LoadAnswers
  <2> QED BY <2>1, PastStays
<1>6. PlacesOK'
  BY <1>1, <1>2, <1>5, PathParts, PathOfParts
     DEF LoadAnswers, EbpfInv, EbpfTypeOK, PlacesOK, LoadedOK, SessionOK,
         OnItsWay, places, history, Waiting, Holding, Executing
<1>7. \A c \in Callers : TargetOK(c)' /\ DoneOK(c)'
  BY <1>1, <1>5
     DEF LoadAnswers, EbpfInv, EbpfTypeOK, DetachRecord, TargetOK, DoneOK,
         places, HasTarget
<1> QED BY <1>3, <1>4, <1>6, <1>7 DEF EbpfInv

LEMMA LoadAyaKeeps ==
    ASSUME EbpfInv, NEW r \in Runs, LoadAya(r)
    PROVE  EbpfInv'
<1>1. EbpfTypeOK /\ RunOK(r) BY DEF EbpfInv
<1>2. /\ run[r].at \in {"compile"} /\ run'[r].at \in {"pin"}
      /\ run'[r].backend = run[r].backend
      /\ run' \in [Runs -> RunRecord] /\ \A q \in Runs \ {r} : run'[q] = run[q]
  BY <1>1, GoMoves DEF LoadAya, RunPlaces, Active, Executing, Waiting, Holding
<1>3. EbpfTypeOK'
  BY <1>1, <1>2, EbpfConstants, PathOfParts
     DEF LoadAya, EbpfTypeOK, places, history
<1>4. \A q \in Runs : RunOK(q)' /\ FallbackOK(q)'
  BY <1>1, <1>2
     DEF LoadAya, EbpfInv, RunOK, FallbackOK, InHand, AtBpftool, AtAya,
         Waiting, Holding, Executing
<1>5. \A p \in Paths : Past(p) => Past(p)'
  <2>1. Onward(r)
    BY <1>1, <1>2
       DEF Onward, Told, RunOK, AtBpftool, AtAya, Waiting, Holding, Executing,
           LoadAya
  <2> QED BY <2>1, PastStays
<1>6. PlacesOK'
  BY <1>1, <1>2, <1>5, PathParts, PathOfParts
     DEF LoadAya, EbpfInv, EbpfTypeOK, PlacesOK, LoadedOK, SessionOK,
         OnItsWay, places, history, Waiting, Holding, Executing
<1>7. \A c \in Callers : TargetOK(c)' /\ DoneOK(c)'
  BY <1>1, <1>5
     DEF LoadAya, EbpfInv, EbpfTypeOK, DetachRecord, TargetOK, DoneOK, places,
         HasTarget
<1> QED BY <1>3, <1>4, <1>6, <1>7 DEF EbpfInv

LEMMA KeepBpftoolKeeps ==
    ASSUME EbpfInv, NEW r \in Runs, KeepBpftool(r)
    PROVE  EbpfInv'
<1>1. EbpfTypeOK /\ RunOK(r) BY DEF EbpfInv
<1>2. /\ run[r].at \in {"verify"} /\ run'[r].at \in {"report"}
      /\ run'[r].backend = run[r].backend
      /\ run' \in [Runs -> RunRecord] /\ \A q \in Runs \ {r} : run'[q] = run[q]
  BY <1>1, GoMoves
     DEF KeepBpftool, RunPlaces, Active, Executing, Waiting, Holding
<1>3. EbpfTypeOK'
  BY <1>1, <1>2, EbpfConstants, PathOfParts
     DEF KeepBpftool, EbpfTypeOK, places, history
<1>4. \A q \in Runs : RunOK(q)' /\ FallbackOK(q)'
  BY <1>1, <1>2
     DEF KeepBpftool, EbpfInv, RunOK, FallbackOK, InHand, AtBpftool, AtAya,
         Waiting, Holding, Executing
<1>5. \A p \in Paths : Past(p) => Past(p)'
  <2>1. Onward(r)
    BY <1>1, <1>2
       DEF Onward, Told, RunOK, AtBpftool, AtAya, Waiting, Holding, Executing,
           KeepBpftool
  <2> QED BY <2>1, PastStays
<1>6. PlacesOK'
  BY <1>1, <1>2, <1>5, PathParts, PathOfParts
     DEF KeepBpftool, EbpfInv, EbpfTypeOK, PlacesOK, LoadedOK, SessionOK,
         OnItsWay, places, history, Waiting, Holding, Executing
<1>7. \A c \in Callers : TargetOK(c)' /\ DoneOK(c)'
  BY <1>1, <1>5
     DEF KeepBpftool, EbpfInv, EbpfTypeOK, DetachRecord, TargetOK, DoneOK,
         places, HasTarget
<1> QED BY <1>3, <1>4, <1>6, <1>7 DEF EbpfInv

LEMMA FinishKeeps ==
    ASSUME EbpfInv, NEW r \in Runs, Finish(r)
    PROVE  EbpfInv'
<1>1. EbpfTypeOK /\ RunOK(r) BY DEF EbpfInv
<1>2. /\ run[r].at \in {"report"} /\ run'[r].at \in {"ended"}
      /\ run'[r].backend = run[r].backend
      /\ run' \in [Runs -> RunRecord] /\ \A q \in Runs \ {r} : run'[q] = run[q]
  BY <1>1, GoMoves DEF Finish, RunPlaces, Active, Executing, Waiting, Holding
<1>3. EbpfTypeOK'
  BY <1>1, <1>2, EbpfConstants, PathOfParts
     DEF Finish, EbpfTypeOK, places, history
<1>4. \A q \in Runs : RunOK(q)' /\ FallbackOK(q)'
  BY <1>1, <1>2
     DEF Finish, EbpfInv, RunOK, FallbackOK, InHand, AtBpftool, AtAya,
         Waiting, Holding, Executing
<1>5. \A p \in Paths : Past(p) => Past(p)'
  <2>1. Onward(r)
    BY <1>1, <1>2
       DEF Onward, Told, RunOK, AtBpftool, AtAya, Waiting, Holding, Executing,
           Finish
  <2> QED BY <2>1, PastStays
<1>6. PlacesOK'
  BY <1>1, <1>2, <1>5, PathParts, PathOfParts
     DEF Finish, EbpfInv, EbpfTypeOK, PlacesOK, LoadedOK, SessionOK, OnItsWay,
         places, history, Waiting, Holding, Executing
<1>7. \A c \in Callers : TargetOK(c)' /\ DoneOK(c)'
  BY <1>1, <1>5
     DEF Finish, EbpfInv, EbpfTypeOK, DetachRecord, TargetOK, DoneOK, places,
         HasTarget
<1> QED BY <1>3, <1>4, <1>6, <1>7 DEF EbpfInv

LEMMA ExecutionTimesOutKeeps ==
    ASSUME EbpfInv, NEW r \in Runs, ExecutionTimesOut(r)
    PROVE  EbpfInv'
<1>1. EbpfTypeOK /\ RunOK(r) BY DEF EbpfInv
<1>2. /\ run[r].at \in Executing /\ run'[r].at \in {"report", "ended"}
      /\ run'[r].backend = run[r].backend
      /\ run' \in [Runs -> RunRecord] /\ \A q \in Runs \ {r} : run'[q] = run[q]
  BY <1>1, GoMoves
     DEF ExecutionTimesOut, RunPlaces, Active, Executing, Waiting, Holding
<1>3. EbpfTypeOK'
  BY <1>1, <1>2, EbpfConstants, PathOfParts
     DEF ExecutionTimesOut, EbpfTypeOK, places, history, Fault
<1>4. \A q \in Runs : RunOK(q)' /\ FallbackOK(q)'
  BY <1>1, <1>2
     DEF ExecutionTimesOut, EbpfInv, RunOK, FallbackOK, InHand, AtBpftool,
         AtAya, Waiting, Holding, Executing
<1>5. \A p \in Paths : Past(p) => Past(p)'
  <2>1. Onward(r)
    BY <1>1, <1>2
       DEF Onward, Told, RunOK, AtBpftool, AtAya, Waiting, Holding, Executing,
           ExecutionTimesOut
  <2> QED BY <2>1, PastStays
<1>6. PlacesOK'
  BY <1>1, <1>2, <1>5, PathParts, PathOfParts
     DEF ExecutionTimesOut, EbpfInv, EbpfTypeOK, PlacesOK, LoadedOK,
         SessionOK, OnItsWay, places, history, Waiting, Holding, Executing
<1>7. \A c \in Callers : TargetOK(c)' /\ DoneOK(c)'
  BY <1>1, <1>5
     DEF ExecutionTimesOut, EbpfInv, EbpfTypeOK, DetachRecord, TargetOK,
         DoneOK, places, HasTarget
<1> QED BY <1>3, <1>4, <1>6, <1>7 DEF EbpfInv

LEMMA MakePinDirectoryKeeps ==
    ASSUME EbpfInv, NEW r \in Runs, MakePinDirectory(r)
    PROVE  EbpfInv'
<1>1. EbpfTypeOK /\ RunOK(r) BY DEF EbpfInv
<1>2. /\ run[r].at \in {"compile"} /\ run'[r].at \in {"load"}
      /\ run'[r].backend = run[r].backend
      /\ run' \in [Runs -> RunRecord] /\ \A q \in Runs \ {r} : run'[q] = run[q]
  BY <1>1, GoMoves
     DEF MakePinDirectory, RunPlaces, Active, Executing, Waiting, Holding
<1>3. EbpfTypeOK'
  BY <1>1, <1>2, EbpfConstants, PathOfParts
     DEF MakePinDirectory, EbpfTypeOK, places, history
<1>4. \A q \in Runs : RunOK(q)' /\ FallbackOK(q)'
  BY <1>1, <1>2
     DEF MakePinDirectory, EbpfInv, RunOK, FallbackOK, InHand, AtBpftool,
         AtAya, Waiting, Holding, Executing
<1>5. \A p \in Paths : Past(p) => Past(p)'
  <2>1. Onward(r)
    BY <1>1, <1>2
       DEF Onward, Told, RunOK, AtBpftool, AtAya, Waiting, Holding, Executing,
           MakePinDirectory
  <2> QED BY <2>1, PastStays
<1>6. PlacesOK'
  BY <1>1, <1>2, <1>5, PathParts, PathOfParts
     DEF MakePinDirectory, EbpfInv, EbpfTypeOK, PlacesOK, LoadedOK, SessionOK,
         OnItsWay, places, history, Waiting, Holding, Executing
<1>7. \A c \in Callers : TargetOK(c)' /\ DoneOK(c)'
  BY <1>1, <1>5
     DEF MakePinDirectory, EbpfInv, EbpfTypeOK, DetachRecord, TargetOK,
         DoneOK, places, HasTarget
<1> QED BY <1>3, <1>4, <1>6, <1>7 DEF EbpfInv

LEMMA PinMapsKeeps ==
    ASSUME EbpfInv, NEW r \in Runs, PinMaps(r)
    PROVE  EbpfInv'
<1>1. EbpfTypeOK /\ RunOK(r) BY DEF EbpfInv
<1>2. /\ run[r].at \in {"pin"} /\ run'[r].at \in {"session"}
      /\ run'[r].backend = run[r].backend
      /\ run' \in [Runs -> RunRecord] /\ \A q \in Runs \ {r} : run'[q] = run[q]
  BY <1>1, GoMoves DEF PinMaps, RunPlaces, Active, Executing, Waiting, Holding
<1>3. EbpfTypeOK'
  BY <1>1, <1>2, EbpfConstants, PathOfParts
     DEF PinMaps, EbpfTypeOK, places, history
<1>4. \A q \in Runs : RunOK(q)' /\ FallbackOK(q)'
  BY <1>1, <1>2
     DEF PinMaps, EbpfInv, RunOK, FallbackOK, InHand, AtBpftool, AtAya,
         Waiting, Holding, Executing
<1>5. \A p \in Paths : Past(p) => Past(p)'
  <2>1. Onward(r)
    BY <1>1, <1>2
       DEF Onward, Told, RunOK, AtBpftool, AtAya, Waiting, Holding, Executing,
           PinMaps
  <2> QED BY <2>1, PastStays
<1>6. PlacesOK'
  BY <1>1, <1>2, <1>5, PathParts, PathOfParts
     DEF PinMaps, EbpfInv, EbpfTypeOK, PlacesOK, LoadedOK, SessionOK,
         OnItsWay, places, history, Waiting, Holding, Executing
<1>7. \A c \in Callers : TargetOK(c)' /\ DoneOK(c)'
  BY <1>1, <1>5
     DEF PinMaps, EbpfInv, EbpfTypeOK, DetachRecord, TargetOK, DoneOK, places,
         HasTarget
<1> QED BY <1>3, <1>4, <1>6, <1>7 DEF EbpfInv

LEMMA TrackKeeps ==
    ASSUME EbpfInv, NEW r \in Runs, Track(r)
    PROVE  EbpfInv'
<1>1. EbpfTypeOK /\ RunOK(r) BY DEF EbpfInv
<1>2. /\ run[r].at \in {"track"} /\ run'[r].at \in {"verify"}
      /\ run'[r].backend = run[r].backend
      /\ run' \in [Runs -> RunRecord] /\ \A q \in Runs \ {r} : run'[q] = run[q]
  BY <1>1, GoMoves DEF Track, RunPlaces, Active, Executing, Waiting, Holding
<1>3. EbpfTypeOK'
  BY <1>1, <1>2, EbpfConstants, PathOfParts
     DEF Track, EbpfTypeOK, places, history
<1>4. \A q \in Runs : RunOK(q)' /\ FallbackOK(q)'
  BY <1>1, <1>2
     DEF Track, EbpfInv, RunOK, FallbackOK, InHand, AtBpftool, AtAya, Waiting,
         Holding, Executing
<1>5. \A p \in Paths : Past(p) => Past(p)'
  <2>1. Onward(r)
    BY <1>1, <1>2
       DEF Onward, Told, RunOK, AtBpftool, AtAya, Waiting, Holding, Executing,
           Track
  <2> QED BY <2>1, PastStays
<1>6. PlacesOK'
  <2>1. PathOf(r) \in Paths /\ PathOf(r)[1] = r /\ PathOf(r)[2] = run[r].backend
    BY <1>1, PathOfParts
  <2> QED
    BY <1>1, <1>2, <1>5, <2>1, PathParts
       DEF Track, EbpfInv, EbpfTypeOK, PlacesOK, LoadedOK, SessionOK,
           OnItsWay, Past, RunOK, AtBpftool, AtAya, history, Waiting, Holding
<1>7. \A c \in Callers : TargetOK(c)' /\ DoneOK(c)'
  <2>1. PathOf(r) \in Paths /\ ~Past(PathOf(r))
    BY <1>1, <1>2, PathOfParts
       DEF Past, RunOK, AtBpftool, AtAya, Waiting, Holding
  <2> QED
    BY <1>1, <1>5, <2>1
       DEF Track, EbpfInv, EbpfTypeOK, DetachRecord, TargetOK, DoneOK,
           HasTarget
<1> QED BY <1>3, <1>4, <1>6, <1>7 DEF EbpfInv

LEMMA OpenSessionKeeps ==
    ASSUME EbpfInv, NEW r \in Runs, OpenSession(r)
    PROVE  EbpfInv'
<1>1. EbpfTypeOK /\ RunOK(r) BY DEF EbpfInv
<1>2. /\ run[r].at \in {"session"} /\ run'[r].at \in {"openList"}
      /\ run'[r].backend = run[r].backend
      /\ run' \in [Runs -> RunRecord] /\ \A q \in Runs \ {r} : run'[q] = run[q]
  BY <1>1, GoMoves
     DEF OpenSession, RunPlaces, Active, Executing, Waiting, Holding
<1>3. EbpfTypeOK'
  BY <1>1, <1>2, EbpfConstants, PathOfParts
     DEF OpenSession, EbpfTypeOK, places, history
<1>4. \A q \in Runs : RunOK(q)' /\ FallbackOK(q)'
  BY <1>1, <1>2
     DEF OpenSession, EbpfInv, RunOK, FallbackOK, InHand, AtBpftool, AtAya,
         Waiting, Holding, Executing
<1>5. \A p \in Paths : Past(p) => Past(p)'
  <2>1. Onward(r)
    BY <1>1, <1>2
       DEF Onward, Told, RunOK, AtBpftool, AtAya, Waiting, Holding, Executing,
           OpenSession
  <2> QED BY <2>1, PastStays
<1>6. PlacesOK'
  <2>1. PathOf(r) \in Paths /\ PathOf(r)[1] = r /\ PathOf(r)[2] = run[r].backend
    BY <1>1, PathOfParts
  <2> QED
    BY <1>1, <1>2, <1>5, <2>1, PathParts
       DEF OpenSession, EbpfInv, EbpfTypeOK, PlacesOK, LoadedOK, SessionOK,
           OnItsWay, Past, RunOK, AtBpftool, AtAya, history, Waiting, Holding
<1>7. \A c \in Callers : TargetOK(c)' /\ DoneOK(c)'
  <2>1. PathOf(r) \in Paths /\ ~Past(PathOf(r))
    BY <1>1, <1>2, PathOfParts
       DEF Past, RunOK, AtBpftool, AtAya, Waiting, Holding
  <2> QED
    BY <1>1, <1>5, <2>1
       DEF OpenSession, EbpfInv, EbpfTypeOK, DetachRecord, TargetOK, DoneOK,
           HasTarget
<1> QED BY <1>3, <1>4, <1>6, <1>7 DEF EbpfInv

LEMMA ListSessionKeeps ==
    ASSUME EbpfInv, NEW r \in Runs, ListSession(r)
    PROVE  EbpfInv'
<1>1. EbpfTypeOK /\ RunOK(r) BY DEF EbpfInv
<1>2. /\ run[r].at \in {"openList"} /\ run'[r].at \in {"report"}
      /\ run'[r].backend = run[r].backend
      /\ run' \in [Runs -> RunRecord] /\ \A q \in Runs \ {r} : run'[q] = run[q]
  BY <1>1, GoMoves
     DEF ListSession, RunPlaces, Active, Executing, Waiting, Holding
<1>3. EbpfTypeOK'
  BY <1>1, <1>2, EbpfConstants, PathOfParts
     DEF ListSession, EbpfTypeOK, places, history
<1>4. \A q \in Runs : RunOK(q)' /\ FallbackOK(q)'
  BY <1>1, <1>2
     DEF ListSession, EbpfInv, RunOK, FallbackOK, InHand, AtBpftool, AtAya,
         Waiting, Holding, Executing
<1>5. \A p \in Paths : Past(p) => Past(p)'
  <2>1. Onward(r)
    BY <1>1, <1>2
       DEF Onward, Told, RunOK, AtBpftool, AtAya, Waiting, Holding, Executing,
           ListSession
  <2> QED BY <2>1, PastStays
<1>6. PlacesOK'
  <2>1. PathOf(r) \in Paths /\ PathOf(r)[1] = r /\ PathOf(r)[2] = run[r].backend
    BY <1>1, PathOfParts
  <2> QED
    BY <1>1, <1>2, <1>5, <2>1, PathParts
       DEF ListSession, EbpfInv, EbpfTypeOK, PlacesOK, LoadedOK, SessionOK,
           OnItsWay, Past, RunOK, AtBpftool, AtAya, history, Waiting, Holding
<1>7. \A c \in Callers : TargetOK(c)' /\ DoneOK(c)'
  <2>1. PathOf(r) \in Paths /\ ~Past(PathOf(r))
    BY <1>1, <1>2, PathOfParts
       DEF Past, RunOK, AtBpftool, AtAya, Waiting, Holding
  <2> QED
    BY <1>1, <1>5, <2>1
       DEF ListSession, EbpfInv, EbpfTypeOK, DetachRecord, TargetOK, DoneOK,
           HasTarget
<1> QED BY <1>3, <1>4, <1>6, <1>7 DEF EbpfInv

LEMMA LoadAllKeeps ==
    ASSUME EbpfInv, NEW r \in Runs, LoadAll(r)
    PROVE  EbpfInv'
<1>1. EbpfTypeOK /\ RunOK(r) BY DEF EbpfInv
<1>2. PathOf(r) \in Paths /\ PathOf(r)[1] = r /\ PathOf(r)[2] = run[r].backend
  BY <1>1, PathOfParts
<1>3. EbpfTypeOK'
  BY <1>1, <1>2, EbpfConstants DEF LoadAll, EbpfTypeOK, history
<1>4. \A q \in Runs : RunOK(q)' /\ FallbackOK(q)'
  BY DEF LoadAll, EbpfInv, RunOK, FallbackOK, InHand
<1>5. \A p \in Paths : Past(p) => Past(p)'
  BY DEF LoadAll, Past
<1>6. PlacesOK'
  BY <1>1, <1>2, <1>5
     DEF LoadAll, EbpfInv, EbpfTypeOK, PlacesOK, LoadedOK, SessionOK,
         OnItsWay, RunOK, AtBpftool, history, Waiting
<1>7. \A c \in Callers : TargetOK(c)' /\ DoneOK(c)'
  <2>1. ~Past(PathOf(r))
    BY <1>1, <1>2 DEF LoadAll, Past, RunOK, AtBpftool, Waiting
  <2> QED
    BY <1>1, <1>5, <2>1
       DEF LoadAll, EbpfInv, EbpfTypeOK, DetachRecord, TargetOK, DoneOK
<1> QED BY <1>3, <1>4, <1>6, <1>7 DEF EbpfInv

LEMMA AcquireKeeps ==
    ASSUME EbpfInv, NEW r \in Runs, Acquire(r)
    PROVE  EbpfInv'
<1>1. EbpfTypeOK /\ RunOK(r) BY DEF EbpfInv
<1>2. PICK b \in Backends :
        run' = [run EXCEPT ![r] = [at |-> "compile", asked |-> b, backend |-> b]]
  BY DEF Acquire
<1>3. /\ run[r].at = "idle" /\ run[r].backend = "bpftool" /\ run'[r].at = "compile"
      /\ run' \in [Runs -> RunRecord] /\ \A q \in Runs \ {r} : run'[q] = run[q]
  BY <1>1, <1>2
     DEF Acquire, EbpfTypeOK, RunRecord, RunOK, AtBpftool, Active, Executing
<1>4. EbpfTypeOK'
  BY <1>1, <1>3, EbpfConstants DEF Acquire, EbpfTypeOK, places, history
<1>5. \A q \in Runs : RunOK(q)' /\ FallbackOK(q)'
  BY <1>1, <1>3
     DEF Acquire, EbpfInv, RunOK, FallbackOK, InHand, AtBpftool, AtAya,
         Waiting, Holding
<1>6. \A p \in Paths : Past(p) => Past(p)'
  BY <1>3, PastStays DEF Onward, Told
<1>7. PlacesOK'
  BY <1>1, <1>3, <1>6, PathParts
     DEF Acquire, EbpfInv, EbpfTypeOK, PlacesOK, LoadedOK, SessionOK,
         OnItsWay, places, history, Waiting
<1>8. \A c \in Callers : TargetOK(c)' /\ DoneOK(c)'
  BY <1>1, <1>6
     DEF Acquire, EbpfInv, EbpfTypeOK, DetachRecord, TargetOK, DoneOK, places,
         HasTarget
<1> QED BY <1>4, <1>5, <1>7, <1>8 DEF EbpfInv

(* The second attempt begins when the program of the first is out of the     *)
(* kernel; only here does a run change its backend.                          *)
LEMMA RetryKeeps ==
    ASSUME EbpfInv, NEW r \in Runs, Retry(r)
    PROVE  EbpfInv'
<1>1. EbpfTypeOK /\ RunOK(r) /\ FallbackOK(r) BY DEF EbpfInv
<1>2. r \in Callers BY DEF Callers
<1>3. /\ run[r].at = "fallback" /\ run[r].backend = "bpftool"
      /\ run' \in [Runs -> RunRecord] /\ \A q \in Runs \ {r} : run'[q] = run[q]
      /\ \/ run'[r].at = "compile" /\ run'[r].backend = "aya" /\ detach[r].clean
         \/ run'[r].at = "report" /\ run'[r].backend = "bpftool"
  <2>1. run[r].at = "fallback" /\ run[r].backend = "bpftool"
    BY <1>1 DEF Retry, RunOK, AtBpftool
  <2>2. CASE detach[r].clean
    <3>1. run' = [run EXCEPT ![r].at = "compile", ![r].backend = "aya"]
      BY <2>2 DEF Retry
    <3> QED
      BY <1>1, <2>1, <2>2, <3>1
         DEF EbpfTypeOK, RunRecord, Active, Executing, Backends
  <2>3. CASE ~detach[r].clean
    BY <1>1, <2>1, <2>3, GoMoves DEF Retry, RunPlaces, Active
  <2> QED BY <2>1, <2>2, <2>3
<1>4. EbpfTypeOK'
  BY <1>1, <1>3, EbpfConstants DEF Retry, EbpfTypeOK, places, history
<1>5. \A q \in Runs : RunOK(q)' /\ FallbackOK(q)'
  BY <1>1, <1>3
     DEF Retry, EbpfInv, RunOK, FallbackOK, InHand, AtBpftool, AtAya, Waiting,
         Holding
<1>6. \A p \in Paths : Past(p) => Past(p)'
  BY <1>3, PastStays DEF Onward, Told
<1>7. detach[r].clean => <<r, "bpftool">> \notin loaded
  BY <1>1, <1>2, <1>3 DEF FallbackOK, EbpfInv, DoneOK
<1>8. PlacesOK'
  <2>1. ASSUME NEW p \in loaded PROVE LoadedOK(p)'
    <3>1. p \in Paths /\ LoadedOK(p)
      BY <1>1, <2>1 DEF EbpfInv, EbpfTypeOK, PlacesOK
    <3>2. CASE p[1] = r
      <4>1. p = <<r, "bpftool">> BY <3>1, <3>2, PathParts DEF LoadedOK
      <4> QED BY <1>3, <1>7, <2>1, <3>1, <3>2, <4>1 DEF LoadedOK
    <3>3. CASE p[1] # r BY <1>3, <3>1, <3>3, PathParts DEF LoadedOK
    <3> QED BY <3>2, <3>3
  <2> QED
    BY <1>1, <1>3, <1>6, <2>1, PathParts
       DEF Retry, EbpfInv, EbpfTypeOK, PlacesOK, SessionOK, OnItsWay, places,
           history, Waiting
<1>9. \A c \in Callers : TargetOK(c)' /\ DoneOK(c)'
  BY <1>1, <1>6
     DEF Retry, EbpfInv, EbpfTypeOK, DetachRecord, TargetOK, DoneOK, places,
         HasTarget
<1> QED BY <1>4, <1>5, <1>8, <1>9 DEF EbpfInv

LEMMA StartFallbackKeeps ==
    ASSUME EbpfInv, NEW r \in Runs, StartFallback(r)
    PROVE  EbpfInv'
<1>1. EbpfTypeOK /\ RunOK(r) BY DEF EbpfInv
<1>2. r \in Callers BY DEF Callers
<1>3. PathOf(r) = <<r, "bpftool">> /\ PathOf(r) \in Paths
  BY <1>1, PathOfParts DEF StartFallback, RunOK, AtBpftool, PathOf
<1>4. /\ run[r].at = "verify" /\ run'[r].at = "fallback"
      /\ run[r].backend = "bpftool" /\ run'[r].backend = "bpftool"
      /\ run' \in [Runs -> RunRecord] /\ \A q \in Runs \ {r} : run'[q] = run[q]
  BY <1>1, GoMoves DEF StartFallback, RunPlaces, Active, RunOK, AtBpftool
<1>5. /\ detach' \in [Callers -> DetachRecord]
      /\ \A c \in Callers \ {r} : detach'[c] = detach[c]
      /\ \/ /\ detach'[r].at = "next" /\ detach'[r].todo = {PathOf(r)}
            /\ PathOf(r) \in listed
         \/ detach'[r].at = "ended" /\ detach'[r].todo = {}
      /\ detach'[r].done = {} /\ ~detach'[r].clean
  <2>1. [NoDetach EXCEPT !.at = "next", !.todo = {PathOf(r)}] \in DetachRecord
    BY <1>3 DEF NoDetach, DetachRecord, Detaching
  <2>2. [NoDetach EXCEPT !.at = "ended"] \in DetachRecord
    BY DEF NoDetach, DetachRecord, Detaching
  <2> QED BY <1>1, <1>2, <2>1, <2>2 DEF StartFallback, EbpfTypeOK, NoDetach
<1>6. EbpfTypeOK'
  BY <1>1, <1>4, <1>5, EbpfConstants
     DEF StartFallback, EbpfTypeOK, places, history
<1>7. \A q \in Runs : RunOK(q)' /\ FallbackOK(q)'
  <2>1. RunOK(r)' /\ FallbackOK(r)'
    BY <1>3, <1>4, <1>5
       DEF RunOK, FallbackOK, InHand, AtBpftool, AtAya, Waiting, Holding,
           Detaching
  <2>2. ASSUME NEW q \in Runs \ {r} PROVE RunOK(q)' /\ FallbackOK(q)'
    BY <1>4, <1>5 DEF Callers, EbpfInv, RunOK, FallbackOK, InHand
  <2> QED BY <2>1, <2>2
<1>8. \A p \in Paths : Past(p) => Past(p)'
  BY <1>4, PastStays DEF Onward, Told
<1>9. PlacesOK'
  BY <1>1, <1>4, <1>8, PathParts
     DEF StartFallback, EbpfInv, EbpfTypeOK, PlacesOK, LoadedOK, SessionOK,
         OnItsWay, places, history, Waiting
<1>10. \A c \in Callers : TargetOK(c)' /\ DoneOK(c)'
  <2>1. UNCHANGED <<loaded, sessions, listed>> BY DEF StartFallback, places
  <2>2. PathOf(r) \in listed => Past(PathOf(r)) BY DEF EbpfInv, PlacesOK
  <2>3. TargetOK(r)' /\ DoneOK(r)'
    BY <1>3, <1>5, <1>8, <2>1, <2>2 DEF TargetOK, DoneOK, HasTarget
  <2>4. ASSUME NEW c \in Callers \ {r} PROVE TargetOK(c)' /\ DoneOK(c)'
    BY <1>1, <1>5, <1>8, <2>1
       DEF EbpfInv, EbpfTypeOK, DetachRecord, TargetOK, DoneOK
  <2> QED BY <2>3, <2>4
<1> QED BY <1>6, <1>7, <1>9, <1>10 DEF EbpfInv

LEMMA RunDroppedKeeps ==
    ASSUME EbpfInv, NEW r \in Runs, RunDropped(r)
    PROVE  EbpfInv'
<1>1. EbpfTypeOK /\ RunOK(r) BY DEF EbpfInv
<1>2. r \in Callers BY DEF Callers
<1>3. /\ run[r].at \in Active /\ run'[r].at = "ended" /\ run'[r].backend = run[r].backend
      /\ run' \in [Runs -> RunRecord] /\ \A q \in Runs \ {r} : run'[q] = run[q]
  BY <1>1, GoMoves DEF RunDropped, RunPlaces
<1>4. /\ detach' \in [Callers -> DetachRecord]
      /\ \A c \in Callers \ {r} : detach'[c] = detach[c]
      /\ detach'[r].at = IF detach[r].at \in Detaching THEN "ended" ELSE detach[r].at
      /\ detach'[r].todo = detach[r].todo /\ detach'[r].done = detach[r].done
      /\ detach'[r].clean = detach[r].clean /\ detach'[r].path = detach[r].path
  BY <1>1, <1>2 DEF RunDropped, EbpfTypeOK, DetachRecord, Detaching
<1>5. EbpfTypeOK'
  BY <1>1, <1>3, <1>4, EbpfConstants DEF RunDropped, EbpfTypeOK, places, Fault
<1>6. \A q \in Runs : RunOK(q)' /\ FallbackOK(q)'
  BY <1>1, <1>3, <1>4
     DEF Callers, EbpfInv, RunOK, FallbackOK, InHand, AtBpftool, AtAya,
         Waiting, Holding
<1>7. \A p \in Paths : Past(p) => Past(p)'
  BY <1>1, <1>3, PastStays DEF Onward, Told
<1>8. PlacesOK'
  BY <1>1, <1>3, <1>7, PathParts
     DEF RunDropped, EbpfInv, EbpfTypeOK, PlacesOK, LoadedOK, SessionOK,
         OnItsWay, places, Waiting
<1>9. \A c \in Callers : TargetOK(c)' /\ DoneOK(c)'
  <2>1. UNCHANGED <<loaded, sessions, listed>> BY DEF RunDropped, places
  <2>2. \A c \in Callers :
          /\ TargetOK(c) /\ DoneOK(c)
          /\ detach[c].todo \cup detach[c].done \subseteq Paths
          /\ detach'[c].at \in HasTarget => detach'[c].at = detach[c].at
          /\ detach[c].at = "ended" => detach'[c].at = "ended"
          /\ detach'[c].todo = detach[c].todo /\ detach'[c].done = detach[c].done
          /\ detach'[c].clean = detach[c].clean /\ detach'[c].path = detach[c].path
    BY <1>1, <1>2, <1>4
       DEF EbpfInv, EbpfTypeOK, DetachRecord, HasTarget, Detaching
  <2> QED BY <1>7, <2>1, <2>2 DEF TargetOK, DoneOK, HasTarget
<1> QED BY <1>5, <1>6, <1>8, <1>9 DEF EbpfInv

-----------------------------------------------------------------------------
(* The steps of a detach request, or of the cleanup inside a run.           *)
LEMMA BeginDetachKeeps ==
    ASSUME EbpfInv, NEW c \in Callers, NEW paths \in SUBSET listed, NEW all \in BOOLEAN,
           BeginDetach(c, paths, all)
    PROVE  EbpfInv'
<1>1. EbpfTypeOK /\ TargetOK(c) /\ DoneOK(c) BY DEF EbpfInv
<1>2. /\ detach' \in [Callers -> DetachRecord]
      /\ \A d \in Callers \ {c} : detach'[d] = detach[d]
      /\ detach'[c].at = "next" /\ detach'[c].todo = paths
      /\ detach'[c].done = {} /\ ~detach'[c].clean /\ c \in Detaches
  BY <1>1 DEF BeginDetach, EbpfTypeOK, DetachRecord, Detaching, NoDetach
<1>3. EbpfTypeOK'
  BY <1>1, <1>2, EbpfConstants
     DEF BeginDetach, EbpfTypeOK, places, history, Fault, TargetOK, HasTarget
<1>4. \A q \in Runs : RunOK(q)' /\ FallbackOK(q)'
  <2>1. ASSUME NEW q \in Runs PROVE RunOK(q)'
    BY DEF BeginDetach, EbpfInv, RunOK
  <2>2. ASSUME NEW q \in Runs, q # c PROVE FallbackOK(q)'
    BY <1>2, <2>2 DEF BeginDetach, Callers, EbpfInv, FallbackOK, InHand
  <2>3. ASSUME c \in Runs PROVE FallbackOK(c)'
    BY <1>1, <1>2, <2>3, EbpfConstants
       DEF BeginDetach, EbpfInv, EbpfTypeOK, DetachRecord, FallbackOK, InHand,
           HasTarget, Detaching
  <2> QED BY <2>1, <2>2, <2>3
<1>5. PlacesOK'
  BY <1>1
     DEF BeginDetach, EbpfInv, EbpfTypeOK, PlacesOK, LoadedOK, SessionOK,
         OnItsWay, Past, places, history, DoneOK
<1>6. \A d \in Callers : TargetOK(d)' /\ DoneOK(d)'
  <2>1. \A x : Past(x)' <=> Past(x) BY DEF BeginDetach, Past
  <2>2. ASSUME NEW d \in Callers \ {c} PROVE TargetOK(d)' /\ DoneOK(d)'
    BY <1>1, <1>2, <2>1 DEF BeginDetach, EbpfInv, TargetOK, DoneOK, places
  <2>3. TargetOK(c)' /\ DoneOK(c)'
    BY <1>1, <1>2, <2>1
       DEF BeginDetach, EbpfInv, EbpfTypeOK, PlacesOK, LoadedOK, SessionOK,
           TargetOK, DoneOK, HasTarget, places, Hears
  <2> QED BY <2>2, <2>3
<1> QED BY <1>3, <1>4, <1>5, <1>6 DEF EbpfInv

LEMMA NextTargetKeeps ==
    ASSUME EbpfInv, NEW c \in Callers, NextTarget(c)
    PROVE  EbpfInv'
<1>1. EbpfTypeOK /\ TargetOK(c) /\ DoneOK(c) BY DEF EbpfInv
<1>2. /\ detach' \in [Callers -> DetachRecord]
      /\ \A d \in Callers \ {c} : detach'[d] = detach[d]
      /\ \E p \in detach[c].todo :
            /\ detach'[c].todo = detach[c].todo \ {p} /\ detach'[c].path = p
            /\ detach'[c].at = IF p \in sessions THEN "drop" ELSE "stat"
      /\ detach[c].at = "next"
      /\ detach'[c].done = detach[c].done /\ detach'[c].clean = detach[c].clean
  BY <1>1 DEF NextTarget, EbpfTypeOK, DetachRecord, Detaching, HasTarget
<1>3. EbpfTypeOK'
  BY <1>1, <1>2, EbpfConstants
     DEF NextTarget, EbpfTypeOK, places, history, Fault, TargetOK, HasTarget
<1>4. \A q \in Runs : RunOK(q)' /\ FallbackOK(q)'
  <2>1. ASSUME NEW q \in Runs PROVE RunOK(q)'
    BY DEF NextTarget, EbpfInv, RunOK
  <2>2. ASSUME NEW q \in Runs, q # c PROVE FallbackOK(q)'
    BY <1>2, <2>2 DEF NextTarget, Callers, EbpfInv, FallbackOK, InHand
  <2>3. ASSUME c \in Runs PROVE FallbackOK(c)'
    BY <1>1, <1>2, <2>3, EbpfConstants
       DEF NextTarget, EbpfInv, EbpfTypeOK, DetachRecord, FallbackOK, InHand,
           HasTarget, Detaching
  <2> QED BY <2>1, <2>2, <2>3
<1>5. PlacesOK'
  BY <1>1
     DEF NextTarget, EbpfInv, EbpfTypeOK, PlacesOK, LoadedOK, SessionOK,
         OnItsWay, Past, places, history, DoneOK
<1>6. \A d \in Callers : TargetOK(d)' /\ DoneOK(d)'
  <2>1. \A x : Past(x)' <=> Past(x) BY DEF NextTarget, Past
  <2>2. ASSUME NEW d \in Callers \ {c} PROVE TargetOK(d)' /\ DoneOK(d)'
    BY <1>1, <1>2, <2>1 DEF NextTarget, EbpfInv, TargetOK, DoneOK, places
  <2>3. TargetOK(c)' /\ DoneOK(c)'
    <3>1. PICK p \in detach[c].todo :
            /\ detach'[c].todo = detach[c].todo \ {p} /\ detach'[c].path = p
            /\ detach'[c].at = IF p \in sessions THEN "drop" ELSE "stat"
      BY <1>2
    <3>2. p \in Paths /\ Past(p) BY <1>1 DEF DoneOK, EbpfTypeOK, DetachRecord
    <3>3. p \in sessions => p[2] = "aya" BY DEF EbpfInv, PlacesOK, SessionOK
    <3>4. UNCHANGED <<loaded, sessions, listed>> BY DEF NextTarget, places
    <3>5. TargetOK(c)' BY <2>1, <3>1, <3>2, <3>3, <3>4 DEF TargetOK, HasTarget
    <3>6. DoneOK(c)' BY <1>1, <1>2, <2>1, <3>1, <3>4 DEF DoneOK
    <3> QED BY <3>5, <3>6
  <2> QED BY <2>2, <2>3
<1> QED BY <1>3, <1>4, <1>5, <1>6 DEF EbpfInv

LEMMA DropSessionKeeps ==
    ASSUME EbpfInv, NEW c \in Callers, DropSession(c)
    PROVE  EbpfInv'
<1>1. EbpfTypeOK /\ TargetOK(c) /\ DoneOK(c) BY DEF EbpfInv
<1>2. /\ detach' \in [Callers -> DetachRecord]
      /\ \A d \in Callers \ {c} : detach'[d] = detach[d]
      /\ detach[c].at = "drop" /\ detach'[c].at = "closing"
      /\ detach'[c].path = detach[c].path /\ detach'[c].todo = detach[c].todo
      /\ detach'[c].done = detach[c].done /\ detach'[c].clean = detach[c].clean
  BY <1>1 DEF DropSession, EbpfTypeOK, DetachRecord, Detaching, To
<1>3. EbpfTypeOK'
  BY <1>1, <1>2, EbpfConstants
     DEF DropSession, EbpfTypeOK, places, history, Fault, TargetOK, HasTarget
<1>4. \A q \in Runs : RunOK(q)' /\ FallbackOK(q)'
  <2>1. ASSUME NEW q \in Runs PROVE RunOK(q)'
    BY DEF DropSession, EbpfInv, RunOK
  <2>2. ASSUME NEW q \in Runs, q # c PROVE FallbackOK(q)'
    BY <1>2, <2>2 DEF DropSession, Callers, EbpfInv, FallbackOK, InHand
  <2>3. ASSUME c \in Runs PROVE FallbackOK(c)'
    BY <1>1, <1>2, <2>3, EbpfConstants
       DEF DropSession, EbpfInv, EbpfTypeOK, DetachRecord, FallbackOK, InHand,
           HasTarget, Detaching
  <2> QED BY <2>1, <2>2, <2>3
<1>5. PlacesOK'
  BY <1>1
     DEF DropSession, EbpfInv, EbpfTypeOK, PlacesOK, LoadedOK, SessionOK,
         OnItsWay, Past, places, history, DoneOK
<1>6. \A d \in Callers : TargetOK(d)' /\ DoneOK(d)'
  <2>1. \A x : Past(x)' <=> Past(x) BY DEF DropSession, Past
  <2>2. ASSUME NEW d \in Callers \ {c} PROVE TargetOK(d)' /\ DoneOK(d)'
    BY <1>1, <1>2, <2>1 DEF DropSession, EbpfInv, TargetOK, DoneOK, places
  <2>3. TargetOK(c)' /\ DoneOK(c)'
    BY <1>1, <1>2, <2>1
       DEF DropSession, EbpfInv, EbpfTypeOK, PlacesOK, LoadedOK, SessionOK,
           TargetOK, DoneOK, HasTarget, places, Hears
  <2> QED BY <2>2, <2>3
<1> QED BY <1>3, <1>4, <1>5, <1>6 DEF EbpfInv

LEMMA StatKeeps ==
    ASSUME EbpfInv, NEW c \in Callers, Stat(c)
    PROVE  EbpfInv'
<1>1. EbpfTypeOK /\ TargetOK(c) /\ DoneOK(c) BY DEF EbpfInv
<1>2. /\ detach' \in [Callers -> DetachRecord]
      /\ \A d \in Callers \ {c} : detach'[d] = detach[d]
      /\ detach[c].at = "stat" /\ detach'[c].at \in {"removing", "ended"}
      /\ detach'[c].path = detach[c].path /\ detach'[c].todo = detach[c].todo
      /\ detach'[c].done = detach[c].done /\ detach'[c].clean = detach[c].clean
  BY <1>1 DEF Stat, EbpfTypeOK, DetachRecord, Detaching, To
<1>3. EbpfTypeOK'
  BY <1>1, <1>2, EbpfConstants
     DEF Stat, EbpfTypeOK, places, history, Fault, TargetOK, HasTarget
<1>4. \A q \in Runs : RunOK(q)' /\ FallbackOK(q)'
  <2>1. ASSUME NEW q \in Runs PROVE RunOK(q)'
    BY DEF Stat, EbpfInv, RunOK
  <2>2. ASSUME NEW q \in Runs, q # c PROVE FallbackOK(q)'
    BY <1>2, <2>2 DEF Stat, Callers, EbpfInv, FallbackOK, InHand
  <2>3. ASSUME c \in Runs PROVE FallbackOK(c)'
    BY <1>1, <1>2, <2>3, EbpfConstants
       DEF Stat, EbpfInv, EbpfTypeOK, DetachRecord, FallbackOK, InHand,
           HasTarget, Detaching
  <2> QED BY <2>1, <2>2, <2>3
<1>5. PlacesOK'
  BY <1>1
     DEF Stat, EbpfInv, EbpfTypeOK, PlacesOK, LoadedOK, SessionOK, OnItsWay,
         Past, places, history, DoneOK
<1>6. \A d \in Callers : TargetOK(d)' /\ DoneOK(d)'
  <2>1. \A x : Past(x)' <=> Past(x) BY DEF Stat, Past
  <2>2. ASSUME NEW d \in Callers \ {c} PROVE TargetOK(d)' /\ DoneOK(d)'
    BY <1>1, <1>2, <2>1 DEF Stat, EbpfInv, TargetOK, DoneOK, places
  <2>3. TargetOK(c)' /\ DoneOK(c)'
    BY <1>1, <1>2, <2>1
       DEF Stat, EbpfInv, EbpfTypeOK, PlacesOK, LoadedOK, SessionOK, TargetOK,
           DoneOK, HasTarget, places, Hears
  <2> QED BY <2>2, <2>3
<1> QED BY <1>3, <1>4, <1>5, <1>6 DEF EbpfInv

LEMMA RemovalEndsKeeps ==
    ASSUME EbpfInv, NEW c \in Callers, NEW p \in Paths, RemovalEnds(c, p)
    PROVE  EbpfInv'
<1>1. EbpfTypeOK /\ TargetOK(c) /\ DoneOK(c) BY DEF EbpfInv
<1>2. /\ detach' \in [Callers -> DetachRecord]
      /\ \A d \in Callers \ {c} : detach'[d] = detach[d]
      /\ \/ UNCHANGED detach
         \/ /\ detach'[c].at = "next" /\ detach[c].at \in {"closing", "removing"}
            /\ detach[c].path = p /\ detach'[c].done = detach[c].done \cup {p}
         \/ /\ detach'[c].at = "ended" /\ detach[c].at \in {"closing", "removing"}
            /\ detach'[c].done = detach[c].done
      /\ detach'[c].todo = detach[c].todo /\ detach'[c].clean = detach[c].clean
      /\ detach'[c].path = detach[c].path
  BY <1>1
     DEF RemovalEnds, EbpfTypeOK, DetachRecord, Detaching, To, Removed, Hears
<1>3. EbpfTypeOK'
  BY <1>1, <1>2, EbpfConstants
     DEF RemovalEnds, EbpfTypeOK, places, history, Fault, TargetOK, HasTarget
<1>4. \A q \in Runs : RunOK(q)' /\ FallbackOK(q)'
  <2>1. ASSUME NEW q \in Runs PROVE RunOK(q)'
    BY DEF RemovalEnds, EbpfInv, RunOK
  <2>2. ASSUME NEW q \in Runs, q # c PROVE FallbackOK(q)'
    BY <1>2, <2>2 DEF RemovalEnds, Callers, EbpfInv, FallbackOK, InHand
  <2>3. ASSUME c \in Runs PROVE FallbackOK(c)'
    BY <1>1, <1>2, <2>3, EbpfConstants
       DEF RemovalEnds, EbpfInv, EbpfTypeOK, DetachRecord, FallbackOK, InHand,
           HasTarget, Detaching
  <2> QED BY <2>1, <2>2, <2>3
<1>5. PlacesOK'
  BY <1>1
     DEF RemovalEnds, EbpfInv, EbpfTypeOK, PlacesOK, LoadedOK, SessionOK,
         OnItsWay, Past, places, history, DoneOK
<1>6. \A d \in Callers : TargetOK(d)' /\ DoneOK(d)'
  <2>1. \A x : Past(x)' <=> Past(x) BY DEF RemovalEnds, Past
  <2>2. ASSUME NEW d \in Callers \ {c} PROVE TargetOK(d)' /\ DoneOK(d)'
    BY <1>1, <1>2, <2>1 DEF RemovalEnds, EbpfInv, TargetOK, DoneOK, places
  <2>3. TargetOK(c)' /\ DoneOK(c)'
    BY <1>1, <1>2, <2>1
       DEF RemovalEnds, EbpfInv, EbpfTypeOK, PlacesOK, LoadedOK, SessionOK,
           TargetOK, DoneOK, HasTarget, places, Hears
  <2> QED BY <2>2, <2>3
<1> QED BY <1>3, <1>4, <1>5, <1>6 DEF EbpfInv

LEMMA RemovalFailsKeeps ==
    ASSUME EbpfInv, NEW c \in Callers, NEW p \in Paths, RemovalFails(c, p)
    PROVE  EbpfInv'
<1>1. EbpfTypeOK /\ TargetOK(c) /\ DoneOK(c) BY DEF EbpfInv
<1>2. /\ detach' \in [Callers -> DetachRecord]
      /\ \A d \in Callers \ {c} : detach'[d] = detach[d]
      /\ \/ UNCHANGED detach
         \/ /\ detach'[c].at = "next" /\ detach[c].at = "closing"
            /\ detach[c].path = p /\ detach'[c].done = detach[c].done \cup {p}
         \/ /\ detach'[c].at = "ended" /\ detach[c].at \in {"closing", "removing"}
            /\ detach'[c].done = detach[c].done
      /\ detach'[c].todo = detach[c].todo /\ detach'[c].clean = detach[c].clean
      /\ detach'[c].path = detach[c].path
  BY <1>1
     DEF RemovalFails, EbpfTypeOK, DetachRecord, Detaching, To, Removed, Hears
<1>3. EbpfTypeOK'
  BY <1>1, <1>2, EbpfConstants
     DEF RemovalFails, EbpfTypeOK, places, history, Fault, TargetOK, HasTarget
<1>4. \A q \in Runs : RunOK(q)' /\ FallbackOK(q)'
  <2>1. ASSUME NEW q \in Runs PROVE RunOK(q)'
    BY DEF RemovalFails, EbpfInv, RunOK
  <2>2. ASSUME NEW q \in Runs, q # c PROVE FallbackOK(q)'
    BY <1>2, <2>2 DEF RemovalFails, Callers, EbpfInv, FallbackOK, InHand
  <2>3. ASSUME c \in Runs PROVE FallbackOK(c)'
    BY <1>1, <1>2, <2>3, EbpfConstants
       DEF RemovalFails, EbpfInv, EbpfTypeOK, DetachRecord, FallbackOK,
           InHand, HasTarget, Detaching
  <2> QED BY <2>1, <2>2, <2>3
<1>5. PlacesOK'
  BY <1>1
     DEF RemovalFails, EbpfInv, EbpfTypeOK, PlacesOK, LoadedOK, SessionOK,
         OnItsWay, Past, places, history, DoneOK
<1>6. \A d \in Callers : TargetOK(d)' /\ DoneOK(d)'
  <2>1. \A x : Past(x)' <=> Past(x) BY DEF RemovalFails, Past
  <2>2. ASSUME NEW d \in Callers \ {c} PROVE TargetOK(d)' /\ DoneOK(d)'
    BY <1>1, <1>2, <2>1 DEF RemovalFails, EbpfInv, TargetOK, DoneOK, places
  <2>3. TargetOK(c)' /\ DoneOK(c)'
    BY <1>1, <1>2, <2>1
       DEF RemovalFails, EbpfInv, EbpfTypeOK, PlacesOK, LoadedOK, SessionOK,
           TargetOK, DoneOK, HasTarget, places, Hears
  <2> QED BY <2>2, <2>3
<1> QED BY <1>3, <1>4, <1>5, <1>6 DEF EbpfInv

LEMMA UntrackKeeps ==
    ASSUME EbpfInv, NEW c \in Callers, Untrack(c)
    PROVE  EbpfInv'
<1>1. EbpfTypeOK /\ TargetOK(c) /\ DoneOK(c) BY DEF EbpfInv
<1>2. /\ detach' \in [Callers -> DetachRecord]
      /\ \A d \in Callers \ {c} : detach'[d] = detach[d]
      /\ detach[c].at = "next" /\ detach'[c].at = "inspect" /\ detach[c].todo = {}
      /\ detach'[c].path = detach[c].path /\ detach'[c].todo = detach[c].todo
      /\ detach'[c].done = detach[c].done /\ detach'[c].clean = detach[c].clean
  BY <1>1 DEF Untrack, EbpfTypeOK, DetachRecord, Detaching, To
<1>3. EbpfTypeOK'
  BY <1>1, <1>2, EbpfConstants
     DEF Untrack, EbpfTypeOK, places, history, Fault, TargetOK, HasTarget
<1>4. \A q \in Runs : RunOK(q)' /\ FallbackOK(q)'
  <2>1. ASSUME NEW q \in Runs PROVE RunOK(q)'
    BY DEF Untrack, EbpfInv, RunOK
  <2>2. ASSUME NEW q \in Runs, q # c PROVE FallbackOK(q)'
    BY <1>2, <2>2 DEF Untrack, Callers, EbpfInv, FallbackOK, InHand
  <2>3. ASSUME c \in Runs PROVE FallbackOK(c)'
    BY <1>1, <1>2, <2>3, EbpfConstants
       DEF Untrack, EbpfInv, EbpfTypeOK, DetachRecord, FallbackOK, InHand,
           HasTarget, Detaching
  <2> QED BY <2>1, <2>2, <2>3
<1>5. PlacesOK'
  BY <1>1
     DEF Untrack, EbpfInv, EbpfTypeOK, PlacesOK, LoadedOK, SessionOK,
         OnItsWay, Past, places, history, DoneOK
<1>6. \A d \in Callers : TargetOK(d)' /\ DoneOK(d)'
  <2>1. \A x : Past(x)' <=> Past(x) BY DEF Untrack, Past
  <2>2. ASSUME NEW d \in Callers \ {c} PROVE TargetOK(d)' /\ DoneOK(d)'
    BY <1>1, <1>2, <2>1 DEF Untrack, EbpfInv, TargetOK, DoneOK, places
  <2>3. TargetOK(c)' /\ DoneOK(c)'
    BY <1>1, <1>2, <2>1
       DEF Untrack, EbpfInv, EbpfTypeOK, PlacesOK, LoadedOK, SessionOK,
           TargetOK, DoneOK, HasTarget, places, Hears
  <2> QED BY <2>2, <2>3
<1> QED BY <1>3, <1>4, <1>5, <1>6 DEF EbpfInv

LEMMA InspectKeeps ==
    ASSUME EbpfInv, NEW c \in Callers, Inspect(c)
    PROVE  EbpfInv'
<1>1. EbpfTypeOK /\ TargetOK(c) /\ DoneOK(c) BY DEF EbpfInv
<1>2. /\ detach' \in [Callers -> DetachRecord]
      /\ \A d \in Callers \ {c} : detach'[d] = detach[d]
      /\ detach[c].at = "inspect" /\ detach'[c].at = "ended"
      /\ detach'[c].path = detach[c].path /\ detach'[c].todo = detach[c].todo
      /\ detach'[c].done = detach[c].done
      /\ detach'[c].clean => detach[c].done \cap listed = {}
  BY <1>1 DEF Inspect, EbpfTypeOK, DetachRecord, Detaching, HasTarget
<1>3. EbpfTypeOK'
  BY <1>1, <1>2, EbpfConstants
     DEF Inspect, EbpfTypeOK, places, history, Fault, TargetOK, HasTarget
<1>4. \A q \in Runs : RunOK(q)' /\ FallbackOK(q)'
  <2>1. ASSUME NEW q \in Runs PROVE RunOK(q)'
    BY DEF Inspect, EbpfInv, RunOK
  <2>2. ASSUME NEW q \in Runs, q # c PROVE FallbackOK(q)'
    BY <1>2, <2>2 DEF Inspect, Callers, EbpfInv, FallbackOK, InHand
  <2>3. ASSUME c \in Runs PROVE FallbackOK(c)'
    BY <1>1, <1>2, <2>3, EbpfConstants
       DEF Inspect, EbpfInv, EbpfTypeOK, DetachRecord, FallbackOK, InHand,
           HasTarget, Detaching
  <2> QED BY <2>1, <2>2, <2>3
<1>5. PlacesOK'
  BY <1>1
     DEF Inspect, EbpfInv, EbpfTypeOK, PlacesOK, LoadedOK, SessionOK,
         OnItsWay, Past, places, history, DoneOK
<1>6. \A d \in Callers : TargetOK(d)' /\ DoneOK(d)'
  <2>1. \A x : Past(x)' <=> Past(x) BY DEF Inspect, Past
  <2>2. ASSUME NEW d \in Callers \ {c} PROVE TargetOK(d)' /\ DoneOK(d)'
    BY <1>1, <1>2, <2>1 DEF Inspect, EbpfInv, TargetOK, DoneOK, places
  <2>3. TargetOK(c)' /\ DoneOK(c)'
    BY <1>1, <1>2, <2>1
       DEF Inspect, EbpfInv, EbpfTypeOK, PlacesOK, LoadedOK, SessionOK,
           TargetOK, DoneOK, HasTarget, places, Hears
  <2> QED BY <2>2, <2>3
<1> QED BY <1>3, <1>4, <1>5, <1>6 DEF EbpfInv

LEMMA DetachDroppedKeeps ==
    ASSUME EbpfInv, NEW c \in Callers, DetachDropped(c)
    PROVE  EbpfInv'
<1>1. EbpfTypeOK /\ TargetOK(c) /\ DoneOK(c) BY DEF EbpfInv
<1>2. /\ detach' \in [Callers -> DetachRecord]
      /\ \A d \in Callers \ {c} : detach'[d] = detach[d]
      /\ detach[c].at \in Detaching /\ detach'[c].at = "ended"
      /\ detach'[c].path = detach[c].path /\ detach'[c].todo = detach[c].todo
      /\ detach'[c].done = detach[c].done /\ detach'[c].clean = detach[c].clean
  BY <1>1 DEF DetachDropped, EbpfTypeOK, DetachRecord, Detaching, To
<1>3. EbpfTypeOK'
  BY <1>1, <1>2, EbpfConstants
     DEF DetachDropped, EbpfTypeOK, places, history, Fault, TargetOK, HasTarget
<1>4. \A q \in Runs : RunOK(q)' /\ FallbackOK(q)'
  <2>1. ASSUME NEW q \in Runs PROVE RunOK(q)'
    BY DEF DetachDropped, EbpfInv, RunOK
  <2>2. ASSUME NEW q \in Runs, q # c PROVE FallbackOK(q)'
    BY <1>2, <2>2 DEF DetachDropped, Callers, EbpfInv, FallbackOK, InHand
  <2>3. ASSUME c \in Runs PROVE FallbackOK(c)'
    BY <1>1, <1>2, <2>3, EbpfConstants
       DEF DetachDropped, EbpfInv, EbpfTypeOK, DetachRecord, FallbackOK,
           InHand, HasTarget, Detaching
  <2> QED BY <2>1, <2>2, <2>3
<1>5. PlacesOK'
  BY <1>1
     DEF DetachDropped, EbpfInv, EbpfTypeOK, PlacesOK, LoadedOK, SessionOK,
         OnItsWay, Past, places, history, DoneOK
<1>6. \A d \in Callers : TargetOK(d)' /\ DoneOK(d)'
  <2>1. \A x : Past(x)' <=> Past(x) BY DEF DetachDropped, Past
  <2>2. ASSUME NEW d \in Callers \ {c} PROVE TargetOK(d)' /\ DoneOK(d)'
    BY <1>1, <1>2, <2>1 DEF DetachDropped, EbpfInv, TargetOK, DoneOK, places
  <2>3. TargetOK(c)' /\ DoneOK(c)'
    BY <1>1, <1>2, <2>1
       DEF DetachDropped, EbpfInv, EbpfTypeOK, PlacesOK, LoadedOK, SessionOK,
           TargetOK, DoneOK, HasTarget, places, Hears
  <2> QED BY <2>2, <2>3
<1> QED BY <1>3, <1>4, <1>5, <1>6 DEF EbpfInv

-----------------------------------------------------------------------------
(* A restart, and the steps together.                                        *)
LEMMA RestartKeeps ==
    ASSUME EbpfInv, EngineRestarts
    PROVE  EbpfInv'
<1>1. EbpfTypeOK BY DEF EbpfInv
<1>2. /\ run' \in [Runs -> RunRecord]
      /\ \A r \in Runs : /\ run'[r].backend = run[r].backend
                        /\ run'[r].at = IF run[r].at \in Active THEN "ended" ELSE run[r].at
  BY <1>1 DEF EngineRestarts, EbpfTypeOK, RunRecord
<1>3. /\ detach' \in [Callers -> DetachRecord]
      /\ \A c \in Callers :
            /\ detach'[c].at = IF detach[c].at \in Detaching THEN "ended" ELSE detach[c].at
            /\ detach'[c].todo = detach[c].todo /\ detach'[c].done = detach[c].done
            /\ detach'[c].clean = detach[c].clean
  BY <1>1 DEF EngineRestarts, EbpfTypeOK, DetachRecord, Detaching
<1>4. EbpfTypeOK'
  BY <1>1, <1>2, <1>3, EbpfConstants DEF EngineRestarts, EbpfTypeOK, Fault
<1>5. \A q \in Runs : RunOK(q)' /\ FallbackOK(q)'
  BY <1>2
     DEF EbpfInv, RunOK, FallbackOK, AtBpftool, AtAya, Waiting, Holding,
         Active, Executing
<1>6. \A p \in Paths : Past(p) => Past(p)'
  BY <1>2, PathParts DEF Past
<1>7. PlacesOK'
  BY <1>1, <1>2, PathParts
     DEF EngineRestarts, EbpfInv, EbpfTypeOK, PlacesOK, LoadedOK, OnItsWay,
         Active
<1>8. \A c \in Callers : TargetOK(c)' /\ DoneOK(c)'
  <2>1. \A c \in Callers : detach'[c].at \notin HasTarget
    BY <1>3 DEF HasTarget, Detaching
  <2> QED
    BY <1>1, <1>3, <1>6, <2>1
       DEF EngineRestarts, EbpfInv, EbpfTypeOK, DetachRecord, TargetOK,
           DoneOK, HasTarget, Detaching
<1> QED BY <1>4, <1>5, <1>7, <1>8 DEF EbpfInv

LEMMA EbpfStutterKeeps == EbpfInv /\ UNCHANGED ebpfVars => EbpfInv'
<1> SUFFICES ASSUME EbpfInv, UNCHANGED ebpfVars PROVE EbpfInv' OBVIOUS
<1>1. EbpfTypeOK' BY DEF ebpfVars, EbpfInv, EbpfTypeOK
<1>2. \A r \in Runs : RunOK(r)' /\ FallbackOK(r)'
  BY DEF ebpfVars, EbpfInv, RunOK, FallbackOK, InHand
<1>3. PlacesOK'
  BY DEF ebpfVars, EbpfInv, PlacesOK, LoadedOK, SessionOK, OnItsWay, Past
<1>4. \A c \in Callers : TargetOK(c)' /\ DoneOK(c)'
  BY DEF ebpfVars, EbpfInv, TargetOK, DoneOK, Past
<1> QED BY <1>1, <1>2, <1>3, <1>4 DEF EbpfInv

LEMMA NextKeeps ==
    ASSUME EbpfInv, [EbpfNext]_ebpfVars
    PROVE  EbpfInv'
<1>1. CASE EngineRestarts BY <1>1, RestartKeeps
<1>2. ASSUME NEW r \in Runs, Acquire(r) \/ ExecutionTimesOut(r) \/ RunDropped(r)
      PROVE  EbpfInv'
  BY <1>2, AcquireKeeps, ExecutionTimesOutKeeps, RunDroppedKeeps
<1>3. ASSUME NEW r \in Runs, RunStep(r) PROVE EbpfInv'
  BY <1>3, RunFailsKeeps, MakePinDirectoryKeeps, LoadAllKeeps,
     LoadAnswersKeeps,
     TrackKeeps, LoadAyaKeeps, PinMapsKeeps, OpenSessionKeeps, ListSessionKeeps,
     StartFallbackKeeps, KeepBpftoolKeeps, RetryKeeps, FinishKeeps DEF RunStep
<1>4. ASSUME NEW c \in Detaches, DetachOne(c) \/ DetachAll(c) PROVE EbpfInv'
  <2>1. c \in Callers BY DEF Callers
  <2>2. CASE DetachAll(c)
    BY <2>1, <2>2, BeginDetachKeeps DEF DetachAll, ListedOf
  <2>3. CASE DetachOne(c)
    <3>1. PICK p \in ListedOf(c) : BeginDetach(c, {p}, FALSE)
      BY <2>3 DEF DetachOne
    <3>2. {p} \in SUBSET listed BY DEF ListedOf
    <3> QED BY <2>1, <3>1, <3>2, BeginDetachKeeps
  <2> QED BY <1>4, <2>2, <2>3
<1>5. ASSUME NEW c \in Callers, DetachStep(c) PROVE EbpfInv'
  BY <1>5, NextTargetKeeps, DropSessionKeeps, StatKeeps, UntrackKeeps,
     InspectKeeps,
     RemovalEndsKeeps DEF DetachStep
<1>6. ASSUME NEW c \in Callers, DetachDropped(c) PROVE EbpfInv'
  BY <1>6, DetachDroppedKeeps
<1>7. ASSUME NEW c \in Callers, NEW p \in Paths, RemovalFails(c, p) PROVE EbpfInv'
  BY <1>7, RemovalFailsKeeps
<1>8. CASE UNCHANGED ebpfVars BY <1>8, EbpfStutterKeeps
<1> QED BY <1>1, <1>2, <1>3, <1>4, <1>5, <1>6, <1>7, <1>8 DEF EbpfNext

LEMMA EbpfInvariant == EbpfSpec => []EbpfInv
<1>1. EbpfInv /\ [EbpfNext]_ebpfVars => EbpfInv' BY NextKeeps
<1> QED BY <1>1, InitInv, PTL DEF EbpfSpec

-----------------------------------------------------------------------------
(* What the invariant is for.                                                *)
LEMMA InvSound == EbpfInv => KernelSound
<1> SUFFICES ASSUME EbpfInv PROVE OneProgramPerRun /\ ListShowsWhatRuns
  BY DEF EbpfInv, KernelSound
<1>1. EbpfTypeOK /\ PlacesOK /\ \A r \in Runs : RunOK(r) BY DEF EbpfInv
<1>2. OneProgramPerRun
  <2> SUFFICES ASSUME NEW r \in Runs, Live(<<r, "bpftool">>), Live(<<r, "aya">>)
               PROVE  FALSE
    BY DEF OneProgramPerRun
  <2>1. run[r].backend = "bpftool"
    BY <1>1 DEF Live, PlacesOK, LoadedOK, SessionOK
  <2> QED BY <1>1, <2>1 DEF Live, PlacesOK, LoadedOK, SessionOK
<1>3. ListShowsWhatRuns
  BY <1>1
     DEF ListShowsWhatRuns, Live, PlacesOK, OnItsWay, Active, Executing,
         Waiting, Holding
<1> QED BY <1>2, <1>3

LEMMA InvClean == EbpfInv => CleanMeansGone
<1> SUFFICES ASSUME EbpfInv, NEW c \in Callers, detach[c].clean, NEW p \in detach[c].done
             PROVE  ~Live(p) /\ p \notin listed
  BY DEF CleanMeansGone
<1>1. DoneOK(c) BY DEF EbpfInv
<1> QED BY <1>1 DEF DoneOK, Live, Past, Holding

(* Whoever drops, fails or detaches what in between, a run never has two     *)
(* programs in the kernel, and a program there is on its user's list unless  *)
(* its run is being served or was given up half-way.                         *)
THEOREM KernelIsSound == EbpfSpec => []KernelSound
BY EbpfInvariant, InvSound, PTL

(* What a detach request reported as cleanly detached is out of the kernel   *)
(* and off the list, for good.                                               *)
THEOREM CleanStaysGone == EbpfSpec => []CleanMeansGone
BY EbpfInvariant, InvClean, PTL
=============================================================================
