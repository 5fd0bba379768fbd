------------------------ MODULE RunnerJobQueueProofs ------------------------
(* The safety properties of the runner job queue hold for every value of its *)
(* constants: any number of jobs, agents and users, any timeouts, any lag.   *)
(* The argument is one inductive invariant, IInv: a condition on each record *)
(* by itself (JobOK) and three on the table as a whole (distinct leases, the *)
(* users' quota, the size), kept by reaping and by the one record a step     *)
(* replaces or adds.                                                         *)
EXTENDS RunnerJobQueue, FiniteSetTheorems, TLAPS

(* A record by itself; n tokens have been drawn.  The quota of time a user's *)
(* check may take is split here: waiting before `claimed`, then the lease.   *)
JobOK(job, n) ==
    /\ job.lease # None => job.lease \in 1 .. n
    /\ (job.lease # None) <=> (job.assigned # None)
    /\ (job.lease # None) <=> (job.deadline # None)
    /\ (job.lease # None) <=> (job.claimed # None)
    /\ job.state = "queued" => job.lease = None
    /\ job.state \in Leased \cup {"succeeded", "failed"} => job.lease # None
    /\ job.source <=> job.state = "queued" /\ job.kind = CheckKind
    /\ (job.completed # None) <=> job.state \in Terminal
    /\ job.owner # None => job.timeout <= MaxCheckTimeout
    /\ job.claimed # None =>
          /\ job.deadline = job.claimed + job.timeout
          /\ job.owner # None => job.claimed - job.created < UserCheckQueueTimeout

Timely(job, t) ==
    job.owner # None /\ job.state \notin Terminal =>
        /\ job.state = "queued" => t - job.created < UserCheckQueueTimeout
        /\ t - job.created < UserCheckQueueTimeout + MaxCheckTimeout

RecordsOK(table, n) ==
    \A j \in DOMAIN table : table[j] \in JobRecord /\ JobOK(table[j], n)

LeasesDistinct(table) ==
    \A i, j \in DOMAIN table :
        i # j /\ table[i].lease # None => table[i].lease # table[j].lease

QuotaOK(table) ==
    \A owner \in Owners :
        Cardinality(ActiveChecks(table, owner)) <= MaxUserActiveChecks

TableOK(table, n) ==
    /\ IsFiniteSet(DOMAIN table)
    /\ Cardinality(DOMAIN table) <= MaxJobs
    /\ RecordsOK(table, n)
    /\ LeasesDistinct(table)
    /\ QuotaOK(table)

IInv ==
    /\ jobs = [j \in DOMAIN jobs |-> jobs[j]]
    /\ DOMAIN jobs \subseteq issued /\ issued \subseteq JobIds
    /\ leases \in Nat /\ clock \in Int /\ now \in Int
    /\ TableOK(jobs, leases)
    /\ \A j \in DOMAIN jobs : Timely(jobs[j], now)

USE QueueConstants

(* A timeout a caller asks for ends between the two bounds of the clamp.     *)
LEMMA ClampBounds ==
    ASSUME NEW requested \in RequestedTimeouts, NEW hi \in Nat, MinTimeout <= hi
    PROVE  Clamp(requested, hi) \in Nat /\ Clamp(requested, hi) <= hi
  BY DEF Clamp

(* A submission creates a well-formed record without a lease.                *)
LEMMA NewJobOK ==
    ASSUME NEW kind \in {ProbeKind, CheckKind}, NEW owner \in Owners \cup {None},
           NEW target \in Agents \cup {None}, NEW requested \in RequestedTimeouts,
           NEW t \in Int, NEW n \in Nat, owner # None => kind = CheckKind
    PROVE  LET job == NewJob(kind, owner, target, requested, t)
           IN  job \in JobRecord /\ JobOK(job, n)
  <1> DEFINE hi == IF kind = CheckKind THEN MaxCheckTimeout ELSE MaxProbeTimeout
  <1>1. hi \in Nat /\ MinTimeout <= hi
    OBVIOUS
  <1>2. Clamp(requested, hi) \in Nat /\ Clamp(requested, hi) <= hi
    BY <1>1, ClampBounds
  <1>3. QED
    BY <1>2 DEF NewJob, JobRecord, JobOK, JobState, Terminal, Leased, OptTime,
                ProbeKind, CheckKind

(* What reaping does to one record.                                          *)
LEMMA TimedOutFacts ==
    ASSUME NEW job \in JobRecord, NEW t \in Int, NEW n \in Nat, JobOK(job, n)
    PROVE  LET r == TimedOut(job, t) IN
           /\ r \in JobRecord /\ JobOK(r, n)
           /\ r.lease = job.lease /\ r.owner = job.owner /\ r.assigned = job.assigned
           /\ Timely(r, t)
           /\ r.state = job.state => r = job
           /\ r.state # job.state => r.state = "expired" /\ job.state \notin Terminal
           /\ job.state \in Terminal => r = job
           /\ ~AbandonedUserCheck(r, t)
  <1>1. CASE AbandonedUserCheck(job, t) \/ LeaseExpired(job, t)
    BY <1>1 DEF TimedOut, AbandonedUserCheck, LeaseExpired, JobRecord, JobOK, JobState,
                Terminal, Leased, OptTime, Timely
  <1>2. CASE ~(AbandonedUserCheck(job, t) \/ LeaseExpired(job, t))
    BY <1>2 DEF TimedOut, AbandonedUserCheck, LeaseExpired, JobRecord, JobOK, JobState,
                Terminal, Leased, OptTime, Timely
  <1>3. QED
    BY <1>1, <1>2

(* Reaping keeps the table well formed and leaves no overdue check in it.    *)
LEMMA ReapedOK ==
    ASSUME NEW t \in Int, leases \in Nat, TableOK(jobs, leases)
    PROVE  /\ TableOK(Reaped(t), leases)
           /\ DOMAIN Reaped(t) \subseteq DOMAIN jobs
           /\ \A j \in DOMAIN Reaped(t) :
                 /\ Reaped(t)[j] = TimedOut(jobs[j], t)
                 /\ Timely(Reaped(t)[j], t)
                 /\ ~AbandonedUserCheck(Reaped(t)[j], t)
  <1> DEFINE table == Reaped(t)
  <1>1. DOMAIN table \subseteq DOMAIN jobs
    BY DEF Reaped
  <1>2. \A j \in DOMAIN table : table[j] = TimedOut(jobs[j], t)
    BY DEF Reaped
  <1>3. \A j \in DOMAIN jobs : jobs[j] \in JobRecord /\ JobOK(jobs[j], leases)
    BY DEF TableOK, RecordsOK
  <1>4. \A j \in DOMAIN table :
           /\ table[j] \in JobRecord /\ JobOK(table[j], leases)
           /\ table[j].lease = jobs[j].lease /\ table[j].owner = jobs[j].owner
           /\ Timely(table[j], t)
           /\ table[j].state # jobs[j].state => table[j].state = "expired"
           /\ ~AbandonedUserCheck(table[j], t)
    <2> SUFFICES ASSUME NEW j \in DOMAIN table
        PROVE  /\ table[j] \in JobRecord /\ JobOK(table[j], leases)
               /\ table[j].lease = jobs[j].lease /\ table[j].owner = jobs[j].owner
               /\ Timely(table[j], t)
               /\ table[j].state # jobs[j].state => table[j].state = "expired"
               /\ ~AbandonedUserCheck(table[j], t)
      OBVIOUS
    <2>1. j \in DOMAIN jobs /\ table[j] = TimedOut(jobs[j], t)
      BY <1>1, <1>2
    <2> HIDE DEF table
    <2>2. QED
      BY <2>1, <1>3, TimedOutFacts
  <1> HIDE DEF table
  <1>5. IsFiniteSet(DOMAIN table) /\ Cardinality(DOMAIN table) <= MaxJobs
    <2>1. IsFiniteSet(DOMAIN jobs) /\ Cardinality(DOMAIN jobs) <= MaxJobs
      BY DEF TableOK
    <2>2. IsFiniteSet(DOMAIN table) /\ Cardinality(DOMAIN table) <= Cardinality(DOMAIN jobs)
      BY <1>1, <2>1, FS_Subset
    <2>3. Cardinality(DOMAIN table) \in Nat /\ Cardinality(DOMAIN jobs) \in Nat
      BY <2>1, <2>2, FS_CardinalityType
    <2>4. QED
      BY <2>1, <2>2, <2>3
  <1>6. LeasesDistinct(table)
    BY <1>1, <1>4 DEF LeasesDistinct, TableOK
  <1>7. QuotaOK(table)
    <2> SUFFICES ASSUME NEW owner \in Owners
        PROVE  Cardinality(ActiveChecks(table, owner)) <= MaxUserActiveChecks
      BY DEF QuotaOK
    <2>1. ActiveChecks(table, owner) \subseteq ActiveChecks(jobs, owner)
      BY <1>1, <1>4 DEF ActiveChecks, Terminal
    <2>2. IsFiniteSet(ActiveChecks(jobs, owner))
      BY FS_Subset DEF ActiveChecks, TableOK
    <2>3. /\ IsFiniteSet(ActiveChecks(table, owner))
          /\ Cardinality(ActiveChecks(table, owner)) <= Cardinality(ActiveChecks(jobs, owner))
      BY <2>1, <2>2, FS_Subset
    <2>4. Cardinality(ActiveChecks(jobs, owner)) <= MaxUserActiveChecks
      BY DEF TableOK, QuotaOK
    <2>5. /\ Cardinality(ActiveChecks(table, owner)) \in Nat
          /\ Cardinality(ActiveChecks(jobs, owner)) \in Nat
      BY <2>2, <2>3, FS_CardinalityType
    <2>6. QED
      BY <2>3, <2>4, <2>5
  <1>8. QED
    BY <1>1, <1>2, <1>4, <1>5, <1>6, <1>7 DEF TableOK, RecordsOK, table

(* Replacing one record by a well-formed one of the same owner, which keeps  *)
(* its lease or takes the next one, keeps the table well formed.             *)
LEMMA ReplaceOK ==
    ASSUME NEW table, NEW n \in Nat, NEW m \in Nat, n <= m,
           TableOK(table, n), NEW id \in DOMAIN table, NEW job \in JobRecord,
           JobOK(job, m), job.owner = table[id].owner,
           table[id].state \in Terminal => job.state \in Terminal,
           job.lease = table[id].lease \/ (m = n + 1 /\ job.lease = m)
    PROVE  TableOK([table EXCEPT ![id] = job], m)
  <1> DEFINE new == [table EXCEPT ![id] = job]
  <1>1. /\ DOMAIN new = DOMAIN table
        /\ \A j \in DOMAIN table : new[j] = IF j = id THEN job ELSE table[j]
    OBVIOUS
  <1> HIDE DEF new
  <1>2. \A j \in DOMAIN table : table[j] \in JobRecord /\ JobOK(table[j], n)
    BY DEF TableOK, RecordsOK
  <1>3. RecordsOK(new, m)
    <2> SUFFICES ASSUME NEW j \in DOMAIN table
        PROVE  new[j] \in JobRecord /\ JobOK(new[j], m)
      BY <1>1 DEF RecordsOK
    <2>1. CASE j = id
      BY <2>1, <1>1
    <2>2. CASE j # id
      <3>1. new[j] = table[j] /\ new[j] \in JobRecord /\ JobOK(new[j], n)
        BY <2>2, <1>1, <1>2
      <3>2. QED
        BY <3>1 DEF JobOK
    <2>3. QED
      BY <2>1, <2>2
  <1>4. \A j \in DOMAIN table : table[j].lease # None => table[j].lease \in 1 .. n
    BY <1>2 DEF JobOK
  <1>5. LeasesDistinct(new)
    BY <1>1, <1>4 DEF LeasesDistinct, TableOK
  <1>6. QuotaOK(new)
    <2> SUFFICES ASSUME NEW owner \in Owners
        PROVE  Cardinality(ActiveChecks(new, owner)) <= MaxUserActiveChecks
      BY DEF QuotaOK
    <2>1. ActiveChecks(new, owner) \subseteq ActiveChecks(table, owner)
      BY <1>1 DEF ActiveChecks
    <2>2. IsFiniteSet(ActiveChecks(table, owner))
      BY FS_Subset DEF ActiveChecks, TableOK
    <2>3. /\ IsFiniteSet(ActiveChecks(new, owner))
          /\ Cardinality(ActiveChecks(new, owner)) <= Cardinality(ActiveChecks(table, owner))
      BY <2>1, <2>2, FS_Subset
    <2>4. /\ Cardinality(ActiveChecks(new, owner)) \in Nat
          /\ Cardinality(ActiveChecks(table, owner)) \in Nat
          /\ Cardinality(ActiveChecks(table, owner)) <= MaxUserActiveChecks
      BY <2>2, <2>3, FS_CardinalityType DEF TableOK, QuotaOK
    <2>5. QED
      BY <2>3, <2>4
  <1>7. QED
    BY <1>1, <1>3, <1>5, <1>6 DEF TableOK, new

(* Adding a well-formed record without a lease, within the size and, for a   *)
(* user's check, within the user's quota, keeps the table well formed.       *)
LEMMA PutOK ==
    ASSUME NEW table, NEW n \in Nat, TableOK(table, n), NEW id, id \notin DOMAIN table,
           NEW job \in JobRecord, JobOK(job, n), job.lease = None,
           Cardinality(DOMAIN table) < MaxJobs,
           job.owner # None =>
               Cardinality(ActiveChecks(table, job.owner)) < MaxUserActiveChecks
    PROVE  TableOK(Put(table, id, job), n)
  <1> DEFINE new == Put(table, id, job)
  <1>1. /\ DOMAIN new = DOMAIN table \cup {id}
        /\ new[id] = job
        /\ \A j \in DOMAIN table : new[j] = table[j]
    BY DEF Put
  <1> HIDE DEF new
  <1>2. IsFiniteSet(DOMAIN table)
    BY DEF TableOK
  <1>3. IsFiniteSet(DOMAIN new) /\ Cardinality(DOMAIN new) <= MaxJobs
    <2>1. /\ IsFiniteSet(DOMAIN new)
          /\ Cardinality(DOMAIN new) = Cardinality(DOMAIN table) + 1
      BY <1>1, <1>2, FS_AddElement
    <2>2. Cardinality(DOMAIN table) \in Nat
      BY <1>2, FS_CardinalityType
    <2>3. QED
      BY <2>1, <2>2
  <1>4. RecordsOK(new, n)
    BY <1>1 DEF RecordsOK, TableOK
  <1>5. LeasesDistinct(new)
    BY <1>1 DEF LeasesDistinct, TableOK
  <1>6. QuotaOK(new)
    <2> SUFFICES ASSUME NEW owner \in Owners
        PROVE  Cardinality(ActiveChecks(new, owner)) <= MaxUserActiveChecks
      BY DEF QuotaOK
    <2>1. IsFiniteSet(ActiveChecks(table, owner))
      BY <1>2, FS_Subset DEF ActiveChecks
    <2>2. /\ Cardinality(ActiveChecks(table, owner)) \in Nat
          /\ Cardinality(ActiveChecks(table, owner)) <= MaxUserActiveChecks
      BY <2>1, FS_CardinalityType DEF TableOK, QuotaOK
    <2>3. CASE id \in ActiveChecks(new, owner)
      <3>1. job.owner = owner
        BY <2>3, <1>1 DEF ActiveChecks
      <3>2. ActiveChecks(new, owner) = ActiveChecks(table, owner) \cup {id}
        BY <2>3, <1>1 DEF ActiveChecks
      <3>3. id \notin ActiveChecks(table, owner)
        BY DEF ActiveChecks
      <3>4. Cardinality(ActiveChecks(new, owner)) = Cardinality(ActiveChecks(table, owner)) + 1
        BY <3>2, <3>3, <2>1, FS_AddElement
      <3>5. Cardinality(ActiveChecks(table, owner)) < MaxUserActiveChecks
        BY <3>1
      <3>6. QED
        BY <2>2, <3>4, <3>5
    <2>4. CASE id \notin ActiveChecks(new, owner)
      <3>1. ActiveChecks(new, owner) = ActiveChecks(table, owner)
        BY <2>4, <1>1 DEF ActiveChecks
      <3>2. QED
        BY <3>1, <2>2
    <2>5. QED
      BY <2>3, <2>4
  <1>7. QED
    BY <1>3, <1>4, <1>5, <1>6 DEF TableOK, new

-----------------------------------------------------------------------------
(* The empty queue satisfies the invariant.                                  *)
LEMMA InitIInv == Init => IInv
  <1> SUFFICES ASSUME Init PROVE IInv
    OBVIOUS
  <1>1. DOMAIN jobs = {}
    BY DEF Init
  <1>2. IsFiniteSet(DOMAIN jobs) /\ Cardinality(DOMAIN jobs) = 0
    BY <1>1, FS_EmptySet
  <1>3. QuotaOK(jobs)
    <2>1. \A owner \in Owners : ActiveChecks(jobs, owner) = {}
      BY <1>1 DEF ActiveChecks
    <2>2. QED
      BY <2>1, FS_EmptySet DEF QuotaOK
  <1>4. RecordsOK(jobs, leases) /\ LeasesDistinct(jobs)
    BY <1>1 DEF RecordsOK, LeasesDistinct
  <1>5. QED
    BY <1>1, <1>2, <1>3, <1>4 DEF Init, IInv, TableOK

(* Every operation starts from the reaped table; this is what it may assume. *)
LEMMA Entered ==
    ASSUME IInv, NEW t \in Int
    PROVE  /\ TableOK(Reaped(t), leases)
           /\ Reaped(t) = [j \in DOMAIN Reaped(t) |-> Reaped(t)[j]]
           /\ DOMAIN Reaped(t) \subseteq issued
           /\ DOMAIN Reaped(t) \subseteq DOMAIN jobs
           /\ \A j \in DOMAIN Reaped(t) :
                 /\ Reaped(t)[j] \in JobRecord
                 /\ JobOK(Reaped(t)[j], leases)
                 /\ Timely(Reaped(t)[j], t)
                 /\ ~AbandonedUserCheck(Reaped(t)[j], t)
  <1>1. TableOK(Reaped(t), leases)
    BY ReapedOK DEF IInv
  <1>2. QED
    BY <1>1, ReapedOK DEF IInv, TableOK, RecordsOK, Reaped

(* A claim of a waiting, timely record writes a well-formed, timely lease.   *)
LEMMA ClaimedOK ==
    ASSUME NEW old \in JobRecord, NEW n \in Nat, JobOK(old, n), old.state = "queued",
           NEW agent \in Agents, NEW t \in Int, Timely(old, t), ~AbandonedUserCheck(old, t)
    PROVE  LET job == [old EXCEPT !.state = "claimed", !.assigned = agent,
                                  !.lease = n + 1, !.claimed = t,
                                  !.deadline = t + old.timeout, !.source = FALSE]
           IN  job \in JobRecord /\ JobOK(job, n + 1) /\ Timely(job, t)
  <1> DEFINE job == [old EXCEPT !.state = "claimed", !.assigned = agent,
                                !.lease = n + 1, !.claimed = t,
                                !.deadline = t + old.timeout, !.source = FALSE]
  <1>1. job \in JobRecord
    <2>1. old.timeout \in Nat
      BY DEF JobRecord
    <2>2. t + old.timeout \in OptTime /\ t \in OptTime /\ n + 1 \in Nat \cup {None}
      BY <2>1 DEF OptTime
    <2>3. "claimed" \in JobState
      BY DEF JobState, Leased
    <2>4. QED
      BY <2>2, <2>3 DEF JobRecord
  <1>2. /\ job.state = "claimed" /\ job.assigned = agent /\ job.lease = n + 1
        /\ job.claimed = t /\ job.deadline = t + old.timeout /\ job.source = FALSE
        /\ job.kind = old.kind /\ job.owner = old.owner /\ job.timeout = old.timeout
        /\ job.created = old.created /\ job.completed = old.completed
    BY DEF JobRecord
  <1>3. /\ old.timeout \in Nat /\ old.created \in Int
        /\ old.completed = None
        /\ old.owner # None => /\ t - old.created < UserCheckQueueTimeout
                               /\ old.timeout <= MaxCheckTimeout
    BY DEF JobRecord, JobOK, Terminal, AbandonedUserCheck
  <1> HIDE DEF job
  <1>4. JobOK(job, n + 1)
    BY <1>2, <1>3 DEF JobOK, Terminal, Leased
  <1>5. Timely(job, t)
    BY <1>2, <1>3 DEF Timely
  <1>6. QED
    BY <1>1, <1>4, <1>5 DEF job

(* One step keeps the invariant: the record it replaces or adds is well      *)
(* formed and timely, and the rest is what reaping left.                     *)
LEMMA NextIInv == IInv /\ [Next]_queueVars => IInv'
  <1> SUFFICES ASSUME IInv, [Next]_queueVars PROVE IInv'
    OBVIOUS
  <1>a. leases \in Nat /\ clock \in Int /\ now \in Int /\ issued \subseteq JobIds
    BY DEF IInv
  <1>b. \A t \in Readings : t \in Int
    BY <1>a DEF Readings
  <1>1. ASSUME NEW id \in JobIds, NEW t \in Readings, NEW kind \in {ProbeKind, CheckKind},
               NEW owner \in Owners \cup {None}, NEW target \in Agents \cup {None},
               NEW r \in RequestedTimeouts, owner # None => kind = CheckKind,
               Enter(t), id \notin issued, Cardinality(DOMAIN Reaped(t)) < MaxJobs,
               owner # None =>
                  Cardinality(ActiveChecks(Reaped(t), owner)) < MaxUserActiveChecks,
               jobs' = Put(Reaped(t), id, NewJob(kind, owner, target, r, t)),
               issued' = issued \cup {id}, leases' = leases
        PROVE  IInv'
    <2> DEFINE table == Reaped(t)
               job == NewJob(kind, owner, target, r, t)
    <2>1. t \in Int /\ now' = t /\ clock' = clock
      BY <1>1, <1>b DEF Enter
    <2>2. /\ TableOK(table, leases) /\ DOMAIN table \subseteq issued
          /\ \A j \in DOMAIN table : Timely(table[j], t)
      BY <2>1, Entered
    <2>3. job \in JobRecord /\ JobOK(job, leases)
      BY <1>1, <1>a, <2>1, NewJobOK
    <2>4. job.lease = None /\ job.owner = owner /\ Timely(job, t)
      BY <2>1 DEF NewJob, Timely
    <2> HIDE DEF table, job
    <2>5. TableOK(Put(table, id, job), leases)
      <3>1. id \notin DOMAIN table
        BY <1>1, <2>2
      <3>2. Cardinality(DOMAIN table) < MaxJobs
        BY <1>1 DEF table
      <3>3. job.owner # None =>
               Cardinality(ActiveChecks(table, job.owner)) < MaxUserActiveChecks
        BY <1>1, <2>4 DEF table
      <3>4. QED
        BY <1>a, <2>2, <2>3, <2>4, <3>1, <3>2, <3>3, PutOK
    <2>6. jobs' = Put(table, id, job)
      BY <1>1 DEF table, job
    <2>7. /\ DOMAIN jobs' \subseteq issued' /\ jobs' = [j \in DOMAIN jobs' |-> jobs'[j]]
          /\ \A j \in DOMAIN jobs' : Timely(jobs'[j], t)
      BY <1>1, <2>2, <2>4, <2>6 DEF Put
    <2>8. issued' \subseteq JobIds
      BY <1>1, <1>a
    <2>9. TableOK(jobs', leases')
      BY <1>1, <2>5, <2>6
    <2>10. QED
      BY <1>1, <1>a, <2>1, <2>7, <2>8, <2>9 DEF IInv
  <1>2. ASSUME NEW t \in Readings, NEW id \in DOMAIN Reaped(t), NEW job \in JobRecord,
               NEW m \in Nat, m = leases \/ m = leases + 1,
               Enter(t), JobOK(job, m), Timely(job, t),
               job.owner = Reaped(t)[id].owner,
               Reaped(t)[id].state \in Terminal => job.state \in Terminal,
               job.lease = Reaped(t)[id].lease \/ (m = leases + 1 /\ job.lease = m),
               jobs' = [Reaped(t) EXCEPT ![id] = job], issued' = issued, leases' = m
        PROVE  IInv'
    <2> DEFINE table == Reaped(t)
    <2>1. t \in Int /\ now' = t /\ clock' = clock
      BY <1>2, <1>b DEF Enter
    <2>2. /\ TableOK(table, leases) /\ DOMAIN table \subseteq issued
          /\ table = [j \in DOMAIN table |-> table[j]]
          /\ \A j \in DOMAIN table : Timely(table[j], t)
      BY <2>1, Entered
    <2>3. /\ id \in DOMAIN table /\ job.owner = table[id].owner
          /\ table[id].state \in Terminal => job.state \in Terminal
          /\ job.lease = table[id].lease \/ (m = leases + 1 /\ job.lease = m)
          /\ jobs' = [table EXCEPT ![id] = job]
      BY <1>2
    <2> HIDE DEF table
    <2>4. leases <= m
      BY <1>2, <1>a
    <2>5. TableOK([table EXCEPT ![id] = job], m)
      BY <1>2, <1>a, <2>2, <2>3, <2>4, ReplaceOK
    <2>6. /\ DOMAIN jobs' = DOMAIN table /\ jobs' = [j \in DOMAIN jobs' |-> jobs'[j]]
          /\ \A j \in DOMAIN jobs' : Timely(jobs'[j], t)
      BY <1>2, <2>2, <2>3
    <2>7. QED
      BY <1>2, <1>a, <2>1, <2>2, <2>3, <2>5, <2>6 DEF IInv
  <1>3. ASSUME NEW id \in JobIds, NEW t \in Readings, NEW target \in Agents \cup {None},
               NEW r \in RequestedTimeouts, SubmitProbe(id, target, r, t)
        PROVE  IInv'
    <2>1. QED
      BY <1>1, <1>3 DEF SubmitProbe
  <1>4. ASSUME NEW id \in JobIds, NEW t \in Readings, NEW owner \in Owners \cup {None},
               NEW target \in Agents \cup {None}, NEW r \in RequestedTimeouts,
               SubmitCheck(id, owner, target, r, t)
        PROVE  IInv'
    <2>1. QED
      BY <1>1, <1>4 DEF SubmitCheck
  <1>5. ASSUME NEW id \in JobIds, NEW t \in Readings, NEW agent \in Agents,
               NEW maxActive \in 1 .. MaxClaim,
               NEW capabilities \in SUBSET {CompileCapability},
               ClaimJob(id, agent, maxActive, capabilities, t)
        PROVE  IInv'
    <2> DEFINE table == Reaped(t)
               old == table[id]
               job == [old EXCEPT !.state = "claimed", !.assigned = agent,
                                  !.lease = leases + 1, !.claimed = t,
                                  !.deadline = t + old.timeout, !.source = FALSE]
    <2>1. t \in Int
      BY <1>b
    <2>2. id \in DOMAIN table /\ old.state = "queued"
      BY <1>5 DEF ClaimJob, Oldest, Claimable
    <2>3. /\ old \in JobRecord /\ JobOK(old, leases) /\ Timely(old, t)
          /\ ~AbandonedUserCheck(old, t)
      BY <2>1, <2>2, Entered
    <2>4. Enter(t) /\ jobs' = [table EXCEPT ![id] = job] /\ issued' = issued
          /\ leases' = leases + 1
      BY <1>5 DEF ClaimJob, Claimed
    <2> HIDE DEF table
    <2>5. job \in JobRecord /\ JobOK(job, leases + 1) /\ Timely(job, t)
      BY <1>a, <2>1, <2>2, <2>3, ClaimedOK
    <2>6. job.owner = old.owner /\ job.lease = leases + 1 /\ old.state \notin Terminal
      BY <2>2, <2>3 DEF JobRecord, Terminal
    <2> HIDE DEF job
    <2>7. leases + 1 \in Nat
      BY <1>a
    <2>8. QED
      BY <1>2, <2>2, <2>4, <2>5, <2>6, <2>7 DEF table
  <1>6. ASSUME NEW id \in JobIds, NEW t \in Readings, NEW caller \in Owners \cup {None},
               CancelQueued(id, caller, t)
        PROVE  IInv'
    <2> DEFINE table == Reaped(t)
               old == table[id]
               job == [old EXCEPT !.state = "cancelled", !.source = FALSE, !.completed = t]
    <2>1. t \in Int
      BY <1>b
    <2>2. /\ id \in DOMAIN table /\ old.state = "queued" /\ Enter(t)
          /\ jobs' = [table EXCEPT ![id] = job] /\ issued' = issued /\ leases' = leases
      BY <1>6 DEF CancelQueued
    <2>3. old \in JobRecord /\ JobOK(old, leases)
      BY <2>1, <2>2, Entered
    <2> HIDE DEF table
    <2>4. job \in JobRecord /\ JobOK(job, leases) /\ Timely(job, t)
      BY <2>1, <2>2, <2>3 DEF JobRecord, JobOK, JobState, Terminal, Leased, OptTime, Timely
    <2>5. job.owner = old.owner /\ job.lease = old.lease /\ job.state \in Terminal
      BY <2>3 DEF JobRecord, Terminal
    <2> HIDE DEF job
    <2>6. QED
      BY <1>2, <1>a, <2>2, <2>4, <2>5 DEF table
  <1>7. ASSUME NEW id \in JobIds, NEW t \in Readings, NEW caller \in Owners \cup {None},
               CancelClaimed(id, caller, t)
        PROVE  IInv'
    <2> DEFINE table == Reaped(t)
               old == table[id]
               job == [old EXCEPT !.state = "cancel_requested"]
    <2>1. t \in Int
      BY <1>b
    <2>2. /\ id \in DOMAIN table /\ old.state = "claimed" /\ Enter(t)
          /\ jobs' = [table EXCEPT ![id] = job] /\ issued' = issued /\ leases' = leases
      BY <1>7 DEF CancelClaimed
    <2>3. old \in JobRecord /\ JobOK(old, leases) /\ Timely(old, t)
      BY <2>1, <2>2, Entered
    <2> HIDE DEF table
    <2>4. job \in JobRecord /\ JobOK(job, leases) /\ Timely(job, t)
      BY <2>1, <2>2, <2>3 DEF JobRecord, JobOK, JobState, Terminal, Leased, OptTime, Timely
    <2>5. job.owner = old.owner /\ job.lease = old.lease /\ old.state \notin Terminal
      BY <2>2, <2>3 DEF JobRecord, Terminal
    <2> HIDE DEF job
    <2>6. QED
      BY <1>2, <1>a, <2>2, <2>4, <2>5 DEF table
  <1>8. ASSUME NEW id \in JobIds, NEW t \in Readings, NEW agent \in Agents,
               NEW lease \in 1 .. leases, NEW result \in ResultStates,
               Complete(id, agent, lease, result, t)
        PROVE  IInv'
    <2> DEFINE table == Reaped(t)
               old == table[id]
               job == [old EXCEPT !.state = result, !.completed = t]
    <2>1. t \in Int
      BY <1>b
    <2>2. /\ id \in DOMAIN table /\ old.state \in Leased /\ Enter(t)
          /\ jobs' = [table EXCEPT ![id] = job] /\ issued' = issued /\ leases' = leases
      BY <1>8 DEF Complete
    <2>3. old \in JobRecord /\ JobOK(old, leases)
      BY <2>1, <2>2, Entered
    <2> HIDE DEF table
    <2>4. job \in JobRecord /\ JobOK(job, leases) /\ Timely(job, t)
      BY <2>1, <2>2, <2>3
      DEF JobRecord, JobOK, JobState, Terminal, Leased, OptTime, Timely, ResultStates
    <2>5. job.owner = old.owner /\ job.lease = old.lease /\ job.state \in Terminal
      BY <2>3 DEF JobRecord, Terminal, ResultStates
    <2> HIDE DEF job
    <2>6. QED
      BY <1>2, <1>a, <2>2, <2>4, <2>5 DEF table
  <1>9. ASSUME NEW t \in Readings, Observe(t) PROVE IInv'
    <2>1. t \in Int /\ now' = t /\ clock' = clock
      BY <1>9, <1>b DEF Enter, Observe
    <2>2. jobs' = Reaped(t) /\ issued' = issued /\ leases' = leases
      BY <1>9 DEF Observe
    <2>3. /\ TableOK(Reaped(t), leases) /\ DOMAIN Reaped(t) \subseteq issued
          /\ Reaped(t) = [j \in DOMAIN Reaped(t) |-> Reaped(t)[j]]
          /\ \A j \in DOMAIN Reaped(t) : Timely(Reaped(t)[j], t)
      BY <2>1, Entered
    <2>4. QED
      BY <1>a, <2>1, <2>2, <2>3 DEF IInv
  <1>10. CASE Tick
    BY <1>10 DEF Tick, IInv
  <1>11. CASE UNCHANGED queueVars
    BY <1>11 DEF queueVars, IInv
  <1>12. QED
    BY <1>3, <1>4, <1>5, <1>6, <1>7, <1>8, <1>9, <1>10, <1>11 DEF Next

-----------------------------------------------------------------------------
(* IInv is an invariant of the queue.                                        *)
THEOREM QueueInvariant == Spec => []IInv
  <1>1. QED
    BY InitIInv, NextIInv, PTL DEF Spec

(* What the invariant says of the checked properties.                        *)
LEMMA IInvImplies ==
    ASSUME IInv
    PROVE  TypeOK /\ OwnerQuota /\ TableBounded /\ LeaseIntegrity
           /\ SourceCustody /\ SlotsFreedInTime
  <1>1. /\ jobs = [j \in DOMAIN jobs |-> jobs[j]]
        /\ \A j \in DOMAIN jobs : jobs[j] \in JobRecord /\ JobOK(jobs[j], leases)
        /\ \A j \in DOMAIN jobs : Timely(jobs[j], now)
        /\ LeasesDistinct(jobs) /\ QuotaOK(jobs)
        /\ Cardinality(DOMAIN jobs) <= MaxJobs
    BY DEF IInv, TableOK, RecordsOK
  <1>2. TypeOK
    BY <1>1 DEF TypeOK, IInv
  <1>3. LeaseIntegrity
    BY <1>1 DEF LeaseIntegrity, LeasesDistinct, JobOK
  <1>4. OwnerQuota /\ TableBounded
    BY <1>1 DEF OwnerQuota, QuotaOK, TableBounded
  <1>5. SourceCustody
    BY <1>1 DEF SourceCustody, JobOK
  <1>6. SlotsFreedInTime
    BY <1>1 DEF SlotsFreedInTime, Timely
  <1>7. QED
    BY <1>2, <1>3, <1>4, <1>5, <1>6

(* The queue's variables keep their types.                                   *)
THEOREM TypeCorrect == Spec => []TypeOK
  BY QueueInvariant, IInvImplies, PTL

(* No interleaving of submissions, claims, cancels, results and timeouts     *)
(* gives a user more active checks than the quota.                           *)
THEOREM QuotaHolds == Spec => []OwnerQuota
  BY QueueInvariant, IInvImplies, PTL

(* The table never outgrows MAX_JOBS.                                        *)
THEOREM TableIsBounded == Spec => []TableBounded
  BY QueueInvariant, IInvImplies, PTL

(* A lease token names one job, and exactly the claimed jobs carry one.      *)
THEOREM LeasesAreSound == Spec => []LeaseIntegrity
  BY QueueInvariant, IInvImplies, PTL

(* The source of a check is held exactly while the check waits.              *)
THEOREM SourceHeldWhileWaiting == Spec => []SourceCustody
  BY QueueInvariant, IInvImplies, PTL

(* No user check stays active longer than queueing time plus one lease.      *)
THEOREM SlotsAreFreed == Spec => []SlotsFreedInTime
  BY QueueInvariant, IInvImplies, PTL

-----------------------------------------------------------------------------
(* How a step may change a record that was there before it.                  *)
RecordStep(old, new, t) ==
    \/ new = old
    \/ /\ old.state \notin Terminal
       /\ old.lease = None \/ (new.lease = old.lease /\ new.assigned = old.assigned)
       /\ old.state \in Leased => new.state # "queued"
       /\ old.state = "cancel_requested" =>
              new.state \in {"cancel_requested", "cancelled", "expired"}

(* Every step changes at most what RecordStep allows, and forgets only       *)
(* terminal records whose retention is over.                                 *)
LEMMA StepFacts ==
    ASSUME IInv, [Next]_queueVars
    PROVE  \A j \in DOMAIN jobs :
              \/ j \in DOMAIN jobs' /\ RecordStep(jobs[j], jobs'[j], now')
              \/ /\ j \notin DOMAIN jobs' /\ jobs[j].state \in Terminal
                 /\ now' - jobs[j].completed > TerminalRetention
  <1> DEFINE Good(table, t) ==
        \A j \in DOMAIN jobs :
           \/ j \in DOMAIN table /\ RecordStep(jobs[j], table[j], t)
           \/ /\ j \notin DOMAIN table /\ jobs[j].state \in Terminal
              /\ t - jobs[j].completed > TerminalRetention
  <1>a. /\ clock \in Int /\ \A t \in Readings : t \in Int
        /\ \A j \in DOMAIN jobs : jobs[j] \in JobRecord /\ JobOK(jobs[j], leases)
    BY DEF IInv, Readings, TableOK, RecordsOK
  <1>1. ASSUME NEW t \in Readings, NEW j \in DOMAIN jobs
        PROVE  /\ j \in DOMAIN Reaped(t) =>
                     /\ Reaped(t)[j] = jobs[j] \/ (/\ jobs[j].state \notin Terminal
                                                   /\ Reaped(t)[j].state = "expired")
                     /\ Reaped(t)[j].lease = jobs[j].lease
                     /\ Reaped(t)[j].assigned = jobs[j].assigned
               /\ j \notin DOMAIN Reaped(t) =>
                     /\ jobs[j].state \in Terminal
                     /\ t - jobs[j].completed > TerminalRetention
    <2>1. t \in Int /\ jobs[j] \in JobRecord /\ JobOK(jobs[j], leases)
      BY <1>a
    <2>2. leases \in Nat
      BY DEF IInv
    <2>3. LET r == TimedOut(jobs[j], t) IN
            /\ r.lease = jobs[j].lease /\ r.assigned = jobs[j].assigned
            /\ r.state = jobs[j].state => r = jobs[j]
            /\ r.state # jobs[j].state => r.state = "expired" /\ jobs[j].state \notin Terminal
      BY <2>1, <2>2, TimedOutFacts
    <2>4. CASE j \in DOMAIN Reaped(t)
      <3>1. Reaped(t)[j] = TimedOut(jobs[j], t)
        BY <2>4 DEF Reaped
      <3>2. QED
        BY <2>3, <2>4, <3>1
    <2>5. CASE j \notin DOMAIN Reaped(t)
      <3>1. ~Retained(TimedOut(jobs[j], t), t)
        BY <2>5 DEF Reaped
      <3>2. CASE TimedOut(jobs[j], t) = jobs[j]
        BY <2>1, <2>5, <3>1, <3>2 DEF Retained, JobOK, JobRecord, OptTime
      <3>3. CASE TimedOut(jobs[j], t) # jobs[j]
        <4>1. TimedOut(jobs[j], t).completed = t
          BY <2>1, <3>3 DEF TimedOut, JobRecord
        <4>2. FALSE
          BY <2>1, <3>1, <4>1 DEF Retained
        <4>3. QED
          BY <4>2
      <3>4. QED
        BY <3>2, <3>3
    <2>6. QED
      BY <2>4, <2>5
  <1>2. ASSUME NEW t \in Readings PROVE Good(Reaped(t), t)
    <2>1. \A j \in DOMAIN jobs : jobs[j].state \in JobState
      BY <1>a DEF JobRecord
    <2>2. QED
      BY <1>1, <2>1 DEF RecordStep
  <1>3. ASSUME NEW t \in Readings, NEW id, NEW job, id \notin DOMAIN jobs
        PROVE  Good(Put(Reaped(t), id, job), t)
    BY <1>2, <1>3 DEF Put
  <1>4. ASSUME NEW t \in Readings, NEW id \in DOMAIN Reaped(t), NEW job,
               LET old == Reaped(t)[id] IN
               /\ old.state \notin Terminal
               /\ old.lease = None \/ (job.lease = old.lease /\ job.assigned = old.assigned)
               /\ old.state \in Leased => job.state # "queued"
               /\ old.state = "cancel_requested" =>
                      job.state \in {"cancel_requested", "cancelled", "expired"}
        PROVE  Good([Reaped(t) EXCEPT ![id] = job], t)
    <2> DEFINE table == Reaped(t)
               new == [table EXCEPT ![id] = job]
    <2>1. /\ DOMAIN new = DOMAIN table /\ new[id] = job
          /\ \A j \in DOMAIN table : j # id => new[j] = table[j]
      OBVIOUS
    <2>2. Good(table, t)
      BY <1>2
    <2>3. id \in DOMAIN jobs
      BY DEF Reaped
    <2>4. table[id] = jobs[id]
      BY <1>1, <1>4, <2>3 DEF Terminal
    <2>5. RecordStep(jobs[id], new[id], t)
      BY <1>4, <2>1, <2>4 DEF RecordStep
    <2> HIDE DEF new, table
    <2>6. Good(new, t)
      BY <2>1, <2>2, <2>5
    <2>7. QED
      BY <2>6 DEF new, table
  <1>5. \A t \in Readings : DOMAIN Reaped(t) \subseteq DOMAIN jobs
    BY DEF Reaped
  <1>6. DOMAIN jobs \subseteq issued
    BY DEF IInv
  <1>7. ASSUME NEW t \in Readings, NEW id \in DOMAIN Reaped(t)
        PROVE  Reaped(t)[id] \in JobRecord /\ JobOK(Reaped(t)[id], leases)
    BY <1>a, Entered
  <1> DEFINE Step == Good(jobs', now')
  <1>8. ASSUME NEW t \in Readings, Enter(t), Good(jobs', t) PROVE Step
    BY <1>8 DEF Enter
  <1> HIDE DEF Good
  <1>9. ASSUME NEW id \in JobIds, NEW t \in Readings, NEW target \in Agents \cup {None},
               NEW r \in RequestedTimeouts, SubmitProbe(id, target, r, t)
        PROVE  Step
    <2>1. id \notin DOMAIN jobs /\ Enter(t)
      BY <1>6, <1>9 DEF SubmitProbe
    <2>2. PICK job : jobs' = Put(Reaped(t), id, job)
      BY <1>9 DEF SubmitProbe
    <2>3. QED
      BY <1>3, <1>8, <2>1, <2>2
  <1>9a. ASSUME NEW id \in JobIds, NEW t \in Readings, NEW owner \in Owners \cup {None},
                NEW target \in Agents \cup {None}, NEW r \in RequestedTimeouts,
                SubmitCheck(id, owner, target, r, t)
         PROVE  Step
    <2>1. id \notin DOMAIN jobs /\ Enter(t)
      BY <1>6, <1>9a DEF SubmitCheck
    <2>2. PICK job : jobs' = Put(Reaped(t), id, job)
      BY <1>9a DEF SubmitCheck
    <2>3. QED
      BY <1>3, <1>8, <2>1, <2>2
  <1>10. ASSUME NEW id \in JobIds, NEW t \in Readings, NEW agent \in Agents,
                NEW maxActive \in 1 .. MaxClaim,
                NEW capabilities \in SUBSET {CompileCapability},
                ClaimJob(id, agent, maxActive, capabilities, t)
         PROVE  Step
    <2> DEFINE old == Reaped(t)[id]
               job == [old EXCEPT !.state = "claimed", !.assigned = agent,
                                  !.lease = leases + 1, !.claimed = t,
                                  !.deadline = t + old.timeout, !.source = FALSE]
    <2>1. id \in DOMAIN Reaped(t) /\ old.state = "queued"
      BY <1>10 DEF ClaimJob, Oldest, Claimable
    <2>2. old.lease = None
      BY <1>7, <2>1 DEF JobOK
    <2>3. Enter(t) /\ jobs' = [Reaped(t) EXCEPT ![id] = job]
      BY <1>10 DEF ClaimJob, Claimed
    <2> HIDE DEF job
    <2>4. QED
      BY <1>4, <1>8, <2>1, <2>2, <2>3 DEF Terminal, Leased
  <1>11. ASSUME NEW id \in JobIds, NEW t \in Readings, NEW caller \in Owners \cup {None},
                CancelQueued(id, caller, t)
         PROVE  Step
    <2> DEFINE old == Reaped(t)[id]
               job == [old EXCEPT !.state = "cancelled", !.source = FALSE, !.completed = t]
    <2>1. /\ id \in DOMAIN Reaped(t) /\ old.state = "queued" /\ Enter(t)
          /\ jobs' = [Reaped(t) EXCEPT ![id] = job]
      BY <1>11 DEF CancelQueued
    <2>2. old.lease = None
      BY <1>7, <2>1 DEF JobOK
    <2> HIDE DEF job
    <2>3. QED
      BY <1>4, <1>8, <2>1, <2>2 DEF Terminal, Leased
  <1>12. ASSUME NEW id \in JobIds, NEW t \in Readings, NEW caller \in Owners \cup {None},
                CancelClaimed(id, caller, t)
         PROVE  Step
    <2> DEFINE old == Reaped(t)[id]
               job == [old EXCEPT !.state = "cancel_requested"]
    <2>1. /\ id \in DOMAIN Reaped(t) /\ old.state = "claimed" /\ Enter(t)
          /\ jobs' = [Reaped(t) EXCEPT ![id] = job]
      BY <1>12 DEF CancelClaimed
    <2>2. /\ job.lease = old.lease /\ job.assigned = old.assigned
          /\ job.state = "cancel_requested"
      BY <1>7, <2>1 DEF JobRecord
    <2> HIDE DEF job
    <2>3. QED
      BY <1>4, <1>8, <2>1, <2>2 DEF Terminal, Leased
  <1>13. ASSUME NEW id \in JobIds, NEW t \in Readings, NEW agent \in Agents,
                NEW lease \in 1 .. leases, NEW result \in ResultStates,
                Complete(id, agent, lease, result, t)
         PROVE  Step
    <2> DEFINE old == Reaped(t)[id]
               job == [old EXCEPT !.state = result, !.completed = t]
    <2>1. /\ id \in DOMAIN Reaped(t) /\ old.state \in Leased /\ Enter(t)
          /\ old.state = "cancel_requested" => result = "cancelled"
          /\ jobs' = [Reaped(t) EXCEPT ![id] = job]
      BY <1>13 DEF Complete
    <2>2. job.lease = old.lease /\ job.assigned = old.assigned /\ job.state = result
      BY <1>7, <2>1 DEF JobRecord
    <2> HIDE DEF job
    <2>3. QED
      BY <1>4, <1>8, <2>1, <2>2 DEF Terminal, Leased, ResultStates
  <1>14. ASSUME NEW t \in Readings, Observe(t) PROVE Step
    BY <1>2, <1>8, <1>14 DEF Observe
  <1>15. ASSUME Tick \/ UNCHANGED queueVars PROVE Step
    BY <1>15 DEF Step, Tick, queueVars, RecordStep, Good
  <1> HIDE DEF Step
  <1>16. Step
    <2>1. CASE \E id \in JobIds, t \in Readings :
                  \/ \E target \in Agents \cup {None}, r \in RequestedTimeouts :
                        SubmitProbe(id, target, r, t)
                  \/ \E owner \in Owners \cup {None}, target \in Agents \cup {None},
                        r \in RequestedTimeouts : SubmitCheck(id, owner, target, r, t)
      BY <2>1, <1>9, <1>9a
    <2>2. CASE \E id \in JobIds, t \in Readings, agent \in Agents,
                  maxActive \in 1 .. MaxClaim, capabilities \in SUBSET {CompileCapability} :
                  ClaimJob(id, agent, maxActive, capabilities, t)
      BY <2>2, <1>10
    <2>3. CASE \E id \in JobIds, t \in Readings, caller \in Owners \cup {None} :
                  CancelQueued(id, caller, t) \/ CancelClaimed(id, caller, t)
      BY <2>3, <1>11, <1>12
    <2>4. CASE \E id \in JobIds, t \in Readings, agent \in Agents,
                  lease \in 1 .. leases, result \in ResultStates :
                  Complete(id, agent, lease, result, t)
      <3>1. PICK id \in JobIds, t \in Readings, agent \in Agents, lease \in 1 .. leases,
                 result \in ResultStates : Complete(id, agent, lease, result, t)
        BY <2>4
      <3>2. QED
        BY <3>1, <1>13
    <2>5. CASE \E t \in Readings : Observe(t)
      BY <2>5, <1>14
    <2>6. CASE Tick \/ UNCHANGED queueVars
      BY <2>6, <1>15
    <2>7. QED
      BY <2>1, <2>2, <2>3, <2>4, <2>5, <2>6 DEF Next
  <1>17. QED
    BY <1>16 DEF Step, Good

(* Late results, cancels and claims never change a terminal record, and it   *)
(* is forgotten only after its retention.                                    *)
THEOREM OutcomesAreFinal == Spec => OutcomeIsFinal
  <1>1. IInv /\ [Next]_queueVars =>
          [\A j \in DOMAIN jobs : jobs[j].state \in Terminal =>
              \/ j \in DOMAIN jobs' /\ jobs'[j] = jobs[j]
              \/ j \notin DOMAIN jobs' /\ now' - jobs[j].completed > TerminalRetention]_queueVars
    BY StepFacts DEF RecordStep
  <1>2. QED
    BY <1>1, QueueInvariant, PTL DEF Spec, OutcomeIsFinal

(* An expired lease ends its job; nothing puts it back in the queue.         *)
THEOREM NoSecondClaim == Spec => ClaimedAtMostOnce
  <1>1. ASSUME IInv, [Next]_queueVars
        PROVE  [\A j \in DOMAIN jobs :
                  /\ jobs[j].state \notin Terminal => j \in DOMAIN jobs'
                  /\ j \in DOMAIN jobs' /\ jobs[j].lease # None =>
                        /\ jobs'[j].lease = jobs[j].lease
                        /\ jobs'[j].assigned = jobs[j].assigned
                        /\ jobs'[j].state # "queued"]_queueVars
    <2>1. \A j \in DOMAIN jobs :
             /\ jobs[j].state \in JobState
             /\ jobs[j].lease # None => jobs[j].state # "queued"
      BY <1>1 DEF IInv, TableOK, RecordsOK, JobOK, JobRecord
    <2>2. QED
      BY <1>1, <2>1, StepFacts DEF RecordStep, JobState
  <1>2. QED
    BY <1>1, QueueInvariant, PTL DEF Spec, ClaimedAtMostOnce

(* Only Cancelled, or the lease's expiry, ends a job whose cancel was        *)
(* accepted.                                                                 *)
THEOREM CancelsAreHonoured == Spec => CancelIsHonoured
  <1>1. IInv /\ [Next]_queueVars =>
          [\A j \in DOMAIN jobs : jobs[j].state = "cancel_requested" =>
              jobs'[j].state \in {"cancel_requested", "cancelled", "expired"}]_queueVars
    BY StepFacts DEF RecordStep, Terminal
  <1>2. QED
    BY <1>1, QueueInvariant, PTL DEF Spec, CancelIsHonoured

(* The table stays within quota and size, and its leases and sources are in  *)
(* order, for any jobs, agents, users and limits.                            *)
THEOREM TableIsSound == Spec => []TableSound
  BY QueueInvariant, IInvImplies, PTL DEF TableSound

(* A record moves forward only: the three step properties together.          *)
THEOREM RecordsMoveForward == Spec => LifeCycle
  BY OutcomesAreFinal, NoSecondClaim, CancelsAreHonoured DEF LifeCycle
=============================================================================
