--------------------------- MODULE RunnerJobQueue ---------------------------
(* The control plane's in-memory job queue, services/runner_job_queue.rs.    *)
(* Every public operation reads the wall clock, takes the queue's mutex,     *)
(* reaps the table and then does its own work, so an operation is one step.  *)
(* The clock is read BEFORE the mutex is taken: two operations may reach the *)
(* table in the opposite order of their readings.  An operation therefore    *)
(* works with any reading of the last MaxLag units of time.                  *)
EXTENDS Integers, FiniteSets

CONSTANTS
    JobIds,              \* the identifiers submissions draw from (fresh UUIDs)
    Agents, Owners,      \* runner agents; users that submit checks
    None,                \* Option::None
    MaxJobs,             \* MAX_JOBS
    MaxUserActiveChecks, \* MAX_USER_ACTIVE_CHECKS
    UserCheckQueueTimeout, TerminalRetention,
    MinTimeout, MaxProbeTimeout, MaxCheckTimeout, DefaultTimeout,
    RequestedTimeouts,   \* what callers ask for, None included
    MaxClaim,            \* 32, the largest capacity a claim may pass
    MaxLag,              \* bound: how long an operation may wait for the mutex
    LastSubmit, Horizon  \* bounds: last submission time, end of time

ASSUME QueueConstants ==
    /\ None \notin Int /\ None \notin Agents /\ None \notin Owners
    /\ MaxJobs \in Nat /\ MaxUserActiveChecks \in Nat /\ MaxClaim \in Nat
    /\ UserCheckQueueTimeout \in Nat \ {0} /\ TerminalRetention \in Nat
    /\ MinTimeout \in Nat /\ MaxProbeTimeout \in Nat /\ MaxCheckTimeout \in Nat
    /\ DefaultTimeout \in Nat
    /\ MinTimeout <= MaxProbeTimeout /\ MinTimeout <= MaxCheckTimeout
    /\ RequestedTimeouts \subseteq Nat \cup {None}
    /\ MaxLag \in Nat /\ LastSubmit \in Int /\ Horizon \in Int

VARIABLES
    jobs,    \* the table: a record for every job the queue remembers
    issued,  \* identifiers handed out so far (a UUID is never drawn twice)
    leases,  \* number of lease tokens drawn; token n is the n-th one
    clock,   \* the wall clock
    now      \* the reading the last operation worked with

queueVars == <<jobs, issued, leases, clock, now>>

ProbeKind == "control_probe"
CheckKind == "ebpf_compile_check"
CompileCapability == "clang_check"

Leased == {"claimed", "cancel_requested"}
Terminal == {"succeeded", "failed", "cancelled", "expired"}
ResultStates == {"succeeded", "failed", "cancelled"}
JobState == {"queued"} \cup Leased \cup Terminal

OptTime == Int \cup {None}

JobRecord == [kind      : {ProbeKind, CheckKind},
              state     : JobState,
              target    : Agents \cup {None},
              assigned  : Agents \cup {None},
              owner     : Owners \cup {None},
              source    : BOOLEAN,          \* the source text is still held
              timeout   : Nat,
              lease     : Nat \cup {None},
              created   : Int,
              claimed   : OptTime,
              deadline  : OptTime,
              completed : OptTime]

(* Readings an operation that reaches the table now may have taken.          *)
Readings == (clock - MaxLag) .. clock

Clamp(requested, hi) ==
    LET asked == IF requested = None THEN DefaultTimeout ELSE requested
    IN  IF asked < MinTimeout THEN MinTimeout
        ELSE IF asked > hi THEN hi ELSE asked

-----------------------------------------------------------------------------
(* reap: time out what nobody will finish, then forget old terminal records. *)

(* Slip: a check may wait for the whole of its last second.                  *)
LateAbandon(job, t) ==
    /\ job.state = "queued"
    /\ job.owner # None
    /\ t - job.created > UserCheckQueueTimeout

AbandonedUserCheck(job, t) ==
    /\ job.state = "queued"
    /\ job.owner # None
    /\ t - job.created >= UserCheckQueueTimeout

(* Slip: a lease whose cancellation is pending never expires.                *)
ClaimExpired(job, t) ==
    job.state = "claimed" /\ job.deadline # None /\ t > job.deadline

LeaseExpired(job, t) ==
    /\ job.state \in Leased
    /\ job.deadline # None
    /\ t > job.deadline

(* Slip: an expired check keeps its source.                                  *)
TimedOutWithSource(job, t) ==
    IF AbandonedUserCheck(job, t) \/ LeaseExpired(job, t)
    THEN [job EXCEPT !.state = "expired", !.completed = t]
    ELSE job

TimedOut(job, t) ==
    IF AbandonedUserCheck(job, t) \/ LeaseExpired(job, t)
    THEN [job EXCEPT !.state = "expired", !.source = FALSE, !.completed = t]
    ELSE job

Retained(job, t) ==
    \/ job.completed = None
    \/ t - job.completed <= TerminalRetention

Reaped(t) ==
    [j \in {i \in DOMAIN jobs : Retained(TimedOut(jobs[i], t), t)}
        |-> TimedOut(jobs[j], t)]

-----------------------------------------------------------------------------
ActiveChecks(table, owner) ==
    {j \in DOMAIN table : table[j].owner = owner /\ table[j].state \notin Terminal}

HeldBy(table, agent) ==
    {j \in DOMAIN table : table[j].assigned = agent /\ table[j].state \in Leased}

JobSupported(job, capabilities) ==
    job.kind = CheckKind => CompileCapability \in capabilities

(* Slip: a claim may take over what another claim already holds.             *)
TakeOver(table, agent, capabilities) ==
    {j \in DOMAIN table :
        /\ table[j].state \in {"queued", "claimed"}
        /\ table[j].target \in {None, agent}
        /\ JobSupported(table[j], capabilities)}

Claimable(table, agent, capabilities) ==
    {j \in DOMAIN table :
        /\ table[j].state = "queued"
        /\ table[j].target \in {None, agent}
        /\ JobSupported(table[j], capabilities)}

Oldest(table, S) == {j \in S : \A i \in S : table[j].created <= table[i].created}

LeaseMatches(job, agent, lease) == job.assigned = agent /\ job.lease = lease

NewJob(kind, owner, target, requested, t) ==
    [kind |-> kind, state |-> "queued", target |-> target, assigned |-> None,
     owner |-> owner, source |-> (kind = CheckKind),
     timeout |-> Clamp(requested,
                       IF kind = CheckKind THEN MaxCheckTimeout ELSE MaxProbeTimeout),
     lease |-> None, created |-> t, claimed |-> None, deadline |-> None,
     completed |-> None]

Put(table, id, job) ==
    [j \in DOMAIN table \cup {id} |-> IF j = id THEN job ELSE table[j]]

(* What every operation does before its own work, and all that a read or a   *)
(* refused operation does.                                                   *)
Enter(t) == t \in Readings /\ now' = t /\ UNCHANGED clock

-----------------------------------------------------------------------------
Init ==
    /\ jobs = [j \in {} |-> None]
    /\ issued = {} /\ leases = 0 /\ clock = 0 /\ now = 0

(* submit_probe *)
SubmitProbe(id, target, requested, t) ==
    LET table == Reaped(t) IN
    /\ Enter(t) /\ clock <= LastSubmit
    /\ id \notin issued
    /\ Cardinality(DOMAIN table) < MaxJobs
    /\ jobs' = Put(table, id, NewJob(ProbeKind, None, target, requested, t))
    /\ issued' = issued \cup {id}
    /\ UNCHANGED leases

(* submit_compile_check_scoped: owner = None for staff; a user's check names *)
(* its agent and counts against the user's quota.                            *)
SubmitCheck(id, owner, target, requested, t) ==
    LET table == Reaped(t) IN
    /\ Enter(t) /\ clock <= LastSubmit
    /\ id \notin issued
    /\ owner # None => target # None
    /\ owner # None =>
          Cardinality(ActiveChecks(table, owner)) < MaxUserActiveChecks
    /\ Cardinality(DOMAIN table) < MaxJobs
    /\ jobs' = Put(table, id, NewJob(CheckKind, owner, target, requested, t))
    /\ issued' = issued \cup {id}
    /\ UNCHANGED leases

Claimed(job, agent, lease, t) ==
    [job EXCEPT !.state = "claimed", !.assigned = agent, !.lease = lease,
                !.claimed = t, !.deadline = t + job.timeout, !.source = FALSE]

(* Slips: every claim hands out the same token; the queue trusts the agent   *)
(* about what it already holds.                                              *)
ClaimSameToken(id, agent, maxActive, capabilities, t) ==
    LET table == Reaped(t) IN
    /\ Enter(t)
    /\ maxActive \in 1 .. MaxClaim
    /\ Cardinality(HeldBy(table, agent)) < maxActive
    /\ id \in Oldest(table, Claimable(table, agent, capabilities))
    /\ leases' = 1
    /\ jobs' = [table EXCEPT ![id] = Claimed(@, agent, 1, t)]
    /\ UNCHANGED issued

ClaimUncounted(id, agent, maxActive, capabilities, t) ==
    LET table == Reaped(t) IN
    /\ Enter(t)
    /\ maxActive \in 1 .. MaxClaim
    /\ id \in Oldest(table, Claimable(table, agent, capabilities))
    /\ leases' = leases + 1
    /\ jobs' = [table EXCEPT ![id] = Claimed(@, agent, leases + 1, t)]
    /\ UNCHANGED issued

(* claim: hand the oldest job the agent may run to it, under a fresh lease.  *)
ClaimJob(id, agent, maxActive, capabilities, t) ==
    LET table == Reaped(t) IN
    /\ Enter(t)
    /\ maxActive \in 1 .. MaxClaim
    /\ Cardinality(HeldBy(table, agent)) < maxActive
    /\ id \in Oldest(table, Claimable(table, agent, capabilities))
    /\ leases' = leases + 1
    /\ jobs' = [table EXCEPT ![id] = Claimed(@, agent, leases + 1, t)]
    /\ UNCHANGED issued

(* cancel_scoped on a job no agent has yet: it is cancelled on the spot.     *)
CancelQueued(id, caller, t) ==
    LET table == Reaped(t) IN
    /\ Enter(t)
    /\ id \in DOMAIN table
    /\ caller \in {None, table[id].owner}
    /\ table[id].state = "queued"
    /\ jobs' = [table EXCEPT ![id] = [@ EXCEPT !.state = "cancelled",
                                               !.source = FALSE,
                                               !.completed = t]]
    /\ UNCHANGED <<issued, leases>>

(* Slip: a running job is shown as cancelled before its agent agreed.        *)
CancelAtOnce(id, caller, t) ==
    LET table == Reaped(t) IN
    /\ Enter(t)
    /\ id \in DOMAIN table
    /\ caller \in {None, table[id].owner}
    /\ table[id].state = "claimed"
    /\ jobs' = [table EXCEPT ![id] = [@ EXCEPT !.state = "cancelled", !.completed = t]]
    /\ UNCHANGED <<issued, leases>>

(* cancel_scoped on a claimed job: the agent that holds it must agree.       *)
CancelClaimed(id, caller, t) ==
    LET table == Reaped(t) IN
    /\ Enter(t)
    /\ id \in DOMAIN table
    /\ caller \in {None, table[id].owner}
    /\ table[id].state = "claimed"
    /\ jobs' = [table EXCEPT ![id] = [@ EXCEPT !.state = "cancel_requested"]]
    /\ UNCHANGED <<issued, leases>>

(* Slip: a late result revives a job that ended.                             *)
CompleteLate(id, agent, lease, result, t) ==
    LET table == Reaped(t) IN
    /\ Enter(t)
    /\ id \in DOMAIN table
    /\ LeaseMatches(table[id], agent, lease)
    /\ table[id].state = "cancel_requested" => result = "cancelled"
    /\ jobs' = [table EXCEPT ![id] = [@ EXCEPT !.state = result, !.completed = t]]
    /\ UNCHANGED <<issued, leases>>

(* complete: the holder of the lease reports the outcome.                    *)
Complete(id, agent, lease, result, t) ==
    LET table == Reaped(t) IN
    /\ Enter(t)
    /\ id \in DOMAIN table
    /\ LeaseMatches(table[id], agent, lease)
    /\ table[id].state \in Leased
    /\ table[id].state = "cancel_requested" => result = "cancelled"
    /\ jobs' = [table EXCEPT ![id] = [@ EXCEPT !.state = result, !.completed = t]]
    /\ UNCHANGED <<issued, leases>>

(* job_for_owner, sync, inventory, a claim that finds nothing, and every     *)
(* call refused after the lock: the table is reaped and nothing else.        *)
Observe(t) ==
    /\ Enter(t)
    /\ jobs' = Reaped(t)
    /\ UNCHANGED <<issued, leases>>

Tick ==
    /\ clock < Horizon
    /\ clock' = clock + 1
    /\ UNCHANGED <<jobs, issued, leases, now>>

Next ==
    \/ \E id \in JobIds, t \in Readings :
        \/ \E target \in Agents \cup {None}, r \in RequestedTimeouts :
              SubmitProbe(id, target, r, t)
        \/ \E owner \in Owners \cup {None}, target \in Agents \cup {None},
              r \in RequestedTimeouts : SubmitCheck(id, owner, target, r, t)
        \/ \E agent \in Agents, maxActive \in 1 .. MaxClaim,
              capabilities \in SUBSET {CompileCapability} :
              ClaimJob(id, agent, maxActive, capabilities, t)
        \/ \E caller \in Owners \cup {None} :
              CancelQueued(id, caller, t) \/ CancelClaimed(id, caller, t)
        \/ \E agent \in Agents, lease \in 1 .. leases, result \in ResultStates :
              Complete(id, agent, lease, result, t)
    \/ \E t \in Readings : Observe(t)
    \/ Tick

(* Time passes, and somebody keeps calling the queue: each agent claims on   *)
(* its poll interval and the user's page reads the job's status.             *)
Fairness == WF_queueVars(Tick) /\ WF_queueVars(\E t \in Readings : Observe(t))

Spec == Init /\ [][Next]_queueVars /\ Fairness

-----------------------------------------------------------------------------
TypeOK ==
    /\ jobs \in [DOMAIN jobs -> JobRecord]
    /\ DOMAIN jobs \subseteq issued
    /\ issued \subseteq JobIds
    /\ leases \in Nat /\ clock \in Int /\ now \in Int

(* MAX_USER_ACTIVE_CHECKS: however submissions, claims, cancels and late     *)
(* results interleave, no user occupies more than the allowed slots.         *)
OwnerQuota ==
    \A owner \in Owners :
        Cardinality(ActiveChecks(jobs, owner)) <= MaxUserActiveChecks

(* MAX_JOBS: the table never outgrows its limit, retained records included.  *)
TableBounded == Cardinality(DOMAIN jobs) <= MaxJobs

(* A lease names one job: no two records carry the same token, and exactly   *)
(* the jobs that were claimed carry one, with their agent and deadline. The  *)
(* result and sync handlers rely on it to tell two claims apart.             *)
LeaseIntegrity ==
    /\ \A j \in DOMAIN jobs :
        LET job == jobs[j] IN
        /\ job.lease # None => job.lease \in 1 .. leases
        /\ (job.lease # None) <=> (job.assigned # None)
        /\ (job.lease # None) <=> (job.deadline # None)
        /\ job.state = "queued" => job.lease = None
        /\ job.state \in Leased \cup {"succeeded", "failed"} => job.lease # None
    /\ \A i, j \in DOMAIN jobs :
        i # j /\ jobs[i].lease # None => jobs[i].lease # jobs[j].lease

(* The queue keeps a user's source exactly while the check is waiting: it    *)
(* leaves with the claim, and a cancelled or expired check drops it.         *)
SourceCustody ==
    \A j \in DOMAIN jobs :
        jobs[j].source <=> jobs[j].state = "queued" /\ jobs[j].kind = CheckKind

(* The table, over every order of operations: quota and size hold, tokens    *)
(* tell claims apart, and sources are held no longer than they are needed.   *)
TableSound ==
    TypeOK /\ OwnerQuota /\ TableBounded /\ LeaseIntegrity /\ SourceCustody

(* reap's comment: "a lost submission response/cancellation must not occupy  *)
(* a user's two slots forever". After any operation, a user's check that is  *)
(* still active is younger than the queueing time plus the longest lease.    *)
SlotsFreedInTime ==
    \A j \in DOMAIN jobs :
        jobs[j].owner # None /\ jobs[j].state \notin Terminal =>
            /\ jobs[j].state = "queued" => now - jobs[j].created < UserCheckQueueTimeout
            /\ now - jobs[j].created < UserCheckQueueTimeout + MaxCheckTimeout

(* A record that reached a terminal state keeps its outcome, its lease and   *)
(* its completion time, whatever late result, cancel or claim arrives, and   *)
(* is forgotten only once the retention has run out.                         *)
OutcomeIsFinal ==
    [][\A j \in DOMAIN jobs : jobs[j].state \in Terminal =>
          \/ j \in DOMAIN jobs' /\ jobs'[j] = jobs[j]
          \/ j \notin DOMAIN jobs' /\ now' - jobs[j].completed > TerminalRetention]_queueVars

(* A job is claimed at most once, and a waiting or running job never falls   *)
(* out of the table: a lease that expires ends the job, it is not requeued.  *)
ClaimedAtMostOnce ==
    [][\A j \in DOMAIN jobs :
          /\ jobs[j].state \notin Terminal => j \in DOMAIN jobs'
          /\ j \in DOMAIN jobs' /\ jobs[j].lease # None =>
                /\ jobs'[j].lease = jobs[j].lease
                /\ jobs'[j].assigned = jobs[j].assigned
                /\ jobs'[j].state # "queued"]_queueVars

(* Once a cancel of a running job was accepted, no result but Cancelled (or  *)
(* the lease's expiry) can end it, and the request is never taken back.      *)
CancelIsHonoured ==
    [][\A j \in DOMAIN jobs : jobs[j].state = "cancel_requested" =>
          jobs'[j].state \in {"cancel_requested", "cancelled", "expired"}]_queueVars

(* A record moves forward only, however results, cancels, claims and         *)
(* timeouts are ordered: claimed once, cancelled for good, final at the end. *)
LifeCycle == OutcomeIsFinal /\ ClaimedAtMostOnce /\ CancelIsHonoured

(* Every check a user submits stops occupying the user's slots.              *)
ChecksTerminate ==
    \A j \in JobIds :
        (j \in DOMAIN jobs /\ jobs[j].owner # None)
            ~> (j \notin DOMAIN jobs \/ jobs[j].state \in Terminal)
=============================================================================
