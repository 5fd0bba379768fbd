------------------------- MODULE RunnerFleetProofs -------------------------
(* The control plane keeps the promise of JobService for any number of jobs, *)
(* agents, faults and restarts: no job's work is started twice, and a result *)
(* belongs to work that was done or to a request that was made.              *)
(*                                                                           *)
(* The invariant follows the right to work on a job: the answer to a claim   *)
(* (a ticket), then the agent that heard it, up to its report.  One holder   *)
(* has it at a time; while the work has not started nothing reports on it.   *)
EXTENDS RunnerFleet, RunnerJobQueueProofs

Fields == {"agent", "op", "cred", "job", "lease", "result", "state", "active",
           "stage", "live", "max", "ids", "reply", "got"}
AgentFields == {"pc", "cred", "job", "kind", "lease", "due", "result", "after"}
IsCall(c) == c = [f \in Fields |-> c[f]] /\ c.agent \in Agents /\ c.live \in BOOLEAN
IsAgent(me) == me = [f \in AgentFields |-> me[f]]

(* Where a job stands: out of the queue for good; without a result; held or  *)
(* left only after a cancellation was asked for, or ended.                   *)
Taken(j) == j \in issued /\ (j \in DOMAIN jobs => jobs[j].state # "queued")
Open(j) == Taken(j) /\ (j \in DOMAIN jobs => jobs[j].state \notin ResultStates)
Asked(j) == Taken(j) /\ (j \in DOMAIN jobs => jobs[j].state # "claimed")
Earned(j) == j \in DOMAIN jobs /\ jobs[j].state = "succeeded" => runs[j] = 1

(* Who may work on it.                                                       *)
Early == {"announce", "sync", "execute"}
Knowing == Early \cup {"running", "report", "resync"}
Ticket(c) == c.live /\ c.op = "claim" /\ c.got # None
Carries(a, j) == \E c \in calls : c.agent = a /\ Ticket(c) /\ c.got.job = j
At(a, pcs, j) == agent[a].pc \in pcs /\ agent[a].job = j
Has(a, j) == Carries(a, j) \/ At(a, Knowing, j)
Unworked(a, j) == Carries(a, j) \/ At(a, Early, j)
Works(a, j) == At(a, {"running"}, j)
Reported(j) == \E c \in calls : c.op = "result" /\ c.job = j

(* The call an agent waits for is the one its state expects.                 *)
Expected(c, me) ==
    /\ me.pc \in Waiting
    /\ c.op = "claim" <=> me.pc = "claim"
    /\ me.pc \in {"sync", "resync"} => c.op = "sync" /\ c.job = me.job

Shapes ==
    /\ \A c \in calls : IsCall(c)
    /\ agent = [a \in Agents |-> agent[a]] /\ \A a \in Agents : IsAgent(agent[a])
    /\ DOMAIN registry \subseteq Agents
    /\ runs \in [JobIds -> {0, 1}]
    /\ \A c \in calls : Ticket(c) => c.got.job \in JobIds
    /\ \A a \in Agents : agent[a].pc \in Knowing => agent[a].job \in JobIds
Waits ==
    /\ \A c \in calls : c.live => Expected(c, agent[c.agent])
    /\ \A c, d \in calls : c.live /\ d.live /\ c.agent = d.agent => c = d
Rights ==
    \A a \in Agents, j \in JobIds :
        /\ Has(a, j) => Taken(j)
        /\ Unworked(a, j) => Open(j) /\ runs[j] = 0 /\ ~Reported(j)
        /\ Works(a, j) => Open(j) /\ runs[j] = 1 /\ ~Reported(j)
OneHolder == \A a, b \in Agents, j \in JobIds : Has(a, j) /\ Has(b, j) => a = b
Reports ==
    \A c \in calls : c.op = "result" =>
        /\ Taken(c.job) /\ c.result \in ResultStates
        /\ c.result = "succeeded" => runs[c.job] = 1
        /\ c.result = "cancelled" => Asked(c.job)
Verdicts == \A c \in calls : c.live /\ c.op = "sync" /\ c.got = "cancel" => Asked(c.job)
Work == \A j \in JobIds : Earned(j) /\ (runs[j] = 1 => Taken(j))

FInv == Shapes /\ Waits /\ Rights /\ OneHolder /\ Reports /\ Verdicts /\ Work
FleetInv == IInv /\ FInv

-----------------------------------------------------------------------------
(* What one step does to one job: nothing but its timeout and oblivion, its  *)
(* birth, or a move from one state to another.                               *)
Quiet(j) ==
    /\ j \in issued' <=> j \in issued
    /\ j \in DOMAIN jobs' =>
          /\ j \in DOMAIN jobs
          /\ \/ jobs'[j].state = jobs[j].state
             \/ jobs[j].state \notin Terminal /\ jobs'[j].state = "expired"
Born(j) ==
    /\ j \notin issued /\ j \in issued' /\ j \in DOMAIN jobs' /\ jobs'[j].state = "queued"
Moved(j, from, to) ==
    /\ j \in issued /\ j \in issued' /\ j \in DOMAIN jobs /\ j \in DOMAIN jobs'
    /\ jobs[j].state = from /\ jobs'[j].state = to
QuietBut(id) == \A j \in JobIds : j # id => Quiet(j)

(* Reaping is quiet.                                                         *)
LEMMA ReapedFacts ==
    ASSUME IInv, NEW t \in Readings
    PROVE  /\ t \in Int /\ DOMAIN Reaped(t) \subseteq DOMAIN jobs /\ DOMAIN jobs \subseteq issued
           /\ \A j \in DOMAIN Reaped(t) :
                 \/ Reaped(t)[j] = jobs[j]
                 \/ jobs[j].state \notin Terminal /\ Reaped(t)[j].state = "expired"
<1>1. t \in Int /\ leases \in Nat /\ DOMAIN jobs \subseteq issued
  BY DEF IInv, Readings
<1>2. DOMAIN Reaped(t) \subseteq DOMAIN jobs
  BY DEF Reaped
<1>3. ASSUME NEW j \in DOMAIN Reaped(t)
      PROVE  \/ Reaped(t)[j] = jobs[j]
             \/ jobs[j].state \notin Terminal /\ Reaped(t)[j].state = "expired"
  <2>1. j \in DOMAIN jobs /\ Reaped(t)[j] = TimedOut(jobs[j], t)
    BY <1>3 DEF Reaped
  <2>2. jobs[j] \in JobRecord /\ JobOK(jobs[j], leases)
    BY <2>1 DEF IInv, TableOK, RecordsOK
  <2> QED BY <1>1, <2>1, <2>2, TimedOutFacts
<1> QED BY <1>1, <1>2, <1>3

LEMMA ObserveMoves ==
    ASSUME IInv, NEW t \in Readings, Observe(t)
    PROVE  \A j \in JobIds : Quiet(j)
<1>1. jobs' = Reaped(t) /\ issued' = issued
  BY DEF Observe
<1> QED BY <1>1, ReapedFacts DEF Quiet

LEMMA PutMoves ==
    ASSUME IInv, NEW t \in Readings, NEW id \in JobIds, id \notin issued, NEW job,
           job.state = "queued", jobs' = Put(Reaped(t), id, job), issued' = issued \cup {id}
    PROVE  Born(id) /\ QuietBut(id)
<1>1. /\ DOMAIN jobs' = DOMAIN Reaped(t) \cup {id}
      /\ \A j \in DOMAIN jobs' : jobs'[j] = IF j = id THEN job ELSE Reaped(t)[j]
  BY DEF Put
<1>2. QuietBut(id)
  BY <1>1, ReapedFacts DEF QuietBut, Quiet
<1>3. Born(id)
  BY <1>1 DEF Born
<1> QED BY <1>2, <1>3

LEMMA SubmitMoves ==
    ASSUME IInv, NEW t \in Readings, NEW id \in JobIds, NEW target, NEW r, NEW owner,
           SubmitProbe(id, target, r, t) \/ SubmitCheck(id, owner, target, r, t)
    PROVE  Born(id) /\ QuietBut(id)
<1>1. \A kind, o : NewJob(kind, o, target, r, t).state = "queued"
  BY DEF NewJob
<1>2. CASE SubmitProbe(id, target, r, t)
  BY <1>1, <1>2, PutMoves DEF SubmitProbe
<1>3. CASE SubmitCheck(id, owner, target, r, t)
  BY <1>1, <1>3, PutMoves DEF SubmitCheck
<1> QED BY <1>2, <1>3

(* An operation on a record that reaping left as it was.                     *)
LEMMA ReplaceMoves ==
    ASSUME IInv, NEW t \in Readings, NEW id \in DOMAIN Reaped(t),
           Reaped(t)[id].state \notin Terminal, NEW job,
           jobs' = [Reaped(t) EXCEPT ![id] = job], issued' = issued
    PROVE  Moved(id, Reaped(t)[id].state, job.state) /\ QuietBut(id)
<1>1. /\ DOMAIN jobs' = DOMAIN Reaped(t)
      /\ \A j \in DOMAIN jobs' : jobs'[j] = IF j = id THEN job ELSE Reaped(t)[j]
  OBVIOUS
<1>2. Reaped(t)[id] = jobs[id]
  BY ReapedFacts DEF Terminal
<1>3. Moved(id, Reaped(t)[id].state, job.state)
  BY <1>1, <1>2, ReapedFacts DEF Moved
<1>4. QuietBut(id)
  BY <1>1, ReapedFacts DEF QuietBut, Quiet
<1> QED BY <1>3, <1>4

LEMMA ReapedRecord ==
    ASSUME IInv, NEW t \in Readings, NEW id \in DOMAIN Reaped(t)
    PROVE  Reaped(t)[id] \in JobRecord /\ JobOK(Reaped(t)[id], leases) /\ id \in JobIds
BY ReapedFacts, Entered DEF IInv

LEMMA ClaimMoves ==
    ASSUME IInv, NEW t \in Readings, NEW id, NEW a, NEW n, NEW caps, ClaimJob(id, a, n, caps, t)
    PROVE  Moved(id, "queued", "claimed") /\ QuietBut(id)
<1> DEFINE old == Reaped(t)[id]
           job == Claimed(old, a, leases + 1, t)
<1>1. /\ id \in DOMAIN Reaped(t) /\ old.state = "queued" /\ issued' = issued
      /\ jobs' = [Reaped(t) EXCEPT ![id] = job]
  BY DEF ClaimJob, Oldest, Claimable
<1>2. job.state = "claimed"
  BY <1>1, ReapedRecord DEF Claimed, JobRecord
<1> HIDE DEF job
<1> QED BY <1>1, <1>2, ReplaceMoves DEF Terminal

LEMMA CancelMoves ==
    ASSUME IInv, NEW t \in Readings, NEW id, NEW caller,
           CancelQueued(id, caller, t) \/ CancelClaimed(id, caller, t)
    PROVE  /\ Moved(id, "queued", "cancelled") \/ Moved(id, "claimed", "cancel_requested")
           /\ QuietBut(id)
<1> DEFINE old == Reaped(t)[id]
<1>1. CASE CancelQueued(id, caller, t)
  <2> DEFINE job == [old EXCEPT !.state = "cancelled", !.source = FALSE, !.completed = t]
  <2>1. /\ id \in DOMAIN Reaped(t) /\ old.state = "queued" /\ issued' = issued
        /\ jobs' = [Reaped(t) EXCEPT ![id] = job]
    BY <1>1 DEF CancelQueued
  <2>2. job.state = "cancelled"
    BY <2>1, ReapedRecord DEF JobRecord
  <2> HIDE DEF job
  <2> QED BY <2>1, <2>2, ReplaceMoves DEF Terminal
<1>2. CASE CancelClaimed(id, caller, t)
  <2> DEFINE job == [old EXCEPT !.state = "cancel_requested"]
  <2>1. /\ id \in DOMAIN Reaped(t) /\ old.state = "claimed" /\ issued' = issued
        /\ jobs' = [Reaped(t) EXCEPT ![id] = job]
    BY <1>2 DEF CancelClaimed
  <2>2. job.state = "cancel_requested"
    BY <2>1, ReapedRecord DEF JobRecord
  <2> HIDE DEF job
  <2> QED BY <2>1, <2>2, ReplaceMoves DEF Terminal
<1> QED BY <1>1, <1>2

LEMMA CompleteMoves ==
    ASSUME IInv, NEW t \in Readings, NEW id, NEW a, NEW lease, NEW result \in ResultStates,
           Complete(id, a, lease, result, t)
    PROVE  /\ \/ Moved(id, "claimed", result)
              \/ Moved(id, "cancel_requested", result) /\ result = "cancelled"
           /\ QuietBut(id)
<1> DEFINE old == Reaped(t)[id]
           job == [old EXCEPT !.state = result, !.completed = t]
<1>1. /\ id \in DOMAIN Reaped(t) /\ old.state \in Leased /\ issued' = issued
      /\ old.state = "cancel_requested" => result = "cancelled"
      /\ jobs' = [Reaped(t) EXCEPT ![id] = job]
  BY DEF Complete
<1>2. job.state = result
  BY <1>1, ReapedRecord DEF JobRecord
<1> HIDE DEF job
<1>3. Moved(id, old.state, result) /\ QuietBut(id)
  BY <1>1, <1>2, ReplaceMoves DEF Terminal, Leased
<1> QED BY <1>1, <1>3 DEF Leased

-----------------------------------------------------------------------------
(* What a move of a job leaves true of it.                                   *)
Keeps(j) ==
    /\ Taken(j) => Taken(j)'
    /\ Asked(j) => Asked(j)'
    /\ Open(j) => Open(j)'
    /\ Earned(j) /\ runs'[j] = runs[j] => Earned(j)'

LEMMA QuietKeeps ==
    ASSUME NEW j, Quiet(j)
    PROVE  Keeps(j)
BY DEF Quiet, Keeps, Taken, Asked, Open, Earned, Terminal, ResultStates

LEMMA BornKeeps ==
    ASSUME NEW j, Born(j)
    PROVE  Keeps(j)
BY DEF Born, Keeps, Taken, Asked, Open, Earned, ResultStates

LEMMA MovedKeeps ==
    ASSUME NEW j,
           \/ Moved(j, "queued", "claimed") \/ Moved(j, "queued", "cancelled")
           \/ Moved(j, "claimed", "cancel_requested")
    PROVE  Keeps(j)
BY DEF Moved, Keeps, Taken, Asked, Open, Earned, ResultStates

-----------------------------------------------------------------------------
(* Handlers.  A call is replaced by its next stage, by its answer, or by     *)
(* nothing; the job it grants, if any, was nobody's.                         *)
Same(c, d) ==
    /\ d.agent = c.agent /\ d.op = c.op /\ d.job = c.job /\ d.result = c.result
    /\ d.live = c.live
Succeeds(c, d) ==
    /\ IsCall(d) /\ Same(c, d)
    /\ Ticket(d) => \/ d.got = c.got
                    \/ /\ d.got.job \in JobIds
                       /\ ~Taken(d.got.job) /\ Open(d.got.job)'
    /\ d.live /\ d.op = "sync" /\ d.got = "cancel" => d.got = c.got \/ Asked(d.job)'

LEMMA ServeKeeps ==
    ASSUME FInv, NEW c \in calls, UNCHANGED <<agent, runs>>, DOMAIN registry' \subseteq Agents,
           NEW D, calls' = (calls \ {c}) \cup D,
           \A d \in D : Succeeds(c, d), \A d, e \in D : d = e,
           \A j \in JobIds : /\ Taken(j) => Taken(j)'
                             /\ Asked(j) => Asked(j)'
                             /\ Open(j) => Open(j)' \/ Reported(j)
                             /\ Earned(j)',
           issued \subseteq JobIds
    PROVE  FInv'
<1>1. ASSUME NEW d \in calls'
      PROVE  /\ IsCall(d)
             /\ \E o \in calls :
                  /\ Same(o, d)
                  /\ Ticket(d) => \/ Ticket(o) /\ d.got = o.got
                                  \/ /\ d.got.job \in JobIds
                                     /\ ~Taken(d.got.job) /\ Open(d.got.job)'
                  /\ d.live /\ d.op = "sync" /\ d.got = "cancel" =>
                        d.got = o.got \/ Asked(d.job)'
  <2>1. CASE d \in calls
    BY <2>1 DEF FInv, Shapes, Same
  <2>2. CASE d \in D
    BY <2>2 DEF Succeeds, Same, Ticket
  <2> QED BY <2>1, <2>2
<1>2. Waits'
  <2>1. \A d \in calls' : d.live => Expected(d, agent[d.agent])
    BY <1>1 DEF FInv, Waits, Same, Expected
  <2>2. ASSUME NEW d \in calls', NEW e \in calls', d.live, e.live, d.agent = e.agent
        PROVE  d = e
    <3>1. CASE d \in calls \ {c} /\ e \in calls \ {c}
      BY <2>2, <3>1 DEF FInv, Waits
    <3>2. CASE d \in D /\ e \in D
      BY <3>2
    <3>3. ASSUME NEW x \in calls \ {c}, NEW y \in D, x.live, y.live, x.agent = y.agent
          PROVE  FALSE
      <4>1. c.live /\ c.agent = x.agent
        BY <3>3 DEF Succeeds, Same
      <4> QED BY <3>3, <4>1 DEF FInv, Waits
    <3> QED BY <2>2, <3>1, <3>2, <3>3
  <2> QED BY <2>1, <2>2 DEF Waits
<1>3. \A a \in Agents, j \in JobIds :
        Carries(a, j)' => Carries(a, j) \/ (~Taken(j) /\ Open(j)')
  BY <1>1 DEF Carries, Same
<1>4. \A j \in JobIds : Reported(j)' => Reported(j)
  BY <1>1 DEF Reported, Same
<1>5. \A a \in Agents, j \in JobIds, pcs \in {Early, Knowing, {"running"}} : At(a, pcs, j)' = At(a, pcs, j)
  BY DEF At
<1>6. \A j \in JobIds : Open(j)' => Taken(j)'
  BY DEF Open
<1>7. \A j \in JobIds : Reported(j) => Taken(j)
  BY DEF Reported, FInv, Reports
<1>8. \A j \in JobIds : runs[j] = 1 => Taken(j)
  BY DEF FInv, Work
<1>9. \A j \in JobIds : runs[j] \in {0, 1} /\ runs'[j] = runs[j]
  BY DEF FInv, Shapes
<1>10. Rights'
  <2> SUFFICES ASSUME NEW a \in Agents, NEW j \in JobIds
               PROVE  /\ Has(a, j)' => Taken(j)'
                      /\ Unworked(a, j)' => Open(j)' /\ runs'[j] = 0 /\ ~Reported(j)'
                      /\ Works(a, j)' => Open(j)' /\ runs'[j] = 1 /\ ~Reported(j)'
    BY DEF Rights
  <2>1. /\ Has(a, j) => Taken(j)
        /\ Unworked(a, j) => Open(j) /\ runs[j] = 0 /\ ~Reported(j)
        /\ Works(a, j) => Open(j) /\ runs[j] = 1 /\ ~Reported(j)
    BY DEF FInv, Rights
  <2>2. /\ Has(a, j)' => Has(a, j) \/ (~Taken(j) /\ Open(j)')
        /\ Unworked(a, j)' => Unworked(a, j) \/ (~Taken(j) /\ Open(j)')
        /\ Works(a, j)' => Works(a, j)
    BY <1>3, <1>5 DEF Has, Unworked, Works
  <2> QED BY <1>4, <1>6, <1>7, <1>8, <1>9, <2>1, <2>2
<1>11. OneHolder'
  <2> SUFFICES ASSUME NEW a \in Agents, NEW b \in Agents, NEW j \in JobIds, Has(a, j)', Has(b, j)'
               PROVE  a = b
    BY DEF OneHolder
  <2>1. CASE Taken(j)
    <3>1. Has(a, j) /\ Has(b, j)
      BY <1>3, <1>5, <2>1 DEF Has
    <3> QED BY <3>1 DEF FInv, OneHolder
  <2>2. CASE ~Taken(j)
    <3>1. ~Has(a, j) /\ ~Has(b, j)
      BY <2>2 DEF FInv, Rights
    <3>2. \A x \in calls' : Ticket(x) /\ x.got.job = j => x \in D
      BY <2>2, <3>1, <1>7 DEF FInv, Rights, Has, Carries, Shapes, IsCall
    <3>3. /\ \E x \in calls' : x.agent = a /\ Ticket(x) /\ x.got.job = j
          /\ \E x \in calls' : x.agent = b /\ Ticket(x) /\ x.got.job = j
      BY <1>5, <3>1 DEF Has, Carries
    <3> QED BY <3>2, <3>3
  <2> QED BY <2>1, <2>2
<1>12. Reports'
  <2> SUFFICES ASSUME NEW d \in calls', d.op = "result"
               PROVE  /\ Taken(d.job)' /\ d.result \in ResultStates
                      /\ d.result = "succeeded" => runs'[d.job] = 1
                      /\ d.result = "cancelled" => Asked(d.job)'
    BY DEF Reports
  <2>1. PICK o \in calls : Same(o, d)
    BY <1>1
  <2>2. /\ Taken(d.job) /\ d.result \in ResultStates
        /\ d.result = "succeeded" => runs[d.job] = 1
        /\ d.result = "cancelled" => Asked(d.job)
    BY <2>1 DEF FInv, Reports, Same
  <2>3. d.job \in JobIds
    BY <2>2 DEF Taken
  <2> QED BY <1>9, <2>2, <2>3
<1>13. Verdicts'
  <2> SUFFICES ASSUME NEW d \in calls', d.live, d.op = "sync", d.got = "cancel"
               PROVE  Asked(d.job)'
    BY DEF Verdicts
  <2>1. PICK o \in calls : Same(o, d) /\ (d.got = o.got \/ Asked(d.job)')
    BY <1>1
  <2>2. CASE d.got = o.got
    <3>1. Asked(d.job)
      BY <2>1, <2>2 DEF FInv, Verdicts, Same
    <3>2. d.job \in JobIds
      BY <3>1 DEF Asked, Taken
    <3> QED BY <3>1, <3>2
  <2> QED BY <2>1, <2>2
<1>14. Work'
  BY <1>8, <1>9 DEF Work
<1>15. Shapes'
  BY <1>1 DEF FInv, Shapes
<1> QED BY <1>2, <1>10, <1>11, <1>12, <1>13, <1>14, <1>15 DEF FInv

(* The table of jobs, as a step of a handler may leave it.                   *)
TableFits ==
    \A j \in JobIds : /\ Taken(j) => Taken(j)'
                      /\ Asked(j) => Asked(j)'
                      /\ Open(j) => Open(j)' \/ Reported(j)
                      /\ Earned(j)'

LEMMA TableFitsIfKept ==
    ASSUME FInv, UNCHANGED runs, \A j \in JobIds : Keeps(j)
    PROVE  TableFits
BY DEF TableFits, Keeps, FInv, Work

LEMMA TableFitsIfMoved ==
    ASSUME FInv, UNCHANGED runs, NEW id \in JobIds, Keeps(id), QuietBut(id)
    PROVE  TableFits
<1>1. \A j \in JobIds : Keeps(j)
  BY QuietKeeps DEF QuietBut
<1> QED BY <1>1, TableFitsIfKept

LEMMA TableFitsIfQuiet ==
    ASSUME FInv, UNCHANGED runs, \A j \in JobIds : Quiet(j)
    PROVE  TableFits
BY QuietKeeps, TableFitsIfKept

LEMMA TableFitsIfSame ==
    ASSUME FInv, UNCHANGED <<queueVars, runs>>
    PROVE  TableFits
<1>1. \A j \in JobIds : Quiet(j)
  BY DEF Quiet, queueVars
<1> QED BY <1>1, TableFitsIfQuiet

(* The next stage of a call.                                                 *)
LEMMA AdvanceKeeps ==
    ASSUME FInv, issued \subseteq JobIds, NEW c \in calls, UNCHANGED <<agent, runs>>, TableFits,
           DOMAIN registry' \subseteq Agents,
           NEW d, IsCall(d), Same(c, d), d.got = c.got, Advance(c, d)
    PROVE  FInv'
<1> DEFINE D == {d}
<1>1. calls' = (calls \ {c}) \cup D /\ \A x, y \in D : x = y
  BY DEF Advance
<1>2. \A x \in D : Succeeds(c, x)
  BY DEF Succeeds
<1> HIDE DEF D
<1> QED BY <1>1, <1>2, ServeKeeps DEF TableFits

(* Its answer.                                                               *)
LEMMA AnswerKeeps ==
    ASSUME FInv, issued \subseteq JobIds, NEW c \in calls, UNCHANGED <<agent, runs>>, TableFits,
           DOMAIN registry' \subseteq Agents,
           NEW status, NEW body, Answer(c, status, body),
           c.op = "claim" /\ body # None =>
               body.job \in JobIds /\ ~Taken(body.job) /\ Open(body.job)',
           c.op = "sync" /\ body = "cancel" => Asked(c.job)'
    PROVE  FInv'
<1> DEFINE d == [c EXCEPT !.stage = "answered", !.reply = status, !.got = body]
           D == IF c.live THEN {d} ELSE {}
<1>1. calls' = (calls \ {c}) \cup D /\ \A x, y \in D : x = y
  BY DEF Answer
<1>2. IsCall(d) /\ Same(c, d) /\ d.got = body
  <2>1. IsCall(c)
    BY DEF FInv, Shapes
  <2> QED BY <2>1 DEF IsCall, Fields, Same
<1> HIDE DEF d
<1>3. \A x \in D : x = d
  OBVIOUS
<1>4. Succeeds(c, d)
  BY <1>2 DEF Succeeds, Same, Ticket
<1>5. \A x \in D : Succeeds(c, x)
  BY <1>3, <1>4
<1> HIDE DEF D
<1> QED BY <1>1, <1>5, ServeKeeps DEF TableFits

(* No call is touched.                                                       *)
LEMMA TableKeeps ==
    ASSUME FInv, issued \subseteq JobIds, UNCHANGED <<agent, runs, calls, registry>>, TableFits,
           \A j \in JobIds : Open(j) => Open(j)'
    PROVE  FInv'
<1>1. \A a \in Agents, j \in JobIds :
        /\ Has(a, j)' = Has(a, j) /\ Unworked(a, j)' = Unworked(a, j)
        /\ Works(a, j)' = Works(a, j) /\ Reported(j)' = Reported(j)
  BY DEF Has, Unworked, Works, Carries, At, Reported
<1>2. Rights' /\ OneHolder'
  BY <1>1 DEF FInv, Rights, OneHolder, TableFits
<1>3. \A j : Taken(j) \/ Asked(j) => j \in JobIds
  BY DEF Taken, Asked
<1>4. Reports' /\ Verdicts'
  BY <1>3 DEF FInv, Reports, Verdicts, TableFits
<1>5. Work'
  BY DEF FInv, Work, TableFits
<1>6. Shapes' /\ Waits'
  BY DEF FInv, Shapes, Waits
<1> QED BY <1>2, <1>4, <1>5, <1>6 DEF FInv

-----------------------------------------------------------------------------
(* The handlers one by one.                                                  *)
LEMMA PrunedIsOfAgents ==
    ASSUME FInv, NEW t
    PROVE  DOMAIN Pruned(t) \subseteq DOMAIN registry /\ DOMAIN registry \subseteq Agents
BY DEF Pruned, FInv, Shapes

LEMMA ServeRegisterKeeps ==
    ASSUME FInv, issued \subseteq JobIds, NEW c \in calls, ServeRegister(c)
    PROVE  FInv'
<1>1. /\ UNCHANGED <<agent, runs>> /\ TableFits /\ c.op = "register"
      /\ IsCall(c) /\ c.agent \in Agents
  BY TableFitsIfSame DEF ServeRegister, Idle, FInv, Shapes, IsCall
<1>2. DOMAIN registry' \subseteq Agents
  BY <1>1, PrunedIsOfAgents DEF ServeRegister
<1>3. CASE \E ids : Advance(c, [c EXCEPT !.stage = "listed", !.ids = ids])
  <2>1. PICK ids : Advance(c, [c EXCEPT !.stage = "listed", !.ids = ids])
    BY <1>3
  <2> DEFINE d == [c EXCEPT !.stage = "listed", !.ids = ids]
  <2>2. IsCall(d) /\ Same(c, d) /\ d.got = c.got
    BY <1>1 DEF IsCall, Fields, Same
  <2> HIDE DEF d
  <2>3. Advance(c, d)
    BY <2>1 DEF d
  <2> QED BY <1>1, <1>2, <2>2, <2>3, AdvanceKeeps
<1>4. CASE Answer(c, "400", None)
  BY <1>1, <1>2, <1>4, AnswerKeeps
<1> QED BY <1>3, <1>4 DEF ServeRegister

LEMMA ServeIssueKeeps ==
    ASSUME FInv, issued \subseteq JobIds, NEW c \in calls, ServeIssue(c)
    PROVE  FInv'
<1>1. /\ UNCHANGED <<agent, runs>> /\ TableFits /\ c.op = "register"
      /\ DOMAIN registry' \subseteq Agents
      /\ \E status, body : Answer(c, status, body)
  BY TableFitsIfSame DEF ServeIssue, Idle, FInv, Shapes
<1> QED BY <1>1, AnswerKeeps

LEMMA ServeVerifyKeeps ==
    ASSUME FInv, issued \subseteq JobIds, None # "cancel", NEW c \in calls, ServeVerify(c)
    PROVE  FInv'
<1>1. /\ UNCHANGED <<agent, runs>> /\ TableFits /\ DOMAIN registry' \subseteq Agents
      /\ IsCall(c)
  BY TableFitsIfSame DEF ServeVerify, Idle, FInv, Shapes, serverVars
<1>2. CASE Advance(c, [c EXCEPT !.stage = "verified"])
  <2> DEFINE d == [c EXCEPT !.stage = "verified"]
  <2>1. IsCall(d) /\ Same(c, d) /\ d.got = c.got
    BY <1>1 DEF IsCall, Fields, Same
  <2> HIDE DEF d
  <2>2. Advance(c, d)
    BY <1>2 DEF d
  <2> QED BY <1>1, <2>1, <2>2, AdvanceKeeps
<1>3. CASE Answer(c, "401", None)
  BY <1>1, <1>3, AnswerKeeps
<1> QED BY <1>2, <1>3 DEF ServeVerify

LEMMA ServeHeartbeatKeeps ==
    ASSUME FInv, issued \subseteq JobIds, NEW c \in calls, ServeHeartbeat(c)
    PROVE  FInv'
<1>1. /\ UNCHANGED <<agent, runs>> /\ TableFits /\ c.op = "heartbeat"
      /\ \E status, body : Answer(c, status, body)
  BY TableFitsIfSame DEF ServeHeartbeat, Idle
<1>2. DOMAIN registry' \subseteq Agents
  BY PrunedIsOfAgents DEF ServeHeartbeat
<1> QED BY <1>1, <1>2, AnswerKeeps

LEMMA ServeAdmitKeeps ==
    ASSUME FInv, issued \subseteq JobIds, NEW c \in calls, ServeAdmit(c)
    PROVE  FInv'
<1>1. /\ UNCHANGED <<agent, runs>> /\ TableFits /\ c.op = "claim" /\ IsCall(c)
  BY TableFitsIfSame DEF ServeAdmit, Idle, FInv, Shapes
<1>2. DOMAIN registry' \subseteq Agents
  BY PrunedIsOfAgents DEF ServeAdmit
<1>3. CASE \E m : Advance(c, [c EXCEPT !.stage = "admitted", !.max = m])
  <2>1. PICK m : Advance(c, [c EXCEPT !.stage = "admitted", !.max = m])
    BY <1>3
  <2> DEFINE d == [c EXCEPT !.stage = "admitted", !.max = m]
  <2>2. IsCall(d) /\ Same(c, d) /\ d.got = c.got
    BY <1>1 DEF IsCall, Fields, Same
  <2> HIDE DEF d
  <2>3. Advance(c, d)
    BY <2>1 DEF d
  <2> QED BY <1>1, <1>2, <2>2, <2>3, AdvanceKeeps
<1>4. CASE \E status : Answer(c, status, None)
  BY <1>1, <1>2, <1>4, AnswerKeeps
<1> QED BY <1>3, <1>4 DEF ServeAdmit

(* A claim grants what nobody had: the job was in the queue until now.       *)
LEMMA ServeClaimKeeps ==
    ASSUME FInv, IInv, NEW c \in calls, ServeClaim(c)
    PROVE  FInv'
<1>1. /\ UNCHANGED <<agent, runs>> /\ c.op = "claim" /\ DOMAIN registry' \subseteq Agents
      /\ issued \subseteq JobIds
  BY DEF ServeClaim, Idle, FInv, Shapes, serverVars, IInv
<1>2. ASSUME NEW t \in Readings, NEW id \in JobIds, NEW body, body.job = id,
             ClaimJob(id, c.agent, c.max, Capabilities(c.agent), t), Answer(c, "200", body)
      PROVE  FInv'
  <2>1. Moved(id, "queued", "claimed") /\ QuietBut(id)
    BY <1>2, ClaimMoves DEF IInv
  <2>2. TableFits
    BY <1>1, <2>1, MovedKeeps, TableFitsIfMoved
  <2>3. ~Taken(id) /\ Open(id)'
    BY <2>1 DEF Moved, Taken, Open, ResultStates
  <2> QED BY <1>1, <1>2, <2>2, <2>3, AnswerKeeps
<1>3. ASSUME NEW t \in Readings, Observe(t), Answer(c, "200", None) PROVE FInv'
  <2>1. TableFits
    BY <1>1, <1>3, ObserveMoves, TableFitsIfQuiet DEF IInv
  <2> QED BY <1>1, <1>3, <2>1, AnswerKeeps
<1> QED BY <1>2, <1>3 DEF ServeClaim

LEMMA ServeSyncKeeps ==
    ASSUME FInv, IInv, NEW c \in calls, ServeSync(c)
    PROVE  FInv'
<1>1. /\ UNCHANGED <<agent, runs>> /\ c.op = "sync" /\ DOMAIN registry' \subseteq Agents
      /\ issued \subseteq JobIds
  BY DEF ServeSync, Idle, FInv, Shapes, serverVars, IInv
<1>2. PICK t \in Readings : Observe(t) /\ Answer(c, "200", SyncVerdict(Reaped(t), c))
  BY DEF ServeSync
<1>3. TableFits
  BY <1>1, <1>2, ObserveMoves, TableFitsIfQuiet DEF IInv
<1> DEFINE body == SyncVerdict(Reaped(t), c)
<1>4. body = "cancel" => c.job \in DOMAIN Reaped(t) /\ Reaped(t)[c.job].state = "cancel_requested"
  BY DEF SyncVerdict
<1>5. body = "cancel" => Asked(c.job)'
  <2>1. jobs' = Reaped(t) /\ issued' = issued /\ DOMAIN Reaped(t) \subseteq issued
    BY <1>2, ReapedFacts DEF Observe
  <2> QED BY <1>4, <2>1 DEF Asked, Taken
<1> HIDE DEF body
<1>6. Answer(c, "200", body)
  BY <1>2 DEF body
<1> QED BY <1>1, <1>3, <1>5, <1>6, AnswerKeeps

(* A result takes effect: nobody works on the job any more.                  *)
LEMMA CompleteFits ==
    ASSUME FInv, IInv, NEW c \in calls, c.op = "result", UNCHANGED runs, NEW t \in Readings,
           Complete(c.job, c.agent, c.lease, c.result, t)
    PROVE  TableFits
<1> DEFINE id == c.job
<1>1. /\ Taken(id) /\ c.result \in ResultStates /\ Reported(id) /\ id \in JobIds
      /\ c.result = "succeeded" => runs[id] = 1
      /\ c.result = "cancelled" => Asked(id)
  BY DEF FInv, Reports, Reported, IInv, Taken
<1>2. /\ \/ Moved(id, "claimed", c.result)
         \/ Moved(id, "cancel_requested", c.result) /\ c.result = "cancelled"
      /\ QuietBut(id)
  BY <1>1, CompleteMoves DEF IInv
<1>3. Taken(id)' /\ Asked(id)' /\ Earned(id)'
  BY <1>1, <1>2 DEF Moved, Taken, Asked, Earned, ResultStates
<1>4. \A j \in JobIds : j # id => Keeps(j) /\ Earned(j)
  BY <1>2, QuietKeeps DEF QuietBut, FInv, Work
<1> QED BY <1>1, <1>3, <1>4 DEF TableFits, Keeps

LEMMA ServeResultKeeps ==
    ASSUME FInv, IInv, NEW c \in calls, ServeResult(c)
    PROVE  FInv'
<1>1. /\ UNCHANGED <<agent, runs>> /\ c.op = "result" /\ DOMAIN registry' \subseteq Agents
      /\ issued \subseteq JobIds
  BY DEF ServeResult, Idle, FInv, Shapes, serverVars, IInv
<1>2. PICK t \in Readings :
        /\ Complete(c.job, c.agent, c.lease, c.result, t) \/ Observe(t)
        /\ \E status : Answer(c, status, None)
  BY DEF ServeResult
<1>3. TableFits
  BY <1>1, <1>2, CompleteFits, ObserveMoves, TableFitsIfQuiet DEF IInv
<1> QED BY <1>1, <1>2, <1>3, AnswerKeeps

LEMMA ServeCallKeeps ==
    ASSUME FInv, IInv, NEW c \in calls, ServeCall(c)
    PROVE  FInv'
<1>1. issued \subseteq JobIds /\ None # "cancel"
  BY FleetConstants DEF IInv
<1> QED BY <1>1, ServeRegisterKeeps, ServeIssueKeeps, ServeVerifyKeeps, ServeHeartbeatKeeps,
           ServeAdmitKeeps, ServeClaimKeeps, ServeSyncKeeps, ServeResultKeeps DEF ServeCall

-----------------------------------------------------------------------------
(* Agents.  What an agent may go on as, what it may send and what becomes of *)
(* its earlier calls.                                                        *)
MayBe(a, me) ==
    /\ IsAgent(me) /\ me.pc # "running"
    /\ me.pc \in Knowing => me.job \in JobIds /\ Has(a, me.job)
    /\ me.pc \in Early => Unworked(a, me.job)
MaySend(a, me, s) ==
    /\ IsCall(s) /\ s.agent = a /\ s.live /\ s.got = None /\ Expected(s, me)
    /\ s.op = "result" =>
          /\ me.pc \notin Early /\ s.job \in JobIds /\ Has(a, s.job)
          /\ s.result \in ResultStates
          /\ s.result = "succeeded" => runs[s.job] = 1
          /\ s.result = "cancelled" => Asked(s.job)
Remains(a, rest) ==
    \A o \in rest :
        /\ IsCall(o)
        /\ o.live => o \in calls /\ o.agent # a
        /\ o.op = "result" => \E c \in calls : c.op = "result" /\ c.job = o.job /\ c.result = o.result

LEMMA BecomeKeeps ==
    ASSUME FInv, UNCHANGED <<queueVars, registry, runs>>,
           NEW a \in Agents, NEW me, NEW rest, NEW sent, Become(a, me, rest, sent),
           MayBe(a, me), Remains(a, rest), \A s \in sent : MaySend(a, me, s),
           \A s, u \in sent : s = u
    PROVE  FInv'
<1>1. /\ agent' = [b \in Agents |-> IF b = a THEN me ELSE agent[b]] /\ calls' = rest \cup sent
      /\ agent'[a] = me /\ \A b \in Agents : b # a => agent'[b] = agent[b]
  BY DEF Become, FInv, Shapes
<1>2. \A d \in calls' : /\ IsCall(d)
                        /\ d.live => \/ d \in calls /\ d.agent # a
                                     \/ d \in sent /\ d.agent = a
                        /\ Ticket(d) => d \in calls /\ d.agent # a
  BY <1>1 DEF MaySend, Remains, Ticket
<1>3. \A b \in Agents, j \in JobIds : Carries(b, j)' => b # a /\ Carries(b, j)
  BY <1>2 DEF Carries, Ticket
<1>4. /\ \A b \in Agents, j \in JobIds, pcs \in {Early, Knowing, {"running"}} :
            b # a => At(b, pcs, j)' = At(b, pcs, j)
      /\ \A j \in JobIds, pcs \in {Early, Knowing, {"running"}} :
            At(a, pcs, j)' = (me.pc \in pcs /\ me.job = j)
  BY <1>1 DEF At
<1>5. /\ \A b \in Agents, j \in JobIds :
            b # a => /\ Has(b, j)' => Has(b, j)
                     /\ Unworked(b, j)' => Unworked(b, j)
                     /\ Works(b, j)' => Works(b, j)
      /\ \A j \in JobIds : /\ Has(a, j)' => Has(a, j)
                           /\ Unworked(a, j)' => Unworked(a, j) /\ me.pc \in Early
                           /\ ~Works(a, j)'
  BY <1>3, <1>4 DEF Has, Unworked, Works, MayBe
<1>6. \A j \in JobIds : /\ Taken(j)' = Taken(j) /\ Open(j)' = Open(j) /\ Asked(j)' = Asked(j)
                        /\ Earned(j)' = Earned(j) /\ runs'[j] = runs[j]
  BY DEF queueVars, Taken, Open, Asked, Earned
<1>7. \A j \in JobIds : Reported(j)' => Reported(j) \/ (Has(a, j) /\ me.pc \notin Early)
  BY <1>1 DEF Reported, Remains, MaySend
<1>8. \A b \in Agents, j \in JobIds : Unworked(b, j) \/ Works(b, j) => Has(b, j)
  BY DEF Unworked, Works, Has, At, Early, Knowing
<1>9. Rights'
  <2> SUFFICES ASSUME NEW b \in Agents, NEW j \in JobIds
               PROVE  /\ Has(b, j)' => Taken(j)'
                      /\ Unworked(b, j)' => Open(j)' /\ runs'[j] = 0 /\ ~Reported(j)'
                      /\ Works(b, j)' => Open(j)' /\ runs'[j] = 1 /\ ~Reported(j)'
    BY DEF Rights
  <2>1. /\ Has(b, j) => Taken(j)
        /\ Unworked(b, j) => Open(j) /\ runs[j] = 0 /\ ~Reported(j)
        /\ Works(b, j) => Open(j) /\ runs[j] = 1 /\ ~Reported(j)
    BY DEF FInv, Rights
  <2>2. b # a /\ Has(b, j) => ~Has(a, j)
    BY DEF FInv, OneHolder
  <2> QED BY <1>5, <1>6, <1>7, <1>8, <2>1, <2>2
<1>10. OneHolder'
  BY <1>5 DEF FInv, OneHolder
<1>11. Reports'
  <2> SUFFICES ASSUME NEW d \in calls', d.op = "result"
               PROVE  /\ Taken(d.job)' /\ d.result \in ResultStates
                      /\ d.result = "succeeded" => runs'[d.job] = 1
                      /\ d.result = "cancelled" => Asked(d.job)'
    BY DEF Reports
  <2>1. /\ Taken(d.job) /\ d.result \in ResultStates
        /\ d.result = "succeeded" => runs[d.job] = 1
        /\ d.result = "cancelled" => Asked(d.job)
    <3>1. CASE d \in rest
      BY <3>1 DEF Remains, FInv, Reports
    <3>2. CASE d \in sent
      BY <3>2 DEF MaySend, FInv, Rights
    <3> QED BY <1>1, <3>1, <3>2
  <2> QED BY <2>1 DEF queueVars, Taken, Asked
<1>12. Verdicts'
  <2> SUFFICES ASSUME NEW d \in calls', d.live, d.op = "sync", d.got = "cancel"
               PROVE  Asked(d.job)'
    BY DEF Verdicts
  <2>1. d \in calls
    BY <1>2, FleetConstants DEF MaySend
  <2>2. Asked(d.job)
    BY <2>1 DEF FInv, Verdicts
  <2> QED BY <2>2 DEF queueVars, Taken, Asked
<1>13. Work'
  BY <1>6 DEF FInv, Work
<1>14. Shapes'
  <2>1. \A c \in calls' : Ticket(c) => c.got.job \in JobIds
    BY <1>2 DEF FInv, Shapes
  <2>2. \A b \in Agents : IsAgent(agent'[b]) /\ (agent'[b].pc \in Knowing => agent'[b].job \in JobIds)
    BY <1>1 DEF FInv, Shapes, MayBe
  <2>3. agent' = [b \in Agents |-> agent'[b]]
    BY <1>1
  <2>4. DOMAIN registry' \subseteq Agents /\ runs' \in [JobIds -> {0, 1}]
    BY DEF FInv, Shapes
  <2> QED BY <1>2, <2>1, <2>2, <2>3, <2>4 DEF Shapes
<1>15. Waits'
  <2>1. ASSUME NEW d \in calls', d.live PROVE Expected(d, agent'[d.agent])
    <3>1. CASE d \in calls /\ d.agent # a
      BY <1>1, <2>1, <3>1 DEF FInv, Waits, Shapes, IsCall
    <3>2. CASE d \in sent /\ d.agent = a
      BY <1>1, <3>2 DEF MaySend
    <3> QED BY <1>2, <2>1, <3>1, <3>2
  <2>2. ASSUME NEW d \in calls', NEW e \in calls', d.live, e.live, d.agent = e.agent
        PROVE  d = e
    BY <1>2, <2>2 DEF FInv, Waits
  <2>3. \A d \in calls' : d.live => Expected(d, agent[d.agent])'
    BY <2>1 DEF Expected
  <2> QED BY <2>2, <2>3 DEF Waits
<1> QED BY <1>9, <1>10, <1>11, <1>12, <1>13, <1>14, <1>15 DEF FInv

(* What remains of an agent's calls.                                         *)
LEMMA HeardRemains ==
    ASSUME FInv, NEW c \in calls, c.live
    PROVE  Remains(c.agent, calls \ {c})
BY DEF Remains, FInv, Waits, Shapes

LEMMA AbandonedRemains ==
    ASSUME FInv, NEW a
    PROVE  Remains(a, Abandoned(a))
<1> SUFFICES ASSUME NEW o \in Abandoned(a)
             PROVE  /\ IsCall(o)
                    /\ o.live => o \in calls /\ o.agent # a
                    /\ o.op = "result" =>
                          \E c \in calls : c.op = "result" /\ c.job = o.job /\ c.result = o.result
  BY DEF Remains
<1>1. CASE o \in calls /\ (o.agent # a \/ ~o.live)
  BY <1>1 DEF FInv, Shapes
<1>2. ASSUME NEW c \in calls, o = [c EXCEPT !.live = FALSE] PROVE
             IsCall(o) /\ ~o.live /\ o.op = c.op /\ o.job = c.job /\ o.result = c.result
  <2>1. IsCall(c)
    BY DEF FInv, Shapes
  <2> QED BY <1>2, <2>1 DEF IsCall, Fields
<1> QED BY <1>1, <1>2 DEF Abandoned

LEMMA AllRemain ==
    ASSUME FInv, NEW a \in Agents, agent[a].pc \notin Waiting
    PROVE  Remains(a, calls)
BY DEF Remains, FInv, Waits, Shapes, Expected

(* Requests and heartbeats.                                                  *)
LEMMA RequestFacts ==
    ASSUME NEW a \in Agents, NEW me, NEW op
    PROVE  /\ IsCall(Request(a, me, op)) /\ Request(a, me, op).agent = a
           /\ Request(a, me, op).live /\ Request(a, me, op).op = op
           /\ Request(a, me, op).job = me.job /\ Request(a, me, op).result = me.result
           /\ Request(a, me, op).got = None
BY DEF Request, IsCall, Fields

LEMMA HeartbeatFacts ==
    ASSUME NEW a \in Agents, NEW me, NEW state, NEW n
    PROVE  /\ IsCall(Heartbeat(a, me, state, n)) /\ Heartbeat(a, me, state, n).agent = a
           /\ Heartbeat(a, me, state, n).live /\ Heartbeat(a, me, state, n).op = "heartbeat"
           /\ Heartbeat(a, me, state, n).got = None
BY DEF Heartbeat, Request, IsCall, Fields

(* An agent without a job: nothing of what it had goes on.                   *)
LEMMA RestKeeps ==
    ASSUME FInv, UNCHANGED <<queueVars, registry, runs>>, NEW a \in Agents, NEW me, NEW rest,
           Become(a, me, rest, {}), IsAgent(me), me.pc \notin Knowing, Remains(a, rest)
    PROVE  FInv'
BY BecomeKeeps DEF MayBe, Knowing, Early

LEMMA BeatKeeps ==
    ASSUME FInv, UNCHANGED <<queueVars, registry, runs>>, NEW a \in Agents, NEW me, NEW rest,
           NEW state, NEW n, Become(a, me, rest, {Heartbeat(a, me, state, n)}),
           MayBe(a, me), me.pc \in Waiting \ {"claim", "sync", "resync"}, Remains(a, rest)
    PROVE  FInv'
<1>1. MaySend(a, me, Heartbeat(a, me, state, n))
  BY HeartbeatFacts DEF MaySend, Expected
<1> HIDE DEF Heartbeat
<1> QED BY <1>1, BecomeKeeps

LEMMA RequestKeeps ==
    ASSUME FInv, UNCHANGED <<queueVars, registry, runs>>, NEW a \in Agents, NEW me, NEW rest,
           NEW op, Become(a, me, rest, {Request(a, me, op)}),
           MayBe(a, me), me.pc \in Waiting, op # "result", Remains(a, rest),
           op = "claim" <=> me.pc = "claim", me.pc \in {"sync", "resync"} => op = "sync"
    PROVE  FInv'
<1>1. MaySend(a, me, Request(a, me, op))
  BY RequestFacts DEF MaySend, Expected
<1> QED BY <1>1, BecomeKeeps

(* A report: the agent lets the job go with it, or keeps it until answered.  *)
LEMMA ReportKeeps ==
    ASSUME FInv, UNCHANGED <<queueVars, registry, runs>>, NEW a \in Agents, NEW rest,
           NEW pc \in {"report", "acknowledge"}, NEW result \in ResultStates,
           Report(a, pc, result, rest), agent[a].pc \in Knowing, Remains(a, rest),
           result = "succeeded" => runs[agent[a].job] = 1,
           result = "cancelled" => Asked(agent[a].job)
    PROVE  FInv'
<1> DEFINE me == [agent[a] EXCEPT !.pc = pc, !.result = result]
           s == Request(a, me, "result")
<1>1. IsAgent(agent[a]) /\ agent[a].job \in JobIds /\ Has(a, agent[a].job)
  BY DEF FInv, Shapes, Has, At
<1>2. IsAgent(me) /\ me.pc = pc /\ me.job = agent[a].job /\ me.result = result
  BY <1>1 DEF IsAgent, AgentFields
<1>3. Become(a, me, rest, {s})
  BY DEF Report
<1> HIDE DEF me
<1>4. MayBe(a, me)
  BY <1>1, <1>2 DEF MayBe, Knowing, Early
<1>5. MaySend(a, me, s)
  <2>1. /\ IsCall(s) /\ s.agent = a /\ s.live /\ s.got = None /\ s.op = "result"
        /\ s.job = me.job /\ s.result = result
    BY <1>2, RequestFacts
  <2> HIDE DEF s
  <2> QED BY <1>1, <1>2, <2>1 DEF MaySend, Expected, Waiting, Early
<1> HIDE DEF s
<1> QED BY <1>3, <1>4, <1>5, BecomeKeeps

LEMMA SettleKeeps ==
    ASSUME FInv, UNCHANGED <<queueVars, registry, runs>>, NEW a \in Agents, NEW rest,
           NEW outcome, Settle(a, outcome, rest), Remains(a, rest)
    PROVE  FInv'
<1> DEFINE me == [agent[a] EXCEPT !.pc = "settle", !.after = outcome]
<1>1. IsAgent(agent[a])
  BY DEF FInv, Shapes
<1>2. IsAgent(me) /\ me.pc = "settle"
  BY <1>1 DEF IsAgent, AgentFields
<1>3. Become(a, me, rest, {Heartbeat(a, me, "healthy", 0)})
  BY DEF Settle
<1> HIDE DEF me
<1>4. MayBe(a, me)
  BY <1>2 DEF MayBe, Knowing, Early
<1> QED BY <1>2, <1>3, <1>4, BeatKeeps DEF Waiting

LEMMA EndPollFacts ==
    ASSUME NEW me, NEW outcome
    PROVE  /\ IsAgent(EndPoll(me, outcome))
           /\ EndPoll(me, outcome).pc \in {"unregistered", "exited", "idle"}
<1>1. /\ IsAgent(Fresh) /\ Fresh.pc = "unregistered"
      /\ LET e == [Fresh EXCEPT !.pc = "exited"] IN IsAgent(e) /\ e.pc = "exited"
      /\ LET e == [Fresh EXCEPT !.pc = "idle", !.cred = me.cred] IN IsAgent(e) /\ e.pc = "idle"
  BY DEF Fresh, IsAgent, AgentFields
<1> QED BY <1>1 DEF EndPoll

LEMMA EndPollKeeps ==
    ASSUME FInv, UNCHANGED <<queueVars, registry, runs>>, NEW a \in Agents, NEW rest,
           NEW outcome, Become(a, EndPoll(agent[a], outcome), rest, {}), Remains(a, rest)
    PROVE  FInv'
<1> DEFINE me == EndPoll(agent[a], outcome)
<1>1. IsAgent(me) /\ me.pc \notin Knowing
  BY EndPollFacts DEF Knowing, Early
<1> HIDE DEF me
<1>2. Become(a, me, rest, {})
  BY DEF me
<1> QED BY <1>1, <1>2, RestKeeps

(* An agent takes up what the answer to its call tells it.                   *)
LEMMA OnRegisterKeeps ==
    ASSUME FInv, UNCHANGED <<queueVars, registry, runs>>, NEW a \in Agents, NEW rest,
           NEW status, NEW body, OnRegister(a, status, body, rest), Remains(a, rest)
    PROVE  FInv'
<1> DEFINE beat == [Fresh EXCEPT !.pc = "beat", !.cred = body]
           out == [Fresh EXCEPT !.pc = "exited"]
<1>1. /\ IsAgent(Fresh) /\ Fresh.pc = "unregistered"
      /\ IsAgent(out) /\ out.pc = "exited" /\ IsAgent(beat) /\ beat.pc = "beat"
  BY DEF Fresh, IsAgent, AgentFields
<1>2. \/ Become(a, beat, rest, {Heartbeat(a, beat, "healthy", 0)})
      \/ Become(a, Fresh, rest, {}) \/ Become(a, out, rest, {})
  BY DEF OnRegister
<1> HIDE DEF beat, out
<1>3. MayBe(a, beat)
  BY <1>1 DEF MayBe, Knowing, Early
<1>4. CASE Become(a, beat, rest, {Heartbeat(a, beat, "healthy", 0)})
  BY <1>1, <1>3, <1>4, BeatKeeps DEF Waiting
<1>5. CASE Become(a, Fresh, rest, {}) \/ Become(a, out, rest, {})
  BY <1>1, <1>5, RestKeeps DEF Knowing, Early
<1> QED BY <1>2, <1>4, <1>5

LEMMA OnBeatKeeps ==
    ASSUME FInv, UNCHANGED <<queueVars, registry, runs>>, NEW a \in Agents, NEW rest,
           NEW status, OnBeat(a, status, rest), Remains(a, rest)
    PROVE  FInv'
<1> DEFINE me == [agent[a] EXCEPT !.pc = "claim"]
<1>1. IsAgent(agent[a])
  BY DEF FInv, Shapes
<1>2. IsAgent(me) /\ me.pc = "claim"
  BY <1>1 DEF IsAgent, AgentFields
<1>3. \/ Become(a, me, rest, {Request(a, me, "claim")})
      \/ Become(a, EndPoll(agent[a], Outcome(status)), rest, {})
  BY DEF OnBeat
<1> HIDE DEF me
<1>4. MayBe(a, me)
  BY <1>2 DEF MayBe, Knowing, Early
<1>5. CASE Become(a, me, rest, {Request(a, me, "claim")})
  BY <1>2, <1>4, <1>5, RequestKeeps DEF Waiting
<1> QED BY <1>3, <1>5, EndPollKeeps

LEMMA OnClaimKeeps ==
    ASSUME FInv, UNCHANGED <<queueVars, registry, runs>>, NEW a \in Agents, NEW rest,
           NEW status, NEW body, OnClaim(a, status, body, rest), Remains(a, rest),
           status = "200" /\ body # None => body.job \in JobIds /\ Carries(a, body.job)
    PROVE  FInv'
<1> DEFINE me == [agent[a] EXCEPT !.pc = "announce", !.job = body.job,
                    !.kind = body.kind, !.lease = body.lease, !.due = body.due]
<1>1. IsAgent(agent[a])
  BY DEF FInv, Shapes
<1>2. IsAgent(me) /\ me.pc = "announce" /\ me.job = body.job
  BY <1>1 DEF IsAgent, AgentFields
<1>3. \/ /\ status = "200" /\ body # None
         /\ Become(a, me, rest, {Heartbeat(a, me, "healthy", 1)})
      \/ Become(a, EndPoll(agent[a], Outcome(status)), rest, {})
  BY DEF OnClaim
<1> HIDE DEF me
<1>4. CASE /\ status = "200" /\ body # None
           /\ Become(a, me, rest, {Heartbeat(a, me, "healthy", 1)})
  <2>1. MayBe(a, me)
    BY <1>2, <1>4 DEF MayBe, Has, Unworked
  <2> QED BY <1>2, <1>4, <2>1, BeatKeeps DEF Waiting
<1> QED BY <1>3, <1>4, EndPollKeeps

LEMMA OnAnnounceKeeps ==
    ASSUME FInv, UNCHANGED <<queueVars, registry, runs>>, NEW a \in Agents, NEW rest,
           NEW status, OnAnnounce(a, status, rest), Remains(a, rest)
    PROVE  FInv'
<1> DEFINE me == [agent[a] EXCEPT !.pc = "sync"]
<1>1. /\ IsAgent(agent[a]) /\ agent[a].pc = "announce" /\ agent[a].job \in JobIds
      /\ Has(a, agent[a].job) /\ Unworked(a, agent[a].job)
  BY DEF FInv, Shapes, OnAnnounce, Has, Unworked, At, Knowing, Early
<1>2. IsAgent(me) /\ me.pc = "sync" /\ me.job = agent[a].job
  BY <1>1 DEF IsAgent, AgentFields
<1>3. \/ Become(a, me, rest, {Request(a, me, "sync")})
      \/ Become(a, EndPoll(agent[a], Outcome(status)), rest, {})
  BY DEF OnAnnounce
<1> HIDE DEF me
<1>4. MayBe(a, me)
  BY <1>1, <1>2 DEF MayBe
<1>5. CASE Become(a, me, rest, {Request(a, me, "sync")})
  BY <1>2, <1>4, <1>5, RequestKeeps DEF Waiting
<1> QED BY <1>3, <1>5, EndPollKeeps

LEMMA OnSyncKeeps ==
    ASSUME FInv, UNCHANGED <<queueVars, registry, runs>>, NEW a \in Agents, NEW rest,
           NEW status, NEW body, OnSync(a, status, body, rest), Remains(a, rest),
           body = "cancel" => Asked(agent[a].job)
    PROVE  FInv'
<1> DEFINE me == [agent[a] EXCEPT !.pc = "execute"]
<1>1. /\ IsAgent(agent[a]) /\ agent[a].pc = "sync" /\ agent[a].job \in JobIds
      /\ Has(a, agent[a].job) /\ Unworked(a, agent[a].job)
  BY DEF FInv, Shapes, OnSync, Has, Unworked, At, Knowing, Early
<1>2. IsAgent(me) /\ me.pc = "execute" /\ me.job = agent[a].job
  BY <1>1 DEF IsAgent, AgentFields
<1>3. \/ Become(a, me, rest, {})
      \/ body = "cancel" /\ Report(a, "report", "cancelled", rest)
      \/ \E outcome : Settle(a, outcome, rest)
  BY DEF OnSync
<1> HIDE DEF me
<1>4. MayBe(a, me)
  BY <1>1, <1>2 DEF MayBe
<1>5. CASE Become(a, me, rest, {})
  BY <1>4, <1>5, BecomeKeeps
<1>6. CASE body = "cancel" /\ Report(a, "report", "cancelled", rest)
  <2>1. agent[a].pc \in Knowing
    BY <1>1 DEF Knowing, Early
  <2> QED BY <1>6, <2>1, ReportKeeps DEF ResultStates
<1> QED BY <1>3, <1>5, <1>6, SettleKeeps

LEMMA OnReportKeeps ==
    ASSUME FInv, UNCHANGED <<queueVars, registry, runs>>, NEW a \in Agents, NEW rest,
           NEW status, OnReport(a, status, rest), Remains(a, rest)
    PROVE  FInv'
<1> DEFINE me == [agent[a] EXCEPT !.pc = "resync"]
<1>1. /\ IsAgent(agent[a]) /\ agent[a].pc = "report" /\ agent[a].job \in JobIds
      /\ Has(a, agent[a].job)
  BY DEF FInv, Shapes, OnReport, Has, At, Knowing
<1>2. IsAgent(me) /\ me.pc = "resync" /\ me.job = agent[a].job
  BY <1>1 DEF IsAgent, AgentFields
<1>3. \/ Become(a, me, rest, {Request(a, me, "sync")})
      \/ Settle(a, Outcome(status), rest)
  BY DEF OnReport
<1> HIDE DEF me
<1>4. MayBe(a, me)
  BY <1>1, <1>2 DEF MayBe, Early
<1>5. CASE Become(a, me, rest, {Request(a, me, "sync")})
  BY <1>2, <1>4, <1>5, RequestKeeps DEF Waiting
<1> QED BY <1>3, <1>5, SettleKeeps

LEMMA OnResyncKeeps ==
    ASSUME FInv, UNCHANGED <<queueVars, registry, runs>>, NEW a \in Agents, NEW rest,
           NEW status, NEW body, OnResync(a, status, body, rest), Remains(a, rest),
           body = "cancel" => Asked(agent[a].job)
    PROVE  FInv'
<1>1. agent[a].pc = "resync" /\ agent[a].pc \in Knowing
  BY DEF OnResync, Knowing
<1>2. \/ body = "cancel" /\ Report(a, "acknowledge", "cancelled", rest)
      \/ \E outcome : Settle(a, outcome, rest)
  BY DEF OnResync
<1>3. CASE body = "cancel" /\ Report(a, "acknowledge", "cancelled", rest)
  BY <1>1, <1>3, ReportKeeps DEF ResultStates
<1> QED BY <1>2, <1>3, SettleKeeps

LEMMA OnEndKeeps ==
    ASSUME FInv, UNCHANGED <<queueVars, registry, runs>>, NEW a \in Agents, NEW rest,
           NEW status, OnEnd(a, status, rest), Remains(a, rest)
    PROVE  FInv'
<1> DEFINE me == [Fresh EXCEPT !.pc = "down"]
<1>1. IsAgent(me) /\ me.pc = "down"
  BY DEF Fresh, IsAgent, AgentFields
<1>2. \/ \E outcome : Settle(a, outcome, rest)
      \/ \E outcome : Become(a, EndPoll(agent[a], outcome), rest, {})
      \/ Become(a, me, rest, {})
  BY DEF OnEnd
<1> HIDE DEF me
<1>3. CASE Become(a, me, rest, {})
  BY <1>1, <1>3, RestKeeps DEF Knowing, Early
<1> QED BY <1>2, <1>3, SettleKeeps, EndPollKeeps

LEMMA HandleKeeps ==
    ASSUME FInv, UNCHANGED <<queueVars, registry, runs>>, NEW a \in Agents, NEW rest,
           NEW status, NEW body, Handle(a, status, body, rest), Remains(a, rest),
           agent[a].pc = "claim" /\ status = "200" /\ body # None =>
               body.job \in JobIds /\ Carries(a, body.job),
           agent[a].pc \in {"sync", "resync"} /\ body = "cancel" => Asked(agent[a].job)
    PROVE  FInv'
<1>1. CASE OnClaim(a, status, body, rest)
  <2>1. agent[a].pc = "claim"
    BY <1>1 DEF OnClaim
  <2> QED BY <1>1, <2>1, OnClaimKeeps
<1>2. CASE OnSync(a, status, body, rest)
  <2>1. agent[a].pc = "sync"
    BY <1>2 DEF OnSync
  <2> QED BY <1>2, <2>1, OnSyncKeeps
<1>3. CASE OnResync(a, status, body, rest)
  <2>1. agent[a].pc = "resync"
    BY <1>3 DEF OnResync
  <2> QED BY <1>3, <2>1, OnResyncKeeps
<1> QED BY <1>1, <1>2, <1>3, OnRegisterKeeps, OnBeatKeeps, OnAnnounceKeeps, OnReportKeeps,
           OnEndKeeps DEF Handle

LEMMA HearKeeps ==
    ASSUME FInv, NEW a \in Agents, Hear(a)
    PROVE  FInv'
<1>1. UNCHANGED <<queueVars, registry, runs>>
  BY DEF Hear, serverVars
<1>2. PICK c \in calls : /\ c.agent = a /\ c.live
                         /\ Handle(a, c.reply, c.got, calls \ {c})
  BY DEF Hear
<1>3. Remains(a, calls \ {c})
  BY <1>2, HeardRemains
<1>4. Expected(c, agent[a])
  BY <1>2 DEF FInv, Waits
<1>5. agent[a].pc = "claim" /\ c.got # None => c.got.job \in JobIds /\ Carries(a, c.got.job)
  BY <1>2, <1>4 DEF Expected, Carries, Ticket, FInv, Shapes
<1>6. agent[a].pc \in {"sync", "resync"} /\ c.got = "cancel" => Asked(agent[a].job)
  BY <1>2, <1>4 DEF Expected, FInv, Verdicts
<1> QED BY <1>1, <1>2, <1>3, <1>5, <1>6, HandleKeeps

LEMMA TimeOutKeeps ==
    ASSUME FInv, NEW a \in Agents, TimeOut(a)
    PROVE  FInv'
<1>1. UNCHANGED <<queueVars, registry, runs>> /\ Handle(a, "transport", None, Abandoned(a))
  BY DEF TimeOut, serverVars
<1>2. None # "cancel"
  BY FleetConstants
<1> QED BY <1>1, <1>2, AbandonedRemains, HandleKeeps

LEMMA CrashKeeps ==
    ASSUME FInv, NEW a \in Agents, Crash(a)
    PROVE  FInv'
<1> DEFINE me == [Fresh EXCEPT !.pc = "down"]
<1>1. IsAgent(me) /\ me.pc = "down"
  BY DEF Fresh, IsAgent, AgentFields
<1>2. UNCHANGED <<queueVars, registry, runs>> /\ Become(a, me, Abandoned(a), {})
  BY DEF Crash, serverVars
<1> HIDE DEF me
<1> QED BY <1>1, <1>2, AbandonedRemains, RestKeeps DEF Knowing, Early

LEMMA StartKeeps ==
    ASSUME FInv, NEW a \in Agents, Start(a)
    PROVE  FInv'
<1>1. IsAgent(Fresh) /\ Fresh.pc = "unregistered"
  BY DEF Fresh, IsAgent, AgentFields
<1>2. UNCHANGED <<queueVars, registry, runs>> /\ Become(a, Fresh, calls, {})
  BY DEF Start, serverVars
<1>3. Remains(a, calls)
  BY AllRemain DEF Start, Waiting
<1> QED BY <1>1, <1>2, <1>3, RestKeeps DEF Knowing, Early

LEMMA PollKeeps ==
    ASSUME FInv, NEW a \in Agents, Poll(a)
    PROVE  FInv'
<1> DEFINE new == [Fresh EXCEPT !.pc = "register"]
           me == [agent[a] EXCEPT !.pc = "beat"]
<1>1. UNCHANGED <<queueVars, registry, runs>> /\ Remains(a, calls) /\ IsAgent(agent[a])
  BY AllRemain DEF Poll, serverVars, Waiting, FInv, Shapes
<1>2. IsAgent(new) /\ new.pc = "register" /\ IsAgent(me) /\ me.pc = "beat"
  BY <1>1 DEF Fresh, IsAgent, AgentFields
<1>3. \/ Become(a, new, calls, {Request(a, new, "register")})
      \/ Become(a, me, calls, {Heartbeat(a, me, "healthy", 0)})
  BY DEF Poll
<1> HIDE DEF new, me
<1>4. MayBe(a, new) /\ MayBe(a, me)
  BY <1>2 DEF MayBe, Knowing, Early
<1> QED BY <1>1, <1>2, <1>3, <1>4, RequestKeeps, BeatKeeps DEF Waiting

LEMMA DrainKeeps ==
    ASSUME FInv, NEW a \in Agents, Drain(a)
    PROVE  FInv'
<1> DEFINE me == [agent[a] EXCEPT !.pc = "drain"]
<1>1. UNCHANGED <<queueVars, registry, runs>> /\ Remains(a, calls) /\ IsAgent(agent[a])
  BY AllRemain DEF Drain, serverVars, Waiting, FInv, Shapes
<1>2. IsAgent(me) /\ me.pc = "drain"
  BY <1>1 DEF IsAgent, AgentFields
<1>3. Become(a, me, calls, {Heartbeat(a, me, "draining", 0)})
  BY DEF Drain
<1> HIDE DEF me
<1>4. MayBe(a, me)
  BY <1>2 DEF MayBe, Knowing, Early
<1> QED BY <1>1, <1>2, <1>3, <1>4, BeatKeeps DEF Waiting

LEMMA FinishKeeps ==
    ASSUME FInv, NEW a \in Agents, Finish(a)
    PROVE  FInv'
<1>1. UNCHANGED <<queueVars, registry, runs>> /\ Remains(a, calls) /\ agent[a].pc = "running"
  BY AllRemain DEF Finish, serverVars, Waiting
<1>2. agent[a].pc \in Knowing /\ agent[a].job \in JobIds
  BY <1>1 DEF Knowing, FInv, Shapes
<1>3. runs[agent[a].job] = 1
  BY <1>1, <1>2 DEF FInv, Rights, Works, At
<1>4. PICK result \in {"succeeded", "failed"} : Report(a, "report", result, calls)
  BY DEF Finish
<1> QED BY <1>1, <1>2, <1>3, <1>4, ReportKeeps DEF ResultStates

(* The work starts: from now on its holder is the only one who may report.   *)
LEMMA BeginKeeps ==
    ASSUME FInv, UNCHANGED <<queueVars, registry>>, NEW a \in Agents, agent[a].pc = "execute",
           Become(a, [agent[a] EXCEPT !.pc = "running"], calls, {}),
           runs' = [runs EXCEPT ![agent[a].job] = @ + 1]
    PROVE  FInv' /\ runs[agent[a].job] = 0 /\ runs' = [runs EXCEPT ![agent[a].job] = 1]
           /\ agent[a].job \in JobIds /\ Open(agent[a].job)
<1> DEFINE me == [agent[a] EXCEPT !.pc = "running"]
           job == agent[a].job
<1>1. /\ IsAgent(agent[a]) /\ job \in JobIds /\ At(a, Early, job) /\ At(a, Knowing, job)
      /\ runs \in [JobIds -> {0, 1}]
  BY DEF FInv, Shapes, At, Knowing, Early
<1>2. IsAgent(me) /\ me.pc = "running" /\ me.job = job
  BY <1>1 DEF IsAgent, AgentFields
<1>3. agent' = [b \in Agents |-> IF b = a THEN me ELSE agent[b]] /\ calls' = calls
  BY DEF Become, FInv, Shapes
<1>4. Has(a, job) /\ Open(job) /\ Taken(job) /\ runs[job] = 0 /\ ~Reported(job)
  BY <1>1 DEF FInv, Rights, Has, Unworked
<1>5. /\ runs' = [runs EXCEPT ![job] = 1] /\ runs'[job] = 1 /\ runs' \in [JobIds -> {0, 1}]
      /\ \A j \in JobIds : j # job => runs'[j] = runs[j]
  BY <1>1, <1>4
<1> HIDE DEF me, job
<1>6. \A c \in calls : c.live => c.agent # a
  BY DEF FInv, Waits, Expected, Waiting
<1>7. \A b \in Agents, j \in JobIds : Carries(b, j)' = Carries(b, j) /\ ~Carries(a, j)
  BY <1>3, <1>6 DEF Carries, Ticket
<1>8. /\ \A b \in Agents, j \in JobIds, pcs \in {Early, Knowing, {"running"}} :
            b # a => At(b, pcs, j)' = At(b, pcs, j)
      /\ \A j \in JobIds, pcs \in {Early, Knowing, {"running"}} :
            At(a, pcs, j)' = ("running" \in pcs /\ j = job)
  BY <1>2, <1>3 DEF At
<1>9. /\ \A b \in Agents, j \in JobIds :
            /\ Has(b, j)' => Has(b, j)
            /\ Unworked(b, j)' => Unworked(b, j) /\ b # a
            /\ Works(b, j)' => (b # a /\ Works(b, j)) \/ (b = a /\ j = job)
  BY <1>4, <1>7, <1>8 DEF Has, Unworked, Works, Early, Knowing
<1>10. \A b \in Agents, j \in JobIds : Unworked(b, j) \/ Works(b, j) => Has(b, j)
  BY DEF Unworked, Works, Has, At, Early, Knowing
<1>11. \A b \in Agents : b # a => ~Has(b, job)
  BY <1>1, <1>4 DEF FInv, OneHolder
<1>12. \A j \in JobIds : /\ Taken(j)' = Taken(j) /\ Open(j)' = Open(j) /\ Asked(j)' = Asked(j)
                         /\ Reported(j)' = Reported(j)
  BY <1>3 DEF queueVars, Taken, Open, Asked, Reported
<1>13. Rights'
  <2> SUFFICES ASSUME NEW b \in Agents, NEW j \in JobIds
               PROVE  /\ Has(b, j)' => Taken(j)'
                      /\ Unworked(b, j)' => Open(j)' /\ runs'[j] = 0 /\ ~Reported(j)'
                      /\ Works(b, j)' => Open(j)' /\ runs'[j] = 1 /\ ~Reported(j)'
    BY DEF Rights
  <2>1. /\ Has(b, j) => Taken(j)
        /\ Unworked(b, j) => Open(j) /\ runs[j] = 0 /\ ~Reported(j)
        /\ Works(b, j) => Open(j) /\ runs[j] = 1 /\ ~Reported(j)
    BY DEF FInv, Rights
  <2> QED BY <1>4, <1>5, <1>9, <1>10, <1>11, <1>12, <2>1
<1>14. OneHolder'
  BY <1>9 DEF FInv, OneHolder
<1>15. Reports' /\ Verdicts'
  <2>1. \A j : Taken(j) \/ Asked(j) => Taken(j)
    BY DEF Asked
  <2>2. \A c \in calls : c.op = "result" =>
            /\ Taken(c.job) /\ c.result \in ResultStates /\ c.job # job
            /\ c.result = "succeeded" => runs[c.job] = 1
            /\ c.result = "cancelled" => Asked(c.job)
    BY <1>4 DEF FInv, Reports, Reported
  <2>3. \A c \in calls : c.op = "result" /\ c.result = "succeeded" => runs'[c.job] = 1
    BY <1>1, <1>5, <2>2
  <2>4. \A j : Taken(j)' = Taken(j) /\ Asked(j)' = Asked(j)
    BY DEF queueVars, Taken, Asked
  <2> QED BY <1>3, <2>2, <2>3, <2>4 DEF FInv, Reports, Verdicts
<1>16. Work'
  BY <1>1, <1>4, <1>5, <1>12 DEF FInv, Work, Earned, queueVars
<1>17. Shapes'
  <2>1. \A b \in Agents : IsAgent(agent'[b]) /\ (agent'[b].pc \in Knowing => agent'[b].job \in JobIds)
    BY <1>1, <1>2, <1>3 DEF FInv, Shapes
  <2>2. agent' = [b \in Agents |-> agent'[b]]
    BY <1>3
  <2>3. /\ DOMAIN registry' \subseteq Agents
        /\ \A c \in calls : IsCall(c) /\ (Ticket(c) => c.got.job \in JobIds)
    BY DEF FInv, Shapes
  <2> QED BY <1>3, <1>5, <2>1, <2>2, <2>3 DEF Shapes
<1>18. Waits'
  BY <1>3, <1>6 DEF FInv, Waits, Shapes, IsCall, Expected
<1> QED BY <1>1, <1>4, <1>5, <1>13, <1>14, <1>15, <1>16, <1>17, <1>18 DEF FInv, job

LEMMA ExecuteKeeps ==
    ASSUME FInv, NEW a \in Agents, Execute(a)
    PROVE  FInv'
<1>1. /\ UNCHANGED <<queueVars, registry>> /\ agent[a].pc = "execute"
      /\ agent[a].pc \in Knowing /\ Remains(a, calls)
  BY AllRemain DEF Execute, serverVars, Knowing, Early, Waiting
<1>2. CASE Report(a, "report", "failed", calls) /\ UNCHANGED runs
  BY <1>1, <1>2, ReportKeeps DEF ResultStates
<1>3. CASE /\ Become(a, [agent[a] EXCEPT !.pc = "running"], calls, {})
           /\ runs' = [runs EXCEPT ![agent[a].job] = @ + 1]
  BY <1>1, <1>3, BeginKeeps
<1> QED BY <1>2, <1>3 DEF Execute

-----------------------------------------------------------------------------
(* Users, staff, time, and the engine's restart.                             *)
LEMMA OutsideKeeps ==
    ASSUME FInv, IInv, UNCHANGED <<agent, runs, calls, registry>>,
           \A j \in JobIds : Keeps(j)
    PROVE  FInv'
<1>1. TableFits
  BY TableFitsIfKept
<1>2. \A j \in JobIds : Open(j) => Open(j)'
  BY DEF Keeps
<1> QED BY <1>1, <1>2, TableKeeps DEF IInv

LEMMA SubmitKeeps ==
    ASSUME FInv, IInv, NEW id \in JobIds, Submit(id)
    PROVE  FInv'
<1>1. PICK t \in Readings : \E r, target, owner :
        SubmitProbe(id, target, r, t) \/ SubmitCheck(id, owner, target, r, t)
  BY DEF Submit
<1>2. Born(id) /\ QuietBut(id)
  BY <1>1, SubmitMoves
<1>3. \A j \in JobIds : Keeps(j)
  BY <1>2, BornKeeps, QuietKeeps DEF QuietBut
<1> QED BY <1>3, OutsideKeeps DEF Submit, serverVars

LEMMA CancelKeeps ==
    ASSUME FInv, IInv, NEW id \in JobIds, Cancel(id)
    PROVE  FInv'
<1>1. PICK t \in Readings : \E caller : CancelQueued(id, caller, t) \/ CancelClaimed(id, caller, t)
  BY DEF Cancel
<1>2. /\ Moved(id, "queued", "cancelled") \/ Moved(id, "claimed", "cancel_requested")
      /\ QuietBut(id)
  BY <1>1, CancelMoves
<1>3. \A j \in JobIds : Keeps(j)
  BY <1>2, MovedKeeps, QuietKeeps DEF QuietBut
<1> QED BY <1>3, OutsideKeeps DEF Cancel, serverVars

LEMMA LookPassKeeps ==
    ASSUME FInv, IInv, Look \/ Pass
    PROVE  FInv'
<1>1. \A j \in JobIds : Quiet(j)
  BY ObserveMoves DEF Look, Pass, Tick, Quiet
<1>2. \A j \in JobIds : Keeps(j)
  BY <1>1, QuietKeeps
<1> QED BY <1>2, OutsideKeeps DEF Look, Pass, serverVars

LEMMA RestartKeeps ==
    ASSUME FInv, IInv, EngineRestart
    PROVE  FInv' /\ IInv' /\ \A j \in JobIds : Quiet(j)
<1> DEFINE Cut(c) == IF c.stage = "answered" THEN c
                     ELSE [c EXCEPT !.stage = "answered", !.reply = "transport"]
<1>1. /\ DOMAIN jobs' = {} /\ jobs' = [j \in DOMAIN jobs' |-> jobs'[j]] /\ DOMAIN registry' = {}
      /\ UNCHANGED <<issued, leases, clock, now, agent, runs>>
      /\ calls' = {Cut(c) : c \in {d \in calls : d.live}}
  BY DEF EngineRestart
<1>2. ASSUME NEW c \in calls
      PROVE  IsCall(Cut(c)) /\ Same(c, Cut(c)) /\ Cut(c).got = c.got
  <2>1. IsCall(c)
    BY DEF FInv, Shapes
  <2> QED BY <2>1 DEF IsCall, Fields, Same
<1> HIDE DEF Cut
<1>3. \A d \in calls' : \E c \in calls : /\ d = Cut(c) /\ c.live /\ IsCall(d) /\ Same(c, d)
                                         /\ d.got = c.got
  BY <1>1, <1>2
<1>4. \A j : Taken(j) = (j \in issued /\ (j \in DOMAIN jobs => jobs[j].state # "queued"))
  BY DEF Taken
<1>5. \A j : /\ Taken(j) => Taken(j)' /\ Open(j)' /\ Asked(j)'
             /\ Open(j) \/ Asked(j) => Taken(j)
             /\ Earned(j)'
  BY <1>1 DEF Taken, Open, Asked, Earned
<1>6. \A a \in Agents, j \in JobIds :
        /\ Carries(a, j)' => Carries(a, j)
        /\ Reported(j)' => Reported(j)
        /\ \A pcs : At(a, pcs, j)' = At(a, pcs, j)
  BY <1>1, <1>3 DEF Carries, Ticket, Same, Reported, At
<1>7. \A a \in Agents, j \in JobIds :
        /\ Has(a, j)' => Has(a, j)
        /\ Unworked(a, j)' => Unworked(a, j)
        /\ Works(a, j)' => Works(a, j)
  BY <1>6 DEF Has, Unworked, Works
<1>8. Rights'
  <2> SUFFICES ASSUME NEW a \in Agents, NEW j \in JobIds
               PROVE  /\ Has(a, j)' => Taken(j)'
                      /\ Unworked(a, j)' => Open(j)' /\ runs'[j] = 0 /\ ~Reported(j)'
                      /\ Works(a, j)' => Open(j)' /\ runs'[j] = 1 /\ ~Reported(j)'
    BY DEF Rights
  <2>1. /\ Has(a, j) => Taken(j)
        /\ Unworked(a, j) => Open(j) /\ runs[j] = 0 /\ ~Reported(j)
        /\ Works(a, j) => Open(j) /\ runs[j] = 1 /\ ~Reported(j)
    BY DEF FInv, Rights
  <2> QED BY <1>1, <1>5, <1>6, <1>7, <2>1
<1>9. OneHolder'
  BY <1>7 DEF FInv, OneHolder
<1>10. Reports'
  <2> SUFFICES ASSUME NEW d \in calls', d.op = "result"
               PROVE  /\ Taken(d.job)' /\ d.result \in ResultStates
                      /\ d.result = "succeeded" => runs'[d.job] = 1
                      /\ d.result = "cancelled" => Asked(d.job)'
    BY DEF Reports
  <2>1. PICK c \in calls : Same(c, d)
    BY <1>3
  <2> QED BY <1>1, <1>5, <2>1 DEF FInv, Reports, Same
<1>11. Verdicts'
  <2> SUFFICES ASSUME NEW d \in calls', d.live, d.op = "sync", d.got = "cancel"
               PROVE  Asked(d.job)'
    BY DEF Verdicts
  <2>1. PICK c \in calls : Same(c, d) /\ d.got = c.got
    BY <1>3
  <2>2. Asked(d.job)
    BY <2>1 DEF FInv, Verdicts, Same
  <2> QED BY <1>5, <2>2
<1>12. Work'
  BY <1>1, <1>5 DEF FInv, Work
<1>13. Shapes'
  <2>1. \A d \in calls' : IsCall(d) /\ (Ticket(d) => d.got.job \in JobIds)
    BY <1>3 DEF FInv, Shapes, Ticket, Same
  <2> QED BY <1>1, <2>1 DEF FInv, Shapes
<1>14. Waits'
  <2>1. \A d \in calls' : d.live => Expected(d, agent[d.agent])'
    BY <1>1, <1>3 DEF FInv, Waits, Same, Expected
  <2>2. ASSUME NEW d \in calls', NEW e \in calls', d.agent = e.agent
        PROVE  d = e
    <3>1. PICK c \in calls : d = Cut(c) /\ c.live /\ Same(c, d)
      BY <1>3
    <3>2. PICK o \in calls : e = Cut(o) /\ o.live /\ Same(o, e)
      BY <1>3
    <3>3. c = o
      BY <2>2, <3>1, <3>2 DEF FInv, Waits, Same
    <3> QED BY <3>1, <3>2, <3>3
  <2> QED BY <2>1, <2>2 DEF Waits
<1>15. IInv'
  <2>1. IsFiniteSet(DOMAIN jobs') /\ Cardinality(DOMAIN jobs') = 0
    BY <1>1, FS_EmptySet
  <2>2. QuotaOK(jobs')
    <3>1. \A owner \in Owners : ActiveChecks(jobs', owner) = {}
      BY <1>1 DEF ActiveChecks
    <3> QED BY <3>1, FS_EmptySet, QueueConstants DEF QuotaOK
  <2>3. RecordsOK(jobs', leases) /\ LeasesDistinct(jobs')
    BY <1>1 DEF RecordsOK, LeasesDistinct
  <2> QED BY <1>1, <2>1, <2>2, <2>3, QueueConstants DEF IInv, TableOK
<1>16. \A j \in JobIds : Quiet(j)
  BY <1>1 DEF Quiet
<1> QED BY <1>8, <1>9, <1>10, <1>11, <1>12, <1>13, <1>14, <1>15, <1>16 DEF FInv

-----------------------------------------------------------------------------
(* Every step of the fleet is a step of the queue, or loses its table.       *)
LEMMA SubmitIsQueueStep ==
    ASSUME FInv, NEW id \in JobIds, Submit(id)
    PROVE  Next
<1>1. PICK t \in Readings, r \in RequestedTimeouts, target \in DOMAIN Pruned(clock) \cup {None} :
        \/ SubmitProbe(id, target, r, t)
        \/ \E owner \in Owners \cup {None} : SubmitCheck(id, owner, target, r, t)
  BY DEF Submit
<1>2. target \in Agents \cup {None}
  BY PrunedIsOfAgents
<1> QED BY <1>1, <1>2 DEF Next

LEMMA ClaimIsQueueStep ==
    ASSUME FInv, NEW c \in calls, ServeClaim(c)
    PROVE  Next
<1>1. c.agent \in Agents /\ Capabilities(c.agent) \in SUBSET {CompileCapability}
  BY DEF FInv, Shapes, IsCall, Capabilities
<1>2. ASSUME NEW t \in Readings, NEW id \in JobIds,
             ClaimJob(id, c.agent, c.max, Capabilities(c.agent), t)
      PROVE  Next
  <2>1. c.max \in 1 .. MaxClaim
    BY <1>2 DEF ClaimJob
  <2> QED BY <1>1, <1>2, <2>1 DEF Next
<1>3. (\E t \in Readings : Observe(t)) => Next
  BY DEF Next
<1> QED BY <1>2, <1>3 DEF ServeClaim

LEMMA ResultIsQueueStep ==
    ASSUME FInv, IInv, NEW c \in calls, ServeResult(c)
    PROVE  Next
<1>1. c.agent \in Agents /\ c.agent # None /\ c.op = "result"
  BY QueueConstants DEF FInv, Shapes, IsCall, ServeResult
<1>2. ASSUME NEW t \in Readings, Complete(c.job, c.agent, c.lease, c.result, t)
      PROVE  Next
  <2>1. c.job \in DOMAIN Reaped(t) /\ LeaseMatches(Reaped(t)[c.job], c.agent, c.lease)
    BY <1>2 DEF Complete
  <2>2. c.job \in JobIds /\ c.lease \in 1 .. leases
    BY <1>1, <2>1, ReapedRecord DEF JobOK, LeaseMatches
  <2>3. c.result \in ResultStates
    BY <1>1 DEF FInv, Reports
  <2> QED BY <1>1, <1>2, <2>2, <2>3 DEF Next
<1>3. (\E t \in Readings : Observe(t)) => Next
  BY DEF Next
<1> QED BY <1>2, <1>3 DEF ServeResult

LEMMA ServeCallIsQueueStep ==
    ASSUME FInv, IInv, NEW c \in calls, ServeCall(c)
    PROVE  [Next]_queueVars
<1>1. ServeSync(c) => Next
  BY DEF ServeSync, Next
<1>2. ServeRegister(c) \/ ServeIssue(c) \/ ServeVerify(c) \/ ServeHeartbeat(c) \/ ServeAdmit(c)
        => UNCHANGED queueVars
  BY DEF ServeRegister, ServeIssue, ServeVerify, ServeHeartbeat, ServeAdmit
<1> QED BY <1>1, <1>2, ClaimIsQueueStep, ResultIsQueueStep DEF ServeCall

LEMMA CancelIsQueueStep ==
    ASSUME NEW id \in JobIds, Cancel(id)
    PROVE  Next
BY DEF Cancel, Next

LEMMA AgentIsNoQueueStep ==
    ASSUME NEW a, AgentStep(a) \/ TimeOut(a) \/ Crash(a) \/ Start(a) \/ Drain(a)
    PROVE  UNCHANGED queueVars
BY DEF AgentStep, Poll, Hear, Execute, Finish, TimeOut, Crash, Start, Drain

LEMMA AgentKeeps ==
    ASSUME FInv, NEW a \in Agents, AgentStep(a) \/ TimeOut(a) \/ Crash(a) \/ Start(a) \/ Drain(a)
    PROVE  FInv'
BY PollKeeps, HearKeeps, ExecuteKeeps, FinishKeeps, TimeOutKeeps, CrashKeeps, StartKeeps,
   DrainKeeps DEF AgentStep

(* The kinds of steps.                                                       *)
LEMMA FleetSteps ==
    ASSUME FleetNext
    PROVE  \/ \E a \in Agents : AgentStep(a) \/ TimeOut(a) \/ Crash(a) \/ Start(a) \/ Drain(a)
           \/ \E c \in calls : ServeCall(c)
           \/ \E id \in JobIds : Submit(id)
           \/ \E id \in JobIds : Cancel(id)
           \/ Look \/ Pass
           \/ EngineRestart
BY DEF FleetNext, ServeLive, ServeLate

LEMMA NextFleetInv == FleetInv /\ [FleetNext]_fleetVars => FleetInv'
<1> SUFFICES ASSUME FleetInv, [FleetNext]_fleetVars PROVE FleetInv'
  OBVIOUS
<1>0. FInv /\ IInv
  BY DEF FleetInv
<1>1. ASSUME NEW a \in Agents, AgentStep(a) \/ TimeOut(a) \/ Crash(a) \/ Start(a) \/ Drain(a)
      PROVE  FleetInv'
  BY <1>0, <1>1, AgentKeeps, AgentIsNoQueueStep, NextIInv DEF FleetInv
<1>2. ASSUME NEW c \in calls, ServeCall(c) PROVE FleetInv'
  BY <1>0, <1>2, ServeCallKeeps, ServeCallIsQueueStep, NextIInv DEF FleetInv
<1>3. ASSUME NEW id \in JobIds, Submit(id) PROVE FleetInv'
  BY <1>0, <1>3, SubmitKeeps, SubmitIsQueueStep, NextIInv DEF FleetInv
<1>4. ASSUME NEW id \in JobIds, Cancel(id) PROVE FleetInv'
  BY <1>0, <1>4, CancelKeeps, CancelIsQueueStep, NextIInv DEF FleetInv
<1>5. CASE Look \/ Pass
  <2>1. Next
    BY <1>5 DEF Look, Pass, Next
  <2> QED BY <1>0, <1>5, <2>1, LookPassKeeps, NextIInv DEF FleetInv
<1>6. CASE EngineRestart
  BY <1>0, <1>6, RestartKeeps DEF FleetInv
<1>7. CASE UNCHANGED fleetVars
  <2>1. UNCHANGED queueVars /\ UNCHANGED <<agent, runs, calls, registry>>
    BY <1>7 DEF fleetVars, serverVars
  <2>2. \A j \in JobIds : Keeps(j)
    BY <2>1, QuietKeeps DEF queueVars, Quiet
  <2> QED BY <1>0, <2>1, <2>2, OutsideKeeps, NextIInv DEF FleetInv
<1> QED BY <1>1, <1>2, <1>3, <1>4, <1>5, <1>6, <1>7, FleetSteps

LEMMA InitFleetInv == FleetInit => FleetInv
<1> SUFFICES ASSUME FleetInit PROVE FleetInv
  OBVIOUS
<1>1. IInv
  BY InitIInv DEF FleetInit
<1>2. /\ calls = {} /\ issued = {} /\ DOMAIN jobs = {} /\ DOMAIN registry = {}
      /\ runs = [j \in JobIds |-> 0] /\ agent = [a \in Agents |-> Fresh]
  BY DEF FleetInit, Init
<1>3. IsAgent(Fresh) /\ Fresh.pc = "unregistered"
  BY DEF Fresh, IsAgent, AgentFields
<1>4. \A a \in Agents, j \in JobIds : ~Has(a, j) /\ ~Unworked(a, j) /\ ~Works(a, j)
  BY <1>2, <1>3 DEF Has, Unworked, Works, Carries, At, Knowing, Early
<1>5. Shapes /\ Waits /\ Reports /\ Verdicts
  BY <1>2, <1>3 DEF Shapes, Waits, Reports, Verdicts, Knowing, Early
<1>6. Rights /\ OneHolder /\ Work
  BY <1>2, <1>4 DEF Rights, OneHolder, Work, Earned
<1> QED BY <1>1, <1>5, <1>6 DEF FleetInv, FInv

(* The right to work on a job is followed through every interleaving.        *)
THEOREM FleetInvariant == FleetSafety => []FleetInv
BY InitFleetInv, NextFleetInv, PTL DEF FleetSafety

(* No job's work is started twice: not by another agent after a lease        *)
(* expired, not after a lost answer, a crash or an engine restart.           *)
THEOREM WorkStartsOnce == FleetSafety => []AtMostOneRun
<1>1. FleetInv => AtMostOneRun
  BY DEF FleetInv, FInv, Shapes, AtMostOneRun
<1> QED BY <1>1, FleetInvariant, PTL

(* While a job shows a result or a cancellation nobody works on it, nor will.*)
THEOREM EndedStops == FleetSafety => []EndedMeansStopped
<1>1. FleetInv => EndedMeansStopped
  <2> SUFFICES ASSUME FleetInv, NEW j \in DOMAIN jobs, NEW a \in Agents,
                      jobs[j].state \in ResultStates, agent[a].job = j,
                      agent[a].pc \in {"announce", "sync", "execute", "running"}
               PROVE  FALSE
    BY DEF EndedMeansStopped
  <2>1. j \in JobIds
    BY DEF FleetInv, IInv
  <2>2. Unworked(a, j) \/ Works(a, j)
    BY DEF Unworked, Works, At, Early
  <2> QED BY <2>1, <2>2 DEF FleetInv, FInv, Rights, Open
<1> QED BY <1>1, FleetInvariant, PTL

-----------------------------------------------------------------------------
(* The promise.  What one step does to one job.                              *)
Progress(j) ==
    \/ Quiet(j) \/ Born(j)
    \/ Moved(j, "queued", "claimed") \/ Moved(j, "queued", "cancelled")
    \/ Moved(j, "claimed", "cancel_requested")
    \/ Moved(j, "claimed", "succeeded") \/ Moved(j, "claimed", "failed")
    \/ Moved(j, "cancel_requested", "cancelled")

LEMMA PhaseMoves ==
    ASSUME IInv, IInv', NEW j \in JobIds, Progress(j)
    PROVE  /\ PhaseOf(j)' \in Service!Phases
           /\ PhaseOf(j)' # PhaseOf(j) => <<PhaseOf(j), PhaseOf(j)'>> \in Service!Moves
<1>1. /\ j \in DOMAIN jobs => jobs[j].state \in JobState /\ j \in issued
      /\ j \in DOMAIN jobs' => jobs'[j].state \in JobState /\ j \in issued'
  BY DEF IInv, TableOK, RecordsOK, JobRecord
<1>2. PhaseOf(j) \in Service!Phases /\ PhaseOf(j)' \in Service!Phases
  BY <1>1 DEF PhaseOf, Service!Phases, JobState, Leased, Terminal
<1>3. \A p \in Service!Phases \ {"none", "lost"} : <<p, "lost">> \in Service!Moves
  BY DEF Service!Moves
<1>4. CASE Quiet(j)
  <2>1. CASE j \notin issued
    BY <1>2, <1>4, <2>1 DEF Quiet, PhaseOf
  <2>2. CASE j \in issued /\ j \notin DOMAIN jobs'
    <3>1. PhaseOf(j)' = "lost" /\ PhaseOf(j) # "none"
      BY <1>1, <1>4, <2>2 DEF Quiet, PhaseOf, JobState, Leased, Terminal
    <3> QED BY <1>2, <1>3, <3>1
  <2>3. CASE j \in DOMAIN jobs'
    <3>1. j \in DOMAIN jobs /\ j \in issued /\ j \in issued'
      BY <1>1, <1>4, <2>3 DEF Quiet
    <3>2. CASE jobs'[j].state = jobs[j].state
      BY <1>2, <3>1, <3>2, <2>3 DEF PhaseOf
    <3>3. CASE jobs[j].state \notin Terminal /\ jobs'[j].state = "expired"
      <4>1. jobs[j].state \in {"queued", "claimed", "cancel_requested"}
        BY <1>1, <3>1, <3>3 DEF JobState, Leased, Terminal
      <4>2. PhaseOf(j) \in {"waiting", "held", "cancelling"} /\ PhaseOf(j)' = "expired"
        BY <2>3, <3>1, <3>3, <4>1 DEF PhaseOf
      <4> QED BY <1>2, <4>2 DEF Service!Moves
    <3> QED BY <1>4, <2>3, <3>2, <3>3 DEF Quiet
  <2> QED BY <2>1, <2>2, <2>3
<1>5. CASE Born(j)
  <2>1. PhaseOf(j) = "none" /\ PhaseOf(j)' = "waiting"
    BY <1>5 DEF Born, PhaseOf
  <2> QED BY <1>2, <2>1 DEF Service!Moves
<1>6. ASSUME NEW from, NEW to, Moved(j, from, to),
             \/ from = "queued" /\ to \in {"claimed", "cancelled"}
             \/ from = "claimed" /\ to \in {"cancel_requested", "succeeded", "failed"}
             \/ from = "cancel_requested" /\ to = "cancelled"
      PROVE  /\ PhaseOf(j)' \in Service!Phases
             /\ PhaseOf(j)' # PhaseOf(j) => <<PhaseOf(j), PhaseOf(j)'>> \in Service!Moves
  <2>1. \/ PhaseOf(j) = "waiting" /\ PhaseOf(j)' \in {"held", "cancelled"}
        \/ PhaseOf(j) = "held" /\ PhaseOf(j)' \in {"cancelling", "succeeded", "failed"}
        \/ PhaseOf(j) = "cancelling" /\ PhaseOf(j)' = "cancelled"
    BY <1>6 DEF Moved, PhaseOf
  <2> QED BY <1>2, <2>1 DEF Service!Moves
<1> QED BY <1>4, <1>5, <1>6 DEF Progress

LEMMA ServeProgress ==
    ASSUME FInv, IInv, NEW c \in calls, ServeCall(c)
    PROVE  \A j \in JobIds : Progress(j)
<1>1. CASE ServeClaim(c)
  <2>1. ASSUME NEW t \in Readings, NEW id \in JobIds,
               ClaimJob(id, c.agent, c.max, Capabilities(c.agent), t)
        PROVE  \A j \in JobIds : Progress(j)
    BY <2>1, ClaimMoves DEF QuietBut, Progress
  <2>2. ASSUME NEW t \in Readings, Observe(t) PROVE \A j \in JobIds : Progress(j)
    BY <2>2, ObserveMoves DEF Progress
  <2> QED BY <1>1, <2>1, <2>2 DEF ServeClaim
<1>2. CASE ServeSync(c)
  BY <1>2, ObserveMoves DEF ServeSync, Progress
<1>3. CASE ServeResult(c)
  <2>1. PICK t \in Readings : Complete(c.job, c.agent, c.lease, c.result, t) \/ Observe(t)
    BY <1>3 DEF ServeResult
  <2>2. CASE Complete(c.job, c.agent, c.lease, c.result, t)
    <3>1. c.result \in ResultStates /\ (c.result = "cancelled" => Asked(c.job))
      BY <1>3 DEF ServeResult, FInv, Reports
    <3>2. /\ \/ Moved(c.job, "claimed", c.result)
             \/ Moved(c.job, "cancel_requested", c.result) /\ c.result = "cancelled"
          /\ QuietBut(c.job)
      BY <2>2, <3>1, CompleteMoves
    <3>3. Moved(c.job, "claimed", c.result) => c.result \in {"succeeded", "failed"}
      BY <3>1 DEF Moved, Asked, ResultStates
    <3> QED BY <3>2, <3>3 DEF QuietBut, Progress
  <2> QED BY <2>1, <2>2, ObserveMoves DEF Progress
<1>4. CASE ServeRegister(c) \/ ServeIssue(c) \/ ServeVerify(c) \/ ServeHeartbeat(c)
             \/ ServeAdmit(c)
  BY <1>4 DEF ServeRegister, ServeIssue, ServeVerify, ServeHeartbeat, ServeAdmit, queueVars,
              Progress, Quiet
<1> QED BY <1>1, <1>2, <1>3, <1>4 DEF ServeCall

LEMMA FleetProgress ==
    ASSUME FleetInv, [FleetNext]_fleetVars
    PROVE  \A j \in JobIds : Progress(j)
<1>0. FInv /\ IInv
  BY DEF FleetInv
<1>1. UNCHANGED queueVars => \A j \in JobIds : Progress(j)
  BY DEF queueVars, Progress, Quiet
<1>2. ASSUME NEW c \in calls, ServeCall(c) PROVE \A j \in JobIds : Progress(j)
  BY <1>0, <1>2, ServeProgress
<1>3. ASSUME NEW id \in JobIds, Submit(id) PROVE \A j \in JobIds : Progress(j)
  <2>1. PICK t \in Readings : \E r, target, owner :
          SubmitProbe(id, target, r, t) \/ SubmitCheck(id, owner, target, r, t)
    BY <1>3 DEF Submit
  <2> QED BY <1>0, <2>1, SubmitMoves DEF QuietBut, Progress
<1>4. ASSUME NEW id \in JobIds, Cancel(id) PROVE \A j \in JobIds : Progress(j)
  <2>1. PICK t \in Readings : \E caller : CancelQueued(id, caller, t) \/ CancelClaimed(id, caller, t)
    BY <1>4 DEF Cancel
  <2> QED BY <1>0, <2>1, CancelMoves DEF QuietBut, Progress
<1>5. CASE Look
  BY <1>0, <1>5, ObserveMoves DEF Look, Progress
<1>6. CASE Pass
  BY <1>6 DEF Pass, Tick, Progress, Quiet
<1>7. CASE EngineRestart
  BY <1>0, <1>7, RestartKeeps DEF Progress
<1>8. UNCHANGED fleetVars => UNCHANGED queueVars
  BY DEF fleetVars
<1> QED BY <1>1, <1>2, <1>3, <1>4, <1>5, <1>6, <1>7, <1>8, FleetSteps, AgentIsNoQueueStep

(* Work starts by Execute alone, under a lease that may have run out.        *)
LEMMA RunsMove ==
    ASSUME FleetInv, [FleetNext]_fleetVars
    PROVE  \/ UNCHANGED runs
           \/ /\ UNCHANGED queueVars
              /\ \E j \in JobIds :
                    PhaseOf(j) \in Service!MayStart /\ runs[j] = 0 /\ runs' = [runs EXCEPT ![j] = 1]
<1>0. FInv /\ IInv
  BY DEF FleetInv
<1>1. ASSUME NEW a \in Agents, agent[a].pc = "execute", UNCHANGED <<queueVars, registry>>,
             Become(a, [agent[a] EXCEPT !.pc = "running"], calls, {}),
             runs' = [runs EXCEPT ![agent[a].job] = @ + 1]
      PROVE  \E j \in JobIds :
                PhaseOf(j) \in Service!MayStart /\ runs[j] = 0 /\ runs' = [runs EXCEPT ![j] = 1]
  <2> DEFINE j == agent[a].job
  <2>1. j \in JobIds /\ Open(j) /\ runs[j] = 0 /\ runs' = [runs EXCEPT ![j] = 1]
    BY <1>0, <1>1, BeginKeeps
  <2> HIDE DEF j
  <2>2. j \in DOMAIN jobs => jobs[j].state \in {"claimed", "cancel_requested", "expired"}
    BY <1>0, <2>1 DEF IInv, TableOK, RecordsOK, JobRecord, JobState, Leased, Terminal,
                      Open, Taken, ResultStates
  <2>3. PhaseOf(j) \in Service!MayStart
    BY <2>1, <2>2 DEF Open, Taken, PhaseOf, Service!MayStart
  <2> QED BY <2>1, <2>3
<1>2. ASSUME NEW a \in Agents, Execute(a)
      PROVE  \/ UNCHANGED runs
             \/ /\ UNCHANGED queueVars
                /\ \E j \in JobIds : PhaseOf(j) \in Service!MayStart /\ runs[j] = 0
                                     /\ runs' = [runs EXCEPT ![j] = 1]
  BY <1>1, <1>2 DEF Execute, serverVars
<1>3. ASSUME NEW a \in Agents,
             Poll(a) \/ Hear(a) \/ Finish(a) \/ TimeOut(a) \/ Crash(a) \/ Start(a) \/ Drain(a)
      PROVE  UNCHANGED runs
  BY <1>3 DEF Poll, Hear, Finish, TimeOut, Crash, Start, Drain
<1>4. ASSUME NEW c \in calls, ServeCall(c) PROVE UNCHANGED runs
  BY <1>4 DEF ServeCall, ServeRegister, ServeIssue, ServeVerify, ServeHeartbeat, ServeAdmit,
              ServeClaim, ServeSync, ServeResult, Idle
<1>5. ASSUME NEW id \in JobIds, Submit(id) \/ Cancel(id) PROVE UNCHANGED runs
  BY <1>5 DEF Submit, Cancel
<1>6. Look \/ Pass \/ EngineRestart \/ UNCHANGED fleetVars => UNCHANGED runs
  BY DEF Look, Pass, EngineRestart, fleetVars
<1> QED BY <1>2, <1>3, <1>4, <1>5, <1>6, FleetSteps DEF AgentStep

(* Every step of the fleet is a step of JobService, or leaves it as it is.   *)
LEMMA StepKeepsPromise ==
    ASSUME FleetInv, FleetInv', [FleetNext]_fleetVars
    PROVE  [Service!ServiceNext]_(Service!serviceVars)
<1> DEFINE phase == [j \in JobIds |-> PhaseOf(j)]
<1>0. IInv /\ IInv' /\ FInv /\ FInv'
  BY DEF FleetInv
<1>1. CASE UNCHANGED runs
  <2>1. \A j \in JobIds : /\ PhaseOf(j)' \in Service!Phases
                          /\ PhaseOf(j)' # PhaseOf(j) => <<PhaseOf(j), PhaseOf(j)'>> \in Service!Moves
    BY <1>0, FleetProgress, PhaseMoves
  <2>2. \A j \in JobIds : PhaseOf(j)' = "succeeded" => runs[j] = 1
    <3>1. \A j \in JobIds : Earned(j)'
      BY <1>0 DEF FInv, Work
    <3>2. \A j \in JobIds : PhaseOf(j)' = "succeeded" =>
              j \in DOMAIN jobs' /\ jobs'[j].state = "succeeded"
      BY DEF PhaseOf
    <3> QED BY <1>1, <3>1, <3>2 DEF Earned
  <2>3. Service!MoveJobs
    BY <1>1, <2>1, <2>2 DEF Service!MoveJobs
  <2> QED BY <2>3 DEF Service!ServiceNext
<1>2. ASSUME UNCHANGED queueVars, NEW j \in JobIds, PhaseOf(j) \in Service!MayStart,
             runs[j] = 0, runs' = [runs EXCEPT ![j] = 1]
      PROVE  Service!StartWork(j)
  <2>1. \A i \in JobIds : PhaseOf(i)' = PhaseOf(i)
    BY <1>2 DEF queueVars, PhaseOf
  <2> QED BY <1>2, <2>1 DEF Service!StartWork
<1> QED BY <1>1, <1>2, RunsMove DEF Service!ServiceNext

LEMMA InitKeepsPromise == FleetInit => Service!ServiceInit
BY DEF FleetInit, Init, Service!ServiceInit, PhaseOf

(* The control plane implements JobService: work starts at most once and     *)
(* only under a lease, a success was earned, a cancellation was asked for,   *)
(* and an outcome never changes.                                             *)
THEOREM PromiseIsKept == FleetSafety => KeepsPromise
<1>1. FleetInv /\ FleetInv' /\ [FleetNext]_fleetVars => [Service!ServiceNext]_(Service!serviceVars)
  BY StepKeepsPromise
<1> QED BY <1>1, InitKeepsPromise, FleetInvariant, PTL
         DEF FleetSafety, KeepsPromise, Service!ServiceSpec
-----------------------------------------------------------------------------
(* What holds of the agents: they are well-typed, never hold more leases     *)
(* than they may run and, when the registry has room for all of them, are    *)
(* never stopped by an answer of the engine.  The invariant above says which *)
(* call an agent waits for; here it is joined by what the requests and the   *)
(* answers may carry.                                                        *)

(* Types.                                                                    *)
SecretsOK ==
    /\ drawn \in Nat /\ DOMAIN credentials \subseteq Agents
    /\ \A a \in DOMAIN credentials : credentials[a] \in 1 .. drawn
AgentsOK == \A a \in Agents : agent[a].pc \in PC /\ agent[a].job \in JobIds \cup {None}
FleetTypeInv == FleetInv /\ SecretsOK /\ AgentsOK

(* What answers grant an agent that waits for them: a job under a lease.     *)
TicketsOf(a) ==
    {<<c.got.job, c.got.lease>> : c \in {d \in calls : d.agent = a /\ Ticket(d)}}

(* The agent goes on as somebody well-typed, with the job and the lease it   *)
(* had, with no job or with one it was granted.                              *)
GoesOn(a, granted) ==
    \E me : /\ agent' = [agent EXCEPT ![a] = me] /\ me.pc \in PC
            /\ \/ me.job = None
               \/ me.job = agent[a].job /\ me.lease = agent[a].lease
               \/ granted /\ me.job \in JobIds /\ <<me.job, me.lease>> \in TicketsOf(a)

LEMMA FreshFacts ==
    ASSUME NEW me, NEW cred, NEW pc
    PROVE  /\ Fresh.pc = "unregistered" /\ Fresh.job = None /\ Fresh.after = "ok"
           /\ LET e == [Fresh EXCEPT !.pc = pc] IN e.pc = pc /\ e.job = None /\ e.after = "ok"
           /\ LET e == [Fresh EXCEPT !.pc = pc, !.cred = cred]
              IN  e.pc = pc /\ e.job = None /\ e.after = "ok"
BY DEF Fresh

LEMMA ChangeFacts ==
    ASSUME NEW me, IsAgent(me), NEW pc, NEW x
    PROVE  /\ LET e == [me EXCEPT !.pc = pc]
              IN  e.pc = pc /\ e.job = me.job /\ e.lease = me.lease /\ e.after = me.after
           /\ LET e == [me EXCEPT !.pc = pc, !.result = x]
              IN  e.pc = pc /\ e.job = me.job /\ e.lease = me.lease /\ e.after = me.after
           /\ LET e == [me EXCEPT !.pc = pc, !.after = x]
              IN  e.pc = pc /\ e.job = me.job /\ e.lease = me.lease /\ e.after = x
BY DEF IsAgent, AgentFields

LEMMA EndPollTypes ==
    ASSUME NEW me, NEW outcome
    PROVE  EndPoll(me, outcome).pc \in PC /\ EndPoll(me, outcome).job = None
BY FreshFacts DEF EndPoll, PC

LEMMA SettleTypes ==
    ASSUME FInv, NEW a \in Agents, NEW outcome, NEW rest, Settle(a, outcome, rest)
    PROVE  GoesOn(a, FALSE)
<1> DEFINE me == [agent[a] EXCEPT !.pc = "settle", !.after = outcome]
<1>1. IsAgent(agent[a])
  BY DEF FInv, Shapes
<1>2. me.pc \in PC /\ me.job = agent[a].job /\ me.lease = agent[a].lease
  BY <1>1, ChangeFacts DEF PC, Waiting
<1>3. agent' = [agent EXCEPT ![a] = me]
  BY DEF Settle, Become
<1> HIDE DEF me
<1> QED BY <1>2, <1>3 DEF GoesOn

LEMMA ReportTypes ==
    ASSUME FInv, NEW a \in Agents, NEW pc \in {"report", "acknowledge"}, NEW result, NEW rest,
           Report(a, pc, result, rest)
    PROVE  GoesOn(a, FALSE)
<1> DEFINE me == [agent[a] EXCEPT !.pc = pc, !.result = result]
<1>1. IsAgent(agent[a])
  BY DEF FInv, Shapes
<1>2. me.pc \in PC /\ me.job = agent[a].job /\ me.lease = agent[a].lease
  BY <1>1, ChangeFacts DEF PC, Waiting
<1>3. agent' = [agent EXCEPT ![a] = me]
  BY DEF Report, Become
<1> HIDE DEF me
<1> QED BY <1>2, <1>3 DEF GoesOn

(* A step that only moves the agent's counter.                               *)
LEMMA MoveTypes ==
    ASSUME FInv, NEW a \in Agents, NEW pc \in PC, agent' = [agent EXCEPT ![a] = [@ EXCEPT !.pc = pc]]
    PROVE  GoesOn(a, FALSE)
<1> DEFINE me == [agent[a] EXCEPT !.pc = pc]
<1>1. IsAgent(agent[a]) /\ a \in DOMAIN agent
  BY DEF FInv, Shapes
<1>2. me.pc \in PC /\ me.job = agent[a].job /\ me.lease = agent[a].lease
  BY <1>1, ChangeFacts
<1>3. agent' = [agent EXCEPT ![a] = me]
  BY <1>1
<1> HIDE DEF me
<1> QED BY <1>2, <1>3 DEF GoesOn

LEMMA FreshTypes ==
    ASSUME NEW a, NEW pc \in PC, NEW cred,
           \/ agent' = [agent EXCEPT ![a] = Fresh]
           \/ agent' = [agent EXCEPT ![a] = [Fresh EXCEPT !.pc = pc]]
           \/ agent' = [agent EXCEPT ![a] = [Fresh EXCEPT !.pc = pc, !.cred = cred]]
    PROVE  GoesOn(a, FALSE)
<1>1. Fresh.pc \in PC
  BY FreshFacts DEF PC
<1>2. \A me : agent' = [agent EXCEPT ![a] = me] /\ me.pc \in PC /\ me.job = None => GoesOn(a, FALSE)
  BY DEF GoesOn
<1> DEFINE d == [Fresh EXCEPT !.pc = pc]
           e == [Fresh EXCEPT !.pc = pc, !.cred = cred]
<1>3. Fresh.job = None /\ d.pc = pc /\ d.job = None /\ e.pc = pc /\ e.job = None
  BY FreshFacts
<1>4. \/ agent' = [agent EXCEPT ![a] = Fresh] \/ agent' = [agent EXCEPT ![a] = d]
      \/ agent' = [agent EXCEPT ![a] = e]
  OBVIOUS
<1> HIDE DEF d, e
<1> QED BY <1>1, <1>2, <1>3, <1>4

LEMMA EndTypes ==
    ASSUME NEW a, NEW outcome, NEW rest, Become(a, EndPoll(agent[a], outcome), rest, {})
    PROVE  GoesOn(a, FALSE)
<1>1. \A me : agent' = [agent EXCEPT ![a] = me] /\ me.pc \in PC /\ me.job = None => GoesOn(a, FALSE)
  BY DEF GoesOn
<1> QED BY <1>1, EndPollTypes DEF Become

LEMMA HandleTypes ==
    ASSUME FInv, NEW a \in Agents, NEW status, NEW body, NEW rest,
           Handle(a, status, body, rest),
           agent[a].pc = "claim" /\ status = "200" /\ body # None =>
               body.job \in JobIds /\ <<body.job, body.lease>> \in TicketsOf(a)
    PROVE  GoesOn(a, TRUE)
<1>0. GoesOn(a, FALSE) => GoesOn(a, TRUE)
  BY DEF GoesOn
<1>1. CASE OnRegister(a, status, body, rest)
  <2>1. \/ agent' = [agent EXCEPT ![a] = Fresh]
        \/ agent' = [agent EXCEPT ![a] = [Fresh EXCEPT !.pc = "beat", !.cred = body]]
        \/ agent' = [agent EXCEPT ![a] = [Fresh EXCEPT !.pc = "exited"]]
    BY <1>1 DEF OnRegister, Become
  <2>2. "beat" \in PC /\ "exited" \in PC
    BY DEF PC, Waiting
  <2> QED BY <1>0, <2>1, <2>2, FreshTypes
<1>2. CASE OnBeat(a, status, rest)
  <2>1. \/ agent' = [agent EXCEPT ![a] = [@ EXCEPT !.pc = "claim"]]
        \/ Become(a, EndPoll(agent[a], Outcome(status)), rest, {})
    BY <1>2 DEF OnBeat, Become, FInv, Shapes
  <2>2. "claim" \in PC
    BY DEF PC, Waiting
  <2> QED BY <1>0, <2>1, <2>2, MoveTypes, EndTypes
<1>3. CASE OnClaim(a, status, body, rest)
  <2> DEFINE me == [agent[a] EXCEPT !.pc = "announce", !.job = body.job,
                      !.kind = body.kind, !.lease = body.lease, !.due = body.due]
  <2>1. CASE /\ agent[a].pc = "claim" /\ status = "200" /\ body # None
             /\ agent' = [agent EXCEPT ![a] = me]
    <3>1. IsAgent(agent[a])
      BY DEF FInv, Shapes
    <3>2. me.pc \in PC /\ me.job = body.job /\ me.lease = body.lease
      BY <3>1 DEF IsAgent, AgentFields, PC, Waiting
    <3> HIDE DEF me
    <3> QED BY <2>1, <3>2 DEF GoesOn
  <2>2. CASE Become(a, EndPoll(agent[a], Outcome(status)), rest, {})
    BY <1>0, <2>2, EndTypes
  <2> QED BY <1>3, <2>1, <2>2 DEF OnClaim, Become
<1>4. CASE OnAnnounce(a, status, rest)
  <2>1. \/ agent' = [agent EXCEPT ![a] = [@ EXCEPT !.pc = "sync"]]
        \/ Become(a, EndPoll(agent[a], Outcome(status)), rest, {})
    BY <1>4 DEF OnAnnounce, Become, FInv, Shapes
  <2>2. "sync" \in PC
    BY DEF PC, Waiting
  <2> QED BY <1>0, <2>1, <2>2, MoveTypes, EndTypes
<1>5. CASE OnSync(a, status, body, rest)
  <2>1. \/ agent' = [agent EXCEPT ![a] = [@ EXCEPT !.pc = "execute"]]
        \/ Report(a, "report", "cancelled", rest)
        \/ \E outcome : Settle(a, outcome, rest)
    BY <1>5 DEF OnSync, Become, FInv, Shapes
  <2>2. "execute" \in PC
    BY DEF PC
  <2> QED BY <1>0, <2>1, <2>2, MoveTypes, ReportTypes, SettleTypes
<1>6. CASE OnReport(a, status, rest)
  <2>1. \/ agent' = [agent EXCEPT ![a] = [@ EXCEPT !.pc = "resync"]]
        \/ Settle(a, Outcome(status), rest)
    BY <1>6 DEF OnReport, Become, FInv, Shapes
  <2>2. "resync" \in PC
    BY DEF PC, Waiting
  <2> QED BY <1>0, <2>1, <2>2, MoveTypes, SettleTypes
<1>7. CASE OnResync(a, status, body, rest)
  <2>1. \/ Report(a, "acknowledge", "cancelled", rest)
        \/ \E outcome : Settle(a, outcome, rest)
    BY <1>7 DEF OnResync
  <2> QED BY <1>0, <2>1, ReportTypes, SettleTypes
<1>8. CASE OnEnd(a, status, rest)
  <2>1. \/ \E outcome : Settle(a, outcome, rest)
        \/ \E outcome : Become(a, EndPoll(agent[a], outcome), rest, {})
        \/ agent' = [agent EXCEPT ![a] = [Fresh EXCEPT !.pc = "down"]]
    BY <1>8 DEF OnEnd, Become
  <2>2. "down" \in PC
    BY DEF PC
  <2> QED BY <1>0, <2>1, <2>2, FreshTypes, SettleTypes, EndTypes
<1> QED BY <1>1, <1>2, <1>3, <1>4, <1>5, <1>6, <1>7, <1>8 DEF Handle

(* Every step of an agent is of this kind.                                   *)
LEMMA AgentGoesOn ==
    ASSUME FInv, AgentsOK, NEW a \in Agents,
           AgentStep(a) \/ TimeOut(a) \/ Crash(a) \/ Start(a) \/ Drain(a)
    PROVE  GoesOn(a, TRUE)
<1>1. GoesOn(a, FALSE) => GoesOn(a, TRUE)
  BY DEF GoesOn
<1>2. agent[a].pc \in PC
  BY DEF AgentsOK
<1>3. CASE Poll(a)
  <2>1. \/ agent' = [agent EXCEPT ![a] = [Fresh EXCEPT !.pc = "register"]]
        \/ agent' = [agent EXCEPT ![a] = [@ EXCEPT !.pc = "beat"]]
    BY <1>3 DEF Poll, Become, FInv, Shapes
  <2>2. "register" \in PC /\ "beat" \in PC
    BY DEF PC, Waiting
  <2> QED BY <1>1, <2>1, <2>2, FreshTypes, MoveTypes
<1>4. CASE Hear(a)
  <2>1. PICK c \in calls : /\ c.agent = a /\ c.live
                           /\ Handle(a, c.reply, c.got, calls \ {c})
    BY <1>4 DEF Hear
  <2>2. agent[a].pc = "claim" /\ c.got # None => Ticket(c)
    BY <2>1 DEF FInv, Waits, Expected, Ticket
  <2>3. Ticket(c) => c.got.job \in JobIds /\ <<c.got.job, c.got.lease>> \in TicketsOf(a)
    BY <2>1 DEF FInv, Shapes, TicketsOf
  <2> QED BY <2>1, <2>2, <2>3, HandleTypes
<1>5. CASE Execute(a)
  <2>1. \/ Report(a, "report", "failed", calls)
        \/ agent' = [agent EXCEPT ![a] = [@ EXCEPT !.pc = "running"]]
    BY <1>5 DEF Execute, Become, FInv, Shapes
  <2>2. "running" \in PC
    BY DEF PC
  <2> QED BY <1>1, <2>1, <2>2, ReportTypes, MoveTypes
<1>6. CASE Finish(a)
  BY <1>1, <1>6, ReportTypes DEF Finish
<1>7. CASE TimeOut(a)
  BY <1>1, <1>7, HandleTypes DEF TimeOut
<1>8. CASE Crash(a) \/ Start(a)
  <2>1. \/ agent' = [agent EXCEPT ![a] = [Fresh EXCEPT !.pc = "down"]]
        \/ agent' = [agent EXCEPT ![a] = Fresh]
    BY <1>8 DEF Crash, Start, Become
  <2>2. "down" \in PC
    BY DEF PC
  <2> QED BY <1>1, <2>1, <2>2, FreshTypes
<1>9. CASE Drain(a)
  <2>1. agent' = [agent EXCEPT ![a] = [@ EXCEPT !.pc = "drain"]]
    BY <1>9 DEF Drain, Become, FInv, Shapes
  <2>2. "drain" \in PC
    BY DEF PC, Waiting
  <2> QED BY <1>1, <2>1, <2>2, MoveTypes
<1> QED BY <1>3, <1>4, <1>5, <1>6, <1>7, <1>8, <1>9 DEF AgentStep

LEMMA AgentTypes ==
    ASSUME FInv, AgentsOK, NEW a \in Agents, GoesOn(a, TRUE)
    PROVE  AgentsOK'
<1>1. a \in DOMAIN agent /\ agent = [b \in Agents |-> agent[b]]
  BY DEF FInv, Shapes
<1>2. PICK me : /\ agent' = [agent EXCEPT ![a] = me] /\ me.pc \in PC
                /\ me.job \in {agent[a].job, None} \cup JobIds
  BY DEF GoesOn
<1>3. \A b \in Agents : agent'[b] = IF b = a THEN me ELSE agent[b]
  BY <1>1, <1>2
<1> QED BY <1>2, <1>3 DEF AgentsOK

(* Only a registration draws a secret.                                       *)
LEMMA SecretTypes ==
    ASSUME FInv, SecretsOK, [FleetNext]_fleetVars
    PROVE  SecretsOK'
<1>1. UNCHANGED <<credentials, drawn>> => SecretsOK'
  BY DEF SecretsOK
<1>2. ASSUME NEW c \in calls, ServeIssue(c) PROVE SecretsOK'
  <2>1. c.agent \in Agents /\ KeptSecrets(c) \subseteq DOMAIN credentials
    BY DEF FInv, Shapes, IsCall, KeptSecrets
  <2>2. CASE /\ drawn' = drawn + 1
             /\ credentials' = [b \in KeptSecrets(c) \cup {c.agent} |->
                                   IF b = c.agent THEN drawn + 1 ELSE credentials[b]]
    <3>1. \A b \in DOMAIN credentials' :
            \/ b = c.agent /\ credentials'[b] = drawn + 1
            \/ b \in DOMAIN credentials /\ credentials'[b] = credentials[b]
      BY <2>1, <2>2
    <3>2. drawn \in Nat /\ \A b \in DOMAIN credentials : b \in Agents /\ credentials[b] \in 1 .. drawn
      BY DEF SecretsOK
    <3>3. drawn' \in Nat /\ drawn' = drawn + 1
      BY <2>2, <3>2
    <3>4. \A b \in DOMAIN credentials' : b \in Agents /\ credentials'[b] \in 1 .. drawn'
      BY <2>1, <3>1, <3>2, <3>3
    <3> QED BY <3>3, <3>4 DEF SecretsOK
  <2>3. CASE UNCHANGED drawn /\ credentials' = [b \in KeptSecrets(c) |-> credentials[b]]
    BY <2>1, <2>3 DEF SecretsOK
  <2> QED BY <1>2, <2>2, <2>3 DEF ServeIssue
<1>3. ASSUME NEW c \in calls, ServeCall(c) PROVE SecretsOK'
  <2>1. ServeIssue(c) \/ UNCHANGED <<credentials, drawn>>
    BY <1>3 DEF ServeCall, ServeRegister, ServeVerify, ServeHeartbeat, ServeAdmit, ServeClaim,
                ServeSync, ServeResult, serverVars
  <2> QED BY <1>1, <1>2, <2>1
<1>4. ASSUME NEW a \in Agents, AgentStep(a) \/ TimeOut(a) \/ Crash(a) \/ Start(a) \/ Drain(a)
      PROVE  UNCHANGED <<credentials, drawn>>
  BY <1>4 DEF AgentStep, Poll, Hear, Execute, Finish, TimeOut, Crash, Start, Drain, serverVars
<1>5. ASSUME NEW id \in JobIds, Submit(id) \/ Cancel(id) PROVE UNCHANGED <<credentials, drawn>>
  BY <1>5 DEF Submit, Cancel, serverVars
<1>6. Look \/ Pass \/ UNCHANGED fleetVars => UNCHANGED <<credentials, drawn>>
  BY DEF Look, Pass, fleetVars, serverVars
<1>7. EngineRestart => SecretsOK'
  BY DEF EngineRestart, SecretsOK
<1> QED BY <1>1, <1>3, <1>4, <1>5, <1>6, <1>7, FleetSteps

(* What is not an agent's step leaves the agents alone.                      *)
LEMMA OthersLeaveAgents ==
    ASSUME [FleetNext]_fleetVars
    PROVE  \/ UNCHANGED agent
           \/ \E a \in Agents : AgentStep(a) \/ TimeOut(a) \/ Crash(a) \/ Start(a) \/ Drain(a)
<1>1. ASSUME NEW c \in calls, ServeCall(c) PROVE UNCHANGED agent
  BY <1>1 DEF ServeCall, ServeRegister, ServeIssue, ServeVerify, ServeHeartbeat, ServeAdmit,
              ServeClaim, ServeSync, ServeResult, Idle
<1>2. ASSUME NEW id \in JobIds, Submit(id) \/ Cancel(id) PROVE UNCHANGED agent
  BY <1>2 DEF Submit, Cancel
<1>3. Look \/ Pass \/ EngineRestart \/ UNCHANGED fleetVars => UNCHANGED agent
  BY DEF Look, Pass, EngineRestart, fleetVars
<1> QED BY <1>1, <1>2, <1>3, FleetSteps

LEMMA NextFleetTypeInv == FleetTypeInv /\ [FleetNext]_fleetVars => FleetTypeInv'
<1> SUFFICES ASSUME FleetTypeInv, [FleetNext]_fleetVars PROVE FleetTypeInv'
  OBVIOUS
<1>1. FInv /\ FleetInv'
  BY NextFleetInv DEF FleetTypeInv, FleetInv
<1>2. SecretsOK'
  BY <1>1, SecretTypes DEF FleetTypeInv
<1>3. AgentsOK'
  <2>1. UNCHANGED agent => AgentsOK'
    BY DEF FleetTypeInv, AgentsOK
  <2> QED BY <1>1, <2>1, AgentGoesOn, AgentTypes, OthersLeaveAgents DEF FleetTypeInv
<1> QED BY <1>1, <1>2, <1>3 DEF FleetTypeInv

LEMMA InitFleetTypeInv == FleetInit => FleetTypeInv
<1> SUFFICES ASSUME FleetInit PROVE FleetTypeInv
  OBVIOUS
<1>1. SecretsOK
  BY DEF FleetInit, SecretsOK
<1>2. AgentsOK
  BY FreshFacts DEF FleetInit, AgentsOK, PC
<1> QED BY <1>1, <1>2, InitFleetInv DEF FleetTypeInv

(* The fleet is well-typed, whatever is lost, late or restarted.             *)
THEOREM FleetTypeCorrect == FleetSafety => []FleetTypeOK
<1>1. FleetInit => FleetTypeInv
  BY InitFleetTypeInv
<1>2. FleetTypeInv => FleetTypeOK
  <2> SUFFICES ASSUME FleetTypeInv PROVE FleetTypeOK
    OBVIOUS
  <2>1. TypeOK
    BY IInvImplies DEF FleetTypeInv, FleetInv
  <2>2. DOMAIN registry \subseteq Agents /\ runs \in [JobIds -> Nat]
    BY DEF FleetTypeInv, FleetInv, FInv, Shapes
  <2> QED BY <2>1, <2>2 DEF FleetTypeInv, SecretsOK, AgentsOK, FleetTypeOK
<1> QED BY <1>1, <1>2, NextFleetTypeInv, PTL DEF FleetSafety

-----------------------------------------------------------------------------
(* No answer stops an agent.  The answers an agent can live with:            *)
Soft(op) ==
    IF op = "register" THEN {"200", "503", "transport"}
    ELSE {"200", "401", "404", "409", "503", "transport"}
Mild(c) ==
    /\ c.op = "heartbeat" => c.active \in {0, 1}
    /\ c.stage = "answered" => c.reply \in Soft(c.op)
Asks(c, me) == c.op = "register" <=> me.pc = "register"
Going(me) == me.pc # "exited" /\ me.after # "fatal"

CallsMild == \A c \in calls : Mild(c) /\ (c.live => Asks(c, agent[c.agent]))
AgentsGoing == \A a \in Agents : Going(agent[a])
FleetGoes == FleetInv /\ CallsMild /\ AgentsGoing

(* Handlers.                                                                 *)
Alike(c, d) ==
    /\ d.agent = c.agent /\ d.op = c.op /\ d.active = c.active /\ d.live = c.live
    /\ d.stage = "answered" => d.reply \in Soft(d.op)

LEMMA HandlerIsMild ==
    ASSUME CallsMild, UNCHANGED agent, NEW c \in calls, NEW D, calls' = (calls \ {c}) \cup D,
           \A d \in D : Alike(c, d)
    PROVE  CallsMild'
<1> SUFFICES ASSUME NEW d \in calls' PROVE Mild(d) /\ (d.live => Asks(d, agent[d.agent]))
  BY DEF CallsMild, Asks
<1>1. CASE d \in calls
  BY <1>1 DEF CallsMild
<1>2. CASE d \in D
  BY <1>2 DEF CallsMild, Alike, Mild, Asks
<1> QED BY <1>1, <1>2

LEMMA AdvanceIsMild ==
    ASSUME CallsMild, UNCHANGED agent, NEW c \in calls, NEW d, Alike(c, d), Advance(c, d)
    PROVE  CallsMild'
<1> DEFINE D == {d}
<1>1. calls' = (calls \ {c}) \cup D /\ \A x \in D : Alike(c, x)
  BY DEF Advance
<1> HIDE DEF D
<1> QED BY <1>1, HandlerIsMild

LEMMA AnswerIsMild ==
    ASSUME CallsMild, UNCHANGED agent, NEW c \in calls, IsCall(c), NEW status \in Soft(c.op),
           NEW body, Answer(c, status, body)
    PROVE  CallsMild'
<1> DEFINE d == [c EXCEPT !.stage = "answered", !.reply = status, !.got = body]
           D == IF c.live THEN {d} ELSE {}
<1>1. d.agent = c.agent /\ d.op = c.op /\ d.active = c.active /\ d.live = c.live /\ d.reply = status
  BY DEF IsCall, Fields
<1> HIDE DEF d
<1>2. \A x \in D : Alike(c, x)
  BY <1>1 DEF Alike
<1>3. calls' = (calls \ {c}) \cup D
  BY DEF Answer, d
<1> HIDE DEF D
<1> QED BY <1>2, <1>3, HandlerIsMild

LEMMA UpdatesAlike ==
    ASSUME NEW c, IsCall(c), NEW x, x # "answered", NEW y
    PROVE  /\ Alike(c, [c EXCEPT !.stage = x])
           /\ Alike(c, [c EXCEPT !.stage = x, !.ids = y])
           /\ Alike(c, [c EXCEPT !.stage = x, !.max = y])
BY DEF IsCall, Fields, Alike

(* The registry has room for an agent it does not know.                      *)
LEMMA RoomForAll ==
    ASSUME FInv, IsFiniteSet(Agents), Cardinality(Agents) <= MaxRegisteredAgents,
           NEW t, NEW a \in Agents, a \notin DOMAIN Pruned(t)
    PROVE  ~(Cardinality(DOMAIN Pruned(t)) >= MaxRegisteredAgents)
<1> DEFINE known == DOMAIN Pruned(t)
<1>1. known \subseteq Agents /\ known # Agents
  BY PrunedIsOfAgents
<1> HIDE DEF known
<1>2. /\ IsFiniteSet(known) /\ Cardinality(known) <= Cardinality(Agents)
      /\ Cardinality(known) # Cardinality(Agents)
  <2>1. known \in SUBSET Agents
    BY <1>1
  <2> QED BY <1>1, <2>1, FS_Subset
<1>3. Cardinality(known) \in Nat /\ Cardinality(Agents) \in Nat /\ MaxRegisteredAgents \in Nat
  BY <1>2, FS_CardinalityType, FleetConstants
<1>4. ~(Cardinality(known) >= MaxRegisteredAgents)
  BY <1>2, <1>3
<1> QED BY <1>4 DEF known

LEMMA ServeIsMild ==
    ASSUME FInv, CallsMild, IsFiniteSet(Agents), Cardinality(Agents) <= MaxRegisteredAgents,
           NEW c \in calls, ServeCall(c)
    PROVE  CallsMild' /\ UNCHANGED agent
<1>1. IsCall(c) /\ c.agent \in Agents
  BY DEF FInv, Shapes, IsCall
<1>2. CASE ServeRegister(c)
  <2>1. c.op = "register" /\ UNCHANGED agent
    BY <1>2 DEF ServeRegister, Idle
  <2>2. PICK ids : Advance(c, [c EXCEPT !.stage = "listed", !.ids = ids])
    <3>1. ~(/\ c.agent \notin DOMAIN Pruned(clock)
            /\ Cardinality(DOMAIN Pruned(clock)) >= MaxRegisteredAgents)
      BY <1>1, RoomForAll
    <3> QED BY <1>2, <3>1 DEF ServeRegister
  <2>3. Alike(c, [c EXCEPT !.stage = "listed", !.ids = ids])
    BY <1>1, UpdatesAlike
  <2> QED BY <2>1, <2>2, <2>3, AdvanceIsMild
<1>3. CASE ServeIssue(c)
  <2>1. c.op = "register" /\ UNCHANGED agent
    BY <1>3 DEF ServeIssue, Idle
  <2>2. PICK status \in {"200", "503"} : \E body : Answer(c, status, body)
    BY <1>3 DEF ServeIssue
  <2> QED BY <1>1, <2>1, <2>2, AnswerIsMild DEF Soft
<1>4. CASE ServeVerify(c)
  <2>1. c.op # "register" /\ UNCHANGED agent
    BY <1>4 DEF ServeVerify, Idle
  <2>2. CASE Advance(c, [c EXCEPT !.stage = "verified"])
    <3>1. Alike(c, [c EXCEPT !.stage = "verified"])
      BY <1>1, UpdatesAlike
    <3> QED BY <2>1, <2>2, <3>1, AdvanceIsMild
  <2>3. CASE Answer(c, "401", None)
    BY <1>1, <2>1, <2>3, AnswerIsMild DEF Soft
  <2> QED BY <1>4, <2>2, <2>3 DEF ServeVerify
<1>5. CASE ServeHeartbeat(c)
  <2>1. c.op = "heartbeat" /\ c.active \in {0, 1} /\ UNCHANGED agent
    BY <1>5 DEF ServeHeartbeat, Idle, CallsMild, Mild
  <2>2. CapacityOK(c.agent, c.active, MaxConcurrent[c.agent] - c.active)
    <3>1. MaxConcurrent[c.agent] \in 1 .. MaxClaim /\ MaxClaim \in Nat
      BY <1>1, FleetConstants, QueueConstants
    <3> QED BY <2>1, <3>1 DEF CapacityOK
  <2>3. PICK status \in {"200", "404"} : Answer(c, status, None)
    BY <1>5, <2>2 DEF ServeHeartbeat
  <2> QED BY <1>1, <2>1, <2>3, AnswerIsMild DEF Soft
<1>6. CASE ServeAdmit(c)
  <2>1. c.op = "claim" /\ UNCHANGED agent
    BY <1>6 DEF ServeAdmit, Idle
  <2>2. CASE \E status \in {"404", "409"} : Answer(c, status, None)
    BY <1>1, <2>1, <2>2, AnswerIsMild DEF Soft
  <2>3. CASE \E m : Advance(c, [c EXCEPT !.stage = "admitted", !.max = m])
    <3>1. PICK m : Advance(c, [c EXCEPT !.stage = "admitted", !.max = m])
      BY <2>3
    <3>2. Alike(c, [c EXCEPT !.stage = "admitted", !.max = m])
      BY <1>1, UpdatesAlike
    <3> QED BY <2>1, <3>1, <3>2, AdvanceIsMild
  <2> QED BY <1>6, <2>2, <2>3 DEF ServeAdmit
<1>7. CASE ServeClaim(c) \/ ServeSync(c) \/ ServeResult(c)
  <2>1. c.op \in {"claim", "sync", "result"} /\ UNCHANGED agent
    BY <1>7 DEF ServeClaim, ServeSync, ServeResult, Idle
  <2>2. PICK status \in {"200", "404", "409"} : \E body : Answer(c, status, body)
    BY <1>7 DEF ServeClaim, ServeSync, ServeResult
  <2> QED BY <1>1, <2>1, <2>2, AnswerIsMild DEF Soft
<1> QED BY <1>2, <1>3, <1>4, <1>5, <1>6, <1>7 DEF ServeCall

(* Agents.                                                                   *)
Lasts(a, rest) ==
    \A o \in rest : /\ Mild(o)
                    /\ o.live => o \in calls /\ o.agent # a
Sends(a, me, s) ==
    /\ s.agent = a /\ s.stage = "sent" /\ Asks(s, me)
    /\ s.op = "heartbeat" => s.active \in {0, 1}

LEMMA BecomeGoes ==
    ASSUME FInv, CallsMild, AgentsGoing, NEW a \in Agents, NEW me, NEW rest, NEW sent,
           Become(a, me, rest, sent), Lasts(a, rest), \A s \in sent : Sends(a, me, s), Going(me)
    PROVE  CallsMild' /\ AgentsGoing'
<1>1. /\ agent' = [b \in Agents |-> IF b = a THEN me ELSE agent[b]] /\ calls' = rest \cup sent
      /\ agent'[a] = me /\ \A b \in Agents : b # a => agent'[b] = agent[b]
  BY DEF Become, FInv, Shapes
<1>2. AgentsGoing'
  BY <1>1 DEF AgentsGoing, Going
<1>3. ASSUME NEW d \in calls' PROVE Mild(d) /\ (d.live => Asks(d, agent'[d.agent]))
  <2>1. CASE d \in rest
    <3>1. Mild(d) /\ (d.live => d \in calls /\ d.agent # a)
      BY <2>1 DEF Lasts
    <3>2. d.live => d.agent \in Agents /\ Asks(d, agent[d.agent])
      BY <3>1 DEF FInv, Shapes, IsCall, CallsMild
    <3> QED BY <1>1, <3>1, <3>2
  <2>2. CASE d \in sent
    BY <1>1, <2>2 DEF Sends, Mild
  <2> QED BY <1>1, <1>3, <2>1, <2>2
<1>4. CallsMild'
  BY <1>3 DEF CallsMild, Mild, Asks
<1> QED BY <1>2, <1>4

LEMMA HeardLasts ==
    ASSUME FInv, CallsMild, NEW c \in calls, c.live
    PROVE  Lasts(c.agent, calls \ {c})
BY DEF Lasts, FInv, Waits, CallsMild

LEMMA AbandonedLasts ==
    ASSUME FInv, CallsMild, NEW a
    PROVE  Lasts(a, Abandoned(a))
<1> SUFFICES ASSUME NEW o \in Abandoned(a)
             PROVE  Mild(o) /\ (o.live => o \in calls /\ o.agent # a)
  BY DEF Lasts
<1>1. CASE o \in calls /\ (o.agent # a \/ ~o.live)
  BY <1>1 DEF CallsMild
<1>2. ASSUME NEW c \in calls, o = [c EXCEPT !.live = FALSE]
      PROVE  Mild(o) /\ ~o.live
  <2>1. IsCall(c) /\ Mild(c)
    BY DEF FInv, Shapes, CallsMild
  <2>2. ~o.live /\ o.op = c.op /\ o.active = c.active /\ o.stage = c.stage /\ o.reply = c.reply
    BY <1>2, <2>1 DEF IsCall, Fields
  <2> QED BY <2>1, <2>2 DEF Mild
<1> QED BY <1>1, <1>2 DEF Abandoned

LEMMA AllLast ==
    ASSUME FInv, CallsMild, NEW a \in Agents, agent[a].pc \notin Waiting
    PROVE  Lasts(a, calls)
BY DEF Lasts, FInv, Waits, Expected, CallsMild

LEMMA MessageFacts ==
    ASSUME NEW a, NEW me, NEW op, NEW state, NEW n
    PROVE  /\ LET s == Request(a, me, op) IN s.agent = a /\ s.stage = "sent" /\ s.op = op /\ s.got = None
           /\ LET s == Heartbeat(a, me, state, n)
              IN  s.agent = a /\ s.stage = "sent" /\ s.op = "heartbeat" /\ s.active = n /\ s.got = None
BY DEF Request, Heartbeat

(* An agent that goes on, alone or with a request or a heartbeat.            *)
LEMMA AloneGoes ==
    ASSUME FInv, CallsMild, AgentsGoing, NEW a \in Agents, NEW me, NEW rest,
           Become(a, me, rest, {}), Lasts(a, rest), Going(me)
    PROVE  CallsMild' /\ AgentsGoing'
BY BecomeGoes

LEMMA RequestGoes ==
    ASSUME FInv, CallsMild, AgentsGoing, NEW a \in Agents, NEW me, NEW rest, NEW op,
           Become(a, me, rest, {Request(a, me, op)}), Lasts(a, rest), Going(me),
           op # "heartbeat", op = "register" <=> me.pc = "register"
    PROVE  CallsMild' /\ AgentsGoing'
<1>1. Sends(a, me, Request(a, me, op))
  BY MessageFacts DEF Sends, Asks
<1> HIDE DEF Request
<1> QED BY <1>1, BecomeGoes

LEMMA BeatGoes ==
    ASSUME FInv, CallsMild, AgentsGoing, NEW a \in Agents, NEW me, NEW rest, NEW state,
           NEW n \in {0, 1}, Become(a, me, rest, {Heartbeat(a, me, state, n)}), Lasts(a, rest),
           Going(me), me.pc # "register"
    PROVE  CallsMild' /\ AgentsGoing'
<1>1. Sends(a, me, Heartbeat(a, me, state, n))
  BY MessageFacts DEF Sends, Asks
<1> QED BY <1>1, BecomeGoes

LEMMA ReportGoes ==
    ASSUME FInv, CallsMild, AgentsGoing, NEW a \in Agents, NEW rest,
           NEW pc \in {"report", "acknowledge"}, NEW result, Report(a, pc, result, rest),
           Lasts(a, rest)
    PROVE  CallsMild' /\ AgentsGoing'
<1> DEFINE me == [agent[a] EXCEPT !.pc = pc, !.result = result]
<1>1. IsAgent(agent[a]) /\ Going(agent[a])
  BY DEF FInv, Shapes, AgentsGoing
<1>2. me.pc = pc /\ Going(me)
  BY <1>1, ChangeFacts DEF Going
<1>3. Become(a, me, rest, {Request(a, me, "result")})
  BY DEF Report
<1> HIDE DEF me
<1> QED BY <1>2, <1>3, RequestGoes

LEMMA SettleGoes ==
    ASSUME FInv, CallsMild, AgentsGoing, NEW a \in Agents, NEW rest, NEW outcome,
           outcome # "fatal", Settle(a, outcome, rest), Lasts(a, rest)
    PROVE  CallsMild' /\ AgentsGoing'
<1> DEFINE me == [agent[a] EXCEPT !.pc = "settle", !.after = outcome]
<1>1. IsAgent(agent[a])
  BY DEF FInv, Shapes
<1>2. me.pc = "settle" /\ Going(me)
  BY <1>1, ChangeFacts DEF Going
<1>3. Become(a, me, rest, {Heartbeat(a, me, "healthy", 0)})
  BY DEF Settle
<1> HIDE DEF me
<1> QED BY <1>2, <1>3, BeatGoes

LEMMA EndGoes ==
    ASSUME FInv, CallsMild, AgentsGoing, NEW a \in Agents, NEW rest, NEW outcome,
           outcome # "fatal", Become(a, EndPoll(agent[a], outcome), rest, {}), Lasts(a, rest)
    PROVE  CallsMild' /\ AgentsGoing'
<1> DEFINE me == EndPoll(agent[a], outcome)
<1>1. Going(me)
  BY FreshFacts DEF EndPoll, Going
<1> HIDE DEF me
<1>2. Become(a, me, rest, {})
  BY DEF me
<1> QED BY <1>1, <1>2, AloneGoes

(* A step that only moves the agent's counter.                               *)
LEMMA MoveGoes ==
    ASSUME FInv, AgentsGoing, NEW a \in Agents, NEW pc, pc # "exited"
    PROVE  LET me == [agent[a] EXCEPT !.pc = pc] IN Going(me) /\ me.pc = pc
<1>1. IsAgent(agent[a]) /\ Going(agent[a])
  BY DEF FInv, Shapes, AgentsGoing
<1> QED BY <1>1, ChangeFacts DEF Going

LEMMA HandleGoes ==
    ASSUME FInv, CallsMild, AgentsGoing, NEW a \in Agents, NEW status, NEW body, NEW rest,
           Handle(a, status, body, rest), Lasts(a, rest),
           status \in {"200", "401", "404", "409", "503", "transport"},
           agent[a].pc = "register" => status \in {"200", "503", "transport"}
    PROVE  CallsMild' /\ AgentsGoing'
<1>1. Outcome(status) \in {"ok", "reregister", "retry"} /\ "retry" # "fatal"
  BY DEF Outcome
<1>2. CASE OnRegister(a, status, body, rest)
  <2> DEFINE me == [Fresh EXCEPT !.pc = "beat", !.cred = body]
  <2>1. Outcome(status) \in {"ok", "retry"}
    BY <1>2 DEF OnRegister, Outcome
  <2>2. Going(me) /\ me.pc = "beat" /\ Going(Fresh)
    BY FreshFacts DEF Going
  <2>3. \/ Become(a, me, rest, {Heartbeat(a, me, "healthy", 0)})
        \/ Become(a, Fresh, rest, {})
    BY <1>2, <2>1 DEF OnRegister
  <2> HIDE DEF me
  <2> QED BY <2>2, <2>3, BeatGoes, AloneGoes
<1>3. CASE OnBeat(a, status, rest)
  <2> DEFINE me == [agent[a] EXCEPT !.pc = "claim"]
  <2>1. Going(me) /\ me.pc = "claim"
    BY MoveGoes
  <2>2. \/ Become(a, me, rest, {Request(a, me, "claim")})
        \/ Become(a, EndPoll(agent[a], Outcome(status)), rest, {})
    BY <1>3 DEF OnBeat
  <2> HIDE DEF me
  <2> QED BY <1>1, <2>1, <2>2, RequestGoes, EndGoes
<1>4. CASE OnClaim(a, status, body, rest)
  <2> DEFINE me == [agent[a] EXCEPT !.pc = "announce", !.job = body.job,
                      !.kind = body.kind, !.lease = body.lease, !.due = body.due]
  <2>1. IsAgent(agent[a]) /\ Going(agent[a])
    BY DEF FInv, Shapes, AgentsGoing
  <2>2. Going(me) /\ me.pc = "announce"
    BY <2>1 DEF IsAgent, AgentFields, Going
  <2>3. \/ Become(a, me, rest, {Heartbeat(a, me, "healthy", 1)})
        \/ Become(a, EndPoll(agent[a], Outcome(status)), rest, {})
    BY <1>4 DEF OnClaim
  <2> HIDE DEF me
  <2> QED BY <1>1, <2>2, <2>3, BeatGoes, EndGoes
<1>5. CASE OnAnnounce(a, status, rest)
  <2> DEFINE me == [agent[a] EXCEPT !.pc = "sync"]
  <2>1. Going(me) /\ me.pc = "sync"
    BY MoveGoes
  <2>2. \/ Become(a, me, rest, {Request(a, me, "sync")})
        \/ Become(a, EndPoll(agent[a], Outcome(status)), rest, {})
    BY <1>5 DEF OnAnnounce
  <2> HIDE DEF me
  <2> QED BY <1>1, <2>1, <2>2, RequestGoes, EndGoes
<1>6. CASE OnSync(a, status, body, rest)
  <2> DEFINE me == [agent[a] EXCEPT !.pc = "execute"]
  <2>1. Going(me)
    BY MoveGoes
  <2>2. \/ Become(a, me, rest, {})
        \/ Report(a, "report", "cancelled", rest)
        \/ Settle(a, "retry", rest) \/ Settle(a, Outcome(status), rest)
    BY <1>6 DEF OnSync
  <2> HIDE DEF me
  <2> QED BY <1>1, <2>1, <2>2, AloneGoes, ReportGoes, SettleGoes
<1>7. CASE OnReport(a, status, rest)
  <2> DEFINE me == [agent[a] EXCEPT !.pc = "resync"]
  <2>1. Going(me) /\ me.pc = "resync"
    BY MoveGoes
  <2>2. \/ Become(a, me, rest, {Request(a, me, "sync")})
        \/ Settle(a, Outcome(status), rest)
    BY <1>7 DEF OnReport
  <2> HIDE DEF me
  <2> QED BY <1>1, <2>1, <2>2, RequestGoes, SettleGoes
<1>8. CASE OnResync(a, status, body, rest)
  <2>1. \/ Report(a, "acknowledge", "cancelled", rest)
        \/ Settle(a, "retry", rest) \/ Settle(a, Outcome(status), rest)
    BY <1>8 DEF OnResync
  <2> QED BY <1>1, <2>1, ReportGoes, SettleGoes
<1>9. CASE OnEnd(a, status, rest)
  <2> DEFINE me == [Fresh EXCEPT !.pc = "down"]
  <2>1. Going(me) /\ agent[a].after # "fatal"
    BY FreshFacts DEF Going, AgentsGoing
  <2>2. \/ Settle(a, Outcome(status), rest)
        \/ Become(a, EndPoll(agent[a], agent[a].after), rest, {})
        \/ Become(a, me, rest, {})
    BY <1>9 DEF OnEnd
  <2> HIDE DEF me
  <2> QED BY <1>1, <2>1, <2>2, SettleGoes, EndGoes, AloneGoes
<1> QED BY <1>2, <1>3, <1>4, <1>5, <1>6, <1>7, <1>8, <1>9 DEF Handle

LEMMA AgentGoes ==
    ASSUME FInv, CallsMild, AgentsGoing, NEW a \in Agents,
           AgentStep(a) \/ TimeOut(a) \/ Crash(a) \/ Start(a) \/ Drain(a)
    PROVE  CallsMild' /\ AgentsGoing'
<1>0. agent[a].pc \notin Waiting => Lasts(a, calls)
  BY AllLast
<1>1. CASE Poll(a)
  <2> DEFINE new == [Fresh EXCEPT !.pc = "register"]
             me == [agent[a] EXCEPT !.pc = "beat"]
  <2>1. Lasts(a, calls)
    BY <1>0, <1>1 DEF Poll, Waiting
  <2>2. Going(new) /\ new.pc = "register" /\ Going(me) /\ me.pc = "beat"
    BY FreshFacts, MoveGoes DEF Going
  <2>3. \/ Become(a, new, calls, {Request(a, new, "register")})
        \/ Become(a, me, calls, {Heartbeat(a, me, "healthy", 0)})
    BY <1>1 DEF Poll
  <2> HIDE DEF new, me
  <2> QED BY <2>1, <2>2, <2>3, RequestGoes, BeatGoes
<1>2. CASE Hear(a)
  <2>1. PICK c \in calls : /\ c.agent = a /\ c.live /\ c.stage = "answered"
                           /\ Handle(a, c.reply, c.got, calls \ {c})
    BY <1>2 DEF Hear
  <2>2. Lasts(a, calls \ {c})
    BY <2>1, HeardLasts
  <2>3. /\ c.reply \in {"200", "401", "404", "409", "503", "transport"}
        /\ agent[a].pc = "register" => c.reply \in {"200", "503", "transport"}
    BY <2>1 DEF CallsMild, Mild, Asks, Soft
  <2> QED BY <2>1, <2>2, <2>3, HandleGoes
<1>3. CASE Execute(a)
  <2> DEFINE me == [agent[a] EXCEPT !.pc = "running"]
  <2>1. Lasts(a, calls)
    BY <1>0, <1>3 DEF Execute, Waiting
  <2>2. Going(me)
    BY MoveGoes
  <2>3. Report(a, "report", "failed", calls) \/ Become(a, me, calls, {})
    BY <1>3 DEF Execute
  <2> HIDE DEF me
  <2> QED BY <2>1, <2>2, <2>3, ReportGoes, AloneGoes
<1>4. CASE Finish(a)
  <2>1. Lasts(a, calls)
    BY <1>0, <1>4 DEF Finish, Waiting
  <2> QED BY <1>4, <2>1, ReportGoes DEF Finish
<1>5. CASE TimeOut(a)
  BY <1>5, AbandonedLasts, HandleGoes DEF TimeOut
<1>6. CASE Crash(a) \/ Start(a)
  <2> DEFINE me == [Fresh EXCEPT !.pc = "down"]
  <2>1. Going(me) /\ Going(Fresh)
    BY FreshFacts DEF Going
  <2>2. \/ Become(a, me, Abandoned(a), {})
        \/ agent[a].pc = "down" /\ Become(a, Fresh, calls, {})
    BY <1>6 DEF Crash, Start
  <2> HIDE DEF me
  <2> QED BY <1>0, <2>1, <2>2, AbandonedLasts, AloneGoes DEF Waiting
<1>7. CASE Drain(a)
  <2> DEFINE me == [agent[a] EXCEPT !.pc = "drain"]
  <2>1. Lasts(a, calls)
    BY <1>0, <1>7 DEF Drain, Waiting
  <2>2. Going(me) /\ me.pc = "drain"
    BY MoveGoes
  <2>3. Become(a, me, calls, {Heartbeat(a, me, "draining", 0)})
    BY <1>7 DEF Drain
  <2> HIDE DEF me
  <2> QED BY <2>1, <2>2, <2>3, BeatGoes
<1> QED BY <1>1, <1>2, <1>3, <1>4, <1>5, <1>6, <1>7 DEF AgentStep

(* The restart answers every call that is waited for with an error.          *)
LEMMA RestartIsMild ==
    ASSUME FInv, CallsMild, EngineRestart
    PROVE  CallsMild' /\ UNCHANGED agent
<1> DEFINE Cut(c) == IF c.stage = "answered" THEN c
                     ELSE [c EXCEPT !.stage = "answered", !.reply = "transport"]
<1>1. calls' = {Cut(c) : c \in {d \in calls : d.live}} /\ UNCHANGED agent
  BY DEF EngineRestart
<1>2. ASSUME NEW c \in calls
      PROVE  Mild(Cut(c)) /\ Cut(c).agent = c.agent /\ Cut(c).op = c.op
  <2>1. IsCall(c) /\ Mild(c)
    BY DEF FInv, Shapes, CallsMild
  <2>2. CASE c.stage = "answered"
    BY <2>1, <2>2
  <2>3. CASE c.stage # "answered"
    <3>1. /\ Cut(c).agent = c.agent /\ Cut(c).op = c.op /\ Cut(c).active = c.active
          /\ Cut(c).reply = "transport"
      BY <2>1, <2>3 DEF IsCall, Fields
    <3> HIDE DEF Cut
    <3> QED BY <2>1, <3>1 DEF Mild, Soft
  <2> QED BY <2>2, <2>3
<1> HIDE DEF Cut
<1>3. \A d \in calls' : \E c \in calls : d = Cut(c) /\ c.live
  BY <1>1
<1>4. \A d \in calls' : Mild(d) /\ Asks(d, agent[d.agent])
  BY <1>2, <1>3 DEF CallsMild, Asks
<1> QED BY <1>1, <1>4 DEF CallsMild, Mild, Asks

LEMMA NextFleetGoes ==
    ASSUME IsFiniteSet(Agents), Cardinality(Agents) <= MaxRegisteredAgents
    PROVE  FleetGoes /\ [FleetNext]_fleetVars => FleetGoes'
<1> SUFFICES ASSUME FleetGoes, [FleetNext]_fleetVars PROVE FleetGoes'
  OBVIOUS
<1>1. FInv /\ CallsMild /\ AgentsGoing /\ FleetInv'
  BY NextFleetInv DEF FleetGoes, FleetInv
<1>2. UNCHANGED agent => AgentsGoing'
  BY <1>1 DEF AgentsGoing, Going
<1>3. ASSUME UNCHANGED <<agent, calls>> PROVE CallsMild'
  BY <1>1, <1>3 DEF CallsMild, Mild, Asks
<1>4. ASSUME NEW a \in Agents, AgentStep(a) \/ TimeOut(a) \/ Crash(a) \/ Start(a) \/ Drain(a)
      PROVE  CallsMild' /\ AgentsGoing'
  BY <1>1, <1>4, AgentGoes
<1>5. ASSUME NEW c \in calls, ServeCall(c) PROVE CallsMild' /\ AgentsGoing'
  BY <1>1, <1>2, <1>5, ServeIsMild
<1>6. ASSUME NEW id \in JobIds, Submit(id) \/ Cancel(id) PROVE UNCHANGED <<agent, calls>>
  BY <1>6 DEF Submit, Cancel
<1>7. Look \/ Pass \/ UNCHANGED fleetVars => UNCHANGED <<agent, calls>>
  BY DEF Look, Pass, fleetVars
<1>8. EngineRestart => CallsMild' /\ AgentsGoing'
  BY <1>1, <1>2, RestartIsMild
<1> QED BY <1>1, <1>2, <1>3, <1>4, <1>5, <1>6, <1>7, <1>8, FleetSteps DEF FleetGoes

(* Where the registry has room for every agent, no answer the engine gives,  *)
(* late, lost or after a restart, ends an agent's loop.                      *)
THEOREM NoAgentStops ==
    ASSUME IsFiniteSet(Agents), Cardinality(Agents) <= MaxRegisteredAgents
    PROVE  FleetSafety => []NoFatalExit
<1>1. FleetInit => FleetGoes
  <2> SUFFICES ASSUME FleetInit PROVE FleetGoes
    OBVIOUS
  <2>1. CallsMild
    BY DEF FleetInit, CallsMild
  <2>2. AgentsGoing
    BY FreshFacts DEF FleetInit, AgentsGoing, Going
  <2> QED BY <2>1, <2>2, InitFleetInv DEF FleetGoes
<1>2. FleetGoes => NoFatalExit
  BY DEF FleetGoes, AgentsGoing, Going, NoFatalExit
<1>3. FleetGoes /\ [FleetNext]_fleetVars => FleetGoes'
  BY NextFleetGoes
<1> QED BY <1>1, <1>2, <1>3, PTL DEF FleetSafety

-----------------------------------------------------------------------------
(* Capacity.  What a call carries of it, and what the registry believes.     *)
Measured(c) ==
    /\ c.op = "heartbeat" => c.active \in {0, 1}
    /\ c.stage = "admitted" => c.max = MaxConcurrent[c.agent]
CallsMeasured == \A c \in calls : Measured(c)
RegistryMeasured ==
    \A a \in DOMAIN registry :
        /\ registry[a].active \in Int /\ registry[a].slots \in Int
        /\ registry[a].active + registry[a].slots = MaxConcurrent[a]
CapacityInv == FleetInv /\ CallsMeasured /\ RegistryMeasured /\ AgentCapacity

(* A step of an agent leaves its calls as they were, or sends one more.      *)
Continues(a) ==
    \E me, rest, sent :
        /\ Become(a, me, rest, sent) /\ rest \in {calls, Abandoned(a)} \cup {calls \ {c} : c \in calls}
        /\ \A s \in sent : /\ s.stage = "sent" /\ s.got = None
                           /\ s.op = "heartbeat" => s.active \in {0, 1}

LEMMA Continuing ==
    ASSUME NEW a, NEW rest \in {calls, Abandoned(a)} \cup {calls \ {c} : c \in calls}
    PROVE  /\ \A me : Become(a, me, rest, {}) => Continues(a)
           /\ \A me, op : op # "heartbeat" /\ Become(a, me, rest, {Request(a, me, op)}) => Continues(a)
           /\ \A me, state, n :
                n \in {0, 1} /\ Become(a, me, rest, {Heartbeat(a, me, state, n)}) => Continues(a)
           /\ \A pc, result : Report(a, pc, result, rest) => Continues(a)
           /\ \A outcome : Settle(a, outcome, rest) => Continues(a)
<1>1. \A me : Become(a, me, rest, {}) => Continues(a)
  BY DEF Continues
<1>2. ASSUME NEW me, NEW op, op # "heartbeat", Become(a, me, rest, {Request(a, me, op)})
      PROVE  Continues(a)
  <2> DEFINE s == Request(a, me, op)
  <2>1. s.stage = "sent" /\ s.op # "heartbeat" /\ s.got = None
    BY <1>2, MessageFacts
  <2>2. Become(a, me, rest, {s})
    BY <1>2
  <2> HIDE DEF s
  <2> QED BY <2>1, <2>2 DEF Continues
<1>3. ASSUME NEW me, NEW state, NEW n \in {0, 1}, Become(a, me, rest, {Heartbeat(a, me, state, n)})
      PROVE  Continues(a)
  <2> DEFINE s == Heartbeat(a, me, state, n)
  <2>1. s.stage = "sent" /\ s.active \in {0, 1} /\ s.got = None
    BY <1>3, MessageFacts
  <2>2. Become(a, me, rest, {s})
    BY <1>3
  <2> HIDE DEF s
  <2> QED BY <2>1, <2>2 DEF Continues
<1> QED BY <1>1, <1>2, <1>3 DEF Report, Settle

LEMMA HandleContinues ==
    ASSUME NEW a, NEW status, NEW body,
           NEW rest \in {calls, Abandoned(a)} \cup {calls \ {c} : c \in calls},
           Handle(a, status, body, rest)
    PROVE  Continues(a)
<1>1. OnRegister(a, status, body, rest) => Continues(a)
  BY Continuing DEF OnRegister
<1>2. OnBeat(a, status, rest) => Continues(a)
  BY Continuing DEF OnBeat
<1>3. OnClaim(a, status, body, rest) => Continues(a)
  BY Continuing DEF OnClaim
<1>4. OnAnnounce(a, status, rest) => Continues(a)
  BY Continuing DEF OnAnnounce
<1>5. OnSync(a, status, body, rest) => Continues(a)
  BY Continuing DEF OnSync
<1>6. OnReport(a, status, rest) => Continues(a)
  BY Continuing DEF OnReport
<1>7. OnResync(a, status, body, rest) => Continues(a)
  BY Continuing DEF OnResync
<1>8. OnEnd(a, status, rest) => Continues(a)
  BY Continuing DEF OnEnd
<1> QED BY <1>1, <1>2, <1>3, <1>4, <1>5, <1>6, <1>7, <1>8 DEF Handle

LEMMA AgentContinues ==
    ASSUME NEW a, AgentStep(a) \/ TimeOut(a) \/ Crash(a) \/ Start(a) \/ Drain(a)
    PROVE  Continues(a)
<1>1. Poll(a) => Continues(a)
  BY Continuing DEF Poll
<1>2. Hear(a) => Continues(a)
  BY HandleContinues DEF Hear
<1>3. Execute(a) => Continues(a)
  BY Continuing DEF Execute
<1>4. Finish(a) => Continues(a)
  BY Continuing DEF Finish
<1>5. TimeOut(a) => Continues(a)
  BY HandleContinues DEF TimeOut
<1>6. Crash(a) => Continues(a)
  BY Continuing DEF Crash
<1>7. Start(a) => Continues(a)
  BY Continuing DEF Start
<1>8. Drain(a) => Continues(a)
  BY Continuing DEF Drain
<1> QED BY <1>1, <1>2, <1>3, <1>4, <1>5, <1>6, <1>7, <1>8 DEF AgentStep

LEMMA AgentMeasured ==
    ASSUME FInv, CallsMeasured, NEW a, Continues(a)
    PROVE  CallsMeasured'
<1>1. PICK me, rest, sent :
        /\ calls' = rest \cup sent
        /\ rest \in {calls, Abandoned(a)} \cup {calls \ {c} : c \in calls}
        /\ \A s \in sent : /\ s.stage = "sent" /\ s.got = None
                           /\ s.op = "heartbeat" => s.active \in {0, 1}
  BY DEF Continues, Become
<1>2. ASSUME NEW c \in calls PROVE Measured([c EXCEPT !.live = FALSE]) /\ Measured(c)
  <2> DEFINE o == [c EXCEPT !.live = FALSE]
  <2>1. IsCall(c) /\ Measured(c)
    BY DEF FInv, Shapes, CallsMeasured
  <2>2. o.op = c.op /\ o.active = c.active /\ o.stage = c.stage /\ o.max = c.max /\ o.agent = c.agent
    BY <2>1 DEF IsCall, Fields
  <2> HIDE DEF o
  <2>3. Measured(o)
    BY <2>1, <2>2 DEF Measured
  <2> QED BY <2>1, <2>3 DEF o
<1>3. \A o \in rest : Measured(o)
  <2>1. \A o \in Abandoned(a) : Measured(o)
    BY <1>2 DEF Abandoned
  <2> QED BY <1>1, <1>2, <2>1
<1>4. \A s \in sent : Measured(s)
  BY <1>1 DEF Measured
<1>5. \A d \in calls' : Measured(d)
  BY <1>1, <1>3, <1>4
<1> QED BY <1>5 DEF CallsMeasured, Measured

LEMMA PrunedMeasured ==
    ASSUME RegistryMeasured, NEW t
    PROVE  \A a \in DOMAIN Pruned(t) : a \in DOMAIN registry /\ Pruned(t)[a] = registry[a]
BY DEF Pruned

(* A handler passes on what the registry believes and no more.               *)
LEMMA ServeMeasured ==
    ASSUME FInv, CallsMeasured, RegistryMeasured, NEW c \in calls, ServeCall(c)
    PROVE  CallsMeasured' /\ RegistryMeasured'
<1>1. IsCall(c) /\ c.agent \in Agents /\ Measured(c)
  BY DEF FInv, Shapes, IsCall, CallsMeasured
<1>2. \A t : /\ DOMAIN Pruned(t) \subseteq DOMAIN registry
             /\ \A a \in DOMAIN Pruned(t) : Pruned(t)[a] = registry[a]
  BY PrunedMeasured
<1>3. \A a \in Agents : MaxConcurrent[a] \in Int
  BY FleetConstants, QueueConstants
<1>4. ASSUME NEW D, calls' = (calls \ {c}) \cup D, \A d \in D : Measured(d)
      PROVE  CallsMeasured'
  BY <1>4 DEF CallsMeasured, Measured
<1>5. ASSUME NEW d, Measured(d), Advance(c, d) PROVE CallsMeasured'
  <2> DEFINE D == {d}
  <2>1. calls' = (calls \ {c}) \cup D /\ \A x \in D : Measured(x)
    BY <1>5 DEF Advance
  <2> HIDE DEF D
  <2> QED BY <1>4, <2>1
<1>6. ASSUME NEW status, NEW body, Answer(c, status, body) PROVE CallsMeasured'
  <2> DEFINE d == [c EXCEPT !.stage = "answered", !.reply = status, !.got = body]
             D == IF c.live THEN {d} ELSE {}
  <2>1. d.op = c.op /\ d.active = c.active /\ d.stage = "answered"
    BY <1>1 DEF IsCall, Fields
  <2>2. calls' = (calls \ {c}) \cup D
    BY <1>6 DEF Answer
  <2> HIDE DEF d
  <2>3. \A x \in D : Measured(x)
    BY <1>1, <2>1 DEF Measured
  <2> HIDE DEF D
  <2> QED BY <1>4, <2>2, <2>3
<1>7. ASSUME NEW x, NEW y, x # "admitted"
      PROVE  Measured([c EXCEPT !.stage = x]) /\ Measured([c EXCEPT !.stage = x, !.ids = y])
  <2> DEFINE d == [c EXCEPT !.stage = x]
             e == [c EXCEPT !.stage = x, !.ids = y]
  <2>1. /\ d.op = c.op /\ d.active = c.active /\ d.stage = x
        /\ e.op = c.op /\ e.active = c.active /\ e.stage = x
    BY <1>1 DEF IsCall, Fields
  <2> HIDE DEF d, e
  <2>2. Measured(d) /\ Measured(e)
    BY <1>1, <1>7, <2>1 DEF Measured
  <2> QED BY <2>2 DEF d, e
<1>8. UNCHANGED registry => RegistryMeasured'
  BY DEF RegistryMeasured
<1>9. registry' = Pruned(clock) => RegistryMeasured'
  BY <1>2 DEF RegistryMeasured
<1>10. CASE ServeRegister(c)
  <2>1. (\E ids : Advance(c, [c EXCEPT !.stage = "listed", !.ids = ids]))
          \/ (\E status, body : Answer(c, status, body))
    BY <1>10 DEF ServeRegister
  <2>2. CallsMeasured'
    BY <1>5, <1>6, <1>7, <2>1
  <2>3. ASSUME registry' = [b \in DOMAIN Pruned(clock) \cup {c.agent} |->
                 IF b = c.agent THEN Registered(c.agent, clock) ELSE Pruned(clock)[b]]
        PROVE  RegistryMeasured'
    <3>1. DOMAIN registry' = DOMAIN Pruned(clock) \cup {c.agent}
      BY <2>3
    <3>2. \A b \in DOMAIN registry' :
            registry'[b] = IF b = c.agent THEN Registered(c.agent, clock) ELSE Pruned(clock)[b]
      BY <2>3
    <3>3. LET r == Registered(c.agent, clock) IN r.active = 0 /\ r.slots = MaxConcurrent[c.agent]
      BY DEF Registered
    <3> QED BY <1>1, <1>2, <1>3, <3>1, <3>2, <3>3 DEF RegistryMeasured
  <2> QED BY <1>9, <1>10, <2>2, <2>3 DEF ServeRegister
<1>11. CASE ServeIssue(c)
  BY <1>6, <1>8, <1>11 DEF ServeIssue
<1>12. CASE ServeVerify(c)
  <2>1. UNCHANGED registry
    BY <1>12 DEF ServeVerify, serverVars
  <2>2. Measured([c EXCEPT !.stage = "verified"])
    BY <1>7
  <2> QED BY <1>5, <1>6, <1>8, <1>12, <2>1, <2>2 DEF ServeVerify
<1>13. CASE ServeHeartbeat(c)
  <2> DEFINE known == Pruned(clock)
             new == [state |-> c.state, active |-> c.active,
                     slots |-> MaxConcurrent[c.agent] - c.active, seen |-> clock]
  <2>1. CallsMeasured'
    BY <1>6, <1>13 DEF ServeHeartbeat
  <2>2. c.active \in Int /\ new.active = c.active /\ new.slots = MaxConcurrent[c.agent] - c.active
    BY <1>1, <1>13 DEF ServeHeartbeat, Measured
  <2>3. new.active \in Int /\ new.slots \in Int /\ new.active + new.slots = MaxConcurrent[c.agent]
    BY <1>1, <1>3, <2>2
  <2>4. registry' = known \/ registry' = [known EXCEPT ![c.agent] = new]
    BY <1>13 DEF ServeHeartbeat
  <2> HIDE DEF new
  <2>5. ASSUME registry' = [known EXCEPT ![c.agent] = new] PROVE RegistryMeasured'
    <3>1. /\ DOMAIN registry' = DOMAIN known
          /\ \A b \in DOMAIN known : registry'[b] = IF b = c.agent THEN new ELSE known[b]
      BY <2>5 DEF Pruned
    <3>2. \A b \in DOMAIN known : b \in DOMAIN registry /\ known[b] = registry[b]
      BY <1>2
    <3> HIDE DEF known
    <3> QED BY <2>3, <3>1, <3>2 DEF RegistryMeasured
  <2> QED BY <1>9, <2>1, <2>4, <2>5
<1>14. CASE ServeAdmit(c)
  <2>1. registry' = Pruned(clock)
    BY <1>14 DEF ServeAdmit
  <2>2. ASSUME c.agent \in DOMAIN Pruned(clock),
               Advance(c, [c EXCEPT !.stage = "admitted",
                    !.max = Pruned(clock)[c.agent].active + Pruned(clock)[c.agent].slots])
        PROVE  CallsMeasured'
    <3> DEFINE m == Pruned(clock)[c.agent].active + Pruned(clock)[c.agent].slots
               d == [c EXCEPT !.stage = "admitted", !.max = m]
    <3>1. m = MaxConcurrent[c.agent]
      BY <1>2, <2>2 DEF RegistryMeasured
    <3>2. Advance(c, d)
      BY <2>2
    <3> HIDE DEF m
    <3>3. d.op = c.op /\ d.active = c.active /\ d.max = m /\ d.agent = c.agent
      BY <1>1 DEF IsCall, Fields
    <3> HIDE DEF d
    <3>4. Measured(d)
      BY <1>1, <3>1, <3>3 DEF Measured
    <3> QED BY <1>5, <3>2, <3>4
  <2>3. (\E status, body : Answer(c, status, body)) => CallsMeasured'
    BY <1>6
  <2> QED BY <1>9, <1>14, <2>1, <2>2, <2>3 DEF ServeAdmit
<1>15. CASE ServeClaim(c) \/ ServeSync(c) \/ ServeResult(c)
  <2>1. UNCHANGED registry /\ \E status, body : Answer(c, status, body)
    BY <1>15 DEF ServeClaim, ServeSync, ServeResult, serverVars
  <2> QED BY <1>6, <1>8, <2>1
<1> QED BY <1>10, <1>11, <1>12, <1>13, <1>14, <1>15 DEF ServeCall

(* Leases held.  A step that adds none keeps the bound.                      *)
LEMMA FewerHeld ==
    ASSUME IInv, NEW a \in Agents, NEW S, S \subseteq HeldBy(jobs, a),
           Cardinality(HeldBy(jobs, a)) <= MaxConcurrent[a]
    PROVE  IsFiniteSet(S) /\ Cardinality(S) \in Nat /\ Cardinality(S) <= MaxConcurrent[a]
<1>1. IsFiniteSet(HeldBy(jobs, a))
  BY FS_Subset DEF HeldBy, IInv, TableOK
<1>2. IsFiniteSet(S) /\ Cardinality(S) <= Cardinality(HeldBy(jobs, a))
  <2>1. S \in SUBSET HeldBy(jobs, a)
    OBVIOUS
  <2> QED BY <1>1, <2>1, FS_Subset
<1>3. Cardinality(S) \in Nat /\ Cardinality(HeldBy(jobs, a)) \in Nat
  BY <1>1, <1>2, FS_CardinalityType
<1>4. MaxConcurrent[a] \in Int
  BY FleetConstants, QueueConstants
<1> QED BY <1>2, <1>3, <1>4

LEMMA NoMoreHeld ==
    ASSUME IInv, AgentCapacity, \A a \in Agents : HeldBy(jobs', a) \subseteq HeldBy(jobs, a)
    PROVE  AgentCapacity'
<1>1. \A a \in Agents : Cardinality(HeldBy(jobs', a)) <= MaxConcurrent[a]
  BY FewerHeld DEF AgentCapacity
<1> QED BY <1>1 DEF AgentCapacity, HeldBy

LEMMA ReapedHeld ==
    ASSUME IInv, NEW t \in Readings
    PROVE  \A a : HeldBy(Reaped(t), a) \subseteq HeldBy(jobs, a)
BY ReapedFacts DEF HeldBy, Leased

LEMMA ReplacedHeld ==
    ASSUME IInv, NEW t \in Readings, NEW id \in DOMAIN Reaped(t), NEW job,
           jobs' = [Reaped(t) EXCEPT ![id] = job]
    PROVE  \A a : \A j \in HeldBy(jobs', a) :
              \/ j \in HeldBy(Reaped(t), a)
              \/ j = id /\ job.assigned = a /\ job.state \in Leased
<1>1. /\ DOMAIN jobs' = DOMAIN Reaped(t)
      /\ \A j \in DOMAIN jobs' : jobs'[j] = IF j = id THEN job ELSE Reaped(t)[j]
  OBVIOUS
<1> QED BY <1>1 DEF HeldBy

LEMMA SubmitHeld ==
    ASSUME IInv, NEW t \in Readings, NEW id, NEW target, NEW r, NEW owner,
           SubmitProbe(id, target, r, t) \/ SubmitCheck(id, owner, target, r, t)
    PROVE  \A a \in Agents : HeldBy(jobs', a) \subseteq HeldBy(jobs, a)
<1>1. \A kind, o : NewJob(kind, o, target, r, t).state = "queued"
  BY DEF NewJob
<1>2. PICK job : job.state = "queued" /\ jobs' = Put(Reaped(t), id, job)
  <2>1. CASE SubmitProbe(id, target, r, t)
    BY <1>1, <2>1 DEF SubmitProbe
  <2>2. CASE SubmitCheck(id, owner, target, r, t)
    BY <1>1, <2>2 DEF SubmitCheck
  <2> QED BY <2>1, <2>2
<1>3. /\ DOMAIN jobs' = DOMAIN Reaped(t) \cup {id}
      /\ \A j \in DOMAIN jobs' : jobs'[j] = IF j = id THEN job ELSE Reaped(t)[j]
  BY <1>2 DEF Put
<1>4. \A a : HeldBy(jobs', a) \subseteq HeldBy(Reaped(t), a)
  BY <1>2, <1>3 DEF HeldBy, Leased
<1> QED BY <1>4, ReapedHeld

LEMMA CancelHeld ==
    ASSUME IInv, NEW t \in Readings, NEW id, NEW caller,
           CancelQueued(id, caller, t) \/ CancelClaimed(id, caller, t)
    PROVE  \A a \in Agents : HeldBy(jobs', a) \subseteq HeldBy(jobs, a)
<1> DEFINE old == Reaped(t)[id]
<1>1. CASE CancelQueued(id, caller, t)
  <2> DEFINE job == [old EXCEPT !.state = "cancelled", !.source = FALSE, !.completed = t]
  <2>1. id \in DOMAIN Reaped(t) /\ jobs' = [Reaped(t) EXCEPT ![id] = job]
    BY <1>1 DEF CancelQueued
  <2>2. job.state = "cancelled"
    BY <2>1, ReapedRecord DEF JobRecord
  <2> HIDE DEF job
  <2> QED BY <2>1, <2>2, ReplacedHeld, ReapedHeld DEF Leased
<1>2. CASE CancelClaimed(id, caller, t)
  <2> DEFINE job == [old EXCEPT !.state = "cancel_requested"]
  <2>1. id \in DOMAIN Reaped(t) /\ old.state = "claimed" /\ jobs' = [Reaped(t) EXCEPT ![id] = job]
    BY <1>2 DEF CancelClaimed
  <2>2. job.assigned = old.assigned
    BY <2>1, ReapedRecord DEF JobRecord
  <2> HIDE DEF job
  <2>3. \A a : job.assigned = a => id \in HeldBy(Reaped(t), a)
    BY <2>1, <2>2 DEF HeldBy, Leased
  <2>4. \A a : \A j \in HeldBy(jobs', a) : j \in HeldBy(Reaped(t), a) \/ (j = id /\ job.assigned = a)
    BY <2>1, ReplacedHeld
  <2>5. \A a : HeldBy(jobs', a) \subseteq HeldBy(Reaped(t), a)
    BY <2>3, <2>4
  <2> QED BY <2>5, ReapedHeld
<1> QED BY <1>1, <1>2

LEMMA CompleteHeld ==
    ASSUME IInv, NEW t \in Readings, NEW id, NEW a, NEW lease, NEW result \in ResultStates,
           Complete(id, a, lease, result, t)
    PROVE  \A b \in Agents : HeldBy(jobs', b) \subseteq HeldBy(jobs, b)
<1> DEFINE old == Reaped(t)[id]
           job == [old EXCEPT !.state = result, !.completed = t]
<1>1. id \in DOMAIN Reaped(t) /\ jobs' = [Reaped(t) EXCEPT ![id] = job]
  BY DEF Complete
<1>2. job.state = result
  BY <1>1, ReapedRecord DEF JobRecord
<1> HIDE DEF job
<1> QED BY <1>1, <1>2, ReplacedHeld, ReapedHeld DEF Leased, ResultStates

(* The queue counts before it grants; the limit is the registry's.           *)
LEMMA ClaimHeld ==
    ASSUME IInv, AgentCapacity, NEW t \in Readings, NEW id, NEW a \in Agents, NEW caps,
           ClaimJob(id, a, MaxConcurrent[a], caps, t)
    PROVE  AgentCapacity'
<1> DEFINE old == Reaped(t)[id]
           job == Claimed(old, a, leases + 1, t)
           held == HeldBy(Reaped(t), a)
<1>1. /\ id \in DOMAIN Reaped(t) /\ jobs' = [Reaped(t) EXCEPT ![id] = job]
      /\ Cardinality(held) < MaxConcurrent[a]
  BY DEF ClaimJob, Oldest, Claimable
<1>2. job.assigned = a
  BY <1>1, ReapedRecord DEF Claimed, JobRecord
<1> HIDE DEF job
<1>3. \A b \in Agents : \A j \in HeldBy(jobs', b) :
        j \in HeldBy(Reaped(t), b) \/ (j = id /\ b = a)
  BY <1>1, <1>2, ReplacedHeld
<1>4. \A b \in Agents : HeldBy(Reaped(t), b) \subseteq HeldBy(jobs, b)
  BY ReapedHeld
<1>5. \A b \in Agents : Cardinality(HeldBy(jobs, b)) <= MaxConcurrent[b]
  BY DEF AgentCapacity
<1>6. ASSUME NEW b \in Agents, b # a PROVE Cardinality(HeldBy(jobs', b)) <= MaxConcurrent[b]
  <2>1. HeldBy(jobs', b) \subseteq HeldBy(jobs, b)
    BY <1>3, <1>4, <1>6
  <2> QED BY <1>5, <2>1, FewerHeld
<1>7. Cardinality(HeldBy(jobs', a)) <= MaxConcurrent[a]
  <2>1. IsFiniteSet(held) /\ Cardinality(held) \in Nat
    BY <1>4, <1>5, FewerHeld
  <2>2. MaxConcurrent[a] \in Int
    BY FleetConstants, QueueConstants
  <2>4. HeldBy(jobs', a) \in SUBSET (held \cup {id})
    BY <1>3
  <2> HIDE DEF held
  <2>3. IsFiniteSet(held \cup {id}) /\ Cardinality(held \cup {id}) <= Cardinality(held) + 1
    BY <2>1, FS_AddElement
  <2>5. IsFiniteSet(HeldBy(jobs', a)) /\ Cardinality(HeldBy(jobs', a)) <= Cardinality(held \cup {id})
    BY <2>3, <2>4, FS_Subset
  <2>6. Cardinality(HeldBy(jobs', a)) \in Nat /\ Cardinality(held \cup {id}) \in Nat
    BY <2>3, <2>5, FS_CardinalityType
  <2> QED BY <1>1, <2>1, <2>2, <2>3, <2>5, <2>6
<1>8. \A b \in Agents : Cardinality(HeldBy(jobs', b)) <= MaxConcurrent[b]
  BY <1>6, <1>7
<1> QED BY <1>8 DEF AgentCapacity, HeldBy

LEMMA ServeHeld ==
    ASSUME FInv, IInv, CallsMeasured, AgentCapacity, NEW c \in calls, ServeCall(c)
    PROVE  AgentCapacity'
<1>1. c.agent \in Agents /\ (c.stage = "admitted" => c.max = MaxConcurrent[c.agent])
  BY DEF FInv, Shapes, IsCall, CallsMeasured, Measured
<1>2. ASSUME NEW t \in Readings, Observe(t) PROVE AgentCapacity'
  BY <1>2, ReapedHeld, NoMoreHeld DEF Observe
<1>3. CASE ServeClaim(c)
  <2>1. ASSUME NEW t \in Readings, NEW id,
               ClaimJob(id, c.agent, c.max, Capabilities(c.agent), t), c.stage = "admitted"
        PROVE  AgentCapacity'
    BY <1>1, <2>1, ClaimHeld
  <2> QED BY <1>2, <1>3, <2>1 DEF ServeClaim
<1>4. CASE ServeSync(c)
  BY <1>2, <1>4 DEF ServeSync
<1>5. CASE ServeResult(c)
  <2>1. c.result \in ResultStates
    BY <1>5 DEF ServeResult, FInv, Reports
  <2>2. ASSUME NEW t \in Readings, Complete(c.job, c.agent, c.lease, c.result, t)
        PROVE  AgentCapacity'
    BY <2>1, <2>2, CompleteHeld, NoMoreHeld
  <2> QED BY <1>2, <1>5, <2>2 DEF ServeResult
<1>6. CASE ServeRegister(c) \/ ServeIssue(c) \/ ServeVerify(c) \/ ServeHeartbeat(c)
             \/ ServeAdmit(c)
  <2>1. UNCHANGED jobs
    BY <1>6 DEF ServeRegister, ServeIssue, ServeVerify, ServeHeartbeat, ServeAdmit, queueVars
  <2> QED BY <2>1 DEF AgentCapacity, HeldBy
<1> QED BY <1>3, <1>4, <1>5, <1>6 DEF ServeCall

LEMMA RestartMeasured ==
    ASSUME FInv, IInv, CallsMeasured, AgentCapacity, EngineRestart
    PROVE  CallsMeasured' /\ RegistryMeasured' /\ AgentCapacity'
<1> DEFINE Cut(c) == IF c.stage = "answered" THEN c
                     ELSE [c EXCEPT !.stage = "answered", !.reply = "transport"]
<1>1. /\ calls' = {Cut(c) : c \in {d \in calls : d.live}}
      /\ DOMAIN jobs' = {} /\ DOMAIN registry' = {}
  BY DEF EngineRestart
<1>2. ASSUME NEW c \in calls PROVE Measured(Cut(c))
  <2>1. IsCall(c) /\ Measured(c)
    BY DEF FInv, Shapes, CallsMeasured
  <2>2. Cut(c).op = c.op /\ Cut(c).active = c.active /\ Cut(c).stage = "answered"
    BY <2>1 DEF IsCall, Fields
  <2> HIDE DEF Cut
  <2> QED BY <2>1, <2>2 DEF Measured
<1> HIDE DEF Cut
<1>3. \A d \in calls' : Measured(d)
  BY <1>1, <1>2
<1>4. \A a : HeldBy(jobs', a) = {}
  BY <1>1 DEF HeldBy
<1>5. AgentCapacity'
  BY <1>4, NoMoreHeld
<1> QED BY <1>1, <1>3, <1>5 DEF CallsMeasured, Measured, RegistryMeasured

LEMMA NextCapacityInv == CapacityInv /\ [FleetNext]_fleetVars => CapacityInv'
<1> SUFFICES ASSUME CapacityInv, [FleetNext]_fleetVars PROVE CapacityInv'
  OBVIOUS
<1>1. /\ FInv /\ IInv /\ CallsMeasured /\ RegistryMeasured /\ AgentCapacity
      /\ FleetInv'
  BY NextFleetInv DEF CapacityInv, FleetInv
<1>2. ASSUME UNCHANGED calls PROVE CallsMeasured'
  BY <1>1, <1>2 DEF CallsMeasured, Measured
<1>3. ASSUME UNCHANGED registry PROVE RegistryMeasured'
  BY <1>1, <1>3 DEF RegistryMeasured
<1>4. ASSUME UNCHANGED jobs PROVE AgentCapacity'
  BY <1>1, <1>4 DEF AgentCapacity, HeldBy
<1>5. ASSUME NEW a \in Agents, AgentStep(a) \/ TimeOut(a) \/ Crash(a) \/ Start(a) \/ Drain(a)
      PROVE  CallsMeasured' /\ RegistryMeasured' /\ AgentCapacity'
  <2>1. UNCHANGED <<registry, jobs>>
    BY <1>5 DEF AgentStep, Poll, Hear, Execute, Finish, TimeOut, Crash, Start, Drain,
                serverVars, queueVars
  <2> QED BY <1>1, <1>3, <1>4, <1>5, <2>1, AgentContinues, AgentMeasured
<1>6. ASSUME NEW c \in calls, ServeCall(c)
      PROVE  CallsMeasured' /\ RegistryMeasured' /\ AgentCapacity'
  BY <1>1, <1>6, ServeMeasured, ServeHeld
<1>7. ASSUME NEW id \in JobIds, Submit(id) \/ Cancel(id)
      PROVE  CallsMeasured' /\ RegistryMeasured' /\ AgentCapacity'
  <2>1. UNCHANGED <<registry, calls>>
    BY <1>7 DEF Submit, Cancel, serverVars
  <2>2. CASE Submit(id)
    <3>1. PICK t \in Readings : \E r, target, owner :
            SubmitProbe(id, target, r, t) \/ SubmitCheck(id, owner, target, r, t)
      BY <2>2 DEF Submit
    <3> QED BY <1>1, <1>2, <1>3, <2>1, <3>1, SubmitHeld, NoMoreHeld
  <2>3. CASE Cancel(id)
    <3>1. PICK t \in Readings : \E caller : CancelQueued(id, caller, t) \/ CancelClaimed(id, caller, t)
      BY <2>3 DEF Cancel
    <3> QED BY <1>1, <1>2, <1>3, <2>1, <3>1, CancelHeld, NoMoreHeld
  <2> QED BY <1>7, <2>2, <2>3
<1>8. CASE Look \/ Pass \/ UNCHANGED fleetVars
  <2>1. UNCHANGED <<registry, calls>>
    BY <1>8 DEF Look, Pass, fleetVars, serverVars
  <2>2. CASE Look
    <3>1. PICK t \in Readings : jobs' = Reaped(t)
      BY <2>2 DEF Look, Observe
    <3> QED BY <1>1, <1>2, <1>3, <2>1, <3>1, ReapedHeld, NoMoreHeld DEF CapacityInv
  <2>3. CASE Pass \/ UNCHANGED fleetVars
    <3>1. UNCHANGED jobs
      BY <2>3 DEF Pass, Tick, fleetVars, queueVars
    <3> QED BY <1>1, <1>2, <1>3, <1>4, <2>1, <3>1 DEF CapacityInv
  <2> QED BY <1>8, <2>2, <2>3
<1>9. EngineRestart => CallsMeasured' /\ RegistryMeasured' /\ AgentCapacity'
  BY <1>1, RestartMeasured
<1> QED BY <1>1, <1>5, <1>6, <1>7, <1>8, <1>9, FleetSteps DEF CapacityInv

(* Whatever heartbeats and claims arrive late, and however leases expire, no *)
(* agent holds more leases than it may run at once.                          *)
THEOREM CapacityHolds == FleetSafety => []AgentCapacity
<1>1. FleetInit => CapacityInv
  <2> SUFFICES ASSUME FleetInit PROVE CapacityInv
    OBVIOUS
  <2>1. CallsMeasured /\ RegistryMeasured
    BY DEF FleetInit, CallsMeasured, RegistryMeasured
  <2>2. AgentCapacity
    <3>1. \A a : HeldBy(jobs, a) = {}
      BY DEF FleetInit, Init, HeldBy
    <3>2. \A a \in Agents : MaxConcurrent[a] \in Int /\ MaxConcurrent[a] >= 0
      BY FleetConstants, QueueConstants
    <3> QED BY <3>1, <3>2, FS_EmptySet DEF AgentCapacity
  <2> QED BY <2>1, <2>2, InitFleetInv DEF CapacityInv
<1>2. CapacityInv => AgentCapacity
  BY DEF CapacityInv
<1> QED BY <1>1, <1>2, NextCapacityInv, PTL DEF FleetSafety

-----------------------------------------------------------------------------
(* Leases.  An agent's papers are the tickets on their way to it and the     *)
(* lease it holds.  A paper names a job that left the queue and, while the   *)
(* queue remembers it, is bound to that agent and token.                     *)
Papers(a) == TicketsOf(a) \cup {<<agent[a].job, agent[a].lease>>}
Valid(a, p) ==
    p[1] # None =>
        /\ Taken(p[1])
        /\ p[1] \in DOMAIN jobs => LeaseMatches(jobs[p[1]], a, p[2])
PapersValid == \A a \in Agents : \A p \in Papers(a) : Valid(a, p)
SoleBearer ==
    \A a, b \in Agents : \A p \in Papers(a), q \in Papers(b) :
        p[1] # None /\ p[1] = q[1] => a = b
LeaseInv == FleetTypeInv /\ PapersValid /\ SoleBearer

(* What a step keeps of a job that left the queue.                           *)
StillTaken(j) ==
    Taken(j) =>
        /\ Taken(j)'
        /\ j \in DOMAIN jobs' =>
              /\ j \in DOMAIN jobs
              /\ jobs'[j].lease = jobs[j].lease /\ jobs'[j].assigned = jobs[j].assigned

LEMMA FleetStepsOfQueue ==
    ASSUME FleetInv, [FleetNext]_fleetVars
    PROVE  [Next]_queueVars \/ EngineRestart
<1>0. FInv /\ IInv
  BY DEF FleetInv
<1>1. Look \/ Pass => Next
  BY DEF Look, Pass, Next
<1>2. UNCHANGED fleetVars => UNCHANGED queueVars
  BY DEF fleetVars
<1> QED BY <1>0, <1>1, <1>2, FleetSteps, AgentIsNoQueueStep, ServeCallIsQueueStep,
           SubmitIsQueueStep, CancelIsQueueStep

LEMMA TakenStays ==
    ASSUME FleetInv, [FleetNext]_fleetVars
    PROVE  \A j \in JobIds : StillTaken(j)
<1> SUFFICES ASSUME NEW j \in JobIds, Taken(j)
             PROVE  /\ Taken(j)'
                    /\ j \in DOMAIN jobs' =>
                          /\ j \in DOMAIN jobs
                          /\ jobs'[j].lease = jobs[j].lease /\ jobs'[j].assigned = jobs[j].assigned
  BY DEF StillTaken
<1>1. Progress(j) /\ IInv
  BY FleetProgress DEF FleetInv
<1>2. Taken(j)' /\ (j \in DOMAIN jobs' => j \in DOMAIN jobs)
  BY <1>1 DEF Progress, Quiet, Born, Moved, Taken
<1>3. ASSUME j \in DOMAIN jobs'
      PROVE  jobs'[j].lease = jobs[j].lease /\ jobs'[j].assigned = jobs[j].assigned
  <2>1. [Next]_queueVars
    <3>1. EngineRestart => DOMAIN jobs' = {}
      BY DEF EngineRestart
    <3> QED BY <1>3, <3>1, FleetStepsOfQueue
  <2>2. j \in DOMAIN jobs /\ RecordStep(jobs[j], jobs'[j], now')
    BY <1>1, <1>2, <1>3, <2>1, StepFacts
  <2>3. jobs[j].state \notin Terminal => jobs[j].lease # None
    BY <1>1, <2>2 DEF IInv, TableOK, RecordsOK, JobOK, JobRecord, JobState, Taken
  <2> QED BY <2>2, <2>3 DEF RecordStep
<1> QED BY <1>2, <1>3

(* Papers follow tickets: those there were, and perhaps one more.            *)
LEMMA PapersOfTickets ==
    ASSUME UNCHANGED agent, NEW g, NEW id, NEW n,
           \A d \in calls' : Ticket(d) =>
              \/ \E o \in calls : Ticket(o) /\ o.agent = d.agent /\ o.got = d.got
              \/ d.agent = g /\ d.got.job = id /\ d.got.lease = n
    PROVE  \A b : \A p \in Papers(b)' : p \in Papers(b) \/ (b = g /\ p = <<id, n>>)
<1> SUFFICES ASSUME NEW b, NEW p \in Papers(b)' PROVE p \in Papers(b) \/ (b = g /\ p = <<id, n>>)
  OBVIOUS
<1>1. CASE p = <<agent[b].job, agent[b].lease>>'
  BY <1>1 DEF Papers
<1>2. CASE p \in TicketsOf(b)'
  <2>1. PICK d \in calls' : d.agent = b /\ Ticket(d) /\ p = <<d.got.job, d.got.lease>>
    BY <1>2 DEF TicketsOf
  <2>2. ASSUME NEW o \in calls, Ticket(o), o.agent = d.agent, o.got = d.got PROVE p \in Papers(b)
    BY <2>1, <2>2 DEF Papers, TicketsOf
  <2> QED BY <2>1, <2>2
<1> QED BY <1>1, <1>2 DEF Papers

(* What a step may add to the papers: nothing, or to one agent a lease on a  *)
(* job that was still in the queue.                                          *)
Grants(g) ==
    \A a \in Agents : \A p \in Papers(a)' :
        \/ p[1] = None \/ p \in Papers(a)
        \/ a = g /\ ~Taken(p[1]) /\ Valid(a, p)'
GrantsOne == \E g : Grants(g)

LEMMA NoNewPapers ==
    ASSUME UNCHANGED agent,
           \A d \in calls' : Ticket(d) =>
              \E o \in calls : Ticket(o) /\ o.agent = d.agent /\ o.got = d.got
    PROVE  GrantsOne
<1>1. \A b : \A p \in Papers(b)' : p \in Papers(b) \/ (b = None /\ p = <<None, None>>)
  BY PapersOfTickets
<1>2. \A p : p = <<None, None>> => p[1] = None
  OBVIOUS
<1> QED BY <1>1, <1>2 DEF Grants, GrantsOne

LEMMA ServePapers ==
    ASSUME FInv, IInv, NEW c \in calls, ServeCall(c)
    PROVE  GrantsOne
<1>1. IsCall(c) /\ UNCHANGED agent
  BY DEF FInv, Shapes, ServeCall, ServeRegister, ServeIssue, ServeVerify, ServeHeartbeat,
         ServeAdmit, ServeClaim, ServeSync, ServeResult, Idle
<1>2. ASSUME NEW d, Advance(c, d), d.agent = c.agent, d.op = c.op, d.live = c.live, d.got = c.got
      PROVE  GrantsOne
  <2>1. \A e \in calls' : Ticket(e) => \E o \in calls : Ticket(o) /\ o.agent = e.agent /\ o.got = e.got
    BY <1>2 DEF Advance, Ticket
  <2> QED BY <1>1, <2>1, NoNewPapers
<1>3. ASSUME NEW status, NEW body, Answer(c, status, body)
      PROVE  \A x \in calls' : x \in calls \/ /\ x.agent = c.agent /\ x.got = body
                                              /\ Ticket(x) => c.op = "claim" /\ body # None
  <2> DEFINE d == [c EXCEPT !.stage = "answered", !.reply = status, !.got = body]
  <2>1. d.agent = c.agent /\ d.got = body /\ d.op = c.op
    BY <1>1 DEF IsCall, Fields
  <2>2. \A x \in calls' : x \in calls \/ x = d
    BY <1>3 DEF Answer
  <2> HIDE DEF d
  <2> QED BY <2>1, <2>2 DEF Ticket
<1>4. ASSUME NEW status, NEW body, Answer(c, status, body), c.op = "claim" => body = None
      PROVE  GrantsOne
  <2>1. \A e \in calls' : Ticket(e) => \E o \in calls : Ticket(o) /\ o.agent = e.agent /\ o.got = e.got
    BY <1>3, <1>4
  <2> QED BY <1>1, <2>1, NoNewPapers
<1>5. CASE ServeClaim(c)
  <2>1. ASSUME NEW t \in Readings, NEW id \in JobIds,
               ClaimJob(id, c.agent, c.max, Capabilities(c.agent), t),
               Answer(c, "200", [job |-> id, kind |-> jobs'[id].kind,
                                 lease |-> leases + 1, due |-> jobs'[id].deadline])
        PROVE  GrantsOne
    <3> DEFINE old == Reaped(t)[id]
               job == Claimed(old, c.agent, leases + 1, t)
    <3>1. PICK n : n = leases + 1
      OBVIOUS
    <3>2. PICK body : body.job = id /\ body.lease = n /\ Answer(c, "200", body)
      BY <2>1, <3>1
    <3>3. \A b : \A p \in Papers(b)' : p \in Papers(b) \/ (b = c.agent /\ p = <<id, n>>)
      BY <1>1, <1>3, <3>2, PapersOfTickets
    <3>4. id \in DOMAIN Reaped(t) /\ jobs' = [Reaped(t) EXCEPT ![id] = job]
      BY <2>1 DEF ClaimJob, Oldest, Claimable
    <3>5. job.assigned = c.agent /\ job.lease = n
      BY <3>1, <3>4, ReapedRecord DEF Claimed, JobRecord
    <3> HIDE DEF job
    <3>6. LeaseMatches(jobs'[id], c.agent, n)
      BY <3>4, <3>5 DEF LeaseMatches
    <3>7. ~Taken(id) /\ Taken(id)'
      BY <2>1, ClaimMoves DEF Moved, Taken
    <3>8. \A p : p = <<id, n>> => p[1] = id /\ p[2] = n
      OBVIOUS
    <3>9. \A p : p = <<id, n>> => ~Taken(p[1]) /\ Valid(c.agent, p)'
      BY <3>6, <3>7, <3>8 DEF Valid, LeaseMatches
    <3> QED BY <3>3, <3>9 DEF Grants, GrantsOne
  <2> QED BY <1>4, <1>5, <2>1 DEF ServeClaim
<1>6. CASE ServeVerify(c)
  <2>1. LET d == [c EXCEPT !.stage = "verified"]
        IN  d.agent = c.agent /\ d.op = c.op /\ d.live = c.live /\ d.got = c.got
    BY <1>1 DEF IsCall, Fields
  <2> QED BY <1>2, <1>4, <1>6, <2>1 DEF ServeVerify
<1>7. CASE ServeAdmit(c)
  <2>1. \A m : LET d == [c EXCEPT !.stage = "admitted", !.max = m]
               IN  d.agent = c.agent /\ d.op = c.op /\ d.live = c.live /\ d.got = c.got
    BY <1>1 DEF IsCall, Fields
  <2> QED BY <1>2, <1>4, <1>7, <2>1 DEF ServeAdmit
<1>8. CASE ServeRegister(c)
  <2>1. \A m : LET d == [c EXCEPT !.stage = "listed", !.ids = m]
               IN  d.agent = c.agent /\ d.op = c.op /\ d.live = c.live /\ d.got = c.got
    BY <1>1 DEF IsCall, Fields
  <2> QED BY <1>2, <1>4, <1>8, <2>1 DEF ServeRegister
<1>9. CASE ServeIssue(c) \/ ServeHeartbeat(c) \/ ServeSync(c) \/ ServeResult(c)
  <2>1. c.op # "claim" /\ \E status, body : Answer(c, status, body)
    BY <1>9 DEF ServeIssue, ServeHeartbeat, ServeSync, ServeResult
  <2> QED BY <1>4, <2>1
<1> QED BY <1>5, <1>6, <1>7, <1>8, <1>9 DEF ServeCall

LEMMA AgentPapers ==
    ASSUME FInv, NEW a \in Agents, GoesOn(a, TRUE), Continues(a)
    PROVE  GrantsOne
<1>1. PICK me : /\ agent' = [agent EXCEPT ![a] = me]
                /\ \/ me.job = None
                   \/ <<me.job, me.lease>> \in Papers(a)
  BY DEF GoesOn, Papers
<1>2. PICK rest, sent :
        /\ calls' = rest \cup sent
        /\ rest \in {calls, Abandoned(a)} \cup {calls \ {c} : c \in calls}
        /\ \A s \in sent : s.got = None
  BY DEF Continues, Become
<1>3. \A d \in calls' : Ticket(d) => d \in calls
  <2>1. ASSUME NEW c \in calls PROVE ~Ticket([c EXCEPT !.live = FALSE])
    BY DEF FInv, Shapes, IsCall, Fields, Ticket
  <2>2. \A d \in Abandoned(a) : Ticket(d) => d \in calls
    BY <2>1 DEF Abandoned
  <2> QED BY <1>2, <2>2 DEF Ticket
<1>4. \A b : TicketsOf(b)' \subseteq TicketsOf(b)
  BY <1>3 DEF TicketsOf
<1>5. \A b \in Agents : agent'[b] = IF b = a THEN me ELSE agent[b]
  BY <1>1 DEF FInv, Shapes
<1>6. ASSUME NEW b \in Agents, NEW p \in Papers(b)'
      PROVE  p[1] = None \/ p \in Papers(b)
  <2>1. CASE p \in TicketsOf(b)'
    BY <1>4, <2>1 DEF Papers
  <2>2. CASE p = <<agent'[b].job, agent'[b].lease>>
    <3>1. CASE b = a
      BY <1>1, <1>5, <2>2, <3>1
    <3>2. CASE b # a
      BY <1>5, <2>2, <3>2 DEF Papers
    <3> QED BY <3>1, <3>2
  <2> QED BY <1>6, <2>1, <2>2 DEF Papers
<1> QED BY <1>6 DEF Grants, GrantsOne

LEMMA RestartPapers ==
    ASSUME FInv, EngineRestart
    PROVE  GrantsOne
<1> DEFINE Cut(c) == IF c.stage = "answered" THEN c
                     ELSE [c EXCEPT !.stage = "answered", !.reply = "transport"]
<1>1. calls' = {Cut(c) : c \in {d \in calls : d.live}} /\ UNCHANGED agent
  BY DEF EngineRestart
<1>2. ASSUME NEW c \in calls
      PROVE  Cut(c).agent = c.agent /\ Cut(c).op = c.op /\ Cut(c).live = c.live /\ Cut(c).got = c.got
  BY DEF FInv, Shapes, IsCall, Fields
<1> HIDE DEF Cut
<1>3. \A d \in calls' : Ticket(d) => \E o \in calls : Ticket(o) /\ o.agent = d.agent /\ o.got = d.got
  BY <1>1, <1>2 DEF Ticket
<1> QED BY <1>1, <1>3, NoNewPapers

LEMMA StepPapers ==
    ASSUME FleetTypeInv, [FleetNext]_fleetVars
    PROVE  GrantsOne
<1>0. FInv /\ IInv /\ AgentsOK
  BY DEF FleetTypeInv, FleetInv
<1>1. UNCHANGED <<agent, calls>> => GrantsOne
  BY DEF Papers, TicketsOf, Grants, GrantsOne
<1>2. ASSUME NEW id \in JobIds, Submit(id) \/ Cancel(id) PROVE UNCHANGED <<agent, calls>>
  BY <1>2 DEF Submit, Cancel
<1>3. Look \/ Pass \/ UNCHANGED fleetVars => UNCHANGED <<agent, calls>>
  BY DEF Look, Pass, fleetVars
<1> QED BY <1>0, <1>1, <1>2, <1>3, FleetSteps, ServePapers, AgentPapers, AgentGoesOn,
           AgentContinues, RestartPapers

LEMMA NextLeaseInv == LeaseInv /\ [FleetNext]_fleetVars => LeaseInv'
<1> SUFFICES ASSUME LeaseInv, [FleetNext]_fleetVars PROVE LeaseInv'
  OBVIOUS
<1>1. FleetTypeInv' /\ FleetInv /\ issued \subseteq JobIds
  BY NextFleetTypeInv DEF LeaseInv, FleetTypeInv, FleetInv, IInv
<1>2. PICK g : Grants(g)
  BY StepPapers DEF LeaseInv, GrantsOne
<1>3. \A j : StillTaken(j)
  BY <1>1, TakenStays DEF StillTaken, Taken
<1>4. \A a, p : Valid(a, p) => Valid(a, p)'
  BY <1>3 DEF Valid, StillTaken, LeaseMatches
<1>5. PapersValid'
  <2>1. \A a \in Agents : \A p \in Papers(a)' : Valid(a, p)'
    <3>1. \A a, p : p[1] = None => Valid(a, p)'
      BY DEF Valid
    <3> QED BY <1>2, <1>4, <3>1 DEF Grants, LeaseInv, PapersValid
  <2> QED BY <2>1 DEF PapersValid
<1>6. SoleBearer'
  <2>1. ASSUME NEW a \in Agents, NEW b \in Agents, NEW p \in Papers(a)', NEW q \in Papers(b)',
               p[1] # None, p[1] = q[1]
        PROVE  a = b
    <3>1. \A x \in Agents : \A y \in Papers(x) : y[1] # None => Taken(y[1])
      BY DEF LeaseInv, PapersValid, Valid
    <3>2. CASE p \in Papers(a) /\ q \in Papers(b)
      BY <2>1, <3>2 DEF LeaseInv, SoleBearer
    <3>3. CASE a = g /\ b = g
      BY <3>3
    <3> QED BY <1>2, <2>1, <3>1, <3>2, <3>3 DEF Grants
  <2> QED BY <2>1 DEF SoleBearer
<1> QED BY <1>1, <1>5, <1>6 DEF LeaseInv

(* Of the agents that compete for a job one does its work, once, under the   *)
(* lease it was given, whatever is lost, late or restarted.                  *)
THEOREM WorkIsLeased == FleetSafety => []RunsOnceOnItsLease
<1>1. FleetInit => LeaseInv
  <2> SUFFICES ASSUME FleetInit PROVE LeaseInv
    OBVIOUS
  <2>1. FleetTypeInv
    BY InitFleetTypeInv
  <2>2. \A a \in Agents : \A p \in Papers(a) : p[1] = None
    BY FreshFacts DEF FleetInit, Papers, TicketsOf
  <2> QED BY <2>1, <2>2 DEF LeaseInv, PapersValid, SoleBearer, Valid
<1>2. LeaseInv => RunsOnceOnItsLease
  <2> SUFFICES ASSUME LeaseInv PROVE AtMostOneRun /\ LeaseIsOwn
    BY DEF RunsOnceOnItsLease
  <2>1. AtMostOneRun
    BY DEF LeaseInv, FleetTypeInv, FleetInv, FInv, Shapes, AtMostOneRun
  <2>2. \A a \in Agents : <<agent[a].job, agent[a].lease>> \in Papers(a)
    BY DEF Papers
  <2>3. ASSUME NEW a \in Agents, agent[a].job # None, agent[a].job \in DOMAIN jobs
        PROVE  LeaseMatches(jobs[agent[a].job], a, agent[a].lease)
    BY <2>2, <2>3 DEF LeaseInv, PapersValid, Valid
  <2>4. ASSUME NEW a \in Agents, NEW b \in Agents, a # b, agent[a].job # None
        PROVE  agent[a].job # agent[b].job
    <3>1. PICK p \in Papers(a) : p = <<agent[a].job, agent[a].lease>>
      BY <2>2
    <3>2. PICK q \in Papers(b) : q = <<agent[b].job, agent[b].lease>>
      BY <2>2
    <3>3. p[1] = agent[a].job /\ q[1] = agent[b].job
      BY <3>1, <3>2
    <3> QED BY <2>4, <3>3 DEF LeaseInv, SoleBearer
  <2> QED BY <2>1, <2>3, <2>4 DEF LeaseIsOwn
<1> QED BY <1>1, <1>2, NextLeaseInv, PTL DEF FleetSafety

-----------------------------------------------------------------------------
(* Room for secrets.  A registration that is under way carries a list that   *)
(* its agent is on and that was never longer than the registry may be.       *)
Listed(c) ==
    c.stage = "listed" =>
        /\ c.agent \in c.ids
        /\ IsFiniteSet(c.ids) /\ Cardinality(c.ids) <= MaxRegisteredAgents
CallsListed == \A c \in calls : Listed(c)
RegistryBounded ==
    IsFiniteSet(DOMAIN registry) /\ Cardinality(DOMAIN registry) <= MaxRegisteredAgents
RoomInv == FleetInv /\ CallsListed /\ RegistryBounded

LEMMA AgentListed ==
    ASSUME FInv, CallsListed, NEW a, Continues(a)
    PROVE  CallsListed'
<1>1. PICK rest, sent :
        /\ calls' = rest \cup sent
        /\ rest \in {calls, Abandoned(a)} \cup {calls \ {c} : c \in calls}
        /\ \A s \in sent : s.stage = "sent"
  BY DEF Continues, Become
<1>2. ASSUME NEW c \in calls PROVE Listed([c EXCEPT !.live = FALSE]) /\ Listed(c)
  <2> DEFINE o == [c EXCEPT !.live = FALSE]
  <2>1. IsCall(c) /\ Listed(c)
    BY DEF FInv, Shapes, CallsListed
  <2>2. o.stage = c.stage /\ o.agent = c.agent /\ o.ids = c.ids
    BY <2>1 DEF IsCall, Fields
  <2> HIDE DEF o
  <2>3. Listed(o)
    BY <2>1, <2>2 DEF Listed
  <2> QED BY <2>1, <2>3 DEF o
<1>3. \A o \in Abandoned(a) : Listed(o)
  BY <1>2 DEF Abandoned
<1>4. \A s \in sent : Listed(s)
  BY <1>1 DEF Listed
<1>5. \A d \in calls' : Listed(d)
  BY <1>1, <1>2, <1>3, <1>4
<1> QED BY <1>5 DEF CallsListed, Listed

(* The registry of a moment, and with one agent more while there is room.    *)
LEMMA PrunedBounded ==
    ASSUME RegistryBounded, NEW t
    PROVE  /\ IsFiniteSet(DOMAIN Pruned(t)) /\ Cardinality(DOMAIN Pruned(t)) \in Nat
           /\ Cardinality(DOMAIN Pruned(t)) <= MaxRegisteredAgents
           /\ \A a : a \in DOMAIN Pruned(t) \/ Cardinality(DOMAIN Pruned(t)) < MaxRegisteredAgents =>
                 /\ IsFiniteSet(DOMAIN Pruned(t) \cup {a})
                 /\ Cardinality(DOMAIN Pruned(t) \cup {a}) <= MaxRegisteredAgents
<1> DEFINE S == DOMAIN Pruned(t)
<1>1. S \in SUBSET DOMAIN registry
  BY DEF Pruned
<1> HIDE DEF S
<1>2. IsFiniteSet(S) /\ Cardinality(S) <= Cardinality(DOMAIN registry)
  BY <1>1, FS_Subset DEF RegistryBounded
<1>3. /\ Cardinality(S) \in Nat /\ Cardinality(DOMAIN registry) \in Nat
      /\ MaxRegisteredAgents \in Nat
  BY <1>2, FS_CardinalityType, FleetConstants DEF RegistryBounded
<1>4. Cardinality(S) <= MaxRegisteredAgents
  BY <1>2, <1>3 DEF RegistryBounded
<1>5. ASSUME NEW a, a \in S \/ Cardinality(S) < MaxRegisteredAgents
      PROVE  IsFiniteSet(S \cup {a}) /\ Cardinality(S \cup {a}) <= MaxRegisteredAgents
  <2>1. /\ IsFiniteSet(S \cup {a})
        /\ Cardinality(S \cup {a}) = IF a \in S THEN Cardinality(S) ELSE Cardinality(S) + 1
    BY <1>2, FS_AddElement
  <2> QED BY <1>3, <1>4, <1>5, <2>1
<1> QED BY <1>2, <1>3, <1>4, <1>5 DEF S

LEMMA ServeListed ==
    ASSUME FInv, CallsListed, RegistryBounded, NEW c \in calls, ServeCall(c)
    PROVE  CallsListed' /\ RegistryBounded'
<1>1. IsCall(c) /\ \A d \in calls : Listed(d)
  BY DEF FInv, Shapes, CallsListed
<1>2. ASSUME NEW d, Advance(c, d), Listed(d) PROVE CallsListed'
  <2>1. \A e \in calls' : Listed(e)
    BY <1>1, <1>2 DEF Advance
  <2> QED BY <2>1 DEF CallsListed, Listed
<1>3. ASSUME NEW status, NEW body, Answer(c, status, body) PROVE CallsListed'
  <2> DEFINE d == [c EXCEPT !.stage = "answered", !.reply = status, !.got = body]
  <2>1. d.stage = "answered"
    BY <1>1 DEF IsCall, Fields
  <2>2. \A e \in calls' : e \in calls \/ e = d
    BY <1>3 DEF Answer
  <2> HIDE DEF d
  <2>3. \A e \in calls' : Listed(e)
    BY <1>1, <2>1, <2>2 DEF Listed
  <2> QED BY <2>3 DEF CallsListed, Listed
<1>4. registry' = registry \/ DOMAIN registry' = DOMAIN Pruned(clock) => RegistryBounded'
  BY PrunedBounded DEF RegistryBounded
<1>5. CASE ServeRegister(c)
  <2> DEFINE a == c.agent
             known == Pruned(clock)
             listed == [b \in DOMAIN known \cup {a} |->
                           IF b = a THEN Registered(a, clock) ELSE known[b]]
  <2>1. CASE registry' = known /\ Answer(c, "400", None)
    BY <1>3, <1>4, <2>1
  <2>2. CASE /\ a \in DOMAIN known \/ Cardinality(DOMAIN known) < MaxRegisteredAgents
             /\ registry' = listed
             /\ Advance(c, [c EXCEPT !.stage = "listed", !.ids = DOMAIN listed])
    <3> DEFINE d == [c EXCEPT !.stage = "listed", !.ids = DOMAIN listed]
    <3>1. DOMAIN listed = DOMAIN known \cup {a}
      OBVIOUS
    <3>2. IsFiniteSet(DOMAIN listed) /\ Cardinality(DOMAIN listed) <= MaxRegisteredAgents
      BY <2>2, <3>1, PrunedBounded
    <3>3. RegistryBounded'
      BY <2>2, <3>2 DEF RegistryBounded
    <3>4. a \in DOMAIN listed /\ Advance(c, d)
      BY <2>2, <3>1
    <3> HIDE DEF listed
    <3>5. d.agent = a /\ d.ids = DOMAIN listed
      BY <1>1 DEF IsCall, Fields
    <3> HIDE DEF d
    <3>6. Listed(d)
      BY <3>2, <3>4, <3>5 DEF Listed
    <3> QED BY <1>2, <3>3, <3>4, <3>6
  <2> QED BY <1>5, <2>1, <2>2 DEF ServeRegister
<1>6. CASE ServeVerify(c)
  <2>1. Listed([c EXCEPT !.stage = "verified"])
    BY <1>1 DEF IsCall, Fields, Listed
  <2>2. UNCHANGED registry
    BY <1>6 DEF ServeVerify, serverVars
  <2> QED BY <1>2, <1>3, <1>4, <1>6, <2>1, <2>2 DEF ServeVerify
<1>7. CASE ServeAdmit(c)
  <2>1. \A m : Listed([c EXCEPT !.stage = "admitted", !.max = m])
    BY <1>1 DEF IsCall, Fields, Listed
  <2>2. registry' = Pruned(clock)
    BY <1>7 DEF ServeAdmit
  <2> QED BY <1>2, <1>3, <1>4, <1>7, <2>1, <2>2 DEF ServeAdmit
<1>8. CASE ServeHeartbeat(c)
  <2>1. DOMAIN registry' = DOMAIN Pruned(clock)
    BY <1>8 DEF ServeHeartbeat, Pruned
  <2> QED BY <1>3, <1>4, <1>8, <2>1 DEF ServeHeartbeat
<1>9. CASE ServeIssue(c) \/ ServeClaim(c) \/ ServeSync(c) \/ ServeResult(c)
  <2>1. UNCHANGED registry /\ \E status, body : Answer(c, status, body)
    BY <1>9 DEF ServeIssue, ServeClaim, ServeSync, ServeResult, serverVars
  <2> QED BY <1>3, <1>4, <2>1
<1> QED BY <1>5, <1>6, <1>7, <1>8, <1>9 DEF ServeCall

LEMMA RestartListed ==
    ASSUME FInv, CallsListed, EngineRestart
    PROVE  CallsListed' /\ RegistryBounded'
<1> DEFINE Cut(c) == IF c.stage = "answered" THEN c
                     ELSE [c EXCEPT !.stage = "answered", !.reply = "transport"]
<1>1. calls' = {Cut(c) : c \in {d \in calls : d.live}} /\ DOMAIN registry' = {}
  BY DEF EngineRestart
<1>2. ASSUME NEW c \in calls PROVE Cut(c).stage = "answered"
  BY DEF FInv, Shapes, IsCall, Fields
<1> HIDE DEF Cut
<1>3. \A d \in calls' : d.stage = "answered"
  BY <1>1, <1>2
<1> QED BY <1>1, <1>3, FS_EmptySet, FleetConstants DEF CallsListed, Listed, RegistryBounded

LEMMA NextRoomInv == RoomInv /\ [FleetNext]_fleetVars => RoomInv'
<1> SUFFICES ASSUME RoomInv, [FleetNext]_fleetVars PROVE RoomInv'
  OBVIOUS
<1>1. FInv /\ CallsListed /\ RegistryBounded /\ FleetInv'
  BY NextFleetInv DEF RoomInv, FleetInv
<1>2. UNCHANGED calls => CallsListed'
  BY <1>1 DEF CallsListed, Listed
<1>3. UNCHANGED registry => RegistryBounded'
  BY <1>1 DEF RegistryBounded
<1>4. ASSUME NEW a \in Agents, AgentStep(a) \/ TimeOut(a) \/ Crash(a) \/ Start(a) \/ Drain(a)
      PROVE  CallsListed' /\ RegistryBounded'
  <2>1. UNCHANGED registry
    BY <1>4 DEF AgentStep, Poll, Hear, Execute, Finish, TimeOut, Crash, Start, Drain, serverVars
  <2> QED BY <1>1, <1>3, <1>4, <2>1, AgentContinues, AgentListed
<1>5. ASSUME NEW id \in JobIds, Submit(id) \/ Cancel(id) PROVE UNCHANGED <<calls, registry>>
  BY <1>5 DEF Submit, Cancel, serverVars
<1>6. Look \/ Pass \/ UNCHANGED fleetVars => UNCHANGED <<calls, registry>>
  BY DEF Look, Pass, fleetVars, serverVars
<1>7. CallsListed' /\ RegistryBounded'
  BY <1>1, <1>2, <1>3, <1>4, <1>5, <1>6, ServeListed, RestartListed, FleetSteps
<1> QED BY <1>1, <1>7 DEF RoomInv

(* An agent the registry accepted is never turned away for want of a secret, *)
(* whoever registers between the two locks: the secrets kept are those of    *)
(* the other agents on a list that was not too long.                         *)
THEOREM SecretsSuffice == FleetSafety => []IssueNeverRefused
<1>1. FleetInit => RoomInv
  <2> SUFFICES ASSUME FleetInit PROVE RoomInv
    OBVIOUS
  <2>1. calls = {} /\ DOMAIN registry = {}
    BY DEF FleetInit
  <2> QED BY <2>1, InitFleetInv, FS_EmptySet, FleetConstants
           DEF RoomInv, CallsListed, RegistryBounded
<1>2. RoomInv => IssueNeverRefused
  <2> SUFFICES ASSUME RoomInv, NEW c \in calls, c.stage = "listed", c.agent \notin KeptSecrets(c)
               PROVE  Cardinality(KeptSecrets(c)) < MaxCredentials
    BY DEF IssueNeverRefused, IssueFits
  <2> DEFINE others == c.ids \ {c.agent}
  <2>1. c.agent \in c.ids /\ IsFiniteSet(c.ids) /\ Cardinality(c.ids) <= MaxRegisteredAgents
    BY DEF RoomInv, CallsListed, Listed
  <2>2. IsFiniteSet(others) /\ Cardinality(others) = Cardinality(c.ids) - 1
    BY <2>1, FS_RemoveElement
  <2>3. KeptSecrets(c) \in SUBSET others
    BY DEF KeptSecrets
  <2> HIDE DEF others
  <2>4. IsFiniteSet(KeptSecrets(c)) /\ Cardinality(KeptSecrets(c)) <= Cardinality(others)
    BY <2>2, <2>3, FS_Subset
  <2>5. /\ Cardinality(KeptSecrets(c)) \in Nat /\ Cardinality(c.ids) \in Nat
        /\ MaxRegisteredAgents \in Nat /\ MaxCredentials \in Nat
        /\ MaxRegisteredAgents <= MaxCredentials
    BY <2>1, <2>4, FS_CardinalityType, FleetConstants
  <2> QED BY <2>1, <2>2, <2>4, <2>5
<1> QED BY <1>1, <1>2, NextRoomInv, PTL DEF FleetSafety
=============================================================================
