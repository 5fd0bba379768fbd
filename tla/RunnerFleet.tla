----------------------------- MODULE RunnerFleet -----------------------------
(* The runner control plane as a distributed system: the job queue, the      *)
(* registry and the authenticator of the engine, the HTTP handlers of        *)
(* routes/runner_agent.rs and routes/runner_job.rs, and the agent processes  *)
(* of services/runner_agent_client.rs that call them over a network that     *)
(* loses requests, loses answers and delivers requests late.                 *)
(*                                                                           *)
(* A handler takes the locks of the authenticator, the registry and the      *)
(* queue one after the other and never together: each lock section is a step *)
(* of its own, and the call's record carries what the handler read between   *)
(* them.  An agent has one call it waits for; a call it gave up on stays in  *)
(* `calls` and may still be served.                                          *)
EXTENDS RunnerJobQueue

CONSTANTS
    MaxConcurrent,    \* the agents' configured max_concurrent
    Compilers,        \* the agents that advertise clang_check
    HeartbeatTtl, AgentRetention,
    MaxRegisteredAgents, MaxCredentials,
    MaxFaults, LastFault,  \* bounds: how many faults, and how late
    MaxRestarts       \* bound: how often the engine loses its memory

ASSUME FleetConstants ==
    /\ MaxConcurrent \in [Agents -> 1 .. MaxClaim]
    /\ Compilers \subseteq Agents
    /\ HeartbeatTtl \in Nat /\ AgentRetention \in Nat
    /\ HeartbeatTtl <= AgentRetention
    /\ MaxRegisteredAgents \in Nat /\ MaxCredentials \in Nat
    /\ MaxRegisteredAgents <= MaxCredentials  \* both are 256
    /\ MaxFaults \in Nat /\ LastFault \in Int /\ MaxRestarts \in Nat
    /\ None # "cancel"  \* an answer without a body is no verdict

VARIABLES
    registry,     \* AgentRecord of every registered agent
    credentials,  \* the secret the authenticator expects of each agent
    drawn,        \* number of secrets drawn; secret n is the n-th one
    agent,        \* the agent processes
    calls,        \* requests sent and not yet answered or forgotten
    runs,         \* how often each job's work was started (history)
    faults, restarts

serverVars == <<registry, credentials, drawn>>
faultVars == <<faults, restarts>>
fleetVars == <<queueVars, serverVars, agent, calls, runs, faultVars>>

Capabilities(a) == IF a \in Compilers THEN {CompileCapability} ELSE {}

Waiting == {"register", "beat", "claim", "announce", "sync", "report",
            "resync", "acknowledge", "settle", "drain"}
PC == Waiting \cup {"down", "unregistered", "idle", "execute", "running", "exited"}

Fresh == [pc |-> "unregistered", cred |-> None, job |-> None, kind |-> None,
          lease |-> None, due |-> None, result |-> None, after |-> "ok"]

-----------------------------------------------------------------------------
(* The registry.                                                             *)

Pruned(t) ==
    [a \in {b \in DOMAIN registry : t - registry[b].seen <= AgentRetention}
        |-> registry[a]]

ViewState(record, t) ==
    IF t > record.seen + HeartbeatTtl THEN "offline" ELSE record.state

Registered(a, t) ==
    [state |-> "healthy", active |-> 0, slots |-> MaxConcurrent[a], seen |-> t]

(* The capacity a heartbeat may report.                                      *)
CapacityOK(a, active, slots) ==
    /\ active <= MaxConcurrent[a] /\ slots <= MaxConcurrent[a]
    /\ active + slots <= MaxConcurrent[a]

-----------------------------------------------------------------------------
(* Calls.  `stage` says how far the handler got: sent, verified, admitted    *)
(* (claim: the registry's answer is in `max`), listed (register: the active  *)
(* agents are in `ids`), answered.  `live` says the agent still waits.       *)

Request(a, me, op) ==
    [agent |-> a, op |-> op, cred |-> me.cred, job |-> me.job, lease |-> me.lease,
     result |-> me.result, state |-> "healthy", active |-> 0,
     stage |-> "sent", live |-> TRUE, max |-> 0, ids |-> {}, reply |-> None,
     got |-> None]

Heartbeat(a, me, state, active) ==
    [Request(a, me, "heartbeat") EXCEPT !.state = state, !.active = active]

Advance(c, d) == calls' = (calls \ {c}) \cup {d}

(* The handler answers: an agent that gave up hears nothing.                 *)
Answer(c, status, body) ==
    calls' = (calls \ {c}) \cup
        (IF c.live THEN {[c EXCEPT !.stage = "answered", !.reply = status, !.got = body]}
                   ELSE {})

Idle == UNCHANGED <<agent, runs, faultVars>>

(* routes register: registry.register and active_agent_ids, then issue. The  *)
(* first two are one step: an agent inserted between them might as well have *)
(* been inserted before.                                                     *)
ServeRegister(c) ==
    LET a == c.agent
        known == Pruned(clock)
        listed == [b \in DOMAIN known \cup {a} |->
                      IF b = a THEN Registered(a, clock) ELSE known[b]]
    IN
    /\ c.op = "register" /\ c.stage = "sent"
    /\ \/ /\ a \in DOMAIN known \/ Cardinality(DOMAIN known) < MaxRegisteredAgents
          /\ registry' = listed
          /\ Advance(c, [c EXCEPT !.stage = "listed", !.ids = DOMAIN listed])
       \/ /\ a \notin DOMAIN known /\ Cardinality(DOMAIN known) >= MaxRegisteredAgents
          /\ registry' = known
          /\ Answer(c, "400", None)
    /\ UNCHANGED <<queueVars, credentials, drawn>> /\ Idle

(* Slip: the secrets of agents that left the registry are kept.              *)
AllSecrets(c) == DOMAIN credentials

(* authenticator.issue: secrets of agents outside the list are dropped.      *)
KeptSecrets(c) == DOMAIN credentials \cap c.ids

IssueFits(c) ==
    c.agent \in KeptSecrets(c) \/ Cardinality(KeptSecrets(c)) < MaxCredentials

(* Slip: the same secret is issued again.                                    *)
IssueUndrawn(c) ==
    /\ c.op = "register" /\ c.stage = "listed" /\ IssueFits(c)
    /\ credentials' = [b \in KeptSecrets(c) \cup {c.agent} |->
                          IF b = c.agent THEN drawn + 1 ELSE credentials[b]]
    /\ Answer(c, "200", drawn + 1)
    /\ UNCHANGED <<queueVars, registry, drawn>> /\ Idle

ServeIssue(c) ==
    LET kept == KeptSecrets(c) IN
    /\ c.op = "register" /\ c.stage = "listed"
    /\ IF IssueFits(c)
       THEN /\ drawn' = drawn + 1
            /\ credentials' = [b \in kept \cup {c.agent} |->
                                  IF b = c.agent THEN drawn + 1 ELSE credentials[b]]
            /\ Answer(c, "200", drawn + 1)
       ELSE /\ credentials' = [b \in kept |-> credentials[b]]
            /\ Answer(c, "503", None)
            /\ UNCHANGED drawn
    /\ UNCHANGED <<queueVars, registry>> /\ Idle

(* authenticate_signed_request: only the secret issued last verifies.        *)
ServeVerify(c) ==
    /\ c.op # "register" /\ c.stage = "sent"
    /\ IF c.agent \in DOMAIN credentials /\ credentials[c.agent] = c.cred
       THEN Advance(c, [c EXCEPT !.stage = "verified"])
       ELSE Answer(c, "401", None)
    /\ UNCHANGED <<queueVars, serverVars>> /\ Idle

ServeHeartbeat(c) ==
    LET a == c.agent
        known == Pruned(clock)
        slots == MaxConcurrent[a] - c.active  \* the client's saturating_sub
    IN
    /\ c.op = "heartbeat" /\ c.stage = "verified"
    /\ IF a \in DOMAIN known /\ CapacityOK(a, c.active, slots)
       THEN /\ registry' = [known EXCEPT ![a] =
                [state |-> c.state, active |-> c.active, slots |-> slots, seen |-> clock]]
            /\ Answer(c, "200", None)
       ELSE /\ registry' = known
            /\ Answer(c, IF a \in DOMAIN known THEN "400" ELSE "404", None)
    /\ UNCHANGED <<queueVars, credentials, drawn>> /\ Idle

(* routes claim, before the queue: what the registry says of the agent.      *)
ServeAdmit(c) ==
    LET a == c.agent
        known == Pruned(clock)
    IN
    /\ c.op = "claim" /\ c.stage = "verified"
    /\ registry' = known
    /\ \/ a \notin DOMAIN known /\ Answer(c, "404", None)
       \/ /\ a \in DOMAIN known
          /\ ViewState(known[a], clock) # "healthy" \/ known[a].slots = 0
          /\ Answer(c, "409", None)
       \/ /\ a \in DOMAIN known
          /\ ViewState(known[a], clock) = "healthy" /\ known[a].slots # 0
          /\ Advance(c, [c EXCEPT !.stage = "admitted",
                                  !.max = known[a].active + known[a].slots])
    /\ UNCHANGED <<queueVars, credentials, drawn>> /\ Idle

ServeClaim(c) ==
    /\ c.op = "claim" /\ c.stage = "admitted"
    /\ \E t \in Readings :
        \/ \E id \in JobIds :
              /\ ClaimJob(id, c.agent, c.max, Capabilities(c.agent), t)
              /\ Answer(c, "200", [job |-> id, kind |-> jobs'[id].kind,
                                   lease |-> leases + 1, due |-> jobs'[id].deadline])
        \/ /\ \/ Cardinality(HeldBy(Reaped(t), c.agent)) >= c.max
              \/ Claimable(Reaped(t), c.agent, Capabilities(c.agent)) = {}
           /\ Observe(t)
           /\ Answer(c, "200", None)
    /\ UNCHANGED serverVars /\ Idle

(* sync, for the one lease an agent asks about.                              *)
SyncVerdict(table, c) ==
    IF c.job \notin DOMAIN table \/ ~LeaseMatches(table[c.job], c.agent, c.lease)
    THEN "lost"
    ELSE CASE table[c.job].state = "cancel_requested" -> "cancel"
           [] table[c.job].state = "claimed"          -> "keep"
           [] OTHER                                   -> "lost"

ServeSync(c) ==
    /\ c.op = "sync" /\ c.stage = "verified"
    /\ \E t \in Readings :
        Observe(t) /\ Answer(c, "200", SyncVerdict(Reaped(t), c))
    /\ UNCHANGED serverVars /\ Idle

ServeResult(c) ==
    /\ c.op = "result" /\ c.stage = "verified"
    /\ \E t \in Readings :
        \/ Complete(c.job, c.agent, c.lease, c.result, t) /\ Answer(c, "200", None)
        \/ /\ Observe(t)
           /\ c.job \notin DOMAIN Reaped(t)
           /\ Answer(c, "404", None)
        \/ /\ Observe(t)
           /\ c.job \in DOMAIN Reaped(t)
           /\ LET job == Reaped(t)[c.job] IN
                 \/ ~LeaseMatches(job, c.agent, c.lease)
                 \/ job.state \notin Leased
                 \/ job.state = "cancel_requested" /\ c.result # "cancelled"
           /\ Answer(c, "409", None)
    /\ UNCHANGED serverVars /\ Idle

ServeCall(c) ==
    \/ ServeRegister(c) \/ ServeIssue(c) \/ ServeVerify(c) \/ ServeHeartbeat(c)
    \/ ServeAdmit(c) \/ ServeClaim(c) \/ ServeSync(c) \/ ServeResult(c)

(* A call nobody waits for may be served late, or never.                     *)
ServeLate(c) == ~c.live /\ clock <= LastFault /\ ServeCall(c)

ServeLive(a) == \E c \in calls : c.agent = a /\ c.live /\ ServeCall(c)

-----------------------------------------------------------------------------
(* The agent process: run_runner_agent's loop around poll_once.              *)

(* Slip: a rejected signature stops the agent.                               *)
OutcomeWithout401(status) ==
    CASE status = "200"                          -> "ok"
      [] status = "404"                          -> "reregister"
      [] status \in {"transport", "503", "409"}  -> "retry"
      [] OTHER                                   -> "fatal"

(* requires_registration, retryable, or neither: what the loop makes of an   *)
(* error.                                                                    *)
Outcome(status) ==
    CASE status = "200"                          -> "ok"
      [] status \in {"401", "404"}               -> "reregister"
      [] status \in {"transport", "503", "409"}  -> "retry"
      [] OTHER                                   -> "fatal"

(* Slip: the rejected secret is not given up.                                *)
EndPollWithSecret(me, outcome) ==
    IF outcome = "fatal" THEN [Fresh EXCEPT !.pc = "exited"]
    ELSE [Fresh EXCEPT !.pc = "idle", !.cred = me.cred]

(* The end of one pass of the loop; whatever job was held is let go.         *)
EndPoll(me, outcome) ==
    CASE outcome = "reregister" -> Fresh
      [] outcome = "fatal"      -> [Fresh EXCEPT !.pc = "exited"]
      [] OTHER                  -> [Fresh EXCEPT !.pc = "idle", !.cred = me.cred]

(* The agent goes on as `me`, with the calls in `sent` under way.            *)
Become(a, me, rest, sent) ==
    /\ agent' = [agent EXCEPT ![a] = me]
    /\ calls' = rest \cup sent

(* process_job is over: report the free slot, ignore the answer, then loop.  *)
Settle(a, outcome, rest) ==
    LET me == [agent[a] EXCEPT !.pc = "settle", !.after = outcome]
    IN  Become(a, me, rest, {Heartbeat(a, me, "healthy", 0)})

(* What the agent does with the answer to the call it waits for; a transport *)
(* error is an answer too.                                                   *)
OnRegister(a, status, body, rest) ==
    LET me == [Fresh EXCEPT !.pc = "beat", !.cred = body] IN
    /\ agent[a].pc = "register"
    /\ CASE Outcome(status) = "ok" ->
              Become(a, me, rest, {Heartbeat(a, me, "healthy", 0)})
         [] Outcome(status) = "retry" -> Become(a, Fresh, rest, {})
         [] OTHER -> Become(a, [Fresh EXCEPT !.pc = "exited"], rest, {})

OnBeat(a, status, rest) ==
    LET me == [agent[a] EXCEPT !.pc = "claim"] IN
    /\ agent[a].pc = "beat"
    /\ IF status = "200" THEN Become(a, me, rest, {Request(a, me, "claim")})
       ELSE Become(a, EndPoll(agent[a], Outcome(status)), rest, {})

OnClaim(a, status, body, rest) ==
    /\ agent[a].pc = "claim"
    /\ IF status = "200" /\ body # None
       THEN LET me == [agent[a] EXCEPT !.pc = "announce", !.job = body.job,
                          !.kind = body.kind, !.lease = body.lease, !.due = body.due]
            IN  Become(a, me, rest, {Heartbeat(a, me, "healthy", 1)})
       ELSE Become(a, EndPoll(agent[a], Outcome(status)), rest, {})

OnAnnounce(a, status, rest) ==
    LET me == [agent[a] EXCEPT !.pc = "sync"] IN
    /\ agent[a].pc = "announce"
    /\ IF status = "200" THEN Become(a, me, rest, {Request(a, me, "sync")})
       ELSE Become(a, EndPoll(agent[a], Outcome(status)), rest, {})

Report(a, pc, result, rest) ==
    LET me == [agent[a] EXCEPT !.pc = pc, !.result = result]
    IN  Become(a, me, rest, {Request(a, me, "result")})

OnSync(a, status, body, rest) ==
    /\ agent[a].pc = "sync"
    /\ CASE status = "200" /\ body = "keep" ->
              Become(a, [agent[a] EXCEPT !.pc = "execute"], rest, {})
         [] status = "200" /\ body = "cancel" -> Report(a, "report", "cancelled", rest)
         [] status = "200" /\ body = "lost" -> Settle(a, "retry", rest)
         [] OTHER -> Settle(a, Outcome(status), rest)

OnReport(a, status, rest) ==
    LET me == [agent[a] EXCEPT !.pc = "resync"] IN
    /\ agent[a].pc = "report"
    /\ IF status = "409" /\ agent[a].result # "cancelled"
       THEN Become(a, me, rest, {Request(a, me, "sync")})
       ELSE Settle(a, Outcome(status), rest)

OnResync(a, status, body, rest) ==
    /\ agent[a].pc = "resync"
    /\ CASE status = "200" /\ body = "cancel" ->
              Report(a, "acknowledge", "cancelled", rest)
         [] status = "200" /\ body # "cancel" -> Settle(a, "retry", rest)
         [] OTHER -> Settle(a, Outcome(status), rest)

OnEnd(a, status, rest) ==
    \/ agent[a].pc = "acknowledge" /\ Settle(a, Outcome(status), rest)
    \/ /\ agent[a].pc = "settle"
       /\ Become(a, EndPoll(agent[a], agent[a].after), rest, {})
    \/ /\ agent[a].pc = "drain"
       /\ Become(a, [Fresh EXCEPT !.pc = "down"], rest, {})

Handle(a, status, body, rest) ==
    \/ OnRegister(a, status, body, rest) \/ OnBeat(a, status, rest)
    \/ OnClaim(a, status, body, rest) \/ OnAnnounce(a, status, rest)
    \/ OnSync(a, status, body, rest) \/ OnReport(a, status, rest)
    \/ OnResync(a, status, body, rest) \/ OnEnd(a, status, rest)

Hear(a) ==
    /\ \E c \in calls :
        /\ c.agent = a /\ c.live /\ c.stage = "answered"
        /\ Handle(a, c.reply, c.got, calls \ {c})
    /\ UNCHANGED <<queueVars, serverVars, runs, faultVars>>

(* What remains of an agent's calls when it no longer waits for them.        *)
Abandoned(a) ==
    {c \in calls : c.agent # a \/ ~c.live}
        \cup {[c EXCEPT !.live = FALSE] :
                c \in {d \in calls : d.agent = a /\ d.live /\ d.stage # "answered"}}

(* The request timeout: the answer, or the request itself, is late or lost.  *)
TimeOut(a) ==
    /\ faults < MaxFaults /\ clock <= LastFault
    /\ \E c \in calls : c.agent = a /\ c.live
    /\ Handle(a, "transport", None, Abandoned(a))
    /\ faults' = faults + 1
    /\ UNCHANGED <<queueVars, serverVars, runs, restarts>>

(* The process dies, in the middle of anything.                              *)
Crash(a) ==
    /\ faults < MaxFaults /\ clock <= LastFault
    /\ agent[a].pc \notin {"down", "exited"}
    /\ Become(a, [Fresh EXCEPT !.pc = "down"], Abandoned(a), {})
    /\ faults' = faults + 1
    /\ UNCHANGED <<queueVars, serverVars, runs, restarts>>

Start(a) ==
    /\ agent[a].pc = "down" /\ clock <= LastFault
    /\ Become(a, Fresh, calls, {})
    /\ UNCHANGED <<queueVars, serverVars, runs, faultVars>>

Poll(a) ==
    /\ \/ /\ agent[a].pc = "unregistered"
          /\ LET me == [Fresh EXCEPT !.pc = "register"]
             IN  Become(a, me, calls, {Request(a, me, "register")})
       \/ /\ agent[a].pc = "idle"
          /\ LET me == [agent[a] EXCEPT !.pc = "beat"]
             IN  Become(a, me, calls, {Heartbeat(a, me, "healthy", 0)})
    /\ UNCHANGED <<queueVars, serverVars, runs, faultVars>>

(* ctrl_c is heard between two polls: report draining, then exit.            *)
Drain(a) ==
    /\ agent[a].pc = "idle" /\ faults < MaxFaults /\ clock <= LastFault
    /\ LET me == [agent[a] EXCEPT !.pc = "drain"]
       IN  Become(a, me, calls, {Heartbeat(a, me, "draining", 0)})
    /\ faults' = faults + 1
    /\ UNCHANGED <<queueVars, serverVars, runs, restarts>>

(* Slip: a check that was too late to compile is reported as passed.         *)
ExecuteUnearned(a) ==
    /\ agent[a].pc = "execute"
    /\ IF agent[a].kind = CheckKind /\ clock >= agent[a].due
       THEN Report(a, "report", "succeeded", calls) /\ UNCHANGED runs
       ELSE /\ Become(a, [agent[a] EXCEPT !.pc = "running"], calls, {})
            /\ runs' = [runs EXCEPT ![agent[a].job] = @ + 1]
    /\ UNCHANGED <<queueVars, serverVars, faultVars>>

(* execute_runner_job: a check whose deadline has passed is not compiled.    *)
Execute(a) ==
    /\ agent[a].pc = "execute"
    /\ IF agent[a].kind = CheckKind /\ clock >= agent[a].due
       THEN Report(a, "report", "failed", calls) /\ UNCHANGED runs
       ELSE /\ Become(a, [agent[a] EXCEPT !.pc = "running"], calls, {})
            /\ runs' = [runs EXCEPT ![agent[a].job] = @ + 1]
    /\ UNCHANGED <<queueVars, serverVars, faultVars>>

Finish(a) ==
    /\ agent[a].pc = "running"
    /\ \E result \in {"succeeded", "failed"} :
        /\ agent[a].kind = ProbeKind => result = "succeeded"
        /\ Report(a, "report", result, calls)
    /\ UNCHANGED <<queueVars, serverVars, runs, faultVars>>

-----------------------------------------------------------------------------
(* Users, staff and the engine itself.                                       *)

(* The submit routes check that the target is registered (and, for a check,  *)
(* that it compiles) before they call the queue.                             *)
Submit(id) ==
    /\ \E t \in Readings, r \in RequestedTimeouts, target \in DOMAIN Pruned(clock) \cup {None} :
        \/ SubmitProbe(id, target, r, t)
        \/ \E owner \in Owners \cup {None} :
              target \in Compilers \cup {None} /\ SubmitCheck(id, owner, target, r, t)
    /\ UNCHANGED <<serverVars, agent, calls, runs, faultVars>>

Cancel(id) ==
    /\ \E t \in Readings, caller \in Owners \cup {None} :
        CancelQueued(id, caller, t) \/ CancelClaimed(id, caller, t)
    /\ UNCHANGED <<serverVars, agent, calls, runs, faultVars>>

Look ==
    /\ \E t \in Readings : Observe(t)
    /\ UNCHANGED <<serverVars, agent, calls, runs, faultVars>>

Pass == Tick /\ UNCHANGED <<serverVars, agent, calls, runs, faultVars>>

(* The engine restarts: queue, registry and secrets are gone, and whoever    *)
(* waits for an answer gets a connection error.                              *)
EngineRestart ==
    /\ restarts < MaxRestarts /\ clock <= LastFault
    /\ restarts' = restarts + 1
    /\ jobs' = [j \in {} |-> None]
    /\ registry' = [a \in {} |-> None] /\ credentials' = [a \in {} |-> None]
    /\ calls' = {IF c.stage = "answered" THEN c
                 ELSE [c EXCEPT !.stage = "answered", !.reply = "transport"] :
                    c \in {d \in calls : d.live}}
    /\ UNCHANGED <<issued, leases, clock, now, drawn, agent, runs, faults>>

FleetInit ==
    /\ Init
    /\ registry = [a \in {} |-> None] /\ credentials = [a \in {} |-> None] /\ drawn = 0
    /\ agent = [a \in Agents |-> Fresh]
    /\ calls = {} /\ runs = [j \in JobIds |-> 0]
    /\ faults = 0 /\ restarts = 0

AgentStep(a) == Poll(a) \/ Hear(a) \/ Execute(a) \/ Finish(a)

FleetNext ==
    \/ \E a \in Agents :
        AgentStep(a) \/ TimeOut(a) \/ Crash(a) \/ Start(a) \/ Drain(a) \/ ServeLive(a)
    \/ \E c \in calls : ServeLate(c)
    \/ \E id \in JobIds : Submit(id) \/ Cancel(id)
    \/ Look \/ Pass \/ EngineRestart

(* A running agent keeps polling and working, the engine answers calls that  *)
(* are waited for, time passes and users look at their jobs.  Nothing makes  *)
(* an agent restart, and a call nobody waits for may never be served.        *)
FleetFairness ==
    /\ \A a \in Agents : WF_fleetVars(AgentStep(a)) /\ WF_fleetVars(ServeLive(a))
    /\ WF_fleetVars(Pass) /\ WF_fleetVars(Look)

FleetSafety == FleetInit /\ [][FleetNext]_fleetVars
FleetSpec == FleetSafety /\ FleetFairness

-----------------------------------------------------------------------------
FleetTypeOK ==
    /\ TypeOK
    /\ DOMAIN registry \subseteq Agents /\ DOMAIN credentials \subseteq Agents
    /\ \A a \in DOMAIN credentials : credentials[a] \in 1 .. drawn
    /\ \A a \in Agents : agent[a].pc \in PC /\ agent[a].job \in JobIds \cup {None}
    /\ runs \in [JobIds -> Nat]

(* The queue never requeues and a lease names one agent, so no job's work is *)
(* started twice: not by another agent after a lease expired, not after a    *)
(* lost answer, a crash or an engine restart.                                *)
AtMostOneRun == \A j \in JobIds : runs[j] <= 1

(* Once a job shows a result, or a cancellation, no agent works on it any    *)
(* more nor will it: "a lost lease grants no authority to execute".          *)
EndedMeansStopped ==
    \A j \in DOMAIN jobs, a \in Agents :
        jobs[j].state \in ResultStates /\ agent[a].job = j =>
            agent[a].pc \notin {"announce", "sync", "execute", "running"}

(* The queue counts outstanding leases itself: whatever heartbeats arrive    *)
(* late, an agent never holds more leases than it may run at once.           *)
AgentCapacity ==
    \A a \in Agents : Cardinality(HeldBy(jobs, a)) <= MaxConcurrent[a]

(* Two agents never hold the same job, and the lease an agent works under is *)
(* one the queue issued to it or has forgotten.                              *)
LeaseIsOwn ==
    \A a, b \in Agents :
        /\ agent[a].job # None /\ agent[a].job \in DOMAIN jobs =>
              LeaseMatches(jobs[agent[a].job], a, agent[a].lease)
        /\ a # b /\ agent[a].job # None => agent[a].job # agent[b].job

(* Of the agents that compete for a job one does its work, under the lease   *)
(* it was given.                                                             *)
RunsOnceOnItsLease == AtMostOneRun /\ LeaseIsOwn

(* No answer the engine gives makes the agent's loop stop: every error a     *)
(* fault or a race can cause is retried or answered by registering again.    *)
NoFatalExit == \A a \in Agents : agent[a].pc # "exited"

(* The secrets never run out before the registry does, although the list a   *)
(* registration prunes them with was read under another lock: an agent the   *)
(* registry accepted is never turned away for want of a secret.              *)
IssueNeverRefused == \A c \in calls : c.stage = "listed" => IssueFits(c)

(* The lease ends after the model's time: it cannot expire within the model. *)
OutlivesModel(j) == jobs[j].state \in Leased /\ jobs[j].deadline >= Horizon

(* A probe any agent may run does not wait for ever while one of them is up: *)
(* leases lost with an answer expire, and lost registrations are renewed.    *)
ProbesAreServed ==
    \A j \in JobIds :
        (j \in DOMAIN jobs /\ jobs[j].kind = ProbeKind /\ jobs[j].target = None)
            ~> \/ j \notin DOMAIN jobs \/ jobs[j].state \in Terminal \/ OutlivesModel(j)
               \/ \A a \in Agents : agent[a].pc \in {"down", "exited"}

(* The control plane keeps the promise of JobService.                        *)
PhaseOf(j) ==
    CASE j \notin issued                          -> "none"
      [] j \in issued /\ j \notin DOMAIN jobs     -> "lost"
      [] j \in issued /\ j \in DOMAIN jobs        ->
            CASE jobs[j].state = "queued"            -> "waiting"
              [] jobs[j].state = "claimed"           -> "held"
              [] jobs[j].state = "cancel_requested"  -> "cancelling"
              [] OTHER                               -> jobs[j].state

Service == INSTANCE JobService WITH phase <- [j \in JobIds |-> PhaseOf(j)]
KeepsPromise == Service!ServiceSpec

(* An agent that runs comes to hold the secret the engine expects of it,     *)
(* whatever registrations of others dropped meanwhile.                       *)
Settled(a) ==
    \/ agent[a].pc \in {"down", "exited"}
    \/ agent[a].pc = "claim" /\ a \in DOMAIN credentials /\ agent[a].cred = credentials[a]
RegistrationSettles == \A a \in Agents : []<>Settled(a)
=============================================================================
