----------------------------- MODULE MCFleetLive -----------------------------
(* Two small fleets in one run, under fairness.  `fleet' says which one: two *)
(* agents that take turns in a registry with room for one, or (One) an agent *)
(* and a probe.                                                              *)
EXTENDS RunnerFleet, TLC

CONSTANTS
    OneJobs, OneAgents, OneOwners, OneMaxJobs, OneMaxChecks, OneRetention, OneHorizon,
    OneHeartbeatTtl, OneAgentRetention, OneRegistered, OneCredentials, OneFaults

VARIABLE fleet

MCDefaultOnly == {None}
MCOneSlot == [a \in Agents |-> 1]

One == INSTANCE RunnerFleet WITH
    JobIds <- OneJobs, Agents <- OneAgents, Owners <- OneOwners,
    MaxConcurrent <- [a \in OneAgents |-> 1],
    MaxJobs <- OneMaxJobs, MaxUserActiveChecks <- OneMaxChecks,
    TerminalRetention <- OneRetention, Horizon <- OneHorizon,
    HeartbeatTtl <- OneHeartbeatTtl, AgentRetention <- OneAgentRetention,
    MaxRegisteredAgents <- OneRegistered, MaxCredentials <- OneCredentials,
    MaxFaults <- OneFaults

vars == <<fleet, fleetVars>>

EitherInit ==
    \/ fleet = "one" /\ One!FleetInit
    \/ fleet = "pair" /\ FleetInit

EitherNext ==
    /\ UNCHANGED fleet
    /\ \/ fleet = "one" /\ One!FleetNext
       \/ fleet = "pair" /\ FleetNext

(* The step of the fleet there is.                                           *)
Step(one, two) ==
    UNCHANGED fleet /\ ((fleet = "one" /\ one) \/ (fleet = "pair" /\ two))

(* FleetFairness of each fleet; the agents of the one are among the pair.    *)
EitherSpec ==
    /\ EitherInit /\ [][EitherNext]_vars
    /\ \A a \in Agents :
          /\ WF_vars(Step(a \in OneAgents /\ One!AgentStep(a), AgentStep(a)))
          /\ WF_vars(Step(a \in OneAgents /\ One!ServeLive(a), ServeLive(a)))
    /\ WF_vars(Step(One!Pass, Pass)) /\ WF_vars(Step(One!Look, Look))

(* ProbesAreServed of the one and RegistrationSettles of both.               *)
(* IssueNeverRefused is checked as it is: it is about the pair.              *)
OneServesProbes == fleet = "one" => One!ProbesAreServed
EveryRegistrationSettles ==
    \A a \in Agents :
        []<>(IF fleet = "pair" THEN Settled(a) ELSE a \in OneAgents => One!Settled(a))
=============================================================================
