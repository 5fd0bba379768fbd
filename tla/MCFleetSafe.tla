----------------------------- MODULE MCFleetSafe -----------------------------
(* Two small fleets in one run.  `fleet' says which one: an agent with two   *)
(* jobs and a fault (the second agent never starts), or two agents that      *)
(* compete for one job (the second is never submitted) and no fault.         *)
EXTENDS RunnerFleet, TLC

CONSTANTS OneAgent, OneJob

VARIABLE fleet

MCDefaultOnly == {None}
MCOneSlot == [a \in Agents |-> 1]

EitherInit == fleet \in {"one", "pair"} /\ FleetInit

EitherNext ==
    /\ FleetNext /\ UNCHANGED fleet
    /\ fleet = "one" => \A a \in Agents : a = OneAgent \/ agent'[a] = agent[a]
    /\ fleet = "pair" => issued' \subseteq {OneJob} /\ faults' = faults

EitherSpec == EitherInit /\ [][EitherNext]_<<fleet, fleetVars>>
=============================================================================
