---------------------------- MODULE MCRunnerFleet ----------------------------
(* Instances of the runner fleet for TLC.                                    *)
EXTENDS RunnerFleet, TLC

MCSymmetry == Permutations(JobIds) \cup Permutations(Owners) \cup Permutations(Agents)
MCDefaultOnly == {None}
MCOneSlot == [a \in Agents |-> 1]
=============================================================================
