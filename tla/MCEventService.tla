---------------------------- MODULE MCEventService ----------------------------
(* The two halves of the event service in one run: the live queues of        *)
(* EventFanout, and the bus with its storage.  `half' says which one moves;  *)
(* the other stays as it starts.                                             *)
EXTENDS EventFanout, EventBus, TLC

VARIABLE half

MCOldest1 == [max |-> 1, policy |-> "drop_oldest"]
MCOldest2 == [max |-> 2, policy |-> "drop_oldest"]
MCNew1 == [max |-> 1, policy |-> "drop_new"]
MCNew2 == [max |-> 2, policy |-> "drop_new"]
MCSettings == {MCNew1, MCNew2, MCOldest1}

MCSymmetry == Permutations(Connections) \cup Permutations(Kinds)

ServiceInit == half \in {"live", "bus"} /\ FanoutInit /\ Init

ServiceNext ==
    /\ UNCHANGED half
    /\ \/ half = "live" /\ FanoutNext /\ UNCHANGED busVars
       \/ half = "bus" /\ Next /\ UNCHANGED fanoutVars

ServiceSpec == ServiceInit /\ [][ServiceNext]_<<half, fanoutVars, busVars>>
=============================================================================
