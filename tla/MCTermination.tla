--------------------------- MODULE MCTermination ----------------------------
(* What must end, in one run: the checks of the runner job queue, and the    *)
(* operations and the write queue of the event bus.  `part' says which of    *)
(* them moves; the other stays as it starts.                                 *)
EXTENDS RunnerJobQueue, TLC

CONSTANTS u1, u2, Users, Kinds, QueueCapacity, BatchSize, Deployments, Faults, Skew,
          MaxEvents, MaxMutations, MaxFaults, MaxRestarts

VARIABLES
    part,
    history, unread, cache, counts, admitted, disabled, ready, queue, writer, op,
    reader, rows, stored, published, mutations, faults, restarts, seen, gone,
    acked, chosen, configured

busVars == <<history, unread, cache, counts, admitted, disabled, ready, queue,
             writer, op, reader, rows, stored, published, mutations, faults,
             restarts, seen, gone, acked, chosen, configured>>
allVars == <<part, queueVars, busVars>>

Bus == INSTANCE EventBus WITH
    Owners <- Users,
    Settings <- {[max |-> 2, policy |-> "drop_new"]},
    DefaultSettings <- [max |-> 2, policy |-> "drop_oldest"]

(* A caller that leaves the timeout to the default.                          *)
MCDefaultOnly == {None}

EndInit ==
    /\ part \in {"jobs", "bus"} /\ Init /\ Bus!Init
    /\ part = "jobs" => ~configured

JobStep(step) == part = "jobs" /\ step /\ UNCHANGED <<part, busVars>>
BusStep(step) == part = "bus" /\ step /\ UNCHANGED <<part, queueVars>>
EndNext == JobStep(Next) \/ BusStep(Bus!Next)

(* Fairness of the job queue, GateSpec of the bus: as only one part moves,   *)
(* a premise of the one and a premise of the other are stated as one.        *)
EndSpec ==
    /\ EndInit /\ [][EndNext]_allVars
    /\ WF_allVars(JobStep(Tick) \/ BusStep(Bus!Proceed(u1)))
    /\ WF_allVars(JobStep(\E t \in Readings : Observe(t)) \/ BusStep(Bus!Proceed(u2)))

(* The properties of the bus; that of the job queue keeps its name.          *)
GateIsReleased == Bus!GateIsReleased
QueueDrains == Bus!QueueDrains
=============================================================================
