----------------------------- MODULE JobService ------------------------------
(* What the runner control plane promises about a job, whatever happens to   *)
(* the agents and to the network: its work is started at most once and only  *)
(* while somebody may hold it, a success was earned by work, a job is        *)
(* cancelled only before it was claimed or after somebody asked for it, and  *)
(* an outcome never changes.  Several jobs may move in one step, because one *)
(* pass of the queue's reaper times out any number of them.                  *)
EXTENDS Naturals

CONSTANT JobIds

VARIABLES phase, \* where each job stands
          runs   \* how often its work was started

serviceVars == <<phase, runs>>

Phases == {"none", "waiting", "held", "cancelling",
           "succeeded", "failed", "cancelled", "expired", "lost"}

(* `lost`: forgotten after its retention, or with an engine that restarted.  *)
Moves == {<<"none", "waiting">>,
          <<"waiting", "held">>, <<"waiting", "cancelled">>, <<"waiting", "expired">>,
          <<"held", "cancelling">>, <<"held", "succeeded">>, <<"held", "failed">>,
          <<"held", "expired">>,
          <<"cancelling", "cancelled">>, <<"cancelling", "expired">>}
         \cup ((Phases \ {"none", "lost"}) \X {"lost"})

(* Work may start under a lease, or be overtaken by the lease's end.         *)
MayStart == {"held", "cancelling", "expired", "lost"}

ServiceInit ==
    /\ phase = [j \in JobIds |-> "none"]
    /\ runs = [j \in JobIds |-> 0]

StartWork(j) ==
    /\ phase[j] \in MayStart /\ runs[j] = 0
    /\ runs' = [runs EXCEPT ![j] = 1]
    /\ UNCHANGED phase

MoveJobs ==
    /\ phase' \in [JobIds -> Phases]
    /\ \A j \in JobIds :
        /\ phase'[j] # phase[j] => <<phase[j], phase'[j]>> \in Moves
        /\ phase'[j] = "succeeded" => runs[j] = 1
    /\ UNCHANGED runs

ServiceNext == MoveJobs \/ \E j \in JobIds : StartWork(j)

ServiceSpec == ServiceInit /\ [][ServiceNext]_serviceVars
=============================================================================
