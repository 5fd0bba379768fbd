----------------------------- MODULE MCTeaching -----------------------------
(* The runner job queue and the learning store in one run.  `part' says      *)
(* which of them moves; the other stays as it starts.  In the store a cast   *)
(* of three calls, one of them recording an attempt, takes part.             *)
EXTENDS RunnerJobQueue, LearningStore, TLC

VARIABLES part, cast

(* Job identifiers, agents and users are interchangeable, attempts too.      *)
MCSymmetry ==
    Permutations(JobIds) \cup Permutations(Agents) \cup Permutations(Owners)
      \cup Permutations(Records) \cup Permutations(Reviews)

(* Callers that ask for too little and for too much.                         *)
MCRequestedTimeouts == {0, 9}

MCCalls == Records \cup Reviews \cup Reads
Casts == {s \in SUBSET MCCalls : Cardinality(s) = 3 /\ s \cap Records # {}}

TeachInit ==
    /\ part \in {"queue", "store"} /\ Init /\ LearnInit
    /\ cast \in IF part = "store" THEN Casts ELSE {{}}

TeachNext ==
    /\ UNCHANGED <<part, cast>>
    /\ \/ part = "queue" /\ Next /\ UNCHANGED learnVars
       \/ /\ part = "store" /\ LearnNext /\ UNCHANGED queueVars
          /\ \A c \in MCCalls \ cast : call'[c] = call[c]

TeachSpec == TeachInit /\ [][TeachNext]_<<part, cast, queueVars, learnVars>>
=============================================================================
