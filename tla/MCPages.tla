------------------------------ MODULE MCPages ------------------------------
(* The pages of both user interfaces in one run.  `part' says which of them  *)
(* moves; the others stay as they start.                                     *)
EXTENDS SessionPage, TaskDraft, RunnerAdmin, TLC

CONSTANTS ann, bob

VARIABLE part

MCUsers == {ann, bob}
MCTwoPages == 1 :> ann @@ 2 :> ann @@ 3 :> bob
MCSymmetry == Permutations(Docs)

PagesInit ==
    /\ part \in {"session", "draft", "admin"} /\ Init /\ DraftInit /\ AdminInit
    /\ part # "session" => cookie = None

PagesNext ==
    /\ UNCHANGED part
    /\ \/ part = "session" /\ Next /\ UNCHANGED <<taskVars, adminVars>>
       \/ part = "draft" /\ DraftNext /\ UNCHANGED <<vars, adminVars>>
       \/ part = "admin" /\ AdminNext /\ UNCHANGED <<vars, taskVars>>

PagesSpec == PagesInit /\ [][PagesNext]_<<part, vars, taskVars, adminVars>>
=============================================================================
