---------------------------- MODULE MCEbpfRunner ----------------------------
(* An instance of EbpfRunner in which all requests are of one user.          *)
EXTENDS EbpfRunner

MCOneUser == [c \in Callers |-> CHOOSE u \in Users : TRUE]
=============================================================================
