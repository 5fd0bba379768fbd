------------------------------- MODULE MCHost -------------------------------
(* What dropped requests leave on the host, in one run: staged files of an   *)
(* upload, and programs in the kernel.  `part' says which of them moves; the *)
(* other stays as it starts.  There are two uploads of one file version, the *)
(* first of two chunks, and two roots; all programs are of one user.         *)
EXTENDS FileUpload, EbpfRunner, TLC

CONSTANTS u1, u2, v1, o1

VARIABLE part

MCVersion == u1 :> v1 @@ u2 :> v1
MCOwner == u1 :> o1 @@ u2 :> o1
MCSize == u1 :> 2 @@ u2 :> 0
MCLimits == [bytes |-> 3, uploads |-> 2, ownerBytes |-> 3, ownerUploads |-> 2]
MCUserOf == [c \in Callers |-> o1]

\* Bound: files are touched only where one root is in use.
Used == {plan[a].root : a \in {b \in Attempts : plan[b] # NoPlan}}
Bound == touches > 0 => Cardinality(Used) <= 1

Symmetric == Permutations(Attempts) \cup Permutations(Roots)
             \cup Permutations(Runs)

HostInit == part \in {"files", "kernel"} /\ Init /\ EbpfInit

HostNext ==
    /\ UNCHANGED part
    /\ \/ part = "files" /\ Next /\ UNCHANGED ebpfVars
       \/ part = "kernel" /\ EbpfNext /\ UNCHANGED vars

HostSpec == HostInit /\ [][HostNext]_<<part, vars, ebpfVars>>
=============================================================================
