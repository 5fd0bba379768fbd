----------------------------- MODULE EbpfRunner -----------------------------
(* Kernel programs of the local runner: runs load and list them, detach      *)
(* requests take them away (services/ebpf_loader, runner_manager.rs,         *)
(* runner_driver.rs, routes/ebpf).  Nothing joins the three places that      *)
(* know of a program: the pins in bpffs, the Aya sessions of the process and *)
(* the list of attachments.  Each is changed at a step of its own, and a     *)
(* request may be dropped at any await between two of them; the removal of a *)
(* pin directory is a blocking job that then goes on.                        *)
EXTENDS FiniteSets, Naturals

CONSTANTS
    Runs, Detaches,    \* requests to run a program; requests to detach
    Users, UserOf,     \* who makes which: a function on both
    NoPath,            \* Option::None
    MaxConcurrent, MaxPerUser,
    MaxFaults          \* bound: dropped requests, failed removals, restarts

Callers == Runs \cup Detaches

ASSUME EbpfConstants ==
    /\ Runs \cap Detaches = {}
    /\ UserOf \in [Callers -> Users]
    /\ MaxFaults \in Nat

(* A pin path is drawn when its backend is about to load: one per attempt.   *)
Backends == {"bpftool", "aya"}
Paths == Runs \X Backends
PathsOf(u) == {p \in Paths : UserOf[p[1]] = u}

VARIABLES
    run,       \* the handler of each run
    pins,      \* pin directories that exist
    loaded,    \* paths under which bpftool pinned a program
    sessions,  \* aya_sessions
    listed,    \* attachments
    detach,    \* detach_for_user, for a request or inside a run
    jobs,      \* removals under way on blocking threads
    lost,      \* runs that were dropped, or forgotten by a restart (history)
    faults

ebpfVars == <<run, pins, loaded, sessions, listed, detach, jobs, lost, faults>>
places == <<pins, loaded, sessions, listed>>
history == <<lost, faults>>

Waiting == {"load", "track"}
Holding == {"pin", "session"}
Executing == {"compile", "openList"} \cup Waiting \cup Holding
Active == Executing \cup {"verify", "fallback", "report"}
Detaching == {"next", "drop", "closing", "stat", "removing", "untrack", "inspect"}

RunRecord == [at : {"idle", "ended"} \cup Active,
              asked : Backends, backend : Backends]
DetachRecord == [at : {"idle", "ended"} \cup Detaching, all : BOOLEAN,
                 todo : SUBSET Paths, path : Paths \cup {NoPath},
                 done : SUBSET Paths, clean : BOOLEAN]
NoDetach == [at |-> "idle", all |-> FALSE, todo |-> {}, path |-> NoPath,
             done |-> {}, clean |-> FALSE]

EbpfInit ==
    /\ run = [r \in Runs |-> [at |-> "idle", asked |-> "bpftool", backend |-> "bpftool"]]
    /\ pins = {} /\ loaded = {} /\ sessions = {} /\ listed = {}
    /\ detach = [c \in Callers |-> NoDetach]
    /\ jobs = {}
    /\ lost = {} /\ faults = 0

PathOf(r) == <<r, run[r].backend>>
Go(r, place) == run' = [run EXCEPT ![r].at = place]

(* The kernel has the program of p: pinned, or owned by a session or by the  *)
(* run that attached it and has not stored it yet.                           *)
Live(p) ==
    \/ p \in loaded \cup sessions
    \/ p[2] = "aya" /\ run[p[1]].backend = "aya" /\ run[p[1]].at \in Holding

Fault == faults < MaxFaults /\ faults' = faults + 1

-----------------------------------------------------------------------------
(* run_ebpf.  Capacity is counted over the leases of running handlers.       *)
Leases == {r \in Runs : run[r].at \in Active}

Acquire(r) ==
    /\ run[r].at = "idle"
    /\ Cardinality(Leases) < MaxConcurrent
    /\ Cardinality({q \in Leases : UserOf[q] = UserOf[r]}) < MaxPerUser
    /\ \E b \in Backends :
        run' = [run EXCEPT ![r] = [at |-> "compile", asked |-> b, backend |-> b]]
    /\ UNCHANGED <<places, detach, jobs, history>>

(* The compiler, bpftool or Aya refuses, or a directory cannot be made; an   *)
(* Aya program that is not stored yet is dropped, and so detached.           *)
RunFails(r) ==
    /\ run[r].at \in {"compile", "load"} \cup Holding
    /\ PathOf(r) \notin loaded \cup sessions
    /\ Go(r, "report")
    /\ UNCHANGED <<places, detach, jobs, history>>

(* bpftool: the pin directory, the child's work, its answer, the list.       *)
MakePinDirectory(r) ==
    /\ run[r].at = "compile" /\ run[r].backend = "bpftool"
    /\ pins' = pins \cup {PathOf(r)}
    /\ Go(r, "load")
    /\ UNCHANGED <<loaded, sessions, listed, detach, jobs, history>>

LoadAll(r) ==
    /\ run[r].at = "load" /\ PathOf(r) \notin loaded
    /\ loaded' = loaded \cup {PathOf(r)}
    /\ UNCHANGED <<run, pins, sessions, listed, detach, jobs, history>>

LoadAnswers(r) ==
    /\ run[r].at = "load" /\ PathOf(r) \in loaded
    /\ Go(r, "track")
    /\ UNCHANGED <<places, detach, jobs, history>>

Track(r) ==
    /\ run[r].at = "track"
    /\ listed' = listed \cup {PathOf(r)}
    /\ Go(r, "verify")
    /\ UNCHANGED <<pins, loaded, sessions, detach, jobs, history>>

(* Aya: attached in the process, its maps pinned, then stored and listed.    *)
LoadAya(r) ==
    /\ run[r].at = "compile" /\ run[r].backend = "aya"
    /\ Go(r, "pin")
    /\ UNCHANGED <<places, detach, jobs, history>>

(* Slip: the list names the program before the session is stored.            *)
PinMapsAndList(r) ==
    /\ run[r].at = "pin"
    /\ pins' = pins \cup {PathOf(r)} /\ listed' = listed \cup {PathOf(r)}
    /\ Go(r, "session")
    /\ UNCHANGED <<loaded, sessions, detach, jobs, history>>

PinMaps(r) ==
    /\ run[r].at = "pin"
    /\ pins' = pins \cup {PathOf(r)}
    /\ Go(r, "session")
    /\ UNCHANGED <<loaded, sessions, listed, detach, jobs, history>>

(* Who removes the directory of an Aya session holds the lock of all.        *)
SessionsLocked == \E c \in Callers : detach[c].at = "closing"

OpenSession(r) ==
    /\ run[r].at = "session" /\ ~SessionsLocked
    /\ sessions' = sessions \cup {PathOf(r)}
    /\ Go(r, "openList")
    /\ UNCHANGED <<pins, loaded, listed, detach, jobs, history>>

ListSession(r) ==
    /\ run[r].at = "openList"
    /\ listed' = listed \cup {PathOf(r)}
    /\ Go(r, "report")
    /\ UNCHANGED <<pins, loaded, sessions, detach, jobs, history>>

(* A debug run whose program could not be attached is taken away again ...   *)
StartFallback(r) ==
    /\ run[r].at = "verify" /\ run[r].asked = "bpftool"
    /\ Go(r, "fallback")
    /\ detach' = [detach EXCEPT ![r] =
          IF PathOf(r) \in listed
          THEN [NoDetach EXCEPT !.at = "next", !.todo = {PathOf(r)}]
          ELSE [NoDetach EXCEPT !.at = "ended"]]
    /\ UNCHANGED <<places, jobs, history>>

KeepBpftool(r) ==
    /\ run[r].at = "verify"
    /\ Go(r, "report")
    /\ UNCHANGED <<places, detach, jobs, history>>

(* Slip: whatever the answer of the cleanup, the run tries again.            *)
RetryAlways(r) ==
    /\ run[r].at = "fallback" /\ detach[r].at = "ended"
    /\ run' = [run EXCEPT ![r].at = "compile", ![r].backend = "aya"]
    /\ UNCHANGED <<places, detach, jobs, history>>

(* ... and tried with Aya if that was clean; else the first result stands.   *)
Retry(r) ==
    /\ run[r].at = "fallback" /\ detach[r].at = "ended"
    /\ IF detach[r].clean
       THEN run' = [run EXCEPT ![r].at = "compile", ![r].backend = "aya"]
       ELSE Go(r, "report")
    /\ UNCHANGED <<places, detach, jobs, history>>

(* Events, the learning record, the answer; the lease is dropped.            *)
Finish(r) ==
    /\ run[r].at = "report"
    /\ Go(r, "ended")
    /\ UNCHANGED <<places, detach, jobs, history>>

(* The execution limit passes: the driver's future is dropped, its child     *)
(* killed.  Only a second attempt goes on to report.                         *)
ExecutionTimesOut(r) ==
    /\ run[r].at \in Executing /\ Fault
    /\ Go(r, IF run[r].backend = run[r].asked THEN "ended" ELSE "report")
    /\ lost' = lost \cup {r}
    /\ UNCHANGED <<places, detach, jobs>>

(* The client is gone and the handler is dropped, in its cleanup too.        *)
RunDropped(r) ==
    /\ run[r].at \in Active /\ Fault
    /\ Go(r, "ended") /\ lost' = lost \cup {r}
    /\ detach' = [detach EXCEPT ![r].at = IF @ \in Detaching THEN "ended" ELSE @]
    /\ UNCHANGED <<places, jobs>>

-----------------------------------------------------------------------------
(* detach_for_user: one listed path of the user, or all of them.             *)
BeginDetach(c, paths, all) ==
    /\ c \in Detaches /\ detach[c].at \in {"idle", "ended"}
    /\ detach' = [detach EXCEPT ![c] =
          [NoDetach EXCEPT !.at = "next", !.todo = paths, !.all = all]]
    /\ UNCHANGED <<run, places, jobs, history>>

ListedOf(c) == listed \cap PathsOf(UserOf[c])
DetachOne(c) == \E p \in ListedOf(c) : BeginDetach(c, {p}, FALSE)
DetachAll(c) == BeginDetach(c, ListedOf(c), TRUE)

To(c, place) == detach' = [detach EXCEPT ![c].at = place]
Removed(c) ==
    detach' = [detach EXCEPT ![c].at = "next", ![c].done = @ \cup {detach[c].path}]

(* The next target, in the order of a hash map: is it an Aya session?        *)
NextTarget(c) ==
    /\ detach[c].at = "next" /\ ~SessionsLocked
    /\ \E p \in detach[c].todo :
        detach' = [detach EXCEPT ![c].todo = @ \ {p}, ![c].path = p,
                      ![c].at = IF p \in sessions THEN "drop" ELSE "stat"]
    /\ UNCHANGED <<run, places, jobs, history>>

(* Dropping the session detaches the program; then its pins are removed.     *)
DropSession(c) ==
    /\ detach[c].at = "drop" /\ ~SessionsLocked
    /\ sessions' = sessions \ {detach[c].path}
    /\ jobs' = jobs \cup {<<c, detach[c].path>>}
    /\ To(c, "closing")
    /\ UNCHANGED <<run, pins, loaded, listed, history>>

(* The first target that cannot be found or removed ends the whole request.  *)
Stat(c) ==
    /\ detach[c].at = "stat"
    /\ IF detach[c].path \in pins
       THEN /\ jobs' = jobs \cup {<<c, detach[c].path>>}
            /\ To(c, "removing")
       ELSE To(c, "ended") /\ UNCHANGED jobs
    /\ UNCHANGED <<run, places, history>>

Hears(c, p) == detach[c].path = p /\ detach[c].at \in {"closing", "removing"}

(* remove_dir_all on a blocking thread; its caller may be gone.  An error of *)
(* the removal after a session was dropped is ignored.                       *)
RemovalEnds(c, p) ==
    /\ <<c, p>> \in jobs
    /\ jobs' = jobs \ {<<c, p>>}
    /\ pins' = pins \ {p} /\ loaded' = loaded \ {p}
    /\ IF ~Hears(c, p) THEN UNCHANGED detach
       ELSE IF p \in pins \/ detach[c].at = "closing" THEN Removed(c)
       ELSE To(c, "ended")
    /\ UNCHANGED <<run, sessions, listed, history>>

RemovalFails(c, p) ==
    /\ <<c, p>> \in jobs /\ Fault
    /\ jobs' = jobs \ {<<c, p>>}
    /\ IF ~Hears(c, p) THEN UNCHANGED detach
       ELSE IF detach[c].at = "closing" THEN Removed(c)
       ELSE To(c, "ended")
    /\ UNCHANGED <<run, places, lost>>

(* All targets are removed: they leave the list.                             *)
Untrack(c) ==
    /\ detach[c].at = "next" /\ detach[c].todo = {}
    /\ listed' = listed \ detach[c].done
    /\ To(c, "inspect")
    /\ UNCHANGED <<run, pins, loaded, sessions, jobs, history>>

(* The driver looks whether pins or entries are left.                        *)
Inspect(c) ==
    /\ detach[c].at = "inspect"
    /\ LET clean == /\ detach[c].done \cap (pins \cup listed) = {}
                    /\ detach[c].all => ListedOf(c) = {}
       IN detach' = [detach EXCEPT ![c].at = "ended", ![c].clean = clean]
    /\ UNCHANGED <<run, places, jobs, history>>

(* The request is dropped, or its time is up; inside a run, the latter only. *)
DetachDropped(c) ==
    /\ detach[c].at \in Detaching /\ Fault
    /\ To(c, "ended")
    /\ UNCHANGED <<run, places, jobs, lost>>

-----------------------------------------------------------------------------
(* The engine ends and starts again: the list and the sessions are gone, and *)
(* with the sessions their programs; what bpftool pinned stays.              *)
EngineRestarts ==
    /\ Fault
    /\ run' = [r \in Runs |-> [run[r] EXCEPT !.at = IF @ \in Active THEN "ended" ELSE @]]
    /\ detach' = [c \in Callers |-> [detach[c] EXCEPT !.at =
                                        IF @ \in Detaching THEN "ended" ELSE @]]
    /\ sessions' = {} /\ listed' = {} /\ jobs' = {}
    /\ lost' = {r \in Runs : run[r].at # "idle"}
    /\ UNCHANGED <<pins, loaded>>

RunStep(r) ==
    \/ RunFails(r) \/ MakePinDirectory(r) \/ LoadAll(r) \/ LoadAnswers(r) \/ Track(r)
    \/ LoadAya(r) \/ PinMaps(r) \/ OpenSession(r) \/ ListSession(r)
    \/ StartFallback(r) \/ KeepBpftool(r) \/ Retry(r) \/ Finish(r)

DetachStep(c) ==
    \/ NextTarget(c) \/ DropSession(c) \/ Stat(c) \/ Untrack(c) \/ Inspect(c)
    \/ \E p \in Paths : RemovalEnds(c, p)

EbpfNext ==
    \/ EngineRestarts
    \/ \E r \in Runs : Acquire(r) \/ RunStep(r) \/ ExecutionTimesOut(r) \/ RunDropped(r)
    \/ \E c \in Detaches : DetachOne(c) \/ DetachAll(c)
    \/ \E c \in Callers :
        DetachStep(c) \/ DetachDropped(c) \/ \E p \in Paths : RemovalFails(c, p)

EbpfSpec == EbpfInit /\ [][EbpfNext]_ebpfVars

(* Handlers and requests that are served go on, and every user keeps asking  *)
(* for all of the list to be detached.                                       *)
PatientSpec ==
    /\ EbpfSpec
    /\ \A r \in Runs : WF_ebpfVars(RunStep(r))
    /\ \A c \in Callers : WF_ebpfVars(DetachStep(c))
    /\ \A c \in Detaches : WF_ebpfVars(DetachAll(c))

-----------------------------------------------------------------------------
(* Properties.                                                               *)
EbpfTypeOK ==
    /\ run \in [Runs -> RunRecord]
    /\ {pins, loaded, sessions, listed} \subseteq SUBSET Paths
    /\ detach \in [Callers -> DetachRecord]
    /\ jobs \subseteq Callers \X Paths
    /\ lost \subseteq Runs /\ faults \in 0..MaxFaults

(* A retried run has no second program in the kernel: the one of bpftool was *)
(* taken away before Aya attached its own, whoever else detaches meanwhile.  *)
OneProgramPerRun == \A r \in Runs : ~(Live(<<r, "bpftool">>) /\ Live(<<r, "aya">>))

(* A program in the kernel is on the list of its user, unless its run is     *)
(* still being served, or was dropped or forgotten half-way.                 *)
ListShowsWhatRuns ==
    \A p \in Paths : Live(p) /\ p \notin listed =>
        run[p[1]].at \in Active \/ p[1] \in lost

KernelSound == EbpfTypeOK /\ OneProgramPerRun /\ ListShowsWhatRuns

(* The report "detached cleanly" is true: those programs are out of the      *)
(* kernel and off the list, and stay so.                                     *)
CleanMeansGone ==
    \A c \in Callers : detach[c].clean =>
        \A p \in detach[c].done : ~Live(p) /\ p \notin listed

(* docs/en/teacher-guide.md: click "Detach All" and verify that the attached *)
(* list is empty.  Once runs end, somebody who keeps clicking gets there.    *)
DetachAllEmptiesList == <>[](listed = {})
=============================================================================
