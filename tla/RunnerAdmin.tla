---------------------------- MODULE RunnerAdmin ----------------------------
(* The runner panel of the settings page (useRunnerAgentAdmin): it reads the *)
(* inventory every ten seconds, and sends one confirmed POST at a time, a    *)
(* probe or a cancellation, on facts it read.  A navigation that keeps the   *)
(* page replaces the whole generation of closures, in an effect that runs    *)
(* some time after the render; in between, the old ones still run.           *)
(*                                                                           *)
(* What the administrator reviews of an agent or job is one number, the      *)
(* version of it in the engine.  Ages count periods of ten seconds, up to    *)
(* the two after which a sample is too old; timers may be late.              *)
EXTENDS Integers, FiniteSets, PageValues

CONSTANTS
    MaxVersions,  \* bound: changes of the target in the engine
    MaxPosts,     \* bound: confirmations
    MaxScopes     \* bound: navigations

TooOld == 2

\* What the engine said of the target, and a read of it.  ttl: periods for which
\* the lease was good; after: how many POSTs had ended when the read began.
Facts == [version : Nat, ttl : 1..TooOld, since : 0..TooOld]
Reads == [explicit : BOOLEAN, after : Nat, age : 0..TooOld, fact : Facts \cup {None}]
Reviews == [kind : {"probe", "cancel"}, scope : Nat, version : Nat,
            phase : {"confirm", "running", "failed"}]

ASSUME RunnerAdminAssumption ==
    /\ MaxVersions \in Nat /\ MaxPosts \in Nat /\ MaxScopes \in Nat
    /\ None \notin Nat \cup Facts \cup Reads \cup Reviews

VARIABLES
    scope,     \* currentScope: what the last render was for
    gen,       \* the generation the last effect made, by its scope
    snap,      \* snapshot: the sample, stale, verify
    read,      \* the read of the two inventories that is under way
    action,    \* the POST that is under way, by its generation
    timer,     \* the next automatic read is due
    review,    \* the confirmation that is open
    version,   \* of the target in the engine
    outcomes,  \* how many POSTs came to an end
    unsure,    \* a POST of this view was not confirmed, and nobody looked since
    posts      \* how often somebody confirmed

adminVars == <<scope, gen, snap, read, action, timer, review, version, outcomes, unsure, posts>>
-----------------------------------------------------------------------------
Older(n) == IF n < TooOld THEN n + 1 ELSE n

NewRead(explicit, after) ==
    [explicit |-> explicit, after |-> after, age |-> 0, fact |-> None]
Blank == [sample |-> None, stale |-> FALSE, verify |-> FALSE]

PanelReady == snap.sample # None /\ ~snap.stale /\ ~snap.verify /\ read = None /\ action = None

\* owns
Owns(g) == gen = g /\ scope = g

AdminInit ==
    /\ scope = 0 /\ gen = 0 /\ snap = Blank
    /\ read = NewRead(FALSE, 0)
    /\ action = None /\ timer = FALSE /\ review = None
    /\ version = 0 /\ outcomes = 0 /\ unsure = FALSE /\ posts = 0
-----------------------------------------------------------------------------
(* Reads *)

\* refresh, when it starts a read of its own
Begin(explicit) ==
    /\ Owns(gen) /\ action = None /\ read = None
    /\ read' = NewRead(explicit, outcomes) /\ timer' = FALSE

TimerFires ==
    /\ timer /\ Begin(FALSE)
    /\ UNCHANGED <<scope, gen, snap, action, review, version, outcomes, unsure, posts>>

\* The button is enabled while nothing goes on.
ClickRefresh ==
    /\ review = None /\ Begin(TRUE)
    /\ UNCHANGED <<scope, gen, snap, action, review, version, outcomes, unsure, posts>>

ServeInventory ==
    /\ read # None /\ read.fact = None
    /\ \E ttl \in 1..TooOld :
           read' = [read EXCEPT !.fact = [version |-> version, ttl |-> ttl, since |-> 0]]
    /\ UNCHANGED <<scope, gen, snap, action, timer, review, version, outcomes, unsure, posts>>

\* sampledAt = started; who asked is of no further interest.
Sampled == [read EXCEPT !.explicit = FALSE]

\* Slip: any successful read settles what the user was told to check.
VerifyAfterAny == FALSE
VerifyAfter == snap.verify /\ ~read.explicit

\* Both inventories came, or one of them failed or took too long.  Where the
\* view has moved on, the read is left as it is for the effects to abort.
EndRead(patch) ==
    /\ Owns(gen)
    /\ read' = None /\ timer' = TRUE /\ snap' = patch
    /\ UNCHANGED <<scope, gen, action, review, version, outcomes, posts>>
InventoryArrives ==
    /\ read # None /\ read.fact # None
    /\ EndRead([sample |-> Sampled, stale |-> FALSE, verify |-> VerifyAfter])
    /\ unsure' = (unsure /\ ~(read.explicit /\ read.after = outcomes))
InventoryFails ==
    /\ read # None
    /\ EndRead([snap EXCEPT !.stale = (snap.sample # None)]) /\ UNCHANGED unsure
-----------------------------------------------------------------------------
(* Actions *)

\* The panel asks about what it shows.
Ask(kind) ==
    /\ review = None /\ posts < MaxPosts
    /\ Owns(gen) /\ PanelReady
    /\ review' = [kind |-> kind, scope |-> scope, version |-> snap.sample.fact.version,
                  phase |-> "confirm"]
    /\ UNCHANGED <<scope, gen, snap, read, action, timer, version, outcomes, unsure, posts>>

CloseReview ==
    /\ review # None /\ review.phase # "running" /\ review' = None
    /\ UNCHANGED <<scope, gen, snap, read, action, timer, version, outcomes, unsure, posts>>

\* What was reviewed is what the newest sample says, of a target that still
\* lives by the engine's clock as far as the browser can tell.
PanelReviewed(d) ==
    /\ gen = d.scope /\ Owns(gen) /\ PanelReady
    /\ snap.sample.age < TooOld
    /\ snap.sample.fact.version = d.version
    /\ d.kind = "probe" => snap.sample.age < snap.sample.fact.ttl

Confirm ==
    /\ review # None /\ review.phase = "confirm" /\ posts' = posts + 1
    /\ IF PanelReviewed(review)
       THEN /\ action' = gen
            /\ timer' = FALSE
            /\ snap' = [snap EXCEPT !.stale = TRUE]
            /\ review' = [review EXCEPT !.phase = "running"]
       ELSE /\ review' = [review EXCEPT !.phase = "failed"]
            /\ UNCHANGED <<action, timer, snap>>
    /\ UNCHANGED <<scope, gen, read, version, outcomes, unsure>>

\* The acknowledgement came, and the read-back follows at once.
Acknowledged ==
    /\ action # None /\ action' = None /\ outcomes' = outcomes + 1 /\ review' = None
    /\ IF Owns(action) THEN read' = NewRead(FALSE, outcomes + 1) /\ timer' = FALSE
       ELSE UNCHANGED <<read, timer>>
    /\ UNCHANGED <<scope, gen, snap, version, unsure, posts>>

\* A refusal, a wrong acknowledgement, an abort or twenty seconds: the engine
\* may have done it or not.
Unconfirmed ==
    /\ action # None /\ action' = None /\ outcomes' = outcomes + 1 /\ unsure' = TRUE
    /\ review' = [review EXCEPT !.phase = "failed"]
    /\ IF Owns(action) THEN snap' = [snap EXCEPT !.verify = TRUE] /\ timer' = TRUE
       ELSE UNCHANGED <<snap, timer>>
    /\ UNCHANGED <<scope, gen, read, version, posts>>
-----------------------------------------------------------------------------
(* The page and the world *)

\* The path changes under the page: first the render, then the effects.
Navigate ==
    /\ scope = gen /\ scope < MaxScopes /\ scope' = scope + 1
    /\ UNCHANGED <<gen, snap, read, action, timer, review, version, outcomes, unsure, posts>>
Effects ==
    /\ scope # gen /\ gen' = scope
    /\ snap' = Blank /\ timer' = FALSE /\ review' = None
    /\ outcomes' = IF action = None THEN outcomes ELSE outcomes + 1
    /\ action' = None /\ unsure' = FALSE
    /\ read' = NewRead(FALSE, outcomes')
    /\ UNCHANGED <<scope, version, posts>>

TargetChanges ==
    /\ version < MaxVersions /\ version' = version + 1
    /\ UNCHANGED <<scope, gen, snap, read, action, timer, review, outcomes, unsure, posts>>

AgedFact(f) == IF f = None THEN None ELSE [f EXCEPT !.since = Older(@)]
Aged(r) == IF r = None THEN None
           ELSE [r EXCEPT !.age = Older(@), !.fact = AgedFact(@)]
Tick ==
    /\ snap' = [snap EXCEPT !.sample = Aged(@)]
    /\ read' = Aged(read)
    /\ UNCHANGED <<scope, gen, action, timer, review, version, outcomes, unsure, posts>>

AdminNext ==
    \/ TimerFires \/ ClickRefresh
    \/ ServeInventory \/ InventoryArrives \/ InventoryFails
    \/ \E kind \in {"probe", "cancel"} : Ask(kind)
    \/ CloseReview \/ Confirm \/ Acknowledged \/ Unconfirmed
    \/ Navigate \/ Effects \/ TargetChanges \/ Tick

AdminSpec == AdminInit /\ [][AdminNext]_adminVars
-----------------------------------------------------------------------------
AdminTypeOK ==
    /\ scope \in 0..MaxScopes /\ gen \in {scope - 1, scope} /\ timer \in BOOLEAN
    /\ \A r \in {read, snap.sample} \ {None} : r \in Reads /\ r.after \in 0..outcomes
    /\ snap.stale \in BOOLEAN /\ snap.verify \in BOOLEAN
    /\ review # None => review \in Reviews
    /\ action # None => review # None /\ review.phase = "running"
    /\ version \in 0..MaxVersions /\ outcomes \in 0..MaxPosts /\ unsure \in BOOLEAN

\* While the page stands it goes on reading: a timer, a read or a POST is there,
\* and only one of them (refresh, act).
KeepsReading ==
    gen = scope => Cardinality({x \in {"timer", "read", "action"} :
                       \/ x = "timer" /\ timer
                       \/ x = "read" /\ read # None
                       \/ x = "action" /\ action # None}) = 1

\* A POST goes out on what its administrator saw: in this view, confirmed on
\* the version of the sample, which the engine gave less than twenty seconds
\* ago while the lease lasted; by a read that began after every earlier POST
\* had ended; and after one that was not confirmed, somebody asked for a look.
PostIsInformed ==
    action' # None /\ action # action' =>
        /\ scope = review.scope /\ snap.sample.after = outcomes
        /\ snap.sample.fact.version = review.version
        /\ snap.sample.fact.since < TooOld
        /\ review.kind = "probe" => snap.sample.fact.since < snap.sample.fact.ttl
        /\ ~unsure

\* Together: the panel never stops looking, nor acts without having looked.
AdminSound == []AdminTypeOK /\ []KeepsReading /\ [][PostIsInformed]_adminVars
=============================================================================
