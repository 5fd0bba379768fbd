---------------------------- MODULE SessionPage ----------------------------
(* The Session page of the collaboration platform (session_ui): one browser  *)
(* tab that checks, opens and closes a Session, lists the tasks of its       *)
(* owner, shows one of them, and edits its metadata with one confirmed PUT.  *)
(*                                                                           *)
(* JavaScript runs one handler at a time, so every handler and every         *)
(* continuation after an await is an action.  A generation counter that a    *)
(* continuation compares with the value it captured is a flag here: `live'   *)
(* holds until the counter moves on.  The Session cookie belongs to the      *)
(* browser, so another tab may change it at any time.                        *)
EXTENDS Integers, Sequences, FiniteSets, FiniteSetsExt, PageValues

CONSTANTS
    Users,        \* accounts
    Tasks,        \* task identifiers, numbers: the index is sorted by them
    Owner,        \* the account a task belongs to
    Docs,         \* metadata manifests: title, file names, languages
    PageSize,     \* entries of one page of the index
    MaxChanges,   \* bound: versions saved by other clients, Sessions opened or
                  \* ended behind the page's back
    MaxConfirms,  \* bound: saves the user confirms
    MaxLate,      \* bound: abandoned requests the platform may still serve
    MaxHides      \* bound: times the page goes to the back/forward cache

Snapshots == [task : Tasks, rev : Nat \ {0}, doc : Docs]
Descriptors == [task : Tasks, rev : Nat \ {0}, doc : Docs, n : Nat]

\* A page of the index starts after a task, or with the first one.
From(n) == [after |-> n]
Cursors == {From(n) : n \in Tasks \cup {0}}

States == {"checking", "active", "unauthenticated", "session-present", "invalid-input",
           "unknown"}
Phases == {"clean", "dirty", "pending", "saved", "conflict", "unknown", "quarantined"}
Kinds == {"inspect", "confirm-login", "login", "logout", "index", "open", "write"}

Answers ==
    [code : Nat] \cup [code : Nat, entries : SUBSET Snapshots, next : Tasks \cup {None}]
        \cup [code : Nat, snap : Snapshots] \cup [code : Nat, rev : Nat, doc : Docs]
Runs ==
    [kind : Kinds, stage : {"sent", "answered", "hashing", "denied"},
     arg : Users \cup {None} \cup Cursors \cup Snapshots \cup Descriptors,
     as : Users \cup {None}, ans : Answers \cup {None}, live : BOOLEAN]

ASSUME SessionPageAssumption ==
    /\ Tasks \subseteq Nat /\ IsFiniteSet(Tasks)
    /\ Owner \in [Tasks -> Users]
    /\ None \notin Users \cup Docs \cup Tasks \cup Snapshots \cup Descriptors \cup Runs
    /\ PageSize \in Nat \ {0}
    /\ MaxChanges \in Nat /\ MaxConfirms \in Nat

VARIABLES
    cookie,    \* whose Session the browser's cookie names, None: of no Session
    store,     \* task -> its versions, oldest first; a revision is an index
    page,      \* mounted, busy, the observed state, the logout dialog
    reader,    \* entries of the list, cursor of the next page, the open task
    editor,    \* the metadata buffer
    run,       \* the action the page is busy with
    ghosts,    \* runs of an earlier life of the page that still hash contents
    late,      \* requests whose caller has left and the server may yet serve
    confirms, changes, hides

pageVars == <<page, reader, editor>>
bounds == <<confirms, changes, hides>>
vars == <<cookie, store, page, reader, editor, run, ghosts, late, bounds>>
-----------------------------------------------------------------------------
(* Data *)

Revision(t) == Len(store[t])
Snapshot(t) == [task |-> t, rev |-> Revision(t), doc |-> store[t][Revision(t)].doc]

\* Slip: the revision to replace is taken from the list.
DescriptorFromList(base, doc, n) ==
    [task |-> base.task, doc |-> doc, n |-> n,
     rev |-> (CHOOSE e \in reader.entries : e.task = base.task).rev]
\* The frozen body of a PUT; n counts the confirmations.
Descriptor(base, doc, n) == [task |-> base.task, rev |-> base.rev, doc |-> doc, n |-> n]

\* A request carries the cookie of the moment it is sent.
NewRun(kind, arg) ==
    [kind |-> kind, arg |-> arg, as |-> cookie, stage |-> "sent", ans |-> None, live |-> TRUE]

\* What a request leaves behind in the server when the page stops waiting for
\* it before it was served: reads leave nothing.
Leftover(r) == IF /\ r # None /\ r.stage = "sent" /\ r.kind \in {"login", "logout", "write"}
                  /\ Cardinality(late) < MaxLate
               THEN {[kind |-> r.kind, arg |-> r.arg, as |-> r.as]} ELSE {}
-----------------------------------------------------------------------------
(* The editor and the reader, as functions of their state *)

CleanEditor == [base |-> None, draft |-> None, attempt |-> None, staged |-> None,
                departure |-> None, editing |-> FALSE, dirty |-> FALSE,
                quarantined |-> FALSE, phase |-> "clean"]

\* Work that must not be lost: an edited buffer, or a PUT of unknown outcome.
Held(e) == e.dirty \/ e.attempt # None \/ e.quarantined

Reset(e, keepBaseline) ==
    [CleanEditor EXCEPT !.base = IF keepBaseline THEN e.base ELSE None]

\* The context the buffer was made in is gone.  The buffer is closed, not lost.
Invalidate(e) ==
    IF ~Held(e) THEN CleanEditor
    ELSE [e EXCEPT !.base = None, !.staged = None, !.departure = None,
                   !.editing = FALSE, !.quarantined = TRUE, !.phase = "quarantined"]

ClearedReader == [entries |-> {}, cursor |-> None, snap |-> None]

\* A new observation of the Session; anything but "active" clears what is shown.
Observed(state) == [page EXCEPT !.state = state]
\* Slip: the tasks stay on the page while the Session is checked again.
ReaderAfterCheck(state) == IF state # "unauthenticated" THEN reader ELSE ClearedReader
ReaderAfter(state) == IF state = "active" THEN reader ELSE ClearedReader
EditorAfter(state, e) == IF state = "active" THEN e ELSE Invalidate(e)

\* Slip: a continuation does not ask whether its page was hidden meanwhile.
CurrentAlways(r) == TRUE
\* The check every continuation makes before it touches the page.
Current(r) == page.mounted /\ r.live
Active == page.mounted /\ page.state = "active"

NoDialog == ~page.dialog /\ editor.staged = None /\ editor.departure = None
\* Handlers refuse while busy; a modal dialog makes the rest of the page inert.
Ready == page.mounted /\ ~page.busy /\ NoDialog
-----------------------------------------------------------------------------
Init ==
    /\ cookie \in Users \cup {None}
    /\ \E doc \in Docs : store = [t \in Tasks |-> <<[doc |-> doc, n |-> 0]>>]
    /\ page = [mounted |-> TRUE, busy |-> TRUE, state |-> "checking", dialog |-> FALSE]
    /\ reader = ClearedReader
    /\ editor = CleanEditor
    /\ run = NewRun("inspect", None)
    /\ ghosts = {} /\ late = {}
    /\ confirms = 0 /\ changes = 0 /\ hides = 0
-----------------------------------------------------------------------------
(* The user.  Each of these starts a run or only changes the page; e is the  *)
(* editor at that point of the handler.                                      *)

BeginSession(kind, arg, e) ==
    /\ page' = [page EXCEPT !.busy = TRUE, !.state = "checking", !.dialog = FALSE]
    /\ reader' = ClearedReader
    /\ editor' = Invalidate(e)
    /\ run' = NewRun(kind, arg)

BeginIndex(after, e) ==
    IF Active
    THEN /\ page' = [page EXCEPT !.busy = TRUE]
         /\ reader' = ClearedReader
         /\ editor' = Invalidate(e)
         /\ run' = NewRun("index", after)
    ELSE editor' = e /\ UNCHANGED <<page, reader, run>>

BeginOpen(entry, e) ==
    IF Active /\ entry \in reader.entries
    THEN /\ page' = [page EXCEPT !.busy = TRUE]
         /\ reader' = [reader EXCEPT !.snap = None]
         /\ editor' = Invalidate(e)
         /\ run' = NewRun("open", entry)
    ELSE editor' = e /\ UNCHANGED <<page, reader, run>>

Perform(what, e) ==
    \/ what.kind \in {"login", "discard"} /\ editor' = e /\ UNCHANGED <<page, reader, run>>
    \/ what.kind = "check" /\ BeginSession("inspect", None, e)
    \/ what.kind = "logout" /\ BeginSession("logout", None, e)
    \/ what.kind \in {"load", "next"} /\ BeginIndex(what.arg, e)
    \/ what.kind = "open" /\ BeginOpen(what.arg, e)

\* leave(): go on at once, or ask first when there is work to lose.
Leave(kind, arg) ==
    IF Held(editor)
    THEN /\ editor' = [editor EXCEPT !.departure = [kind |-> kind, arg |-> arg]]
         /\ UNCHANGED <<page, reader, run>>
    ELSE Perform([kind |-> kind, arg |-> arg], editor)

\* The rest of the state no handler touches.
Outside == UNCHANGED <<cookie, store, ghosts, late, bounds>>

SubmitLogin(u) ==
    /\ Ready
    /\ IF Held(editor) THEN Leave("login", None) ELSE BeginSession("login", u, editor)
    /\ Outside

SubmitInvalid ==
    /\ Ready
    /\ IF Held(editor) THEN Leave("login", None)
       ELSE /\ page' = Observed("invalid-input")
            /\ reader' = ClearedReader /\ editor' = Invalidate(editor) /\ UNCHANGED run
    /\ Outside

ClickCheck == Ready /\ Leave("check", None) /\ Outside

ClickLogout ==
    /\ Ready
    /\ IF Held(editor) THEN Leave("logout", None)
       ELSE page' = [page EXCEPT !.dialog = TRUE] /\ UNCHANGED <<reader, editor, run>>
    /\ Outside

CancelLogout ==
    /\ page.mounted /\ page.dialog /\ ~page.busy
    /\ page' = [page EXCEPT !.dialog = FALSE]
    /\ UNCHANGED <<reader, editor, run>> /\ Outside

ConfirmLogout ==
    /\ page.mounted /\ page.dialog /\ ~page.busy
    /\ BeginSession("logout", None, editor) /\ Outside

LoadTasks == Ready /\ Active /\ Leave("load", From(0)) /\ Outside

NextTasks ==
    /\ Ready /\ Active /\ reader.cursor # None
    /\ Leave("next", From(reader.cursor)) /\ Outside

OpenTask == Ready /\ Active /\ (\E entry \in reader.entries : Leave("open", entry)) /\ Outside

StartEdit ==
    /\ Ready /\ Active /\ editor.base # None
    /\ ~Held(editor) /\ ~editor.editing
    /\ editor' = [editor EXCEPT !.draft = editor.base.doc, !.editing = TRUE, !.phase = "clean"]
    /\ UNCHANGED <<page, reader, run>> /\ Outside

\* The fields are read-only once a PUT was tried.
Input(doc) ==
    /\ Ready /\ Active /\ editor.editing /\ ~editor.quarantined
    /\ editor.attempt = None /\ editor.base # None
    /\ editor' = [editor EXCEPT !.draft = doc, !.dirty = (doc # editor.base.doc),
                                !.phase = IF doc # editor.base.doc THEN "dirty" ELSE "clean"]
    /\ UNCHANGED <<page, reader, run>> /\ Outside

ClickSave ==
    /\ Ready /\ Active /\ editor.editing /\ editor.dirty
    /\ editor.attempt = None /\ ~editor.quarantined
    /\ confirms < MaxConfirms
    /\ editor' = [editor EXCEPT !.staged =
           [desc |-> Descriptor(editor.base, editor.draft, confirms + 1), base |-> editor.base]]
    /\ UNCHANGED <<page, reader, run>> /\ Outside

CancelSave ==
    /\ page.mounted /\ editor.staged # None /\ ~page.busy
    /\ editor' = [editor EXCEPT !.staged = None]
    /\ UNCHANGED <<page, reader, run>> /\ Outside

\* The PUT is marked as tried before it is sent.
ConfirmSave ==
    /\ Active /\ ~page.busy /\ editor.staged # None
    /\ editor.attempt = None /\ ~editor.quarantined
    /\ editor.staged.base = editor.base
    /\ editor' = [editor EXCEPT !.staged = None, !.attempt = editor.staged.desc,
                                !.phase = "pending"]
    /\ page' = [page EXCEPT !.busy = TRUE]
    /\ run' = NewRun("write", editor.staged.desc)
    /\ confirms' = confirms + 1
    /\ UNCHANGED <<cookie, store, reader, ghosts, late, changes, hides>>

Discard ==
    /\ Ready /\ (editor.editing \/ Held(editor))
    /\ IF Held(editor) THEN Leave("discard", None)
       ELSE editor' = Reset(editor, editor.base # None) /\ UNCHANGED <<page, reader, run>>
    /\ Outside

ConfirmLeave ==
    /\ page.mounted /\ ~page.busy /\ editor.departure # None
    /\ Perform(editor.departure, Reset(editor, editor.base # None))
    /\ Outside

CancelLeave ==
    /\ page.mounted /\ ~page.busy /\ editor.departure # None
    /\ editor' = [editor EXCEPT !.departure = None]
    /\ UNCHANGED <<page, reader, run>> /\ Outside
-----------------------------------------------------------------------------
(* The platform.  A Session is good while the browser still holds its cookie;*)
(* an access that was suspended answers 403.  A request that carries a       *)
(* cookie cannot log in.                                                     *)

Authorized(as) == as # None /\ as = cookie

Index(after) ==
    LET mine == {t \in Tasks : Owner[t] = cookie /\ t > after}
        shown == {t \in mine : Cardinality({u \in mine : u <= t}) <= PageSize}
    IN [code |-> 200, entries |-> {Snapshot(t) : t \in shown},
        next |-> IF Cardinality(mine) > PageSize THEN Max(shown) ELSE None]

\* The owner replaces the revision the caller expects, or nothing happens.
CanReplace(desc) == Owner[desc.task] = cookie /\ desc.rev = Revision(desc.task)

Replace(desc) ==
    store' = [store EXCEPT ![desc.task] = Append(@, [doc |-> desc.doc, n |-> desc.n])]

Answered(ans) == run' = [run EXCEPT !.stage = "answered", !.ans = ans]

ServeSession ==
    /\ run # None /\ run.stage = "sent"
    /\ \/ /\ run.kind \in {"inspect", "confirm-login"}
          /\ Answered([code |-> IF Authorized(run.as) THEN 200 ELSE 401])
          /\ UNCHANGED cookie
       \/ /\ run.kind = "login"
          /\ Answered([code |-> IF run.as = None THEN 200 ELSE 409])
          /\ cookie' = IF run.as = None THEN run.arg ELSE cookie
       \/ /\ run.kind = "logout"
          /\ Answered([code |-> IF Authorized(run.as) THEN 200 ELSE 401])
          /\ cookie' = IF Authorized(run.as) THEN None ELSE cookie
    /\ UNCHANGED <<store, pageVars, ghosts, late, bounds>>

ServeRead ==
    /\ run # None /\ run.stage = "sent" /\ run.kind \in {"index", "open"}
    /\ \/ ~Authorized(run.as) /\ Answered([code |-> 401])
       \/ Authorized(run.as) /\ Answered([code |-> 403])
       \/ Authorized(run.as) /\ run.kind = "index" /\ Answered(Index(run.arg.after))
       \/ /\ Authorized(run.as) /\ run.kind = "open"
          /\ Answered(IF Owner[run.arg.task] = cookie
                      THEN [code |-> 200, snap |-> Snapshot(run.arg.task)] ELSE [code |-> 404])
    /\ UNCHANGED <<cookie, store, pageVars, ghosts, late, bounds>>

ServeWrite ==
    /\ run # None /\ run.stage = "sent" /\ run.kind = "write"
    /\ \/ ~Authorized(run.as) /\ Answered([code |-> 401]) /\ UNCHANGED store
       \/ Authorized(run.as) /\ Answered([code |-> 403]) /\ UNCHANGED store
       \/ /\ Authorized(run.as) /\ ~CanReplace(run.arg)
          /\ Answered([code |-> IF Owner[run.arg.task] = cookie THEN 409 ELSE 404])
          /\ UNCHANGED store
       \/ /\ Authorized(run.as) /\ CanReplace(run.arg)
          /\ Replace(run.arg)
          /\ Answered([code |-> 200, rev |-> Revision(run.arg.task) + 1, doc |-> run.arg.doc])
    /\ UNCHANGED <<cookie, pageVars, ghosts, late, bounds>>

\* A request nobody waits for any more is served, or never.
ServeLate(q) ==
    /\ q \in late
    /\ late' = late \ {q}
    /\ \/ q.kind = "login" /\ q.as = None /\ cookie' = q.arg /\ UNCHANGED store
       \/ q.kind = "logout" /\ Authorized(q.as) /\ cookie' = None /\ UNCHANGED store
       \/ /\ q.kind = "write" /\ Authorized(q.as) /\ CanReplace(q.arg)
          /\ Replace(q.arg) /\ UNCHANGED cookie
       \/ UNCHANGED <<cookie, store>>
    /\ UNCHANGED <<pageVars, run, ghosts, bounds>>

\* Another tab opens or ends a Session.
SwitchSession(u) ==
    /\ changes < MaxChanges /\ u # cookie
    /\ cookie' = u /\ changes' = changes + 1
    /\ UNCHANGED <<store, pageVars, run, ghosts, late, confirms, hides>>

\* Another client of the owner saves a version.
WriteElsewhere(t, doc) ==
    /\ changes < MaxChanges /\ doc # Snapshot(t).doc
    /\ store' = [store EXCEPT ![t] = Append(@, [doc |-> doc, n |-> 0])]
    /\ changes' = changes + 1
    /\ UNCHANGED <<cookie, pageVars, run, ghosts, late, confirms, hides>>
-----------------------------------------------------------------------------
(* The end of a run *)

\* The run ends with an observation of the Session and frees the page.
EndObserving(state, e) ==
    /\ page' = [Observed(state) EXCEPT !.busy = FALSE]
    /\ reader' = ReaderAfter(state)
    /\ editor' = EditorAfter(state, e)
    /\ run' = None

\* The run ends without one.
EndWith(r, e) ==
    /\ page' = [page EXCEPT !.busy = FALSE]
    /\ reader' = r /\ editor' = e /\ run' = None

\* A denial whose body is the known envelope tells 401 from the rest.
Denied(code) == IF code = 401 THEN "unauthenticated" ELSE "unknown"

SessionSettles ==
    /\ run # None /\ run.stage = "answered" /\ Current(run)
    /\ \/ /\ run.kind \in {"inspect", "confirm-login"}
          /\ EndObserving(CASE run.ans.code = 200 -> "active"
                            [] run.kind = "inspect" -> "unauthenticated"
                            [] OTHER -> "unknown", editor)
       \/ /\ run.kind = "login"
          /\ IF run.ans.code = 200
             THEN run' = NewRun("confirm-login", None) /\ UNCHANGED pageVars
             ELSE EndObserving("session-present", editor)
       \/ /\ run.kind = "logout"
          /\ EndObserving(IF run.ans.code = 200 THEN "unauthenticated" ELSE "unknown", editor)
    /\ Outside

IndexShown(ans) == [reader EXCEPT !.entries = ans.entries, !.cursor = ans.next]

ReadSettles ==
    /\ run # None /\ run.stage = "answered" /\ run.kind \in {"index", "open"} /\ Current(run)
    /\ \/ run.ans.code = 200 /\ run.kind = "index" /\ EndWith(IndexShown(run.ans), editor)
       \/ /\ run.ans.code = 200 /\ run.kind = "open"
          /\ run' = [run EXCEPT !.stage = "hashing"] /\ UNCHANGED pageVars
       \/ run.ans.code = 404 /\ EndWith(ClearedReader, Invalidate(editor))
       \/ /\ run.ans.code \in {401, 403}
          /\ EndObserving(Denied(run.ans.code), Invalidate(editor))
    /\ Outside

\* The contents agree with their hashes; hashing yields to other handlers.
Hashed(r) ==
    /\ r \in ghosts \cup {run} /\ r # None
    /\ r.stage = "hashing"
    /\ IF Current(r) /\ Active
       THEN /\ reader' = [reader EXCEPT !.snap = r.ans.snap]
            /\ editor' = IF Held(editor) THEN editor
                         ELSE [CleanEditor EXCEPT !.base = r.ans.snap]
            /\ page' = [page EXCEPT !.busy = @ /\ r # run]
       ELSE UNCHANGED pageVars
    /\ run' = IF r = run THEN None ELSE run
    /\ ghosts' = ghosts \ {r}
    /\ UNCHANGED <<cookie, store, late, bounds>>

\* The headers of a denied PUT: what is shown is hidden before the body comes.
WriteDenied ==
    /\ run # None /\ run.stage = "answered" /\ run.kind = "write"
    /\ run.ans.code \in {401, 403} /\ Current(run)
    /\ page' = Observed("unknown") /\ reader' = ClearedReader
    /\ editor' = Invalidate(editor)
    /\ run' = [run EXCEPT !.stage = "denied"]
    /\ Outside

\* Slip: the contents that are shown stay those of the old version.
SavedReaderOld(saved) ==
    [reader EXCEPT !.entries = {IF e.task = saved.task THEN saved ELSE e : e \in @}]
\* onSaved(): list and contents go on with the version of the receipt.
SavedReader(saved) ==
    [reader EXCEPT !.entries = {IF e.task = saved.task THEN saved ELSE e : e \in @},
                   !.snap = saved]

\* parseMetadataSaved: the receipt is for this save, on its own baseline.
ReceiptMatches(r) == r.ans.code = 200 /\ r.ans.rev = r.arg.rev + 1 /\ r.ans.doc = r.arg.doc

WriteSettles ==
    /\ run # None /\ run.kind = "write" /\ Current(run)
    /\ \/ /\ run.stage = "denied"
          /\ EndObserving(Denied(run.ans.code), editor)
       \/ /\ run.stage = "answered" /\ ReceiptMatches(run)
          /\ LET saved == [task |-> run.arg.task, rev |-> run.arg.rev + 1, doc |-> run.arg.doc]
             IN EndWith(SavedReader(saved),
                        [editor EXCEPT !.base = saved, !.draft = saved.doc, !.attempt = None,
                                       !.dirty = FALSE, !.phase = "saved"])
       \/ /\ run.stage = "answered" /\ run.ans.code \in {404, 409}
          /\ EndWith(reader, [editor EXCEPT
                 !.phase = IF run.ans.code = 409 THEN "conflict" ELSE "unknown"])
    /\ Outside

\* Whether the save took place is unknown, and stays so.
SaveUnconfirmed == EndWith(reader, [editor EXCEPT !.phase = "unknown"])

\* No answer within ten seconds, a broken one, or one the page cannot read.
RunFails ==
    /\ run # None /\ run.stage # "hashing" /\ Current(run)
    /\ late' = late \cup Leftover(run)
    /\ \/ /\ run.kind \in {"inspect", "confirm-login", "login", "logout"}
          /\ EndObserving("unknown", editor)
       \/ /\ run.kind \in {"index", "open"}
          /\ IF run.stage = "answered" /\ run.ans.code \in {401, 403}
             THEN EndObserving("unknown", Invalidate(editor))
             ELSE EndWith(ClearedReader, Invalidate(editor))
       \/ /\ run.kind = "write" /\ run.stage = "denied"
          /\ EndWith(reader, editor)
       \/ /\ run.kind = "write" /\ run.stage # "denied"
          /\ run.stage = "answered" => run.ans.code \notin {401, 403}
          /\ SaveUnconfirmed
    /\ UNCHANGED <<cookie, store, ghosts, bounds>>
-----------------------------------------------------------------------------
(* The page goes to the back/forward cache and comes back.                   *)

PageHide ==
    /\ page.mounted /\ hides < MaxHides
    /\ page' = [mounted |-> FALSE, busy |-> TRUE, state |-> "unknown", dialog |-> FALSE]
    /\ reader' = ClearedReader
    /\ editor' = Invalidate(editor)
    /\ ghosts' = ghosts \cup (IF run # None /\ run.stage = "hashing"
                              THEN {[run EXCEPT !.live = FALSE]} ELSE {})
    /\ late' = late \cup Leftover(run)
    /\ run' = None
    /\ hides' = hides + 1
    /\ UNCHANGED <<cookie, store, confirms, changes>>

PageShow ==
    /\ ~page.mounted
    /\ page' = [mounted |-> TRUE, busy |-> TRUE, state |-> "checking", dialog |-> FALSE]
    /\ reader' = ClearedReader
    /\ editor' = Invalidate(editor)
    /\ run' = NewRun("inspect", None)
    /\ UNCHANGED <<cookie, store, ghosts, late, bounds>>
-----------------------------------------------------------------------------
User ==
    \/ \E u \in Users : SubmitLogin(u)
    \/ SubmitInvalid \/ ClickCheck \/ ClickLogout \/ CancelLogout \/ ConfirmLogout
    \/ LoadTasks \/ NextTasks \/ OpenTask
    \/ StartEdit \/ (\E doc \in Docs : Input(doc))
    \/ ClickSave \/ CancelSave \/ ConfirmSave
    \/ Discard \/ ConfirmLeave \/ CancelLeave

RunStep ==
    \/ ServeSession \/ ServeRead \/ ServeWrite
    \/ SessionSettles \/ ReadSettles \/ WriteDenied \/ WriteSettles \/ RunFails

Hashing == \E r \in ghosts \cup {run} : Hashed(r)

Environment ==
    \/ \E q \in late : ServeLate(q)
    \/ \E u \in Users \cup {None} : SwitchSession(u)
    \/ \E t \in Tasks, doc \in Docs : WriteElsewhere(t, doc)
    \/ PageHide \/ PageShow

Next == User \/ RunStep \/ Hashing \/ Environment

Spec == Init /\ [][Next]_vars
-----------------------------------------------------------------------------
\* The type invariant.
TypeOK ==
    /\ cookie \in Users \cup {None}
    /\ \A t \in Tasks : /\ Len(store[t]) \in 1..(1 + MaxConfirms + MaxChanges)
                        /\ \A i \in DOMAIN store[t] : store[t][i].doc \in Docs
    /\ page \in [mounted : BOOLEAN, busy : BOOLEAN, state : States, dialog : BOOLEAN]
    /\ reader.entries \subseteq Snapshots
    /\ reader.cursor \in Tasks \cup {None}
    /\ reader.snap \in Snapshots \cup {None}
    /\ editor.base \in Snapshots \cup {None}
    /\ editor.draft \in Docs \cup {None}
    /\ editor.attempt \in Descriptors \cup {None}
    /\ editor.phase \in Phases
    /\ run # None => run \in Runs
    /\ page.busy <=> run # None \/ ~page.mounted

\* Whatever the order of answers, denials, hidden and restored pages: tasks are
\* on the page only while it observes an active Session (observe, clear).
PrivateOnlyWhileActive ==
    reader # ClearedReader \/ editor.base # None \/ editor.staged # None => Active

\* What the page shows of a task, and what the editor starts from, is a version
\* the platform really stored under that revision: no mixture of a draft, an
\* old list and a late receipt (parseContent, parseMetadataSaved, onSaved).
WasStored(s) == s.rev <= Revision(s.task) /\ store[s.task][s.rev].doc = s.doc
ShownWasStored ==
    \A s \in reader.entries \cup ({reader.snap, editor.base} \ {None}) : WasStored(s)

\* The browser's Session may change hands between two requests; the page never
\* shows tasks of two accounts, nor contents of a task it does not list.
OneOwnerShown ==
    /\ \A e, f \in reader.entries : Owner[e.task] = Owner[f.task]
    /\ reader.snap # None => \E e \in reader.entries : e.task = reader.snap.task

\* The editor works on the version that is shown (acceptSnapshot, onSaved).
BaselineIsShown == editor.base # None => editor.base = reader.snap

\* A confirmed save is sent once: no PUT is under way twice, none is under way
\* that was stored already, and one confirmation makes at most one version.
SentOnce ==
    /\ \A q \in late : q.kind = "write" /\ run # None /\ run.kind = "write" => q.arg # run.arg
    /\ run # None /\ run.kind = "write" /\ run.stage = "sent" =>
           \A t \in Tasks : \A i \in DOMAIN store[t] : store[t][i].n # run.arg.n
    /\ \A t \in Tasks : \A i, j \in DOMAIN store[t] :
           store[t][i].n # 0 /\ store[t][i].n = store[t][j].n => i = j

\* Together: list, contents and editor agree with each other and the platform,
\* which stores what was confirmed at most once.
PageAgrees == TypeOK /\ ShownWasStored /\ OneOwnerShown /\ BaselineIsShown /\ SentOnce

\* Unsaved work, and a PUT of unknown outcome, leave the editor only when the
\* user confirms it or a receipt for exactly that work came (held, leave).
WorkLeavesByChoice ==
    [][Held(editor) /\ ~Held(editor') =>
          \/ editor.departure # None /\ page.mounted
          \/ run # None /\ run.kind = "write" /\ run.ans.code = 200
             /\ editor'.base.doc = editor.draft
          \/ editor.attempt = None /\ editor'.draft = editor.base.doc]_vars

\* What is sent is what the confirmation showed, on the version that is shown.
ConfirmedIsSent ==
    [][run' # None /\ run'.kind = "write" /\ run'.stage = "sent" /\ run # run' =>
          /\ editor.staged # None /\ run'.arg = editor.staged.desc
          /\ reader.snap # None
          /\ run'.arg.task = reader.snap.task /\ run'.arg.rev = reader.snap.rev]_vars

\* Together: nothing becomes of unsaved work but what the user confirmed.
UserDecides == WorkLeavesByChoice /\ ConfirmedIsSent
=============================================================================
