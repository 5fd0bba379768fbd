----------------------------- MODULE PageProofs -----------------------------
(* The browser pages, for any number of users, tasks, items and steps.  The  *)
(* Session page shows private content only while its Session is active,      *)
(* agrees with what it is about, and writes only what its user confirmed.    *)
(* The task draft stays valid, and content leaves it only by a request that  *)
(* was reviewed on exactly this draft.  The runner panel never stops         *)
(* reading, and posts only on fresh facts that were reviewed.                *)
EXTENDS SessionPage, TaskDraft, RunnerAdmin, Counting, SequenceTheorems

-----------------------------------------------------------------------------
(* The Session page.                                                         *)
Departures ==
    [kind : {"login", "discard", "check", "logout", "load", "next", "open"},
     arg : {None} \cup Cursors \cup Snapshots]
Editors ==
    [base : Snapshots \cup {None}, draft : Docs \cup {None},
     attempt : Descriptors \cup {None},
     staged : [desc : Descriptors, base : Snapshots] \cup {None},
     departure : Departures \cup {None},
     editing : BOOLEAN, dirty : BOOLEAN, quarantined : BOOLEAN, phase : Phases]
Pages == [mounted : BOOLEAN, busy : BOOLEAN, state : States, dialog : BOOLEAN]
Readers == [entries : SUBSET Snapshots, cursor : Tasks \cup {None}, snap : Snapshots \cup {None}]
Leftovers ==
    [kind : {"login"}, arg : Users, as : Users \cup {None}]
        \cup [kind : {"logout", "write"},
              arg : Users \cup {None} \cup Cursors \cup Snapshots \cup Descriptors,
              as : Users \cup {None}]
Versions == [doc : Docs, n : Nat]

SessionTyped ==
    /\ cookie \in Users \cup {None}
    /\ store \in [Tasks -> Seq(Versions)] /\ \A t \in Tasks : Len(store[t]) >= 1
    /\ page \in Pages /\ reader \in Readers /\ editor \in Editors
    /\ run # None => run \in Runs /\ run.live
    /\ \A g \in ghosts : g \in Runs /\ ~g.live
    /\ late \subseteq Leftovers
    /\ confirms \in 0 .. MaxConfirms /\ changes \in 0 .. MaxChanges

(* The page is busy with one run, and shows tasks only while it is active.   *)
OneRun ==
    /\ page.busy <=> run # None \/ ~page.mounted
    /\ ~page.mounted => run = None
ReadsOwnTasks ==
    run # None =>
        /\ run.kind = "login" => run.arg \in Users
        /\ run.kind \in {"index", "open", "write"} /\ run.stage # "denied" => Active
        /\ run.kind = "index" => reader = ClearedReader /\ editor.base = None
        /\ run.kind = "open" => run.arg \in reader.entries /\ editor.base = None
        /\ run.stage \in {"sent", "answered", "hashing"} \/ run.kind = "write"
        /\ run.stage = "hashing" => run.kind = "open"

(* What the platform answered, it had stored.                                *)
OneOwner(entries) == \A e, f \in entries : Owner[e.task] = Owner[f.task]
AnswersStored ==
    run # None /\ run.stage \in {"answered", "hashing", "denied"} =>
        /\ run.ans \in Answers
        /\ run.kind = "index" /\ run.ans.code = 200 =>
              /\ run.ans.entries \subseteq Snapshots /\ run.ans.next \in Tasks \cup {None}
              /\ OneOwner(run.ans.entries) /\ \A s \in run.ans.entries : WasStored(s)
        /\ run.kind = "open" /\ run.ans.code = 200 =>
              /\ run.ans.snap \in Snapshots /\ WasStored(run.ans.snap)
              /\ run.ans.snap.task = run.arg.task
        /\ run.kind = "open" /\ run.stage = "hashing" => run.ans.code = 200
        /\ run.kind = "write" /\ run.ans.code = 200 =>
              WasStored([task |-> run.arg.task, rev |-> run.arg.rev + 1, doc |-> run.arg.doc])

(* The editor: a buffer that is edited has a baseline, and what is staged is  *)
(* the buffer on a version that was shown.                                   *)
EditorFits ==
    /\ editor.editing => editor.base # None /\ editor.draft # None
    /\ editor.staged # None =>
          /\ editor.staged.desc.task = editor.staged.base.task
          /\ editor.staged.desc.rev = editor.staged.base.rev
          /\ editor.staged.desc.doc = editor.draft
          /\ editor.staged.desc.n = confirms + 1 /\ confirms < MaxConfirms

(* The save that is under way.                                               *)
SaveFits ==
    run # None /\ run.kind = "write" =>
        /\ run.arg \in Descriptors /\ run.arg.n = confirms /\ confirms > 0
        /\ run.stage # "denied" =>
              /\ editor.attempt = run.arg /\ editor.draft = run.arg.doc
              /\ reader.snap # None
              /\ reader.snap.task = run.arg.task /\ reader.snap.rev = run.arg.rev

(* One confirmation makes at most one version.                               *)
StoredAs(n) == \E t \in Tasks : \E i \in DOMAIN store[t] : store[t][i].n = n
Saves == {q \in late : q.kind = "write"}
OncePerConfirm ==
    /\ \A t \in Tasks : \A i \in DOMAIN store[t] : store[t][i].n <= confirms
    /\ \A t \in Tasks : \A i, j \in DOMAIN store[t] :
          store[t][i].n # 0 /\ store[t][i].n = store[t][j].n => i = j
    /\ \A q \in Saves : q.arg \in Descriptors /\ q.arg.n \in 1 .. confirms /\ ~StoredAs(q.arg.n)
    /\ \A p, q \in Saves : p.arg.n = q.arg.n => p = q
    /\ run # None /\ run.kind = "write" =>
          /\ \A q \in Saves : q.arg.n # run.arg.n
          /\ run.stage = "sent" => ~StoredAs(run.arg.n)

(* How long the histories are.                                               *)
Made(t) == {n \in 1 .. confirms : \E i \in DOMAIN store[t] : store[t][i].n = n}
HistoryBounded == \A t \in Tasks : Len(store[t]) <= 1 + changes + Cardinality(Made(t))

SessionInv ==
    /\ SessionTyped /\ OneRun /\ ReadsOwnTasks /\ PrivateOnlyWhileActive
    /\ AnswersStored /\ ShownWasStored /\ OneOwnerShown /\ BaselineIsShown
    /\ EditorFits /\ SaveFits /\ OncePerConfirm /\ HistoryBounded

-----------------------------------------------------------------------------
(* The data of the page.                                                     *)
LEMMA NoneApart ==
    /\ None \notin Users /\ None \notin Docs /\ None \notin Tasks
    /\ None \notin Snapshots /\ None \notin Descriptors /\ None \notin Runs
BY SessionPageAssumption

LEMMA CleanTyped ==
    /\ CleanEditor \in Editors /\ ~Held(CleanEditor)
    /\ CleanEditor.base = None /\ CleanEditor.staged = None /\ ~CleanEditor.editing
BY DEF CleanEditor, Editors, Phases, Held

LEMMA ClearedTyped ==
    /\ ClearedReader \in Readers
    /\ ClearedReader.entries = {} /\ ClearedReader.snap = None
BY DEF ClearedReader, Readers

LEMMA InvalidateIs ==
    ASSUME NEW e \in Editors
    PROVE  /\ Invalidate(e) \in Editors
           /\ Invalidate(e).base = None /\ Invalidate(e).staged = None
           /\ ~Invalidate(e).editing
           /\ Held(e) => Held(Invalidate(e))
<1>1. CASE ~Held(e) BY <1>1, CleanTyped DEF Invalidate
<1>2. CASE Held(e)
  <2> DEFINE f == [e EXCEPT !.base = None, !.staged = None, !.departure = None,
                   !.editing = FALSE, !.quarantined = TRUE, !.phase = "quarantined"]
  <2>1. Invalidate(e) = f BY <1>2 DEF Invalidate
  <2>2. f \in Editors BY DEF Editors, Phases
  <2>3. f.base = None /\ f.staged = None /\ ~f.editing /\ f.quarantined BY DEF Editors
  <2>4. Held(f) BY <2>3 DEF Held
  <2> HIDE DEF f
  <2> QED BY <2>1, <2>2, <2>3, <2>4
<1> QED BY <1>1, <1>2

LEMMA ResetIs ==
    ASSUME NEW e \in Editors, NEW keep \in BOOLEAN
    PROVE  /\ Reset(e, keep) \in Editors
           /\ Reset(e, keep).base = None \/ Reset(e, keep).base = e.base
           /\ Reset(e, keep).staged = None /\ ~Reset(e, keep).editing
<1>1. e.base \in Snapshots \cup {None} BY DEF Editors
<1> QED BY <1>1 DEF Reset, CleanEditor, Editors, Phases

LEMMA NewRunTyped ==
    ASSUME cookie \in Users \cup {None}, NEW kind \in Kinds,
           NEW arg \in Users \cup {None} \cup Cursors \cup Snapshots \cup Descriptors
    PROVE  /\ NewRun(kind, arg) \in Runs /\ NewRun(kind, arg) # None
           /\ NewRun(kind, arg).kind = kind /\ NewRun(kind, arg).arg = arg
           /\ NewRun(kind, arg).stage = "sent" /\ NewRun(kind, arg).live
<1>1. NewRun(kind, arg) \in Runs BY DEF NewRun, Runs
<1> QED BY <1>1, NoneApart DEF NewRun

LEMMA Appended ==
    ASSUME SessionTyped, NEW t \in Tasks, NEW v \in Versions,
           store' = [store EXCEPT ![t] = Append(@, v)]
    PROVE  /\ store' \in [Tasks -> Seq(Versions)]
           /\ \A u \in Tasks :
                /\ Len(store[u]) \in Nat /\ Len(store[u]) >= 1
                /\ Len(store'[u]) = IF u = t THEN Len(store[u]) + 1 ELSE Len(store[u])
                /\ DOMAIN store[u] = 1 .. Len(store[u])
                /\ DOMAIN store'[u] = 1 .. Len(store'[u])
                /\ \A i \in 1 .. Len(store[u]) : store'[u][i] = store[u][i]
           /\ store'[t][Len(store[t]) + 1] = v
<1>1. store \in [Tasks -> Seq(Versions)] /\ \A u \in Tasks : Len(store[u]) >= 1
  BY DEF SessionTyped
<1>2. /\ Append(store[t], v) \in Seq(Versions)
      /\ Len(Append(store[t], v)) = Len(store[t]) + 1
      /\ \A i \in 1 .. Len(store[t]) : Append(store[t], v)[i] = store[t][i]
      /\ Append(store[t], v)[Len(store[t]) + 1] = v
  <2>1. store[t] \in Seq(Versions) BY <1>1
  <2> QED BY <2>1, AppendProperties
<1>3. store' \in [Tasks -> Seq(Versions)] BY <1>1, <1>2
<1>4. store'[t] = Append(store[t], v) /\ \A u \in Tasks : u # t => store'[u] = store[u]
  BY <1>1
<1>5. ASSUME NEW u \in Tasks
      PROVE  /\ Len(store[u]) \in Nat /\ Len(store[u]) >= 1
             /\ Len(store'[u]) = IF u = t THEN Len(store[u]) + 1 ELSE Len(store[u])
             /\ DOMAIN store[u] = 1 .. Len(store[u])
             /\ DOMAIN store'[u] = 1 .. Len(store'[u])
             /\ \A i \in 1 .. Len(store[u]) : store'[u][i] = store[u][i]
  <2>1. store[u] \in Seq(Versions) /\ store'[u] \in Seq(Versions) BY <1>1, <1>3
  <2>2. Len(store[u]) \in Nat /\ DOMAIN store[u] = 1 .. Len(store[u])
        /\ DOMAIN store'[u] = 1 .. Len(store'[u])
    BY <2>1, LenProperties
  <2> QED BY <1>1, <1>2, <1>4, <2>2
<1> QED BY <1>2, <1>3, <1>4, <1>5

(* What was stored stays stored.                                             *)
LEMMA StoredStays ==
    ASSUME SessionTyped, NEW t \in Tasks, NEW v \in Versions,
           store' = [store EXCEPT ![t] = Append(@, v)],
           NEW s, s.task \in Tasks, s.rev \in Nat \ {0}, WasStored(s)
    PROVE  WasStored(s)'
<1>1. /\ Len(store[s.task]) \in Nat
      /\ Len(store'[s.task]) = IF s.task = t THEN Len(store[s.task]) + 1 ELSE Len(store[s.task])
      /\ \A i \in 1 .. Len(store[s.task]) : store'[s.task][i] = store[s.task][i]
  BY Appended
<1>2. s.rev <= Len(store[s.task]) /\ store[s.task][s.rev].doc = s.doc
  BY DEF WasStored, Revision
<1>3. s.rev \in 1 .. Len(store[s.task]) BY <1>1, <1>2
<1>4. s.rev <= Len(store'[s.task]) /\ store'[s.task][s.rev].doc = s.doc
  BY <1>1, <1>2, <1>3
<1> QED BY <1>4 DEF WasStored, Revision

LEMMA StoredSame ==
    ASSUME store' = store, NEW s, WasStored(s)
    PROVE  WasStored(s)'
BY DEF WasStored, Revision

LEMMA SnapshotStored ==
    ASSUME SessionTyped, NEW t \in Tasks
    PROVE  /\ Snapshot(t) \in Snapshots /\ WasStored(Snapshot(t)) /\ Snapshot(t).task = t
           /\ Snapshot(t).rev = Revision(t)
<1>1. store[t] \in Seq(Versions) /\ Len(store[t]) >= 1 BY DEF SessionTyped
<1>2. Len(store[t]) \in Nat \ {0} /\ Len(store[t]) \in 1 .. Len(store[t])
  BY <1>1, LenProperties
<1>3. store[t][Len(store[t])] \in Versions BY <1>1, <1>2, ElementOfSeq
<1>4. Snapshot(t) = [task |-> t, rev |-> Len(store[t]), doc |-> store[t][Len(store[t])].doc]
  BY DEF Snapshot, Revision
<1>5. Snapshot(t) \in Snapshots BY <1>2, <1>3, <1>4 DEF Snapshots, Versions
<1>6. Snapshot(t).task = t /\ Snapshot(t).rev = Len(store[t])
      /\ Snapshot(t).doc = store[t][Len(store[t])].doc
  BY <1>4
<1>7. WasStored(Snapshot(t)) BY <1>2, <1>6 DEF WasStored, Revision
<1> QED BY <1>5, <1>6, <1>7 DEF Revision

-----------------------------------------------------------------------------
(* What most steps leave alone: the platform, and the histories.             *)
LEMMA OnceKept ==
    ASSUME OncePerConfirm, store' = store, late' = late, confirms' = confirms,
           run' # None /\ run'.kind = "write" =>
               /\ run # None /\ run.kind = "write" /\ run'.arg = run.arg
               /\ run'.stage = "sent" => run.stage = "sent"
    PROVE  OncePerConfirm'
BY DEF OncePerConfirm, StoredAs, Saves

LEMMA HistoryKept ==
    ASSUME HistoryBounded, store' = store, confirms' = confirms, changes' = changes
    PROVE  HistoryBounded'
BY DEF HistoryBounded, Made

LEMMA LateTyped ==
    ASSUME SessionTyped, ReadsOwnTasks, late' = late \cup Leftover(run)
    PROVE  late' \subseteq Leftovers
<1>1. late \subseteq Leftovers /\ (run # None => run \in Runs) BY DEF SessionTyped
<1>2. Leftover(run) \subseteq Leftovers
  <2> SUFFICES ASSUME NEW l \in Leftover(run) PROVE l \in Leftovers OBVIOUS
  <2>1. /\ run # None /\ run.kind \in {"login", "logout", "write"}
        /\ l = [kind |-> run.kind, arg |-> run.arg, as |-> run.as]
    BY DEF Leftover
  <2>2. /\ run.as \in Users \cup {None}
        /\ run.arg \in Users \cup {None} \cup Cursors \cup Snapshots \cup Descriptors
    BY <1>1, <2>1 DEF Runs
  <2>3. CASE run.kind = "login" BY <2>1, <2>2, <2>3 DEF ReadsOwnTasks, Leftovers
  <2>4. CASE run.kind \in {"logout", "write"} BY <2>1, <2>2, <2>4 DEF Leftovers
  <2> QED BY <2>1, <2>3, <2>4
<1> QED BY <1>1, <1>2

(* A save that is given up may yet be served.                                *)
LEMMA OnceGivenUp ==
    ASSUME SessionInv, store' = store, confirms' = confirms, run' = None,
           late' = late \/ late' = late \cup Leftover(run)
    PROVE  OncePerConfirm'
<1>1. CASE late' = late BY <1>1, OnceKept DEF SessionInv
<1>2. CASE /\ late' = late \cup Leftover(run)
           /\ ~(run # None /\ run.stage = "sent" /\ run.kind = "write")
  <2>1. \A q \in late' : q.kind = "write" => q \in late
    BY <1>2 DEF Leftover
  <2>2. \A q \in late : q \in late' BY <1>2
  <2> QED BY <2>1, <2>2 DEF SessionInv, OncePerConfirm, StoredAs, Saves
<1>3. CASE /\ late' = late \cup Leftover(run)
           /\ run # None /\ run.stage = "sent" /\ run.kind = "write"
  <2>1. PICK l : l = [kind |-> "write", arg |-> run.arg, as |-> run.as] OBVIOUS
  <2>2. l.kind = "write" /\ l.arg = run.arg BY <2>1
  <2>3. \A q \in late' : q \in late \/ q = l BY <1>3, <2>1 DEF Leftover
  <2>4. /\ run.arg \in Descriptors /\ run.arg.n = confirms /\ confirms > 0
        /\ confirms \in Nat
    BY <1>3 DEF SessionInv, SaveFits, SessionTyped
  <2>5. run.arg.n \in 1 .. confirms BY <2>4
  <2>6. ~StoredAs(run.arg.n) /\ \A q \in Saves : q.arg.n # run.arg.n
    BY <1>3 DEF SessionInv, OncePerConfirm
  <2>7. \A n : StoredAs(n)' <=> StoredAs(n) BY DEF StoredAs
  <2>8. \A q \in Saves' : q.arg \in Descriptors /\ q.arg.n \in 1 .. confirms /\ ~StoredAs(q.arg.n)
    <3> SUFFICES ASSUME NEW q \in Saves'
                 PROVE  q.arg \in Descriptors /\ q.arg.n \in 1 .. confirms /\ ~StoredAs(q.arg.n)
      OBVIOUS
    <3>1. CASE q = l BY <2>2, <2>4, <2>5, <2>6, <3>1
    <3>2. CASE q # l
      <4>1. q \in Saves BY <2>3, <3>2 DEF Saves
      <4> QED BY <4>1 DEF SessionInv, OncePerConfirm
    <3> QED BY <3>1, <3>2
  <2>9. \A p, q \in Saves' : p.arg.n = q.arg.n => p = q
    <3>1. \A q \in Saves' : q \in Saves \/ q = l BY <2>3 DEF Saves
    <3>2. \A p, q \in Saves : p.arg.n = q.arg.n => p = q BY DEF SessionInv, OncePerConfirm
    <3> QED BY <2>2, <2>6, <3>1, <3>2
  <2> QED BY <2>7, <2>8, <2>9 DEF SessionInv, OncePerConfirm
<1> QED BY <1>1, <1>2, <1>3

(* The platform and everything outside the page stay as they are.            *)
LEMMA OutsideIs ==
    ASSUME Outside
    PROVE  /\ cookie' = cookie /\ store' = store /\ ghosts' = ghosts /\ late' = late
           /\ confirms' = confirms /\ changes' = changes
BY DEF Outside, bounds

-----------------------------------------------------------------------------
(* The user's steps.                                                         *)

(* An editor that shows and stages nothing the old one did not.              *)
Plain(e) ==
    /\ e \in Editors
    /\ e.base = None \/ e.base = editor.base
    /\ e.editing => e.base # None /\ e.draft # None
    /\ e.staged # None =>
          /\ Active
          /\ e.staged.desc.task = e.staged.base.task
          /\ e.staged.desc.rev = e.staged.base.rev
          /\ e.staged.desc.doc = e.draft
          /\ e.staged.desc.n = confirms + 1 /\ confirms < MaxConfirms

LEMMA EditorIsPlain == SessionInv => Plain(editor)
BY DEF SessionInv, SessionTyped, EditorFits, PrivateOnlyWhileActive, Plain

LEMMA ResetIsPlain ==
    ASSUME SessionInv
    PROVE  Plain(Reset(editor, editor.base # None))
<1>1. editor \in Editors /\ (editor.base # None) \in BOOLEAN BY DEF SessionInv, SessionTyped
<1> QED BY <1>1, ResetIs DEF Plain

LEMMA EditOnly ==
    ASSUME SessionInv, run = None, Outside, run' = run, reader' = reader,
           page' \in Pages, page'.mounted = page.mounted, page'.busy = page.busy,
           page'.state = page.state, NEW e, Plain(e), editor' = e
    PROVE  SessionInv'
<1>1. /\ cookie' = cookie /\ store' = store /\ ghosts' = ghosts /\ late' = late
      /\ confirms' = confirms /\ changes' = changes
  BY OutsideIs
<1>2. SessionTyped' BY <1>1 DEF SessionInv, SessionTyped, Plain
<1>3. OneRun' BY DEF SessionInv, OneRun
<1>4. ReadsOwnTasks' BY DEF ReadsOwnTasks
<1>5. PrivateOnlyWhileActive' BY DEF SessionInv, PrivateOnlyWhileActive, Plain, Active
<1>6. AnswersStored' BY DEF AnswersStored
<1>7. ShownWasStored' BY <1>1 DEF SessionInv, ShownWasStored, Plain, WasStored, Revision
<1>8. OneOwnerShown' BY DEF SessionInv, OneOwnerShown
<1>9. BaselineIsShown' BY DEF SessionInv, BaselineIsShown, Plain
<1>10. EditorFits' BY <1>1 DEF EditorFits, Plain
<1>11. SaveFits' BY DEF SaveFits
<1>12. OncePerConfirm' BY <1>1, OnceKept DEF SessionInv
<1>13. HistoryBounded' BY <1>1, HistoryKept DEF SessionInv
<1> QED BY <1>2, <1>3, <1>4, <1>5, <1>6, <1>7, <1>8, <1>9, <1>10, <1>11, <1>12, <1>13
        DEF SessionInv

(* A run begins with an empty page.                                          *)
LEMMA RunBegins ==
    ASSUME SessionInv, UNCHANGED <<cookie, store, ghosts, late, confirms, changes>>,
           NEW kind \in Kinds \ {"open", "write"},
           NEW arg \in Users \cup {None} \cup Cursors \cup Snapshots \cup Descriptors,
           NEW e \in Editors,
           page' \in Pages, page'.mounted, page'.busy,
           kind = "index" => page'.state = "active",
           kind = "login" => arg \in Users,
           reader' = ClearedReader, editor' = Invalidate(e), run' = NewRun(kind, arg)
    PROVE  SessionInv'
<1>1. /\ cookie' = cookie /\ store' = store /\ ghosts' = ghosts /\ late' = late
      /\ confirms' = confirms /\ changes' = changes
  OBVIOUS
<1>2. /\ run' \in Runs /\ run' # None /\ run'.kind = kind /\ run'.arg = arg
      /\ run'.stage = "sent" /\ run'.live
  BY NewRunTyped DEF SessionInv, SessionTyped
<1>3. /\ editor' \in Editors /\ editor'.base = None /\ editor'.staged = None
      /\ ~editor'.editing
  BY InvalidateIs
<1>4. reader' \in Readers /\ reader'.entries = {} /\ reader'.snap = None BY ClearedTyped
<1>5. SessionTyped' BY <1>1, <1>2, <1>3, <1>4 DEF SessionInv, SessionTyped
<1>6. OneRun' BY <1>2 DEF OneRun
<1>7. ReadsOwnTasks' BY <1>2, <1>3 DEF ReadsOwnTasks, Active
<1>8. PrivateOnlyWhileActive' BY <1>3 DEF PrivateOnlyWhileActive
<1>9. AnswersStored' BY <1>2 DEF AnswersStored
<1>10. ShownWasStored' BY <1>3, <1>4 DEF ShownWasStored
<1>11. OneOwnerShown' BY <1>4 DEF OneOwnerShown
<1>12. BaselineIsShown' BY <1>3 DEF BaselineIsShown
<1>13. EditorFits' BY <1>3 DEF EditorFits
<1>14. SaveFits' BY <1>2 DEF SaveFits
<1>15. OncePerConfirm'
  <2>1. ~(run' # None /\ run'.kind = "write") BY <1>2
  <2> QED BY <1>1, <2>1, OnceKept DEF SessionInv
<1>16. HistoryBounded' BY <1>1, HistoryKept DEF SessionInv
<1> QED BY <1>5, <1>6, <1>7, <1>8, <1>9, <1>10, <1>11, <1>12, <1>13, <1>14, <1>15, <1>16
        DEF SessionInv

LEMMA SessionBegins ==
    ASSUME SessionInv, page.mounted, Outside,
           NEW kind \in {"inspect", "login", "logout"}, NEW arg \in Users \cup {None},
           kind = "login" => arg \in Users,
           NEW e \in Editors, BeginSession(kind, arg, e)
    PROVE  SessionInv'
<1>1. page' \in Pages /\ page'.mounted /\ page'.busy
  BY DEF BeginSession, SessionInv, SessionTyped, Pages, States
<1>2. kind \in Kinds \ {"open", "write"} /\ kind # "index" BY DEF Kinds
<1>3. UNCHANGED <<cookie, store, ghosts, late, confirms, changes>> BY OutsideIs
<1>4. reader' = ClearedReader /\ editor' = Invalidate(e) /\ run' = NewRun(kind, arg)
  BY DEF BeginSession
<1> QED BY <1>1, <1>2, <1>3, <1>4, RunBegins

LEMMA IndexBegins ==
    ASSUME SessionInv, page.mounted, run = None, Outside,
           NEW after \in {None} \cup Cursors \cup Snapshots,
           NEW e, Plain(e), BeginIndex(after, e)
    PROVE  SessionInv'
<1>1. CASE Active
  <2>1. /\ page' = [page EXCEPT !.busy = TRUE] /\ reader' = ClearedReader
        /\ editor' = Invalidate(e) /\ run' = NewRun("index", after)
    BY <1>1 DEF BeginIndex
  <2>2. page' \in Pages /\ page'.mounted /\ page'.busy /\ page'.state = "active"
    BY <1>1, <2>1 DEF Active, SessionInv, SessionTyped, Pages
  <2>3. UNCHANGED <<cookie, store, ghosts, late, confirms, changes>> BY OutsideIs
  <2>4. "index" \in Kinds \ {"open", "write"} /\ e \in Editors BY DEF Kinds, Plain
  <2> QED BY <2>1, <2>2, <2>3, <2>4, RunBegins
<1>2. CASE ~Active
  <2>1. editor' = e /\ page' = page /\ reader' = reader /\ run' = run
    BY <1>2 DEF BeginIndex
  <2>2. page' \in Pages BY <2>1 DEF SessionInv, SessionTyped
  <2> QED BY <2>1, <2>2, EditOnly
<1> QED BY <1>1, <1>2

LEMMA OpenBegins ==
    ASSUME SessionInv, page.mounted, run = None, Outside, NEW entry,
           NEW e, Plain(e), BeginOpen(entry, e)
    PROVE  SessionInv'
<1>1. CASE Active /\ entry \in reader.entries
  <2>1. /\ page' = [page EXCEPT !.busy = TRUE] /\ reader' = [reader EXCEPT !.snap = None]
        /\ editor' = Invalidate(e) /\ run' = NewRun("open", entry)
    BY <1>1 DEF BeginOpen
  <2>2. page' \in Pages /\ page'.mounted /\ page'.busy /\ page'.state = "active"
    BY <1>1, <2>1 DEF Active, SessionInv, SessionTyped, Pages
  <2>3. /\ cookie' = cookie /\ store' = store /\ ghosts' = ghosts /\ late' = late
        /\ confirms' = confirms /\ changes' = changes
    BY OutsideIs
  <2>4. /\ reader' \in Readers /\ reader'.entries = reader.entries /\ reader'.snap = None
        /\ entry \in Snapshots
    BY <1>1, <2>1 DEF SessionInv, SessionTyped, Readers
  <2>5. /\ editor' \in Editors /\ editor'.base = None /\ editor'.staged = None
        /\ ~editor'.editing
    BY <2>1, InvalidateIs DEF Plain
  <2>6. "open" \in Kinds BY DEF Kinds
  <2>7. /\ run' \in Runs /\ run' # None /\ run'.kind = "open" /\ run'.arg = entry
        /\ run'.stage = "sent" /\ run'.live
    BY <2>1, <2>4, <2>6, NewRunTyped DEF SessionInv, SessionTyped
  <2>8. SessionTyped' BY <2>2, <2>3, <2>4, <2>5, <2>7 DEF SessionInv, SessionTyped
  <2>9. OneRun' BY <2>2, <2>7 DEF OneRun
  <2>10. ReadsOwnTasks' BY <1>1, <2>2, <2>4, <2>5, <2>7 DEF ReadsOwnTasks, Active
  <2>11. PrivateOnlyWhileActive' BY <2>2 DEF PrivateOnlyWhileActive, Active
  <2>12. AnswersStored' BY <2>7 DEF AnswersStored
  <2>13. ShownWasStored'
    BY <2>3, <2>4, <2>5 DEF SessionInv, ShownWasStored, WasStored, Revision
  <2>14. OneOwnerShown' BY <2>4 DEF SessionInv, OneOwnerShown
  <2>15. BaselineIsShown' BY <2>5 DEF BaselineIsShown
  <2>16. EditorFits' BY <2>5 DEF EditorFits
  <2>17. SaveFits' BY <2>7 DEF SaveFits
  <2>18. OncePerConfirm'
    <3>1. ~(run' # None /\ run'.kind = "write") BY <2>7
    <3> QED BY <2>3, <3>1, OnceKept DEF SessionInv
  <2>19. HistoryBounded' BY <2>3, HistoryKept DEF SessionInv
  <2> QED BY <2>8, <2>9, <2>10, <2>11, <2>12, <2>13, <2>14, <2>15, <2>16, <2>17, <2>18, <2>19
          DEF SessionInv
<1>2. CASE ~(Active /\ entry \in reader.entries)
  <2>1. editor' = e /\ page' = page /\ reader' = reader /\ run' = run
    BY <1>2 DEF BeginOpen
  <2>2. page' \in Pages BY <2>1 DEF SessionInv, SessionTyped
  <2> QED BY <2>1, <2>2, EditOnly
<1> QED BY <1>1, <1>2

LEMMA PerformKeeps ==
    ASSUME SessionInv, page.mounted, run = None, Outside,
           NEW what \in Departures, NEW e, Plain(e), Perform(what, e)
    PROVE  SessionInv'
<1>1. CASE what.kind \in {"login", "discard"} /\ editor' = e /\ UNCHANGED <<page, reader, run>>
  <2>1. page' = page /\ reader' = reader /\ run' = run BY <1>1
  <2>2. page' \in Pages BY <2>1 DEF SessionInv, SessionTyped
  <2> QED BY <1>1, <2>1, <2>2, EditOnly
<1>2. e \in Editors /\ None \in Users \cup {None} BY DEF Plain
<1>3. what.arg \in {None} \cup Cursors \cup Snapshots BY DEF Departures
<1>4. CASE BeginSession("inspect", None, e) BY <1>2, <1>4, SessionBegins
<1>5. CASE BeginSession("logout", None, e) BY <1>2, <1>5, SessionBegins
<1>6. CASE BeginIndex(what.arg, e) BY <1>3, <1>6, IndexBegins
<1>7. CASE BeginOpen(what.arg, e) BY <1>7, OpenBegins
<1> QED BY <1>1, <1>4, <1>5, <1>6, <1>7 DEF Perform

LEMMA LeaveKeeps ==
    ASSUME SessionInv, page.mounted, run = None, Outside,
           NEW kind \in {"login", "discard", "check", "logout", "load", "next", "open"},
           NEW arg \in {None} \cup Cursors \cup Snapshots, Leave(kind, arg)
    PROVE  SessionInv'
<1>1. PICK what : what = [kind |-> kind, arg |-> arg] OBVIOUS
<1>2. what \in Departures BY <1>1 DEF Departures
<1>3. CASE Held(editor)
  <2>1. editor' = [editor EXCEPT !.departure = what] /\ UNCHANGED <<page, reader, run>>
    BY <1>1, <1>3 DEF Leave
  <2>2. page' = page /\ reader' = reader /\ run' = run BY <2>1
  <2>3. page' \in Pages BY <2>2 DEF SessionInv, SessionTyped
  <2>4. PICK e : e = [editor EXCEPT !.departure = what] OBVIOUS
  <2>5. editor \in Editors BY DEF SessionInv, SessionTyped
  <2>6. /\ e \in Editors /\ e.base = editor.base /\ e.editing = editor.editing
        /\ e.draft = editor.draft /\ e.staged = editor.staged
    BY <1>2, <2>4, <2>5 DEF Editors
  <2>7. Plain(e) BY <2>6, EditorIsPlain DEF Plain
  <2> QED BY <2>1, <2>2, <2>3, <2>4, <2>7, EditOnly
<1>4. CASE ~Held(editor)
  <2>1. Perform(what, editor) BY <1>1, <1>4 DEF Leave
  <2> QED BY <1>2, <2>1, EditorIsPlain, PerformKeeps
<1> QED BY <1>3, <1>4

LEMMA FreeHasNoRun ==
    ASSUME SessionInv, page.mounted, ~page.busy
    PROVE  run = None
BY DEF SessionInv, OneRun

LEMMA ReadyIsFree ==
    ASSUME SessionInv, Ready
    PROVE  /\ page.mounted /\ ~page.busy /\ run = None /\ ~page.dialog
           /\ editor.staged = None /\ editor.departure = None
BY FreeHasNoRun DEF Ready, NoDialog

LEMMA SubmitLoginKeeps ==
    ASSUME SessionInv, NEW u \in Users, SubmitLogin(u)
    PROVE  SessionInv'
<1>1. Outside /\ page.mounted /\ run = None BY ReadyIsFree DEF SubmitLogin
<1>2. CASE Held(editor)
  <2>1. Leave("login", None) BY <1>2 DEF SubmitLogin
  <2> QED BY <1>1, <2>1, LeaveKeeps
<1>3. CASE ~Held(editor)
  <2>1. BeginSession("login", u, editor) BY <1>3 DEF SubmitLogin
  <2>2. editor \in Editors BY DEF SessionInv, SessionTyped
  <2> QED BY <1>1, <2>1, <2>2, SessionBegins
<1> QED BY <1>2, <1>3

(* The page is emptied, and no run begins.                                   *)
LEMMA SubmitInvalidKeeps ==
    ASSUME SessionInv, SubmitInvalid
    PROVE  SessionInv'
<1>1. Outside /\ page.mounted /\ run = None /\ ~page.busy BY ReadyIsFree DEF SubmitInvalid
<1>2. CASE Held(editor)
  <2>1. Leave("login", None) BY <1>2 DEF SubmitInvalid
  <2> QED BY <1>1, <2>1, LeaveKeeps
<1>3. CASE ~Held(editor)
  <2>1. /\ page' = Observed("invalid-input")
        /\ reader' = ClearedReader /\ editor' = Invalidate(editor) /\ run' = run
    BY <1>3 DEF SubmitInvalid
  <2>2. page' \in Pages /\ page'.mounted = page.mounted /\ page'.busy = page.busy
    BY <2>1 DEF Observed, SessionInv, SessionTyped, Pages, States
  <2>3. /\ cookie' = cookie /\ store' = store /\ ghosts' = ghosts /\ late' = late
        /\ confirms' = confirms /\ changes' = changes
    BY <1>1, OutsideIs
  <2>4. /\ editor' \in Editors /\ editor'.base = None /\ editor'.staged = None
        /\ ~editor'.editing
    BY <2>1, InvalidateIs DEF SessionInv, SessionTyped
  <2>5. reader' \in Readers /\ reader'.entries = {} /\ reader'.snap = None
    BY <2>1, ClearedTyped
  <2>6. SessionTyped' BY <2>1, <2>2, <2>3, <2>4, <2>5 DEF SessionInv, SessionTyped
  <2>7. OneRun' BY <2>1, <2>2 DEF SessionInv, OneRun
  <2>8. ReadsOwnTasks' BY <1>1, <2>1 DEF ReadsOwnTasks
  <2>9. PrivateOnlyWhileActive' BY <2>1, <2>4 DEF PrivateOnlyWhileActive
  <2>10. AnswersStored' BY <1>1, <2>1 DEF AnswersStored
  <2>11. ShownWasStored' BY <2>4, <2>5 DEF ShownWasStored
  <2>12. OneOwnerShown' BY <2>5 DEF OneOwnerShown
  <2>13. BaselineIsShown' BY <2>4 DEF BaselineIsShown
  <2>14. EditorFits' BY <2>4 DEF EditorFits
  <2>15. SaveFits' BY <1>1, <2>1 DEF SaveFits
  <2>16. OncePerConfirm' BY <1>1, <2>1, <2>3, OnceKept DEF SessionInv
  <2>17. HistoryBounded' BY <2>3, HistoryKept DEF SessionInv
  <2> QED BY <2>6, <2>7, <2>8, <2>9, <2>10, <2>11, <2>12, <2>13, <2>14, <2>15, <2>16, <2>17
          DEF SessionInv
<1> QED BY <1>2, <1>3

LEMMA DialogOnly ==
    ASSUME SessionInv, run = None, Outside, NEW b \in BOOLEAN,
           page' = [page EXCEPT !.dialog = b], UNCHANGED <<reader, editor, run>>
    PROVE  SessionInv'
<1>1. reader' = reader /\ editor' = editor /\ run' = run OBVIOUS
<1>2. /\ page' \in Pages /\ page'.mounted = page.mounted /\ page'.busy = page.busy
      /\ page'.state = page.state
  BY DEF SessionInv, SessionTyped, Pages
<1> QED BY <1>1, <1>2, EditorIsPlain, EditOnly

LEMMA DialogKeeps ==
    ASSUME SessionInv, ClickCheck \/ ClickLogout \/ CancelLogout \/ ConfirmLogout
    PROVE  SessionInv'
<1>1. CASE ClickCheck
  <2>1. Outside /\ page.mounted /\ run = None /\ Leave("check", None)
    BY <1>1, ReadyIsFree DEF ClickCheck
  <2> QED BY <2>1, LeaveKeeps
<1>2. CASE ClickLogout
  <2>1. Outside /\ page.mounted /\ run = None BY <1>2, ReadyIsFree DEF ClickLogout
  <2>2. CASE Held(editor)
    <3>1. Leave("logout", None) BY <1>2, <2>2 DEF ClickLogout
    <3> QED BY <2>1, <3>1, LeaveKeeps
  <2>3. CASE ~Held(editor)
    <3>1. page' = [page EXCEPT !.dialog = TRUE] /\ UNCHANGED <<reader, editor, run>>
      BY <1>2, <2>3 DEF ClickLogout
    <3> QED BY <2>1, <3>1, DialogOnly
  <2> QED BY <2>2, <2>3
<1>3. CASE CancelLogout
  <2>1. /\ Outside /\ page.mounted /\ ~page.busy
        /\ page' = [page EXCEPT !.dialog = FALSE] /\ UNCHANGED <<reader, editor, run>>
    BY <1>3 DEF CancelLogout
  <2>2. run = None BY <2>1, FreeHasNoRun
  <2> QED BY <2>1, <2>2, DialogOnly
<1>4. CASE ConfirmLogout
  <2>1. Outside /\ page.mounted /\ BeginSession("logout", None, editor)
    BY <1>4 DEF ConfirmLogout
  <2>2. editor \in Editors BY DEF SessionInv, SessionTyped
  <2>3. None \in Users \cup {None} OBVIOUS
  <2> QED BY <2>1, <2>2, <2>3, SessionBegins
<1> QED BY <1>1, <1>2, <1>3, <1>4

LEMMA TasksKeep ==
    ASSUME SessionInv, LoadTasks \/ NextTasks \/ OpenTask
    PROVE  SessionInv'
<1>1. CASE LoadTasks
  <2>1. Outside /\ page.mounted /\ run = None /\ Leave("load", From(0))
    BY <1>1, ReadyIsFree DEF LoadTasks
  <2>2. From(0) \in {None} \cup Cursors \cup Snapshots BY DEF Cursors
  <2> QED BY <2>1, <2>2, LeaveKeeps
<1>2. CASE NextTasks
  <2>1. Outside /\ page.mounted /\ run = None /\ Leave("next", From(reader.cursor))
    BY <1>2, ReadyIsFree DEF NextTasks
  <2>2. reader.cursor \in Tasks BY <1>2 DEF NextTasks, SessionInv, SessionTyped, Readers
  <2>3. From(reader.cursor) \in {None} \cup Cursors \cup Snapshots BY <2>2 DEF Cursors
  <2> QED BY <2>1, <2>3, LeaveKeeps
<1>3. CASE OpenTask
  <2>1. PICK entry \in reader.entries : Leave("open", entry) BY <1>3 DEF OpenTask
  <2>2. Outside /\ page.mounted /\ run = None BY <1>3, ReadyIsFree DEF OpenTask
  <2>3. entry \in Snapshots BY <2>1 DEF SessionInv, SessionTyped, Readers
  <2> QED BY <2>1, <2>2, <2>3, LeaveKeeps
<1> QED BY <1>1, <1>2, <1>3

LEMMA BufferKeeps ==
    ASSUME SessionInv, run = None, Outside, UNCHANGED <<page, reader, run>>,
           NEW e, Plain(e), editor' = e
    PROVE  SessionInv'
<1>1. page' = page /\ reader' = reader /\ run' = run OBVIOUS
<1>2. page' \in Pages BY <1>1 DEF SessionInv, SessionTyped
<1> QED BY <1>1, <1>2, EditOnly

LEMMA EditorIs ==
    ASSUME SessionInv
    PROVE  /\ editor \in Editors /\ editor.base \in Snapshots \cup {None}
           /\ editor.base # None => editor.base.doc \in Docs /\ editor.base.doc # None
           /\ editor.editing => editor.base # None /\ editor.draft \in Docs /\ editor.draft # None
<1>1. editor \in Editors BY DEF SessionInv, SessionTyped
<1>2. editor.base \in Snapshots \cup {None} /\ editor.draft \in Docs \cup {None}
  BY <1>1 DEF Editors
<1>3. editor.base # None => editor.base.doc \in Docs BY <1>2 DEF Snapshots
<1> QED BY <1>1, <1>2, <1>3, NoneApart DEF SessionInv, EditorFits

LEMMA StartEditKeeps ==
    ASSUME SessionInv, StartEdit
    PROVE  SessionInv'
<1>1. /\ Outside /\ UNCHANGED <<page, reader, run>> /\ run = None /\ editor.staged = None
      /\ editor.base # None
      /\ editor' = [editor EXCEPT !.draft = editor.base.doc, !.editing = TRUE, !.phase = "clean"]
  BY ReadyIsFree DEF StartEdit
<1>2. PICK e : e = [editor EXCEPT !.draft = editor.base.doc, !.editing = TRUE, !.phase = "clean"]
  OBVIOUS
<1>3. /\ e \in Editors /\ e.base = editor.base /\ e.draft # None /\ e.staged = None
  BY <1>1, <1>2, EditorIs DEF Editors, Phases
<1>4. Plain(e) BY <1>1, <1>3 DEF Plain
<1>5. editor' = e BY <1>1, <1>2
<1> QED BY <1>1, <1>4, <1>5, BufferKeeps

LEMMA InputKeeps ==
    ASSUME SessionInv, NEW doc \in Docs, Input(doc)
    PROVE  SessionInv'
<1> DEFINE ph == IF doc # editor.base.doc THEN "dirty" ELSE "clean"
           d == (doc # editor.base.doc)
<1>1. /\ Outside /\ UNCHANGED <<page, reader, run>> /\ run = None /\ editor.staged = None
      /\ editor.base # None
      /\ editor' = [editor EXCEPT !.draft = doc, !.dirty = d, !.phase = ph]
  BY ReadyIsFree DEF Input
<1>2. ph \in Phases /\ d \in BOOLEAN BY DEF Phases
<1> HIDE DEF ph, d
<1>3. PICK e : e = [editor EXCEPT !.draft = doc, !.dirty = d, !.phase = ph] OBVIOUS
<1>4. /\ e \in Editors /\ e.base = editor.base /\ e.draft = doc /\ e.staged = None
  BY <1>1, <1>2, <1>3, EditorIs DEF Editors
<1>5. Plain(e) BY <1>1, <1>4, NoneApart DEF Plain
<1>6. editor' = e BY <1>1, <1>3
<1> QED BY <1>1, <1>5, <1>6, BufferKeeps

LEMMA ClickSaveKeeps ==
    ASSUME SessionInv, ClickSave
    PROVE  SessionInv'
<1> DEFINE desc == Descriptor(editor.base, editor.draft, confirms + 1)
           s == [desc |-> desc, base |-> editor.base]
<1>1. /\ Outside /\ UNCHANGED <<page, reader, run>> /\ run = None /\ Active
      /\ editor.editing /\ confirms < MaxConfirms
      /\ editor' = [editor EXCEPT !.staged = s]
  BY ReadyIsFree DEF ClickSave
<1>2. editor.base \in Snapshots /\ editor.draft \in Docs /\ confirms + 1 \in Nat
  BY <1>1, EditorIs DEF SessionInv, SessionTyped
<1>3. desc \in Descriptors /\ desc.task = editor.base.task /\ desc.rev = editor.base.rev
      /\ desc.doc = editor.draft /\ desc.n = confirms + 1
  BY <1>2 DEF Descriptor, Descriptors, Snapshots
<1>4. s \in [desc : Descriptors, base : Snapshots] /\ s.desc = desc /\ s.base = editor.base
  BY <1>2, <1>3
<1> HIDE DEF s, desc
<1>5. PICK e : e = [editor EXCEPT !.staged = s] OBVIOUS
<1>6. /\ e \in Editors /\ e.base = editor.base /\ e.draft = editor.draft /\ e.staged = s
      /\ e.editing = editor.editing
  BY <1>4, <1>5, EditorIs DEF Editors
<1>7. Plain(e) BY <1>1, <1>3, <1>4, <1>6, EditorIs DEF Plain
<1>8. editor' = e BY <1>1, <1>5
<1> QED BY <1>1, <1>7, <1>8, BufferKeeps

LEMMA CancelSaveKeeps ==
    ASSUME SessionInv, CancelSave
    PROVE  SessionInv'
<1>1. /\ Outside /\ UNCHANGED <<page, reader, run>> /\ run = None
      /\ editor' = [editor EXCEPT !.staged = None]
  BY FreeHasNoRun DEF CancelSave
<1>2. PICK e : e = [editor EXCEPT !.staged = None] OBVIOUS
<1>3. /\ e \in Editors /\ e.base = editor.base /\ e.draft = editor.draft /\ e.staged = None
      /\ e.editing = editor.editing
  BY <1>2, EditorIs DEF Editors
<1>4. Plain(e) BY <1>3, EditorIs DEF Plain
<1>5. editor' = e BY <1>1, <1>2
<1> QED BY <1>1, <1>4, <1>5, BufferKeeps

LEMMA DiscardKeeps ==
    ASSUME SessionInv, Discard
    PROVE  SessionInv'
<1>1. Outside /\ page.mounted /\ run = None BY ReadyIsFree DEF Discard
<1>2. CASE Held(editor)
  <2>1. Leave("discard", None) BY <1>2 DEF Discard
  <2> QED BY <1>1, <2>1, LeaveKeeps
<1>3. CASE ~Held(editor)
  <2>1. editor' = Reset(editor, editor.base # None) /\ UNCHANGED <<page, reader, run>>
    BY <1>3 DEF Discard
  <2> QED BY <1>1, <2>1, ResetIsPlain, BufferKeeps
<1> QED BY <1>2, <1>3

LEMMA ConfirmLeaveKeeps ==
    ASSUME SessionInv, ConfirmLeave
    PROVE  SessionInv'
<1>1. /\ Outside /\ page.mounted /\ run = None /\ editor.departure # None
      /\ Perform(editor.departure, Reset(editor, editor.base # None))
  BY FreeHasNoRun DEF ConfirmLeave
<1>2. editor.departure \in Departures BY <1>1, EditorIs DEF Editors
<1> QED BY <1>1, <1>2, ResetIsPlain, PerformKeeps

LEMMA CancelLeaveKeeps ==
    ASSUME SessionInv, CancelLeave
    PROVE  SessionInv'
<1>1. /\ Outside /\ UNCHANGED <<page, reader, run>> /\ run = None
      /\ editor' = [editor EXCEPT !.departure = None]
  BY FreeHasNoRun DEF CancelLeave
<1>2. PICK e : e = [editor EXCEPT !.departure = None] OBVIOUS
<1>3. /\ e \in Editors /\ e.base = editor.base /\ e.draft = editor.draft
      /\ e.staged = editor.staged /\ e.editing = editor.editing
  BY <1>2, EditorIs DEF Editors
<1>4. Plain(e) BY <1>3, EditorIsPlain DEF Plain
<1>5. editor' = e BY <1>1, <1>2
<1> QED BY <1>1, <1>4, <1>5, BufferKeeps

(* The save begins: its number is new.                                       *)
LEMMA ConfirmSaveKeeps ==
    ASSUME SessionInv, ConfirmSave
    PROVE  SessionInv'
<1> DEFINE desc == editor.staged.desc
<1>1. /\ Active /\ ~page.busy /\ editor.staged # None
      /\ editor.staged.base = editor.base
      /\ editor' = [editor EXCEPT !.staged = None, !.attempt = desc, !.phase = "pending"]
      /\ page' = [page EXCEPT !.busy = TRUE]
      /\ run' = NewRun("write", desc)
      /\ confirms' = confirms + 1
      /\ cookie' = cookie /\ store' = store /\ reader' = reader /\ ghosts' = ghosts
      /\ late' = late /\ changes' = changes
  BY DEF ConfirmSave
<1>2. editor.staged \in [desc : Descriptors, base : Snapshots] BY <1>1, EditorIs DEF Editors
<1>3. /\ desc \in Descriptors /\ editor.base \in Snapshots /\ editor.base # None
      /\ desc.task = editor.base.task /\ desc.rev = editor.base.rev
      /\ desc.doc = editor.draft /\ desc.n = confirms + 1 /\ confirms < MaxConfirms
  BY <1>1, <1>2, NoneApart DEF SessionInv, EditorFits
<1> HIDE DEF desc
<1>4. /\ editor' \in Editors /\ editor'.staged = None /\ editor'.attempt = desc
      /\ editor'.base = editor.base /\ editor'.draft = editor.draft
      /\ editor'.editing = editor.editing
  BY <1>1, <1>3, EditorIs DEF Editors, Phases
<1>5. page' \in Pages /\ page'.busy /\ page'.mounted /\ page'.state = "active"
  BY <1>1 DEF SessionInv, SessionTyped, Pages, Active
<1>6. /\ run' \in Runs /\ run' # None /\ run'.kind = "write" /\ run'.arg = desc
      /\ run'.stage = "sent" /\ run'.live
  <2>1. "write" \in Kinds BY DEF Kinds
  <2> QED BY <1>1, <1>3, <2>1, NewRunTyped DEF SessionInv, SessionTyped
<1>7. confirms \in Nat /\ confirms' \in 0 .. MaxConfirms /\ MaxConfirms \in Nat
      /\ confirms' = confirms + 1
  <2>1. confirms \in 0 .. MaxConfirms /\ MaxConfirms \in Nat
    BY SessionPageAssumption DEF SessionInv, SessionTyped
  <2> QED BY <1>1, <1>3, <2>1
<1>8. SessionTyped' BY <1>1, <1>4, <1>5, <1>6, <1>7 DEF SessionInv, SessionTyped
<1>9. OneRun' BY <1>5, <1>6 DEF OneRun
<1>10. ReadsOwnTasks' BY <1>5, <1>6 DEF ReadsOwnTasks, Active
<1>11. PrivateOnlyWhileActive' BY <1>5 DEF PrivateOnlyWhileActive, Active
<1>12. AnswersStored' BY <1>6 DEF AnswersStored
<1>13. ShownWasStored' BY <1>1, <1>4 DEF SessionInv, ShownWasStored, WasStored, Revision
<1>14. OneOwnerShown' BY <1>1 DEF SessionInv, OneOwnerShown
<1>15. BaselineIsShown' BY <1>1, <1>4 DEF SessionInv, BaselineIsShown
<1>16. EditorFits' BY <1>4 DEF SessionInv, EditorFits
<1>17. SaveFits'
  <2>1. reader.snap = editor.base BY <1>3 DEF SessionInv, BaselineIsShown
  <2>2. confirms' > 0 BY <1>7
  <2> QED BY <1>1, <1>3, <1>4, <1>6, <2>1, <2>2 DEF SaveFits
<1>18. \A t \in Tasks : \A i \in DOMAIN store[t] : store[t][i].n \in Nat /\ store[t][i].n <= confirms
  <2> SUFFICES ASSUME NEW t \in Tasks, NEW i \in DOMAIN store[t]
               PROVE  store[t][i].n \in Nat /\ store[t][i].n <= confirms
    OBVIOUS
  <2>1. store[t] \in Seq(Versions) BY DEF SessionInv, SessionTyped
  <2>2. store[t][i] \in Versions BY <2>1
  <2> QED BY <2>2 DEF SessionInv, OncePerConfirm, Versions
<1>19. ~StoredAs(desc.n)
  BY <1>3, <1>7, <1>18 DEF StoredAs
<1>20. OncePerConfirm'
  <2>1. Saves' = Saves BY <1>1 DEF Saves
  <2>2. \A n : StoredAs(n)' <=> StoredAs(n) BY <1>1 DEF StoredAs
  <2>3. \A q \in Saves : q.arg \in Descriptors /\ q.arg.n \in 1 .. confirms /\ ~StoredAs(q.arg.n)
    BY DEF SessionInv, OncePerConfirm
  <2>4. \A q \in Saves : q.arg.n \in 1 .. confirms' /\ q.arg.n # desc.n
    BY <1>3, <1>7, <2>3
  <2>5. \A t \in Tasks : \A i \in DOMAIN store'[t] : store'[t][i].n <= confirms'
    BY <1>1, <1>7, <1>18
  <2> QED BY <1>1, <1>6, <1>19, <2>1, <2>2, <2>3, <2>4, <2>5 DEF SessionInv, OncePerConfirm
<1>21. HistoryBounded'
  <2> SUFFICES ASSUME NEW t \in Tasks
               PROVE  Len(store'[t]) <= 1 + changes' + Cardinality(Made(t)')
    BY DEF HistoryBounded
  <2>1. ASSUME NEW n PROVE n \in Made(t)' <=> n \in Made(t)
    BY <1>1, <1>7, <1>18 DEF Made
  <2>2. Made(t)' = Made(t) BY <2>1
  <2> QED BY <1>1, <2>2 DEF SessionInv, HistoryBounded
<1> QED BY <1>8, <1>9, <1>10, <1>11, <1>12, <1>13, <1>14, <1>15, <1>16, <1>17, <1>20, <1>21
        DEF SessionInv

-----------------------------------------------------------------------------
(* The end of a run.                                                         *)

(* What a page in this state may show.                                       *)
Shown(r, e, state) ==
    /\ r \in Readers /\ e \in Editors
    /\ r # ClearedReader \/ e.base # None \/ e.staged # None => state = "active"
    /\ \A s \in r.entries : WasStored(s)
    /\ r.snap # None => WasStored(r.snap)
    /\ e.base # None => e.base = r.snap
    /\ OneOwner(r.entries)
    /\ r.snap # None => \E x \in r.entries : x.task = r.snap.task
    /\ e.editing => e.base # None /\ e.draft # None
    /\ e.staged # None =>
          /\ e.staged.desc.task = e.staged.base.task
          /\ e.staged.desc.rev = e.staged.base.rev
          /\ e.staged.desc.doc = e.draft
          /\ e.staged.desc.n = confirms + 1 /\ confirms < MaxConfirms

LEMMA RunEnds ==
    ASSUME SessionInv, page.mounted,
           UNCHANGED <<cookie, store, ghosts, confirms, changes>>,
           late' = late \/ late' = late \cup Leftover(run),
           NEW state \in States, page' = [page EXCEPT !.state = state, !.busy = FALSE],
           NEW r, NEW e, Shown(r, e, state), reader' = r, editor' = e, run' = None
    PROVE  SessionInv'
<1>1. /\ cookie' = cookie /\ store' = store /\ ghosts' = ghosts
      /\ confirms' = confirms /\ changes' = changes
  OBVIOUS
<1>2. page' \in Pages /\ page'.mounted /\ ~page'.busy /\ page'.state = state
  BY DEF SessionInv, SessionTyped, Pages
<1>3. late' \subseteq Leftovers BY LateTyped DEF SessionInv, SessionTyped
<1>4. SessionTyped' BY <1>1, <1>2, <1>3 DEF SessionInv, SessionTyped, Shown
<1>5. OneRun' BY <1>2 DEF OneRun
<1>6. ReadsOwnTasks' BY DEF ReadsOwnTasks
<1>7. PrivateOnlyWhileActive' BY <1>2 DEF PrivateOnlyWhileActive, Shown, Active
<1>8. AnswersStored' BY DEF AnswersStored
<1>9. ShownWasStored' BY <1>1 DEF ShownWasStored, Shown, WasStored, Revision
<1>10. OneOwnerShown' BY DEF OneOwnerShown, Shown, OneOwner
<1>11. BaselineIsShown' BY DEF BaselineIsShown, Shown
<1>12. EditorFits' BY <1>1 DEF EditorFits, Shown
<1>13. SaveFits' BY DEF SaveFits
<1>14. OncePerConfirm' BY <1>1, OnceGivenUp
<1>15. HistoryBounded' BY <1>1, HistoryKept DEF SessionInv
<1> QED BY <1>4, <1>5, <1>6, <1>7, <1>8, <1>9, <1>10, <1>11, <1>12, <1>13, <1>14, <1>15
        DEF SessionInv

LEMMA NothingShown ==
    ASSUME NEW e \in Editors, NEW state
    PROVE  Shown(ClearedReader, Invalidate(e), state)
BY InvalidateIs, ClearedTyped DEF Shown, OneOwner

(* What the page shows now, with its editor or the editor invalidated.       *)
LEMMA StillShown ==
    ASSUME SessionInv, NEW e, e = editor \/ e = Invalidate(editor),
           NEW state, state = page.state \/ state = "active"
    PROVE  Shown(reader, e, state)
<1>1. editor \in Editors /\ reader \in Readers BY DEF SessionInv, SessionTyped
<1>2. CASE e = editor
  <2>1. /\ OneOwner(reader.entries)
        /\ reader.snap # None => \E x \in reader.entries : x.task = reader.snap.task
    BY DEF SessionInv, OneOwnerShown, OneOwner
  <2>2. /\ \A s \in reader.entries : WasStored(s)
        /\ reader.snap # None => WasStored(reader.snap)
    BY DEF SessionInv, ShownWasStored
  <2> QED BY <1>1, <1>2, <2>1, <2>2
          DEF SessionInv, Shown, PrivateOnlyWhileActive, BaselineIsShown, EditorFits, Active
<1>3. CASE e = Invalidate(editor)
  <2>1. /\ OneOwner(reader.entries)
        /\ reader.snap # None => \E x \in reader.entries : x.task = reader.snap.task
    BY DEF SessionInv, OneOwnerShown, OneOwner
  <2>2. /\ \A s \in reader.entries : WasStored(s)
        /\ reader.snap # None => WasStored(reader.snap)
    BY DEF SessionInv, ShownWasStored
  <2>3. e \in Editors /\ e.base = None /\ e.staged = None /\ ~e.editing
    BY <1>1, <1>3, InvalidateIs
  <2> QED BY <1>1, <2>1, <2>2, <2>3 DEF SessionInv, Shown, PrivateOnlyWhileActive, Active
<1> QED BY <1>2, <1>3

LEMMA ObservingEnds ==
    ASSUME SessionInv, page.mounted,
           UNCHANGED <<cookie, store, ghosts, confirms, changes>>,
           late' = late \/ late' = late \cup Leftover(run),
           NEW state \in States, NEW e, e = editor \/ e = Invalidate(editor),
           EndObserving(state, e)
    PROVE  SessionInv'
<1>1. /\ page' = [page EXCEPT !.state = state, !.busy = FALSE]
      /\ reader' = ReaderAfter(state) /\ editor' = EditorAfter(state, e) /\ run' = None
  BY DEF EndObserving, Observed
<1>2. Shown(ReaderAfter(state), EditorAfter(state, e), state)
  <2>1. CASE state = "active" BY <2>1, StillShown DEF ReaderAfter, EditorAfter
  <2>2. CASE state # "active"
    <3>1. e \in Editors BY InvalidateIs DEF SessionInv, SessionTyped
    <3> QED BY <2>2, <3>1, NothingShown DEF ReaderAfter, EditorAfter
  <2> QED BY <2>1, <2>2
<1> QED BY <1>1, <1>2, RunEnds

LEMMA WithEnds ==
    ASSUME SessionInv, page.mounted,
           UNCHANGED <<cookie, store, ghosts, confirms, changes>>,
           late' = late \/ late' = late \cup Leftover(run),
           NEW r, NEW e, Shown(r, e, page.state), EndWith(r, e)
    PROVE  SessionInv'
<1>1. page \in Pages /\ page.state \in States BY DEF SessionInv, SessionTyped, Pages
<1>2. page' = [page EXCEPT !.state = page.state, !.busy = FALSE]
  BY <1>1 DEF EndWith, Pages
<1>3. reader' = r /\ editor' = e /\ run' = None BY DEF EndWith
<1> QED BY <1>1, <1>2, <1>3, RunEnds

(* The run goes on, and the page stays as it is.                             *)
LEMMA RunGoesOn ==
    ASSUME SessionInv, run # None,
           cookie' \in Users \cup {None},
           UNCHANGED <<store, page, reader, editor, ghosts, late, confirms, changes>>,
           run' # None, run' \in Runs, run'.live,
           run'.kind = "write" =>
               /\ run.kind = "write" /\ run'.arg = run.arg
               /\ run.stage # "denied" /\ run'.stage = "answered",
           ReadsOwnTasks', AnswersStored'
    PROVE  SessionInv'
<1>1. /\ store' = store /\ page' = page /\ reader' = reader /\ editor' = editor
      /\ ghosts' = ghosts /\ late' = late /\ confirms' = confirms /\ changes' = changes
  OBVIOUS
<1>2. SessionTyped' BY <1>1 DEF SessionInv, SessionTyped
<1>3. OneRun' BY <1>1 DEF SessionInv, OneRun
<1>4. PrivateOnlyWhileActive' BY <1>1 DEF SessionInv, PrivateOnlyWhileActive, Active
<1>5. ShownWasStored' BY <1>1 DEF SessionInv, ShownWasStored, WasStored, Revision
<1>6. OneOwnerShown' BY <1>1 DEF SessionInv, OneOwnerShown
<1>7. BaselineIsShown' BY <1>1 DEF SessionInv, BaselineIsShown
<1>8. EditorFits' BY <1>1 DEF SessionInv, EditorFits
<1>9. SaveFits' BY <1>1 DEF SessionInv, SaveFits
<1>10. OncePerConfirm' BY <1>1, OnceKept DEF SessionInv
<1>11. HistoryBounded' BY <1>1, HistoryKept DEF SessionInv
<1> QED BY <1>2, <1>3, <1>4, <1>5, <1>6, <1>7, <1>8, <1>9, <1>10, <1>11 DEF SessionInv

LEMMA SessionSettlesKeeps ==
    ASSUME SessionInv, SessionSettles
    PROVE  SessionInv'
<1>1. Outside /\ page.mounted /\ run # None BY DEF SessionSettles, Current
<1>2. UNCHANGED <<cookie, store, ghosts, confirms, changes>> /\ late' = late
  BY <1>1, OutsideIs
<1>3. ASSUME NEW state \in States, EndObserving(state, editor)
      PROVE  SessionInv'
  BY <1>1, <1>2, <1>3, ObservingEnds
<1>4. CASE run.kind \in {"inspect", "confirm-login"}
  <2>1. PICK state : state = CASE run.ans.code = 200 -> "active"
                               [] run.kind = "inspect" -> "unauthenticated"
                               [] OTHER -> "unknown"
    OBVIOUS
  <2>2. EndObserving(state, editor) BY <1>4, <2>1 DEF SessionSettles
  <2>3. state \in States BY <2>1 DEF States
  <2> QED BY <1>3, <2>2, <2>3
<1>5. CASE run.kind = "login"
  <2>1. CASE run.ans.code = 200
    <3>1. run' = NewRun("confirm-login", None) /\ UNCHANGED pageVars
      BY <1>5, <2>1 DEF SessionSettles
    <3>2. "confirm-login" \in Kinds BY DEF Kinds
    <3>3. /\ run' \in Runs /\ run' # None /\ run'.kind = "confirm-login"
          /\ run'.stage = "sent" /\ run'.live
      BY <3>1, <3>2, NewRunTyped DEF SessionInv, SessionTyped
    <3>4. UNCHANGED <<store, page, reader, editor, ghosts, late, confirms, changes>>
      BY <1>2, <3>1 DEF pageVars
    <3>5. ReadsOwnTasks' BY <3>3 DEF ReadsOwnTasks
    <3>6. AnswersStored' BY <3>3 DEF AnswersStored
    <3>7. cookie' \in Users \cup {None} BY <1>2 DEF SessionInv, SessionTyped
    <3> QED BY <1>1, <3>3, <3>4, <3>5, <3>6, <3>7, RunGoesOn
  <2>2. CASE run.ans.code # 200
    <3>1. EndObserving("session-present", editor) BY <1>5, <2>2 DEF SessionSettles
    <3>2. "session-present" \in States BY DEF States
    <3> QED BY <1>3, <3>1, <3>2
  <2> QED BY <2>1, <2>2
<1>6. CASE run.kind = "logout"
  <2>1. PICK state : state = IF run.ans.code = 200 THEN "unauthenticated" ELSE "unknown"
    OBVIOUS
  <2>2. EndObserving(state, editor) BY <1>6, <2>1 DEF SessionSettles
  <2>3. state \in States BY <2>1 DEF States
  <2> QED BY <1>3, <2>2, <2>3
<1> QED BY <1>4, <1>5, <1>6 DEF SessionSettles

LEMMA DeniedIs ==
    ASSUME NEW code
    PROVE  Denied(code) \in States
BY DEF Denied, States

LEMMA ReadSettlesKeeps ==
    ASSUME SessionInv, ReadSettles
    PROVE  SessionInv'
<1>1. /\ Outside /\ page.mounted /\ run # None /\ run.stage = "answered"
      /\ run.kind \in {"index", "open"}
  BY DEF ReadSettles, Current
<1>2. UNCHANGED <<cookie, store, ghosts, confirms, changes>> /\ late' = late
  BY <1>1, OutsideIs
<1>3. Active /\ editor \in Editors BY <1>1 DEF SessionInv, SessionTyped, ReadsOwnTasks
<1>4. CASE run.ans.code = 200 /\ run.kind = "index" /\ EndWith(IndexShown(run.ans), editor)
  <2>1. reader = ClearedReader /\ editor.base = None
    BY <1>1, <1>4 DEF SessionInv, ReadsOwnTasks
  <2>2. /\ run.ans.entries \subseteq Snapshots /\ run.ans.next \in Tasks \cup {None}
        /\ OneOwner(run.ans.entries) /\ \A s \in run.ans.entries : WasStored(s)
    BY <1>1, <1>4 DEF SessionInv, AnswersStored
  <2>3. PICK r : r = IndexShown(run.ans) OBVIOUS
  <2>4. /\ r \in Readers /\ r.entries = run.ans.entries /\ r.snap = None
    BY <2>1, <2>2, <2>3, ClearedTyped DEF IndexShown, Readers
  <2>5. Shown(reader, editor, page.state) BY StillShown
  <2>6. Shown(r, editor, page.state)
    BY <1>3, <2>1, <2>2, <2>4, <2>5 DEF Shown, Active
  <2> QED BY <1>1, <1>2, <1>4, <2>3, <2>6, WithEnds
<1>5. CASE /\ run.ans.code = 200 /\ run.kind = "open"
           /\ run' = [run EXCEPT !.stage = "hashing"] /\ UNCHANGED pageVars
  <2>1. run \in Runs /\ run.live BY <1>1 DEF SessionInv, SessionTyped
  <2>2. /\ run' \in Runs /\ run'.kind = "open" /\ run'.arg = run.arg /\ run'.live
        /\ run'.stage = "hashing" /\ run'.ans = run.ans
    BY <1>5, <2>1 DEF Runs
  <2>3. run' # None BY <2>2, NoneApart
  <2>4. UNCHANGED <<store, page, reader, editor, ghosts, late, confirms, changes>>
    BY <1>2, <1>5 DEF pageVars
  <2>5. page' = page /\ reader' = reader /\ editor' = editor /\ store' = store
    BY <2>4
  <2>6. ReadsOwnTasks'
    BY <1>1, <1>5, <2>2, <2>5 DEF SessionInv, ReadsOwnTasks, Active
  <2>7. run.ans \in Answers /\ run.ans.snap \in Snapshots /\ WasStored(run.ans.snap)
        /\ run.ans.snap.task = run.arg.task
    BY <1>1, <1>5 DEF SessionInv, AnswersStored
  <2>9. AnswersStored' BY <1>5, <2>2, <2>5, <2>7 DEF AnswersStored, WasStored, Revision
  <2>10. cookie' \in Users \cup {None} BY <1>2 DEF SessionInv, SessionTyped
  <2> QED BY <1>1, <2>2, <2>3, <2>4, <2>6, <2>9, <2>10, RunGoesOn
<1>6. CASE EndWith(ClearedReader, Invalidate(editor))
  <2>1. Shown(ClearedReader, Invalidate(editor), page.state) BY <1>3, NothingShown
  <2> QED BY <1>1, <1>2, <1>6, <2>1, WithEnds
<1>7. CASE EndObserving(Denied(run.ans.code), Invalidate(editor))
  BY <1>1, <1>2, <1>7, DeniedIs, ObservingEnds
<1> QED BY <1>4, <1>5, <1>6, <1>7 DEF ReadSettles

(* Contents that were hashed for a page that is gone change nothing.         *)
LEMMA HashedKeeps ==
    ASSUME SessionInv, NEW r, Hashed(r)
    PROVE  SessionInv'
<1>1. /\ r \in ghosts \cup {run} /\ r # None /\ r.stage = "hashing"
      /\ run' = IF r = run THEN None ELSE run
      /\ ghosts' = ghosts \ {r}
  BY DEF Hashed
<1>2. /\ cookie' = cookie /\ store' = store /\ late' = late
      /\ confirms' = confirms /\ changes' = changes
  BY DEF Hashed, bounds
<1>3. /\ \A g \in ghosts : g \in Runs /\ ~g.live
      /\ run # None => run \in Runs /\ run.live
  BY DEF SessionInv, SessionTyped
<1>4. CASE r = run
  <2>1. run # None /\ run.kind = "open" /\ page.mounted /\ run.live /\ Active
    BY <1>1, <1>3, <1>4 DEF SessionInv, ReadsOwnTasks, Active
  <2>2. /\ reader' = [reader EXCEPT !.snap = run.ans.snap]
        /\ editor' = IF Held(editor) THEN editor ELSE [CleanEditor EXCEPT !.base = run.ans.snap]
        /\ page' = [page EXCEPT !.busy = @ /\ r # run]
    BY <1>4, <2>1 DEF Hashed, Current
  <2>3. page \in Pages /\ page.state \in States /\ page.state = "active"
    BY <2>1 DEF SessionInv, SessionTyped, Pages, Active
  <2>4. page' = [page EXCEPT !.state = page.state, !.busy = FALSE]
    BY <1>4, <2>2, <2>3 DEF Pages
  <2>5. ghosts' = ghosts BY <1>1, <1>3, <1>4
  <2>6. /\ run.ans.snap \in Snapshots /\ WasStored(run.ans.snap)
        /\ run.ans.snap.task = run.arg.task /\ run.arg \in reader.entries
        /\ editor.base = None
    BY <1>1, <1>4, <2>1 DEF SessionInv, AnswersStored, ReadsOwnTasks
  <2>7. PICK s : s = run.ans.snap OBVIOUS
  <2>8. PICK q : q = [reader EXCEPT !.snap = s] OBVIOUS
  <2>9. PICK e : e = IF Held(editor) THEN editor ELSE [CleanEditor EXCEPT !.base = s] OBVIOUS
  <2>10. reader \in Readers /\ editor \in Editors BY DEF SessionInv, SessionTyped
  <2>11. q \in Readers /\ q.entries = reader.entries /\ q.snap = s
    BY <2>6, <2>7, <2>8, <2>10 DEF Readers
  <2>12. /\ e \in Editors
         /\ e = editor \/ (e.base = s /\ e.staged = None /\ ~e.editing)
    BY <2>6, <2>7, <2>9, <2>10, CleanTyped DEF Editors
  <2>13. Shown(reader, editor, page.state) BY StillShown
  <2>14. s # None /\ WasStored(s) /\ \E x \in q.entries : x.task = s.task
    BY <2>6, <2>7, <2>11, NoneApart
  <2>15. Shown(q, e, page.state)
    BY <2>3, <2>6, <2>11, <2>12, <2>13, <2>14 DEF Shown
  <2>16. reader' = q /\ editor' = e /\ run' = None BY <1>1, <1>4, <2>2, <2>7, <2>8, <2>9
  <2>17. UNCHANGED <<cookie, store, ghosts, confirms, changes>> /\ late' = late
    BY <1>2, <2>5
  <2> QED BY <2>1, <2>3, <2>4, <2>15, <2>16, <2>17, RunEnds
<1>5. CASE r # run
  <2>1. r \in ghosts /\ ~r.live BY <1>1, <1>3, <1>5
  <2>2. page' = page /\ reader' = reader /\ editor' = editor /\ run' = run
    BY <1>1, <1>5, <2>1 DEF Hashed, Current, pageVars
  <2>3. SessionTyped' BY <1>1, <1>2, <2>2 DEF SessionInv, SessionTyped
  <2>4. OneRun' BY <2>2 DEF SessionInv, OneRun
  <2>5. ReadsOwnTasks' BY <2>2 DEF SessionInv, ReadsOwnTasks, Active
  <2>6. PrivateOnlyWhileActive' BY <2>2 DEF SessionInv, PrivateOnlyWhileActive, Active
  <2>7. AnswersStored' BY <1>2, <2>2 DEF SessionInv, AnswersStored, WasStored, Revision
  <2>8. ShownWasStored' BY <1>2, <2>2 DEF SessionInv, ShownWasStored, WasStored, Revision
  <2>9. OneOwnerShown' BY <2>2 DEF SessionInv, OneOwnerShown
  <2>10. BaselineIsShown' BY <2>2 DEF SessionInv, BaselineIsShown
  <2>11. EditorFits' BY <1>2, <2>2 DEF SessionInv, EditorFits
  <2>12. SaveFits' BY <1>2, <2>2 DEF SessionInv, SaveFits
  <2>13. OncePerConfirm' BY <1>2, <2>2, OnceKept DEF SessionInv
  <2>14. HistoryBounded' BY <1>2, HistoryKept DEF SessionInv
  <2> QED BY <2>3, <2>4, <2>5, <2>6, <2>7, <2>8, <2>9, <2>10, <2>11, <2>12, <2>13, <2>14
          DEF SessionInv
<1> QED BY <1>4, <1>5

LEMMA WriteDeniedKeeps ==
    ASSUME SessionInv, WriteDenied
    PROVE  SessionInv'
<1>1. /\ Outside /\ run # None /\ run.stage = "answered" /\ run.kind = "write"
      /\ run.ans.code \in {401, 403}
      /\ page' = Observed("unknown") /\ reader' = ClearedReader
      /\ editor' = Invalidate(editor) /\ run' = [run EXCEPT !.stage = "denied"]
  BY DEF WriteDenied
<1>2. /\ cookie' = cookie /\ store' = store /\ ghosts' = ghosts /\ late' = late
      /\ confirms' = confirms /\ changes' = changes
  BY <1>1, OutsideIs
<1>3. run \in Runs /\ run.live BY <1>1 DEF SessionInv, SessionTyped
<1>4. /\ run' \in Runs /\ run'.kind = "write" /\ run'.arg = run.arg /\ run'.live
      /\ run'.stage = "denied" /\ run'.ans = run.ans
  BY <1>1, <1>3 DEF Runs
<1>5. run' # None BY <1>4, NoneApart
<1>6. page' \in Pages /\ page'.mounted = page.mounted /\ page'.busy = page.busy
  BY <1>1 DEF Observed, SessionInv, SessionTyped, Pages, States
<1>7. /\ editor' \in Editors /\ editor'.base = None /\ editor'.staged = None
      /\ ~editor'.editing
  BY <1>1, InvalidateIs DEF SessionInv, SessionTyped
<1>8. reader' \in Readers /\ reader'.entries = {} /\ reader'.snap = None
  BY <1>1, ClearedTyped
<1>9. SessionTyped' BY <1>2, <1>4, <1>6, <1>7, <1>8 DEF SessionInv, SessionTyped
<1>10. OneRun' BY <1>1, <1>5, <1>6 DEF SessionInv, OneRun
<1>11. ReadsOwnTasks' BY <1>4 DEF ReadsOwnTasks
<1>12. PrivateOnlyWhileActive' BY <1>1, <1>7 DEF PrivateOnlyWhileActive
<1>13. run.ans \in Answers BY <1>1 DEF SessionInv, AnswersStored
<1>14. run.ans.code # 200 BY <1>1
<1>15. AnswersStored' BY <1>4, <1>13, <1>14 DEF AnswersStored
<1>16. ShownWasStored' BY <1>7, <1>8 DEF ShownWasStored
<1>17. OneOwnerShown' BY <1>8 DEF OneOwnerShown
<1>18. BaselineIsShown' BY <1>7 DEF BaselineIsShown
<1>19. EditorFits' BY <1>7 DEF EditorFits
<1>20. SaveFits' BY <1>1, <1>2, <1>4 DEF SessionInv, SaveFits
<1>21. OncePerConfirm' BY <1>1, <1>2, <1>4, OnceKept DEF SessionInv
<1>22. HistoryBounded' BY <1>2, HistoryKept DEF SessionInv
<1> QED BY <1>9, <1>10, <1>11, <1>12, <1>15, <1>16, <1>17, <1>18, <1>19, <1>20, <1>21, <1>22
        DEF SessionInv

(* The receipt of a save: list, contents and editor go on together.          *)
LEMMA SavedShown ==
    ASSUME SessionInv, run # None, run.kind = "write", run.stage = "answered",
           run.ans.code = 200,
           NEW stored, stored = [task |-> run.arg.task, rev |-> run.arg.rev + 1, doc |-> run.arg.doc],
           NEW e, e = [editor EXCEPT !.base = stored, !.draft = stored.doc, !.attempt = None,
                                     !.dirty = FALSE, !.phase = "saved"]
    PROVE  Shown(SavedReader(stored), e, page.state)
<1>1. run.arg \in Descriptors /\ editor.draft = run.arg.doc
      /\ reader.snap # None /\ reader.snap.task = run.arg.task
  BY DEF SessionInv, SaveFits
<1>2. Active /\ page.state = "active" BY DEF SessionInv, ReadsOwnTasks, Active
<1>3. /\ stored \in Snapshots /\ stored.task = run.arg.task /\ stored.doc = editor.draft
      /\ stored.doc \in Docs
  <2>1. run.arg.rev + 1 \in Nat \ {0} /\ run.arg.task \in Tasks /\ run.arg.doc \in Docs
    BY <1>1 DEF Descriptors
  <2> QED BY <1>1, <2>1 DEF Snapshots
<1>4. WasStored(stored) BY DEF SessionInv, AnswersStored
<1>5. reader \in Readers /\ editor \in Editors BY DEF SessionInv, SessionTyped
<1>6. PICK q : q = SavedReader(stored) OBVIOUS
<1>7. /\ q.entries = {IF x.task = stored.task THEN stored ELSE x : x \in reader.entries}
      /\ q.snap = stored /\ q \in Readers
  <2>1. PICK es : es = {IF x.task = stored.task THEN stored ELSE x : x \in reader.entries}
    OBVIOUS
  <2>2. q = [reader EXCEPT !.entries = es, !.snap = stored] BY <1>6, <2>1 DEF SavedReader
  <2>3. reader.entries \subseteq Snapshots BY <1>5 DEF Readers
  <2>4. es \subseteq Snapshots BY <1>3, <2>1, <2>3
  <2>5. q \in Readers /\ q.entries = es /\ q.snap = stored BY <1>3, <1>5, <2>2, <2>4 DEF Readers
  <2> QED BY <2>1, <2>5
<1>8. /\ e \in Editors /\ e.base = stored /\ e.draft = editor.draft
      /\ e.staged = editor.staged /\ e.editing = editor.editing
  BY <1>3, <1>5 DEF Editors, Phases
<1>9. Shown(reader, editor, page.state) BY StillShown
<1>10. \A s \in q.entries : WasStored(s) BY <1>4, <1>7, <1>9 DEF Shown
<1>11. OneOwner(q.entries) BY <1>7, <1>9 DEF Shown, OneOwner
<1>12. \E x \in q.entries : x.task = stored.task
  <2>1. PICK x \in reader.entries : x.task = stored.task BY <1>1, <1>3, <1>9 DEF Shown
  <2> QED BY <1>7, <2>1
<1>13. e.draft # None BY <1>3, <1>8, NoneApart
<1>14. stored # None BY <1>3, NoneApart
<1>15. e.staged # None =>
          /\ e.staged.desc.task = e.staged.base.task
          /\ e.staged.desc.rev = e.staged.base.rev
          /\ e.staged.desc.doc = e.draft
          /\ e.staged.desc.n = confirms + 1 /\ confirms < MaxConfirms
  BY <1>8, <1>9 DEF Shown
<1>16. Shown(q, e, page.state)
  BY <1>2, <1>4, <1>7, <1>8, <1>10, <1>11, <1>12, <1>13, <1>14, <1>15 DEF Shown
<1> QED BY <1>6, <1>16

LEMMA PhaseShown ==
    ASSUME SessionInv, NEW ph \in Phases
    PROVE  Shown(reader, [editor EXCEPT !.phase = ph], page.state)
<1>1. PICK e : e = [editor EXCEPT !.phase = ph] OBVIOUS
<1>2. editor \in Editors BY DEF SessionInv, SessionTyped
<1>3. /\ e \in Editors /\ e.base = editor.base /\ e.draft = editor.draft
      /\ e.staged = editor.staged /\ e.editing = editor.editing
  BY <1>1, <1>2 DEF Editors
<1>4. Shown(reader, e, page.state) BY <1>3, StillShown DEF Shown
<1> QED BY <1>1, <1>4

LEMMA WriteSettlesKeeps ==
    ASSUME SessionInv, WriteSettles
    PROVE  SessionInv'
<1>1. Outside /\ page.mounted /\ run # None /\ run.kind = "write"
  BY DEF WriteSettles, Current
<1>2. UNCHANGED <<cookie, store, ghosts, confirms, changes>> /\ late' = late
  BY <1>1, OutsideIs
<1>3. CASE EndObserving(Denied(run.ans.code), editor)
  BY <1>1, <1>2, <1>3, DeniedIs, ObservingEnds
<1>4. ASSUME run.stage = "answered", ReceiptMatches(run),
             NEW stored,
             stored = [task |-> run.arg.task, rev |-> run.arg.rev + 1, doc |-> run.arg.doc],
             EndWith(SavedReader(stored),
                     [editor EXCEPT !.base = stored, !.draft = stored.doc, !.attempt = None,
                                    !.dirty = FALSE, !.phase = "saved"])
      PROVE  SessionInv'
  <2>1. PICK e : e = [editor EXCEPT !.base = stored, !.draft = stored.doc, !.attempt = None,
                                    !.dirty = FALSE, !.phase = "saved"]
    OBVIOUS
  <2>2. run.ans.code = 200 BY <1>4 DEF ReceiptMatches
  <2>3. Shown(SavedReader(stored), e, page.state) BY <1>1, <1>4, <2>1, <2>2, SavedShown
  <2>4. EndWith(SavedReader(stored), e) BY <1>4, <2>1
  <2>5. PICK q : q = SavedReader(stored) OBVIOUS
  <2> QED BY <1>1, <1>2, <2>3, <2>4, <2>5, WithEnds
<1>5. CASE EndWith(reader, [editor EXCEPT
                 !.phase = IF run.ans.code = 409 THEN "conflict" ELSE "unknown"])
  <2>1. PICK ph : ph = IF run.ans.code = 409 THEN "conflict" ELSE "unknown" OBVIOUS
  <2>2. ph \in Phases BY <2>1 DEF Phases
  <2>3. PICK e : e = [editor EXCEPT !.phase = ph] OBVIOUS
  <2>4. Shown(reader, e, page.state) BY <2>2, <2>3, PhaseShown
  <2>5. EndWith(reader, e) BY <1>5, <2>1, <2>3
  <2> QED BY <1>1, <1>2, <2>4, <2>5, WithEnds
<1> QED BY <1>3, <1>4, <1>5 DEF WriteSettles

LEMMA RunFailsKeeps ==
    ASSUME SessionInv, RunFails
    PROVE  SessionInv'
<1>1. /\ page.mounted /\ run # None /\ late' = late \cup Leftover(run)
      /\ UNCHANGED <<cookie, store, ghosts, confirms, changes>>
  BY DEF RunFails, Current, bounds
<1>2. "unknown" \in States /\ "unknown" \in Phases BY DEF States, Phases
<1>3. CASE EndObserving("unknown", editor) BY <1>1, <1>2, <1>3, ObservingEnds
<1>4. CASE EndObserving("unknown", Invalidate(editor)) BY <1>1, <1>2, <1>4, ObservingEnds
<1>5. CASE EndWith(ClearedReader, Invalidate(editor))
  <2>1. editor \in Editors BY DEF SessionInv, SessionTyped
  <2>2. Shown(ClearedReader, Invalidate(editor), page.state) BY <2>1, NothingShown
  <2> QED BY <1>1, <1>5, <2>2, WithEnds
<1>6. CASE EndWith(reader, editor)
  <2>1. Shown(reader, editor, page.state) BY StillShown
  <2> QED BY <1>1, <1>6, <2>1, WithEnds
<1>7. CASE SaveUnconfirmed
  <2>1. PICK e : e = [editor EXCEPT !.phase = "unknown"] OBVIOUS
  <2>2. Shown(reader, e, page.state) BY <1>2, <2>1, PhaseShown
  <2>3. EndWith(reader, e) BY <1>7, <2>1 DEF SaveUnconfirmed
  <2> QED BY <1>1, <2>2, <2>3, WithEnds
<1> QED BY <1>3, <1>4, <1>5, <1>6, <1>7 DEF RunFails

-----------------------------------------------------------------------------
(* The platform.                                                             *)

(* What the answer to the page's request carries, the platform has stored.   *)
AnswerFits(r, ans) ==
    /\ r.kind = "index" /\ ans.code = 200 =>
          /\ ans.entries \subseteq Snapshots /\ ans.next \in Tasks \cup {None}
          /\ OneOwner(ans.entries) /\ \A s \in ans.entries : WasStored(s)
    /\ r.kind = "open" /\ ans.code = 200 =>
          ans.snap \in Snapshots /\ WasStored(ans.snap) /\ ans.snap.task = r.arg.task
    /\ r.kind = "write" /\ ans.code = 200 =>
          WasStored([task |-> r.arg.task, rev |-> r.arg.rev + 1, doc |-> r.arg.doc])

LEMMA AnsweredIs ==
    ASSUME SessionInv, run # None, NEW ans \in Answers, Answered(ans)
    PROVE  /\ run' \in Runs /\ run' # None /\ run'.kind = run.kind /\ run'.arg = run.arg
           /\ run'.live /\ run'.stage = "answered" /\ run'.ans = ans
<1>1. run \in Runs /\ run.live BY DEF SessionInv, SessionTyped
<1>2. run' = [run EXCEPT !.stage = "answered", !.ans = ans] BY DEF Answered
<1>3. /\ run' \in Runs /\ run'.kind = run.kind /\ run'.arg = run.arg
      /\ run'.live /\ run'.stage = "answered" /\ run'.ans = ans
  BY <1>1, <1>2 DEF Runs
<1> QED BY <1>3, NoneApart

LEMMA AnswerKeeps ==
    ASSUME SessionInv, run # None, run.stage = "sent", cookie' \in Users \cup {None},
           UNCHANGED <<store, page, reader, editor, ghosts, late, confirms, changes>>,
           NEW ans \in Answers, AnswerFits(run, ans), Answered(ans)
    PROVE  SessionInv'
<1>1. /\ run' \in Runs /\ run' # None /\ run'.kind = run.kind /\ run'.arg = run.arg
      /\ run'.live /\ run'.stage = "answered" /\ run'.ans = ans
  BY AnsweredIs
<1>2. page' = page /\ reader' = reader /\ editor' = editor /\ store' = store OBVIOUS
<1>3. ReadsOwnTasks' BY <1>1, <1>2 DEF SessionInv, ReadsOwnTasks, Active
<1>4. AnswersStored' BY <1>1, <1>2 DEF AnswersStored, AnswerFits, WasStored, Revision
<1> QED BY <1>1, <1>3, <1>4, RunGoesOn

LEMMA CodeFits ==
    ASSUME NEW r, NEW code \in Nat, r.kind \in {"index", "open", "write"} => code # 200,
           NEW ans, ans = [code |-> code]
    PROVE  ans \in Answers /\ AnswerFits(r, ans)
<1>1. ans \in [code : Nat] /\ ans.code = code OBVIOUS
<1> QED BY <1>1 DEF Answers, AnswerFits

LEMMA CookieIs ==
    ASSUME SessionInv
    PROVE  /\ cookie \in Users \cup {None}
           /\ Users \cup {None} \subseteq Users \cup {None} \cup Cursors \cup Snapshots \cup Descriptors
BY DEF SessionInv, SessionTyped

LEMMA ServeSessionKeeps ==
    ASSUME SessionInv, ServeSession
    PROVE  SessionInv'
<1>0. cookie' \in Users \cup {None}
  BY CookieIs DEF ServeSession, SessionInv, ReadsOwnTasks
<1>1. /\ run # None /\ run.stage = "sent"
      /\ run.kind \in {"inspect", "confirm-login", "login", "logout"}
      /\ UNCHANGED <<store, page, reader, editor, ghosts, late, confirms, changes>>
  BY DEF ServeSession, pageVars, bounds
<1>2. ASSUME NEW code \in Nat, Answered([code |-> code])
      PROVE  SessionInv'
  <2>1. PICK ans : ans = [code |-> code] OBVIOUS
  <2>2. ans \in Answers /\ AnswerFits(run, ans) BY <1>1, <2>1, CodeFits
  <2>3. Answered(ans) BY <1>2, <2>1
  <2> QED BY <1>0, <1>1, <2>2, <2>3, AnswerKeeps
<1>3. CASE Answered([code |-> IF Authorized(run.as) THEN 200 ELSE 401])
  <2>1. PICK code \in Nat : code = IF Authorized(run.as) THEN 200 ELSE 401 OBVIOUS
  <2>2. Answered([code |-> code]) BY <1>3, <2>1
  <2> QED BY <1>2, <2>2
<1>4. CASE Answered([code |-> IF run.as = None THEN 200 ELSE 409])
  <2>1. PICK code \in Nat : code = IF run.as = None THEN 200 ELSE 409 OBVIOUS
  <2>2. Answered([code |-> code]) BY <1>4, <2>1
  <2> QED BY <1>2, <2>2
<1> QED BY <1>3, <1>4 DEF ServeSession

(* A page of the index.                                                      *)
LEMMA IndexFits ==
    ASSUME SessionInv, NEW after
    PROVE  /\ Index(after) \in Answers /\ Index(after).code = 200
           /\ Index(after).entries \subseteq Snapshots /\ Index(after).next \in Tasks \cup {None}
           /\ OneOwner(Index(after).entries) /\ \A s \in Index(after).entries : WasStored(s)
<1> DEFINE mine == {t \in Tasks : Owner[t] = cookie /\ t > after}
           shown == {t \in mine : Cardinality({u \in mine : u <= t}) <= PageSize}
           entries == {Snapshot(t) : t \in shown}
           next == IF Cardinality(mine) > PageSize THEN Max(shown) ELSE None
<1>1. Index(after) = [code |-> 200, entries |-> entries, next |-> next] BY DEF Index
<1>2. \A t \in Tasks : Snapshot(t) \in Snapshots /\ WasStored(Snapshot(t)) /\ Snapshot(t).task = t
  BY SnapshotStored DEF SessionInv
<1>3. mine \subseteq Tasks /\ shown \subseteq mine OBVIOUS
<1>4. entries \subseteq Snapshots /\ (\A s \in entries : WasStored(s)) /\ OneOwner(entries)
  <2>1. \A s \in entries : s \in Snapshots /\ WasStored(s) /\ \E t \in shown : s.task = t
    BY <1>2, <1>3
  <2>2. \A t \in shown : Owner[t] = cookie OBVIOUS
  <2> HIDE DEF entries, shown
  <2> QED BY <2>1, <2>2 DEF OneOwner
<1>5. next \in Tasks \cup {None}
  <2>1. CASE Cardinality(mine) > PageSize
    <3>1. Tasks \subseteq Nat /\ IsFiniteSet(Tasks) /\ PageSize \in Nat \ {0}
      BY SessionPageAssumption
    <3>2. mine \in SUBSET Nat /\ mine \in SUBSET Int /\ IsFiniteSet(mine)
      <4>1. mine \in SUBSET Tasks BY <1>3
      <4>2. IsFiniteSet(mine) BY <3>1, <4>1, FS_Subset
      <4>3. mine \in SUBSET Nat BY <1>3, <3>1
      <4> QED BY <4>2, <4>3
    <3>3. shown \in SUBSET Nat /\ IsFiniteSet(shown)
      BY <1>3, <3>2, FS_Subset
    <3>4. shown # {}
      <4>1. Cardinality(mine) \in Nat /\ 1 \in 1 .. Cardinality(mine)
        BY <2>1, <3>1, <3>2, FS_CardinalityType
      <4>2. PICK m \in mine : Place(mine, m) = 1 BY <3>2, <4>1, PlacesCount
      <4>3. Cardinality({u \in mine : u <= m}) = 1 BY <4>2 DEF Place
      <4>4. m \in shown BY <3>1, <4>2, <4>3
      <4> QED BY <4>4
    <3>5. PICK k \in shown : \A j \in shown : j <= k BY <3>3, <3>4, FiniteHasTop
    <3>6. \E x \in shown : \A y \in shown : x >= y BY <3>3, <3>5
    <3> HIDE DEF shown, mine
    <3>7. Max(shown) \in shown BY <3>6 DEF Max
    <3> QED BY <1>3, <2>1, <3>7
  <2>2. CASE ~(Cardinality(mine) > PageSize) BY <2>2
  <2> QED BY <2>1, <2>2
<1> HIDE DEF entries, next
<1>6. PICK i : i = Index(after) OBVIOUS
<1>7. i = [code |-> 200, entries |-> entries, next |-> next] BY <1>1, <1>6
<1>8. i \in [code : Nat, entries : SUBSET Snapshots, next : Tasks \cup {None}]
  BY <1>4, <1>5, <1>7
<1>9. i \in Answers BY <1>8 DEF Answers
<1>10. i.code = 200 /\ i.entries = entries /\ i.next = next BY <1>7
<1> QED BY <1>4, <1>5, <1>6, <1>9, <1>10

LEMMA ServeReadKeeps ==
    ASSUME SessionInv, ServeRead
    PROVE  SessionInv'
<1>1. /\ run # None /\ run.stage = "sent" /\ run.kind \in {"index", "open"}
      /\ cookie' = cookie
      /\ UNCHANGED <<store, page, reader, editor, ghosts, late, confirms, changes>>
  BY DEF ServeRead, pageVars, bounds
<1>2. cookie' \in Users \cup {None} BY <1>1, CookieIs
<1>3. ASSUME NEW code \in Nat \ {200}, Answered([code |-> code])
      PROVE  SessionInv'
  <2>1. PICK ans : ans = [code |-> code] OBVIOUS
  <2>2. ans \in Answers /\ AnswerFits(run, ans) BY <1>1, <2>1, CodeFits
  <2>3. Answered(ans) BY <1>3, <2>1
  <2> QED BY <1>1, <1>2, <2>2, <2>3, AnswerKeeps
<1>4. CASE Answered([code |-> 401]) BY <1>3, <1>4
<1>5. CASE Answered([code |-> 403]) BY <1>3, <1>5
<1>6. CASE run.kind = "index" /\ Answered(Index(run.arg.after))
  <2>1. PICK after : after = run.arg.after OBVIOUS
  <2>2. PICK ans : ans = Index(after) OBVIOUS
  <2>3. ans \in Answers /\ AnswerFits(run, ans)
    BY <1>6, <2>2, IndexFits DEF AnswerFits
  <2>4. Answered(ans) BY <1>6, <2>1, <2>2
  <2> QED BY <1>1, <1>2, <2>3, <2>4, AnswerKeeps
<1>7. CASE /\ run.kind = "open"
           /\ Answered(IF Owner[run.arg.task] = cookie
                       THEN [code |-> 200, snap |-> Snapshot(run.arg.task)] ELSE [code |-> 404])
  <2>1. CASE Owner[run.arg.task] # cookie
    <3>1. Answered([code |-> 404]) BY <1>7, <2>1
    <3> QED BY <1>3, <3>1
  <2>2. CASE Owner[run.arg.task] = cookie
    <3>1. run.arg \in Snapshots
      BY <1>1, <1>7 DEF SessionInv, ReadsOwnTasks, SessionTyped, Readers
    <3>2. PICK t \in Tasks : t = run.arg.task BY <3>1 DEF Snapshots
    <3>3. PICK s : s = Snapshot(t) OBVIOUS
    <3>4. s \in Snapshots /\ WasStored(s) /\ s.task = t
      BY <3>3, SnapshotStored DEF SessionInv
    <3>5. PICK ans : ans = [code |-> 200, snap |-> s] OBVIOUS
    <3>6. ans \in [code : Nat, snap : Snapshots] /\ ans.snap = s BY <3>4, <3>5
    <3>7. ans \in Answers BY <3>6 DEF Answers
    <3>8. AnswerFits(run, ans) BY <1>7, <3>2, <3>4, <3>6 DEF AnswerFits
    <3>9. Answered(ans) BY <1>7, <2>2, <3>2, <3>3, <3>5
    <3> QED BY <1>1, <1>2, <3>7, <3>8, <3>9, AnswerKeeps
  <2> QED BY <2>1, <2>2
<1> QED BY <1>4, <1>5, <1>6, <1>7 DEF ServeRead

(* The platform gets a version.                                              *)
LEMMA VersionIs ==
    ASSUME SessionInv, NEW t \in Tasks, NEW v \in Versions,
           store' = [store EXCEPT ![t] = Append(@, v)]
    PROVE  /\ Len(store[t]) \in Nat
           /\ \A u \in Tasks : \A i \in DOMAIN store[u] :
                i \in DOMAIN store'[u] /\ store'[u][i] = store[u][i]
           /\ \A u \in Tasks : \A i \in DOMAIN store'[u] :
                \/ i \in DOMAIN store[u] /\ store'[u][i] = store[u][i]
                \/ u = t /\ i = Len(store[t]) + 1 /\ store'[u][i] = v
<1>1. SessionTyped BY DEF SessionInv
<1>2. /\ \A u \in Tasks :
            /\ Len(store[u]) \in Nat
            /\ Len(store'[u]) = IF u = t THEN Len(store[u]) + 1 ELSE Len(store[u])
            /\ DOMAIN store[u] = 1 .. Len(store[u])
            /\ DOMAIN store'[u] = 1 .. Len(store'[u])
            /\ \A i \in 1 .. Len(store[u]) : store'[u][i] = store[u][i]
      /\ store'[t][Len(store[t]) + 1] = v
  BY <1>1, Appended
<1>3. ASSUME NEW u \in Tasks, NEW i \in DOMAIN store'[u]
      PROVE  \/ i \in DOMAIN store[u] /\ store'[u][i] = store[u][i]
             \/ u = t /\ i = Len(store[t]) + 1 /\ store'[u][i] = v
  <2>1. CASE i \in 1 .. Len(store[u]) BY <1>2, <2>1
  <2>2. CASE i \notin 1 .. Len(store[u])
    <3>1. u = t /\ i = Len(store[t]) + 1 BY <1>2, <1>3, <2>2
    <3> QED BY <1>2, <3>1
  <2> QED BY <2>1, <2>2
<1>4. ASSUME NEW u \in Tasks, NEW i \in DOMAIN store[u]
      PROVE  i \in DOMAIN store'[u] /\ store'[u][i] = store[u][i]
  BY <1>2
<1> QED BY <1>2, <1>3, <1>4

LEMMA OnceAdded ==
    ASSUME SessionInv, NEW t \in Tasks, NEW v \in Versions,
           store' = [store EXCEPT ![t] = Append(@, v)],
           late' \subseteq late, confirms' = confirms,
           \/ v.n = 0
           \/ v.n \in 1 .. confirms /\ ~StoredAs(v.n) /\ \A q \in Saves' : q.arg.n # v.n,
           run' # None /\ run'.kind = "write" =>
               /\ run # None /\ run.kind = "write" /\ run'.arg = run.arg
               /\ run'.stage = "sent" => run.stage = "sent" /\ run.arg.n # v.n
    PROVE  OncePerConfirm'
<1>1. OncePerConfirm /\ confirms \in Nat BY DEF SessionInv, SessionTyped
<1>2. v.n \in Nat /\ v.n <= confirms BY <1>1
<1>3. Saves' \subseteq Saves BY DEF Saves
<1>4. \A n : StoredAs(n)' => StoredAs(n) \/ n = v.n
  <2> SUFFICES ASSUME NEW n, StoredAs(n)' PROVE StoredAs(n) \/ n = v.n OBVIOUS
  <2>1. PICK u \in Tasks : \E i \in DOMAIN store'[u] : store'[u][i].n = n BY DEF StoredAs
  <2>2. PICK i \in DOMAIN store'[u] : store'[u][i].n = n BY <2>1
  <2> QED BY <2>2, VersionIs DEF StoredAs
<1>5. \A u \in Tasks : \A i \in DOMAIN store'[u] : store'[u][i].n <= confirms'
  <2> SUFFICES ASSUME NEW u \in Tasks, NEW i \in DOMAIN store'[u]
               PROVE  store'[u][i].n <= confirms
    OBVIOUS
  <2>1. \/ i \in DOMAIN store[u] /\ store'[u][i] = store[u][i]
        \/ store'[u][i] = v
    BY VersionIs
  <2> QED BY <1>1, <1>2, <2>1 DEF OncePerConfirm
<1>6. ASSUME NEW u \in Tasks, NEW i \in DOMAIN store'[u], NEW j \in DOMAIN store'[u],
             store'[u][i].n # 0, store'[u][i].n = store'[u][j].n
      PROVE  i = j
  <2>1. \/ i \in DOMAIN store[u] /\ store'[u][i] = store[u][i]
        \/ u = t /\ i = Len(store[t]) + 1 /\ store'[u][i] = v
    BY VersionIs
  <2>2. \/ j \in DOMAIN store[u] /\ store'[u][j] = store[u][j]
        \/ u = t /\ j = Len(store[t]) + 1 /\ store'[u][j] = v
    BY VersionIs
  <2>3. v.n = 0 \/ ~\E k \in DOMAIN store[u] : store[u][k].n = v.n BY DEF StoredAs
  <2> QED BY <1>1, <1>6, <2>1, <2>2, <2>3 DEF OncePerConfirm
<1>7. ASSUME NEW q \in Saves'
      PROVE  q.arg \in Descriptors /\ q.arg.n \in 1 .. confirms /\ ~StoredAs(q.arg.n)'
  <2>1. q.arg \in Descriptors /\ q.arg.n \in 1 .. confirms /\ ~StoredAs(q.arg.n)
    BY <1>1, <1>3 DEF OncePerConfirm
  <2>2. q.arg.n # v.n BY <2>1
  <2> QED BY <1>4, <2>1, <2>2
<1>8. \A p, q \in Saves' : p.arg.n = q.arg.n => p = q BY <1>1, <1>3 DEF OncePerConfirm
<1>9. ASSUME run' # None, run'.kind = "write"
      PROVE  /\ \A q \in Saves' : q.arg.n # run'.arg.n
             /\ run'.stage = "sent" => ~StoredAs(run.arg.n)'
  <2>1. PICK n : n = run.arg.n OBVIOUS
  <2>2. run'.arg.n = n /\ (run'.stage = "sent" => run.stage = "sent" /\ n # v.n)
    BY <1>9, <2>1
  <2>3. /\ \A q \in Saves : q.arg.n # n
        /\ run.stage = "sent" => ~StoredAs(n)
    BY <1>1, <1>9, <2>1 DEF OncePerConfirm
  <2>4. run'.stage = "sent" => ~StoredAs(n)' BY <1>4, <2>2, <2>3
  <2>5. run'.stage = "sent" =>
            ~\E u \in Tasks : \E i \in DOMAIN store'[u] : store'[u][i].n = run'.arg.n
    BY <2>2, <2>4 DEF StoredAs
  <2> QED BY <1>3, <2>2, <2>3, <2>5 DEF StoredAs
<1> QED BY <1>5, <1>6, <1>7, <1>8, <1>9 DEF OncePerConfirm

LEMMA MadeCounts ==
    ASSUME SessionInv, NEW t \in Tasks
    PROVE  IsFiniteSet(Made(t)) /\ Cardinality(Made(t)) \in Nat /\ Cardinality(Made(t)) <= confirms
<1>1. confirms \in Nat BY DEF SessionInv, SessionTyped
<1>2. Made(t) \in SUBSET (1 .. confirms) BY DEF Made
<1> QED BY <1>1, <1>2, PlacesIn

LEMMA HistoryAdded ==
    ASSUME SessionInv, NEW t \in Tasks, NEW v \in Versions,
           store' = [store EXCEPT ![t] = Append(@, v)], confirms' = confirms,
           \/ v.n = 0 /\ changes' = changes + 1
           \/ v.n \in 1 .. confirms /\ ~StoredAs(v.n) /\ changes' = changes
    PROVE  HistoryBounded'
<1> SUFFICES ASSUME NEW u \in Tasks
             PROVE  Len(store'[u]) <= 1 + changes' + Cardinality(Made(u)')
  BY DEF HistoryBounded
<1>1. confirms \in Nat /\ changes \in Nat /\ SessionTyped /\ changes' \in Nat /\ changes <= changes'
  BY DEF SessionInv, SessionTyped
<1>2. /\ Len(store[u]) \in Nat
      /\ Len(store'[u]) = IF u = t THEN Len(store[u]) + 1 ELSE Len(store[u])
  BY <1>1, Appended
<1>3. Len(store[u]) <= 1 + changes + Cardinality(Made(u)) BY DEF SessionInv, HistoryBounded
<1>4. IsFiniteSet(Made(u)) /\ Cardinality(Made(u)) \in Nat BY MadeCounts
<1>5. ASSUME NEW n
      PROVE  n \in Made(u)' <=> n \in Made(u) \/ (u = t /\ n = v.n /\ n \in 1 .. confirms)
  <2>1. (\E i \in DOMAIN store'[u] : store'[u][i].n = n) <=>
            (\E i \in DOMAIN store[u] : store[u][i].n = n) \/ (u = t /\ n = v.n)
    <3>1. ASSUME NEW i \in DOMAIN store'[u], store'[u][i].n = n
          PROVE  (\E k \in DOMAIN store[u] : store[u][k].n = n) \/ (u = t /\ n = v.n)
      BY <3>1, VersionIs
    <3>2. ASSUME NEW i \in DOMAIN store[u], store[u][i].n = n
          PROVE  \E k \in DOMAIN store'[u] : store'[u][k].n = n
      BY <3>2, VersionIs
    <3>3. ASSUME u = t, n = v.n
          PROVE  \E k \in DOMAIN store'[u] : store'[u][k].n = n
      <4>1. /\ DOMAIN store'[t] = 1 .. Len(store'[t]) /\ Len(store[t]) \in Nat
            /\ Len(store'[t]) = Len(store[t]) + 1 /\ store'[t][Len(store[t]) + 1] = v
        BY <1>1, Appended
      <4>2. Len(store[t]) + 1 \in DOMAIN store'[t] BY <4>1
      <4> QED BY <3>3, <4>1, <4>2
    <3> QED BY <3>1, <3>2, <3>3
  <2> QED BY <2>1 DEF Made
<1>6. CASE u # t \/ v.n = 0
  <2>1. Made(u)' = Made(u)
    <3>1. ASSUME NEW n PROVE n \in Made(u)' <=> n \in Made(u)
      <4>1. CASE u # t BY <1>5, <4>1
      <4>2. CASE v.n = 0
        <5>1. ~(n = v.n /\ n \in 1 .. confirms) BY <4>2
        <5> QED BY <1>5, <5>1
      <4> QED BY <1>6, <4>1, <4>2
    <3> QED BY <3>1
  <2>2. u = t => changes' = changes + 1 BY <1>6
  <2> QED BY <1>1, <1>2, <1>3, <1>4, <2>1, <2>2
<1>7. CASE u = t /\ v.n # 0
  <2>1. v.n \in 1 .. confirms /\ ~StoredAs(v.n) /\ changes' = changes BY <1>7
  <2>2. v.n \notin Made(u) BY <2>1 DEF StoredAs, Made
  <2>3. Made(u)' = Made(u) \cup {v.n}
    <3>1. ASSUME NEW n PROVE n \in Made(u)' <=> n \in Made(u) \cup {v.n}
      BY <1>5, <1>7, <2>1
    <3> QED BY <3>1
  <2>4. Cardinality(Made(u) \cup {v.n}) = Cardinality(Made(u)) + 1
    BY <1>4, <2>2, FS_AddElement
  <2> QED BY <1>1, <1>2, <1>3, <1>4, <1>7, <2>1, <2>3, <2>4
<1> QED BY <1>6, <1>7

(* The page does not see what the platform gets.                             *)
LEMMA VersionKeeps ==
    ASSUME SessionInv, NEW t \in Tasks, NEW v \in Versions,
           store' = [store EXCEPT ![t] = Append(@, v)], cookie' = cookie,
           UNCHANGED <<page, reader, editor, ghosts, confirms>>,
           late' \subseteq late, changes' \in 0 .. MaxChanges,
           run' # None <=> run # None, run' # None => run' \in Runs /\ run'.live,
           run' # None =>
               /\ run'.kind = run.kind /\ run'.arg = run.arg
               /\ run' = run \/ (run.stage = "sent" /\ run'.stage = "answered"),
           AnswersStored', OncePerConfirm', HistoryBounded'
    PROVE  SessionInv'
<1>1. /\ page' = page /\ reader' = reader /\ editor' = editor /\ ghosts' = ghosts
      /\ confirms' = confirms
  OBVIOUS
<1>2. SessionTyped /\ ShownWasStored BY DEF SessionInv
<1>3. store' \in [Tasks -> Seq(Versions)] /\ \A u \in Tasks : Len(store'[u]) >= 1
  <2>1. store' \in [Tasks -> Seq(Versions)] BY <1>2, Appended
  <2>2. ASSUME NEW u \in Tasks PROVE Len(store'[u]) >= 1
    <3>1. /\ Len(store[u]) \in Nat /\ Len(store[u]) >= 1
          /\ Len(store'[u]) = IF u = t THEN Len(store[u]) + 1 ELSE Len(store[u])
      BY <1>2, Appended
    <3> QED BY <3>1
  <2> QED BY <2>1, <2>2
<1>4. SessionTyped' BY <1>1, <1>2, <1>3 DEF SessionTyped
<1>5. OneRun' BY <1>1 DEF SessionInv, OneRun
<1>6. ReadsOwnTasks' BY <1>1 DEF SessionInv, ReadsOwnTasks, Active
<1>7. PrivateOnlyWhileActive' BY <1>1 DEF SessionInv, PrivateOnlyWhileActive, Active
<1>8. ShownWasStored'
  <2> SUFFICES ASSUME NEW s \in reader.entries \cup ({reader.snap, editor.base} \ {None})
               PROVE  WasStored(s)'
    BY <1>1 DEF ShownWasStored
  <2>1. s \in Snapshots BY <1>2 DEF SessionTyped, Readers, Editors
  <2>2. WasStored(s) BY <1>2 DEF ShownWasStored
  <2> QED BY <1>2, <2>1, <2>2, StoredStays DEF Snapshots
<1>9. OneOwnerShown' BY <1>1 DEF SessionInv, OneOwnerShown
<1>10. BaselineIsShown' BY <1>1 DEF SessionInv, BaselineIsShown
<1>11. EditorFits' BY <1>1 DEF SessionInv, EditorFits
<1>12. SaveFits' BY <1>1 DEF SessionInv, SaveFits
<1> QED BY <1>4, <1>5, <1>6, <1>7, <1>8, <1>9, <1>10, <1>11, <1>12 DEF SessionInv

LEMMA AnswersStay ==
    ASSUME SessionInv, NEW t \in Tasks, NEW v \in Versions,
           store' = [store EXCEPT ![t] = Append(@, v)], run' = run
    PROVE  AnswersStored'
<1>1. SessionTyped /\ AnswersStored BY DEF SessionInv
<1>2. ASSUME NEW s \in Snapshots, WasStored(s) PROVE WasStored(s)'
  BY <1>1, <1>2, StoredStays DEF Snapshots
<1>3. ASSUME run # None, run.kind = "write", run.ans.code = 200,
             run.stage \in {"answered", "hashing", "denied"}
      PROVE  WasStored([task |-> run.arg.task, rev |-> run.arg.rev + 1, doc |-> run.arg.doc])'
  <2>1. PICK s : s = [task |-> run.arg.task, rev |-> run.arg.rev + 1, doc |-> run.arg.doc] OBVIOUS
  <2>2. run.arg \in Descriptors BY <1>3 DEF SessionInv, SaveFits
  <2>3. s \in Snapshots BY <2>1, <2>2 DEF Snapshots, Descriptors
  <2>4. WasStored(s)' BY <1>1, <1>2, <1>3, <2>1, <2>3 DEF AnswersStored
  <2> QED BY <2>1, <2>4
<1> QED BY <1>1, <1>2, <1>3 DEF AnswersStored

LEMMA ServeWriteKeeps ==
    ASSUME SessionInv, ServeWrite
    PROVE  SessionInv'
<1>1. /\ run # None /\ run.stage = "sent" /\ run.kind = "write" /\ cookie' = cookie
      /\ UNCHANGED <<page, reader, editor, ghosts, late, confirms, changes>>
  BY DEF ServeWrite, pageVars, bounds
<1>2. cookie' \in Users \cup {None} BY <1>1, CookieIs
<1>3. ASSUME NEW code \in Nat \ {200}, Answered([code |-> code]), store' = store
      PROVE  SessionInv'
  <2>1. PICK ans : ans = [code |-> code] OBVIOUS
  <2>2. ans \in Answers /\ AnswerFits(run, ans) BY <1>1, <2>1, CodeFits
  <2>3. Answered(ans) BY <1>3, <2>1
  <2>4. UNCHANGED <<store, page, reader, editor, ghosts, late, confirms, changes>>
    BY <1>1, <1>3
  <2> QED BY <1>1, <1>2, <2>2, <2>3, <2>4, AnswerKeeps
<1>4. CASE Answered([code |-> 401]) /\ store' = store BY <1>3, <1>4
<1>5. CASE Answered([code |-> 403]) /\ store' = store BY <1>3, <1>5
<1>6. CASE /\ Answered([code |-> IF Owner[run.arg.task] = cookie THEN 409 ELSE 404])
           /\ store' = store
  <2>1. PICK code \in Nat \ {200} : code = IF Owner[run.arg.task] = cookie THEN 409 ELSE 404
    OBVIOUS
  <2>2. Answered([code |-> code]) BY <1>6, <2>1
  <2> QED BY <1>3, <1>6, <2>2
<1>7. CASE /\ CanReplace(run.arg) /\ Replace(run.arg)
           /\ Answered([code |-> 200, rev |-> Revision(run.arg.task) + 1, doc |-> run.arg.doc])
  <2>1. PICK a : a = run.arg OBVIOUS
  <2>2. a \in Descriptors /\ a.n = confirms /\ confirms > 0 /\ confirms \in Nat
    BY <1>1, <2>1 DEF SessionInv, SaveFits, SessionTyped
  <2>3. a.task \in Tasks /\ a.doc \in Docs /\ a.n \in Nat /\ a.rev \in Nat
    BY <2>2 DEF Descriptors
  <2>4. PICK t \in Tasks : t = a.task BY <2>3
  <2>5. PICK v : v = [doc |-> a.doc, n |-> a.n] OBVIOUS
  <2>6. v \in Versions /\ v.n = a.n /\ v.doc = a.doc BY <2>3, <2>5 DEF Versions
  <2>7. store' = [store EXCEPT ![t] = Append(@, v)] BY <1>7, <2>1, <2>4, <2>5 DEF Replace
  <2>8. a.rev = Len(store[t]) BY <1>7, <2>1, <2>4 DEF CanReplace, Revision
  <2>9. PICK ans : ans = [code |-> 200, rev |-> Revision(a.task) + 1, doc |-> a.doc] OBVIOUS
  <2>10. ans \in [code : Nat, rev : Nat, doc : Docs]
    BY <2>3, <2>4, <2>8, <2>9 DEF Revision
  <2>11. ans \in Answers BY <2>10 DEF Answers
  <2>12. Answered(ans) BY <1>7, <2>1, <2>9
  <2>13. /\ run' \in Runs /\ run' # None /\ run'.kind = run.kind /\ run'.arg = run.arg
         /\ run'.live /\ run'.stage = "answered" /\ run'.ans = ans
    BY <1>1, <2>11, <2>12, AnsweredIs
  <2>14. PICK s : s = [task |-> a.task, rev |-> a.rev + 1, doc |-> a.doc] OBVIOUS
  <2>15. WasStored(s)'
    <3>1. /\ Len(store'[t]) = Len(store[t]) + 1 /\ Len(store[t]) \in Nat
          /\ store'[t][Len(store[t]) + 1] = v
      BY <2>6, <2>7, Appended DEF SessionInv
    <3>2. s.task = t /\ s.rev = Len(store[t]) + 1 /\ s.doc = v.doc
      BY <2>4, <2>6, <2>8, <2>14
    <3>3. s.rev <= Len(store'[t]) /\ store'[t][s.rev].doc = s.doc BY <3>1, <3>2
    <3> QED BY <3>2, <3>3 DEF WasStored, Revision
  <2>16. AnswersStored' BY <1>1, <2>1, <2>11, <2>13, <2>14, <2>15 DEF AnswersStored
  <2>17. v.n \in 1 .. confirms /\ ~StoredAs(v.n) /\ \A q \in Saves : q.arg.n # v.n
    BY <1>1, <2>1, <2>2, <2>6 DEF SessionInv, OncePerConfirm
  <2>18. late' = late /\ confirms' = confirms /\ changes' = changes BY <1>1
  <2>19. \A q \in Saves' : q.arg.n # v.n BY <2>17, <2>18 DEF Saves
  <2>20. late' \subseteq late BY <2>18
  <2>21. OncePerConfirm'
    BY <1>1, <2>6, <2>7, <2>13, <2>17, <2>18, <2>19, <2>20, OnceAdded
  <2>22. HistoryBounded' BY <2>6, <2>7, <2>17, <2>18, HistoryAdded
  <2>23. changes' \in 0 .. MaxChanges BY <2>18 DEF SessionInv, SessionTyped
  <2> QED BY <1>1, <2>6, <2>7, <2>13, <2>16, <2>20, <2>21, <2>22, <2>23, VersionKeeps
<1> QED BY <1>4, <1>5, <1>6, <1>7 DEF ServeWrite

(* The cookie changes, or a request is served without an effect.             *)
LEMMA CookieKeeps ==
    ASSUME SessionInv, cookie' \in Users \cup {None},
           UNCHANGED <<store, page, reader, editor, run, ghosts, confirms>>,
           late' \subseteq late, changes' \in 0 .. MaxChanges, changes <= changes'
    PROVE  SessionInv'
<1>1. /\ store' = store /\ page' = page /\ reader' = reader /\ editor' = editor
      /\ run' = run /\ ghosts' = ghosts /\ confirms' = confirms
  OBVIOUS
<1>2. SessionTyped' BY <1>1 DEF SessionInv, SessionTyped
<1>3. OneRun' BY <1>1 DEF SessionInv, OneRun
<1>4. ReadsOwnTasks' BY <1>1 DEF SessionInv, ReadsOwnTasks, Active
<1>5. PrivateOnlyWhileActive' BY <1>1 DEF SessionInv, PrivateOnlyWhileActive, Active
<1>6. AnswersStored' BY <1>1 DEF SessionInv, AnswersStored, WasStored, Revision
<1>7. ShownWasStored' BY <1>1 DEF SessionInv, ShownWasStored, WasStored, Revision
<1>8. OneOwnerShown' BY <1>1 DEF SessionInv, OneOwnerShown
<1>9. BaselineIsShown' BY <1>1 DEF SessionInv, BaselineIsShown
<1>10. EditorFits' BY <1>1 DEF SessionInv, EditorFits
<1>11. SaveFits' BY <1>1 DEF SessionInv, SaveFits
<1>12. OncePerConfirm'
  <2>1. Saves' \subseteq Saves BY DEF Saves
  <2>2. \A n : StoredAs(n)' <=> StoredAs(n) BY <1>1 DEF StoredAs
  <2> QED BY <1>1, <2>1, <2>2 DEF SessionInv, OncePerConfirm
<1>13. HistoryBounded'
  <2> SUFFICES ASSUME NEW t \in Tasks
               PROVE  Len(store'[t]) <= 1 + changes' + Cardinality(Made(t)')
    BY DEF HistoryBounded
  <2>1. Made(t)' = Made(t) BY <1>1 DEF Made
  <2>2. Cardinality(Made(t)) \in Nat BY MadeCounts
  <2>3. Len(store[t]) <= 1 + changes + Cardinality(Made(t)) BY DEF SessionInv, HistoryBounded
  <2>4. Len(store[t]) \in Nat /\ changes \in Nat /\ changes' \in Nat
    <3>1. store[t] \in Seq(Versions) BY DEF SessionInv, SessionTyped
    <3> QED BY <3>1, LenProperties DEF SessionInv, SessionTyped
  <2> QED BY <1>1, <2>1, <2>2, <2>3, <2>4
<1> QED BY <1>2, <1>3, <1>4, <1>5, <1>6, <1>7, <1>8, <1>9, <1>10, <1>11, <1>12, <1>13
        DEF SessionInv

LEMMA ServeLateKeeps ==
    ASSUME SessionInv, NEW q \in late, ServeLate(q)
    PROVE  SessionInv'
<1>1. /\ late' = late \ {q} /\ late' \subseteq late
      /\ UNCHANGED <<page, reader, editor, run, ghosts, confirms>> /\ changes' = changes
      /\ run' = run /\ confirms' = confirms
  BY DEF ServeLate, pageVars, bounds
<1>2. changes' \in 0 .. MaxChanges /\ changes <= changes'
  BY <1>1 DEF SessionInv, SessionTyped
<1>3. CASE store' = store /\ cookie' \in Users \cup {None} BY <1>1, <1>2, <1>3, CookieKeeps
<1>4. q \in Leftovers BY DEF SessionInv, SessionTyped
<1>5. CASE q.kind = "login" /\ q.as = None /\ cookie' = q.arg /\ UNCHANGED store
  <2>1. q.arg \in Users BY <1>4, <1>5 DEF Leftovers
  <2> QED BY <1>3, <1>5, <2>1
<1>6. CASE q.kind = "logout" /\ Authorized(q.as) /\ cookie' = None /\ UNCHANGED store
  BY <1>3, <1>6
<1>7. CASE UNCHANGED <<cookie, store>> BY <1>3, <1>7, CookieIs
<1>8. CASE /\ q.kind = "write" /\ Authorized(q.as) /\ CanReplace(q.arg)
           /\ Replace(q.arg) /\ UNCHANGED cookie
  <2>1. PICK a : a = q.arg OBVIOUS
  <2>2. q \in Saves BY <1>8 DEF Saves
  <2>3. a \in Descriptors /\ a.n \in 1 .. confirms /\ ~StoredAs(a.n)
    BY <2>1, <2>2 DEF SessionInv, OncePerConfirm
  <2>4. a.task \in Tasks /\ a.doc \in Docs /\ a.n \in Nat BY <2>3 DEF Descriptors
  <2>5. PICK t \in Tasks : t = a.task BY <2>4
  <2>6. PICK v : v = [doc |-> a.doc, n |-> a.n] OBVIOUS
  <2>7. v \in Versions /\ v.n = a.n BY <2>4, <2>6 DEF Versions
  <2>8. store' = [store EXCEPT ![t] = Append(@, v)] BY <1>8, <2>1, <2>5, <2>6 DEF Replace
  <2>9. \A p \in Saves' : p \in Saves /\ p # q BY <1>1 DEF Saves
  <2>10. \A p \in Saves' : p.arg.n # v.n
    <3>1. \A p \in Saves : p.arg.n = q.arg.n => p = q BY <2>2 DEF SessionInv, OncePerConfirm
    <3> QED BY <2>1, <2>7, <2>9, <3>1
  <2>11. run # None /\ run.kind = "write" => run.arg.n # v.n
    <3>1. run # None /\ run.kind = "write" => q.arg.n # run.arg.n
      BY <2>2 DEF SessionInv, OncePerConfirm
    <3> QED BY <2>1, <2>7, <3>1
  <2>12. OncePerConfirm' BY <1>1, <2>3, <2>7, <2>8, <2>10, <2>11, OnceAdded
  <2>13. HistoryBounded' BY <1>1, <2>3, <2>7, <2>8, HistoryAdded
  <2>14. AnswersStored' BY <1>1, <2>7, <2>8, AnswersStay
  <2>15. run # None => run \in Runs /\ run.live BY DEF SessionInv, SessionTyped
  <2>16. cookie' = cookie BY <1>8
  <2> QED BY <1>1, <1>2, <2>7, <2>8, <2>12, <2>13, <2>14, <2>15, <2>16, VersionKeeps
<1> QED BY <1>5, <1>6, <1>7, <1>8 DEF ServeLate

LEMMA SwitchSessionKeeps ==
    ASSUME SessionInv, NEW u \in Users \cup {None}, SwitchSession(u)
    PROVE  SessionInv'
<1>1. /\ cookie' = u /\ changes < MaxChanges /\ changes' = changes + 1 /\ late' = late
      /\ UNCHANGED <<store, page, reader, editor, run, ghosts, confirms>>
  BY DEF SwitchSession, pageVars
<1>2. changes' \in 0 .. MaxChanges /\ changes <= changes'
  BY <1>1, SessionPageAssumption DEF SessionInv, SessionTyped
<1>3. late' \subseteq late BY <1>1
<1> QED BY <1>1, <1>2, <1>3, CookieKeeps

LEMMA WriteElsewhereKeeps ==
    ASSUME SessionInv, NEW t \in Tasks, NEW doc \in Docs, WriteElsewhere(t, doc)
    PROVE  SessionInv'
<1>1. PICK v : v = [doc |-> doc, n |-> 0] OBVIOUS
<1>2. v \in Versions /\ v.n = 0 BY <1>1 DEF Versions
<1>3. /\ store' = [store EXCEPT ![t] = Append(@, v)]
      /\ changes < MaxChanges /\ changes' = changes + 1
      /\ UNCHANGED <<cookie, page, reader, editor, run, ghosts, late, confirms>>
  BY <1>1 DEF WriteElsewhere, pageVars
<1>4. /\ cookie' = cookie /\ run' = run /\ confirms' = confirms /\ late' \subseteq late
      /\ UNCHANGED <<page, reader, editor, ghosts, confirms>>
  BY <1>3
<1>5. changes' \in 0 .. MaxChanges
  BY <1>3, SessionPageAssumption DEF SessionInv, SessionTyped
<1>6. run # None /\ run.kind = "write" => run.arg.n # 0
  BY DEF SessionInv, SaveFits
<1>7. OncePerConfirm' BY <1>2, <1>3, <1>4, <1>6, OnceAdded
<1>8. HistoryBounded' BY <1>2, <1>3, <1>4, HistoryAdded
<1>9. AnswersStored' BY <1>2, <1>3, <1>4, AnswersStay
<1>10. run # None => run \in Runs /\ run.live BY DEF SessionInv, SessionTyped
<1> QED BY <1>2, <1>3, <1>4, <1>5, <1>7, <1>8, <1>9, <1>10, VersionKeeps

(* The page is left with whatever was under way.                             *)
LEMMA PageHideKeeps ==
    ASSUME SessionInv, PageHide
    PROVE  SessionInv'
<1>1. /\ page' = [mounted |-> FALSE, busy |-> TRUE, state |-> "unknown", dialog |-> FALSE]
      /\ reader' = ClearedReader /\ editor' = Invalidate(editor) /\ run' = None
      /\ ghosts' = ghosts \cup (IF run # None /\ run.stage = "hashing"
                                THEN {[run EXCEPT !.live = FALSE]} ELSE {})
      /\ late' = late \cup Leftover(run)
      /\ cookie' = cookie /\ store' = store /\ confirms' = confirms /\ changes' = changes
  BY DEF PageHide
<1>2. page' \in Pages /\ ~page'.mounted /\ page'.busy BY <1>1 DEF Pages, States
<1>3. /\ editor' \in Editors /\ editor'.base = None /\ editor'.staged = None
      /\ ~editor'.editing
  BY <1>1, InvalidateIs DEF SessionInv, SessionTyped
<1>4. reader' \in Readers /\ reader'.entries = {} /\ reader'.snap = None
  BY <1>1, ClearedTyped
<1>5. late' \subseteq Leftovers BY <1>1, LateTyped DEF SessionInv
<1>6. \A g \in ghosts' : g \in Runs /\ ~g.live
  <2>1. \A g \in ghosts : g \in Runs /\ ~g.live BY DEF SessionInv, SessionTyped
  <2>2. ASSUME run # None PROVE [run EXCEPT !.live = FALSE] \in Runs
                                /\ ~[run EXCEPT !.live = FALSE].live
    <3>1. run \in Runs BY <2>2 DEF SessionInv, SessionTyped
    <3> QED BY <3>1 DEF Runs
  <2> QED BY <1>1, <2>1, <2>2
<1>7. SessionTyped' BY <1>1, <1>2, <1>3, <1>4, <1>5, <1>6 DEF SessionInv, SessionTyped
<1>8. OneRun' BY <1>1, <1>2 DEF OneRun
<1>9. ReadsOwnTasks' BY <1>1 DEF ReadsOwnTasks
<1>10. PrivateOnlyWhileActive' BY <1>1, <1>3 DEF PrivateOnlyWhileActive
<1>11. AnswersStored' BY <1>1 DEF AnswersStored
<1>12. ShownWasStored' BY <1>3, <1>4 DEF ShownWasStored
<1>13. OneOwnerShown' BY <1>4 DEF OneOwnerShown
<1>14. BaselineIsShown' BY <1>3 DEF BaselineIsShown
<1>15. EditorFits' BY <1>3 DEF EditorFits
<1>16. SaveFits' BY <1>1 DEF SaveFits
<1>17. OncePerConfirm' BY <1>1, OnceGivenUp
<1>18. HistoryBounded' BY <1>1, HistoryKept DEF SessionInv
<1> QED BY <1>7, <1>8, <1>9, <1>10, <1>11, <1>12, <1>13, <1>14, <1>15, <1>16, <1>17, <1>18
        DEF SessionInv

LEMMA PageShowKeeps ==
    ASSUME SessionInv, PageShow
    PROVE  SessionInv'
<1>1. /\ page' = [mounted |-> TRUE, busy |-> TRUE, state |-> "checking", dialog |-> FALSE]
      /\ reader' = ClearedReader /\ editor' = Invalidate(editor)
      /\ run' = NewRun("inspect", None)
      /\ UNCHANGED <<cookie, store, ghosts, late, confirms, changes>>
  BY DEF PageShow, bounds
<1>2. page' \in Pages /\ page'.mounted /\ page'.busy BY <1>1 DEF Pages, States
<1>3. editor \in Editors BY DEF SessionInv, SessionTyped
<1>4. "inspect" \in Kinds \ {"open", "write"} BY DEF Kinds
<1> QED BY <1>1, <1>2, <1>3, <1>4, RunBegins

-----------------------------------------------------------------------------
(* The invariant of the Session page.                                        *)
LEMMA UserKeeps ==
    ASSUME SessionInv, User
    PROVE  SessionInv'
<1>1. CASE \E u \in Users : SubmitLogin(u) BY <1>1, SubmitLoginKeeps
<1>2. CASE SubmitInvalid BY <1>2, SubmitInvalidKeeps
<1>3. CASE ClickCheck \/ ClickLogout \/ CancelLogout \/ ConfirmLogout BY <1>3, DialogKeeps
<1>4. CASE LoadTasks \/ NextTasks \/ OpenTask BY <1>4, TasksKeep
<1>5. CASE StartEdit BY <1>5, StartEditKeeps
<1>6. CASE \E doc \in Docs : Input(doc) BY <1>6, InputKeeps
<1>7. CASE ClickSave BY <1>7, ClickSaveKeeps
<1>8. CASE CancelSave BY <1>8, CancelSaveKeeps
<1>9. CASE ConfirmSave BY <1>9, ConfirmSaveKeeps
<1>10. CASE Discard BY <1>10, DiscardKeeps
<1>11. CASE ConfirmLeave BY <1>11, ConfirmLeaveKeeps
<1>12. CASE CancelLeave BY <1>12, CancelLeaveKeeps
<1> QED BY <1>1, <1>2, <1>3, <1>4, <1>5, <1>6, <1>7, <1>8, <1>9, <1>10, <1>11, <1>12 DEF User

LEMMA RunStepKeeps ==
    ASSUME SessionInv, RunStep
    PROVE  SessionInv'
BY ServeSessionKeeps, ServeReadKeeps, ServeWriteKeeps, SessionSettlesKeeps, ReadSettlesKeeps,
   WriteDeniedKeeps, WriteSettlesKeeps, RunFailsKeeps DEF RunStep

LEMMA EnvironmentKeeps ==
    ASSUME SessionInv, Environment
    PROVE  SessionInv'
<1>1. CASE \E q \in late : ServeLate(q) BY <1>1, ServeLateKeeps
<1>2. CASE \E u \in Users \cup {None} : SwitchSession(u) BY <1>2, SwitchSessionKeeps
<1>3. CASE \E t \in Tasks, doc \in Docs : WriteElsewhere(t, doc) BY <1>3, WriteElsewhereKeeps
<1>4. CASE PageHide BY <1>4, PageHideKeeps
<1>5. CASE PageShow BY <1>5, PageShowKeeps
<1> QED BY <1>1, <1>2, <1>3, <1>4, <1>5 DEF Environment

LEMMA SessionNext ==
    ASSUME SessionInv, [Next]_vars
    PROVE  SessionInv'
<1>1. CASE Hashing BY <1>1, HashedKeeps DEF Hashing
<1>2. CASE UNCHANGED vars
  <2>1. /\ UNCHANGED <<store, page, reader, editor, run, ghosts, confirms>>
        /\ cookie' = cookie /\ late' = late /\ changes' = changes
    BY <1>2 DEF vars, bounds
  <2>2. /\ cookie' \in Users \cup {None} /\ late' \subseteq late
        /\ changes' \in 0 .. MaxChanges /\ changes <= changes'
    BY <2>1 DEF SessionInv, SessionTyped
  <2> QED BY <2>1, <2>2, CookieKeeps
<1> QED BY <1>1, <1>2, UserKeeps, RunStepKeeps, EnvironmentKeeps DEF Next

LEMMA SessionInit == Init => SessionInv
<1> SUFFICES ASSUME Init PROVE SessionInv OBVIOUS
<1>1. /\ cookie \in Users \cup {None}
      /\ page = [mounted |-> TRUE, busy |-> TRUE, state |-> "checking", dialog |-> FALSE]
      /\ reader = ClearedReader /\ editor = CleanEditor
      /\ run = NewRun("inspect", None) /\ ghosts = {} /\ late = {}
      /\ confirms = 0 /\ changes = 0
  BY DEF Init
<1>2. PICK v : v \in Versions /\ v.n = 0 /\ store = [t \in Tasks |-> <<v>>]
  <2>1. PICK doc \in Docs : store = [t \in Tasks |-> <<[doc |-> doc, n |-> 0]>>] BY DEF Init
  <2>2. PICK v : v = [doc |-> doc, n |-> 0] OBVIOUS
  <2>3. v \in Versions /\ v.n = 0 BY <2>2 DEF Versions
  <2> QED BY <2>1, <2>2, <2>3
<1>3. <<v>> \in Seq(Versions) /\ Len(<<v>>) = 1 /\ <<v>>[1] = v BY <1>2
<1>4. /\ store \in [Tasks -> Seq(Versions)]
      /\ \A t \in Tasks : Len(store[t]) = 1 /\ DOMAIN store[t] = {1} /\ store[t][1] = v
  BY <1>2, <1>3
<1>5. "inspect" \in Kinds BY DEF Kinds
<1>6. /\ run \in Runs /\ run # None /\ run.kind = "inspect" /\ run.stage = "sent" /\ run.live
  BY <1>1, <1>5, NewRunTyped
<1>7. page \in Pages /\ page.busy /\ page.mounted BY <1>1 DEF Pages, States
<1>8. SessionTyped
  BY <1>1, <1>4, <1>6, <1>7, CleanTyped, ClearedTyped, SessionPageAssumption DEF SessionTyped
<1>9. OneRun BY <1>6, <1>7 DEF OneRun
<1>10. ReadsOwnTasks BY <1>6 DEF ReadsOwnTasks
<1>11. PrivateOnlyWhileActive BY <1>1, CleanTyped DEF PrivateOnlyWhileActive
<1>12. AnswersStored BY <1>6 DEF AnswersStored
<1>13. ShownWasStored BY <1>1, CleanTyped, ClearedTyped DEF ShownWasStored
<1>14. OneOwnerShown BY <1>1, ClearedTyped DEF OneOwnerShown
<1>15. BaselineIsShown BY <1>1, CleanTyped DEF BaselineIsShown
<1>16. EditorFits BY <1>1, CleanTyped DEF EditorFits
<1>17. SaveFits BY <1>6 DEF SaveFits
<1>18. OncePerConfirm
  <2>1. \A t \in Tasks : \A i \in DOMAIN store[t] : store[t][i].n = 0 /\ i = 1 BY <1>2, <1>4
  <2>2. Saves = {} BY <1>1 DEF Saves
  <2> QED BY <1>1, <1>6, <2>1, <2>2 DEF OncePerConfirm
<1>19. HistoryBounded
  <2> SUFFICES ASSUME NEW t \in Tasks
               PROVE  Len(store[t]) <= 1 + changes + Cardinality(Made(t))
    BY DEF HistoryBounded
  <2>1. Made(t) = {} BY <1>1 DEF Made
  <2>2. Cardinality({}) = 0 BY FS_EmptySet
  <2>3. Cardinality(Made(t)) = 0 BY <2>1, <2>2
  <2>4. Len(store[t]) = 1 /\ changes = 0 BY <1>1, <1>4
  <2> QED BY <2>3, <2>4
<1> QED BY <1>8, <1>9, <1>10, <1>11, <1>12, <1>13, <1>14, <1>15, <1>16, <1>17, <1>18, <1>19
        DEF SessionInv

LEMMA SessionInvariant == Spec => []SessionInv
BY SessionInit, SessionNext, PTL DEF Spec

(* Tasks are on the page only while it observes an active Session, whatever  *)
(* the order of answers, denials, hidden and restored pages (observe, clear). *)
THEOREM OnlyAnActiveSessionShows == Spec => []PrivateOnlyWhileActive
<1>1. SessionInv => PrivateOnlyWhileActive BY DEF SessionInv
<1> QED BY <1>1, SessionInvariant, PTL

LEMMA SessionIsTyped == SessionInv => TypeOK
<1> SUFFICES ASSUME SessionInv PROVE TypeOK OBVIOUS
<1>1. /\ page \in Pages /\ reader \in Readers /\ editor \in Editors
      /\ cookie \in Users \cup {None} /\ (run # None => run \in Runs)
  BY DEF SessionInv, SessionTyped
<1>2. /\ page \in [mounted : BOOLEAN, busy : BOOLEAN, state : States, dialog : BOOLEAN]
      /\ reader.entries \subseteq Snapshots /\ reader.cursor \in Tasks \cup {None}
      /\ reader.snap \in Snapshots \cup {None}
      /\ editor.base \in Snapshots \cup {None} /\ editor.draft \in Docs \cup {None}
      /\ editor.attempt \in Descriptors \cup {None} /\ editor.phase \in Phases
  BY <1>1 DEF Pages, Readers, Editors
<1>3. page.busy <=> run # None \/ ~page.mounted BY DEF SessionInv, OneRun
<1>4. ASSUME NEW t \in Tasks
      PROVE  /\ Len(store[t]) \in 1 .. (1 + MaxConfirms + MaxChanges)
             /\ \A i \in DOMAIN store[t] : store[t][i].doc \in Docs
  <2>1. store[t] \in Seq(Versions) /\ Len(store[t]) >= 1 BY DEF SessionInv, SessionTyped
  <2>2. \A i \in DOMAIN store[t] : store[t][i] \in Versions BY <2>1
  <2>3. Len(store[t]) \in Nat BY <2>1, LenProperties
  <2>4. Cardinality(Made(t)) \in Nat /\ Cardinality(Made(t)) <= confirms BY MadeCounts
  <2>5. Len(store[t]) <= 1 + changes + Cardinality(Made(t)) BY DEF SessionInv, HistoryBounded
  <2>6. /\ confirms \in Nat /\ changes \in Nat /\ confirms <= MaxConfirms
        /\ changes <= MaxChanges /\ MaxConfirms \in Nat /\ MaxChanges \in Nat
    BY SessionPageAssumption DEF SessionInv, SessionTyped
  <2>7. Len(store[t]) \in 1 .. (1 + MaxConfirms + MaxChanges)
    BY <2>1, <2>3, <2>4, <2>5, <2>6
  <2> QED BY <2>2, <2>7 DEF Versions
<1> QED BY <1>1, <1>2, <1>3, <1>4 DEF TypeOK

(* List, contents and editor agree with each other and with the platform,    *)
(* which stores what was confirmed at most once (parseContent, onSaved).      *)
THEOREM PageAlwaysAgrees == Spec => []PageAgrees
<1>1. ASSUME SessionInv PROVE PageAgrees
  <2>1. SentOnce
    <3>1. run # None /\ run.kind = "write" => \A q \in late : q.kind = "write" => q.arg # run.arg
      BY <1>1 DEF SessionInv, OncePerConfirm, Saves
    <3>2. run # None /\ run.kind = "write" /\ run.stage = "sent" =>
              \A t \in Tasks : \A i \in DOMAIN store[t] : store[t][i].n # run.arg.n
      BY <1>1 DEF SessionInv, OncePerConfirm, StoredAs
    <3> QED BY <1>1, <3>1, <3>2 DEF SessionInv, OncePerConfirm, SentOnce
  <2>2. TypeOK /\ ShownWasStored /\ OneOwnerShown /\ BaselineIsShown
    BY <1>1, SessionIsTyped DEF SessionInv
  <2> QED BY <2>1, <2>2 DEF PageAgrees
<1> QED BY <1>1, SessionInvariant, PTL

-----------------------------------------------------------------------------
(* Work is lost and sent by choice only.                                     *)
Chosen ==
    Held(editor) /\ ~Held(editor') =>
        \/ editor.departure # None /\ page.mounted
        \/ run # None /\ run.kind = "write" /\ run.ans.code = 200
           /\ editor'.base.doc = editor.draft
        \/ editor.attempt = None /\ editor'.draft = editor.base.doc
Confirmed ==
    run' # None /\ run'.kind = "write" /\ run'.stage = "sent" /\ run # run' =>
        /\ editor.staged # None /\ run'.arg = editor.staged.desc
        /\ reader.snap # None
        /\ run'.arg.task = reader.snap.task /\ run'.arg.rev = reader.snap.rev

LEMMA HeldKept ==
    ASSUME SessionInv, editor' = editor \/ editor' = Invalidate(editor)
    PROVE  Chosen
<1>1. editor \in Editors BY DEF SessionInv, SessionTyped
<1>2. Held(editor) => Held(editor') BY <1>1, InvalidateIs
<1> QED BY <1>2 DEF Chosen

(* An editor changes that has the same buffer.                               *)
LEMMA BufferKept ==
    ASSUME editor'.dirty = editor.dirty, editor'.attempt = editor.attempt,
           editor'.quarantined = editor.quarantined
    PROVE  Chosen
BY DEF Chosen, Held

(* No save is sent.                                                          *)
LEMMA NothingSent ==
    ASSUME SessionInv,
           \/ run' = run \/ run' = None
           \/ \E kind \in Kinds \ {"write"} : \E arg : run' = NewRun(kind, arg)
    PROVE  Confirmed
BY DEF Confirmed, NewRun

LEMMA BeginsDecide ==
    ASSUME SessionInv, NEW kind \in Kinds \ {"write"}, NEW arg, run' = NewRun(kind, arg),
           editor' = Invalidate(editor)
    PROVE  Chosen /\ Confirmed
BY HeldKept, NothingSent

LEMMA PerformDecides ==
    ASSUME SessionInv, NEW what, NEW e, Perform(what, e),
           e = editor \/ (editor.departure # None /\ page.mounted)
    PROVE  Chosen /\ Confirmed
<1>1. /\ editor' = e \/ editor' = Invalidate(e)
      /\ \/ run' = run
         \/ \E kind \in Kinds \ {"write"} : \E arg : run' = NewRun(kind, arg)
  BY DEF Perform, BeginSession, BeginIndex, BeginOpen, Kinds
<1>2. Confirmed BY <1>1, NothingSent
<1>3. Chosen BY <1>1, HeldKept DEF Chosen
<1> QED BY <1>2, <1>3

LEMMA LeaveDecides ==
    ASSUME SessionInv, NEW kind, NEW arg, Leave(kind, arg)
    PROVE  Chosen /\ Confirmed
<1>1. CASE Held(editor)
  <2>1. editor' = [editor EXCEPT !.departure = [kind |-> kind, arg |-> arg]] /\ run' = run
    BY <1>1 DEF Leave
  <2>2. editor \in Editors BY DEF SessionInv, SessionTyped
  <2>3. PICK d : d = [kind |-> kind, arg |-> arg] OBVIOUS
  <2>4. /\ editor'.dirty = editor.dirty /\ editor'.attempt = editor.attempt
        /\ editor'.quarantined = editor.quarantined
    BY <2>1, <2>2, <2>3 DEF Editors
  <2> QED BY <2>1, <2>4, BufferKept, NothingSent
<1>2. CASE ~Held(editor)
  <2>1. PICK what : what = [kind |-> kind, arg |-> arg] OBVIOUS
  <2>2. Perform(what, editor) BY <1>2, <2>1 DEF Leave
  <2> QED BY <2>2, PerformDecides
<1> QED BY <1>1, <1>2

LEMMA OpenDecides ==
    ASSUME SessionInv, OpenTask
    PROVE  Chosen /\ Confirmed
<1>1. PICK entry \in reader.entries : Leave("open", entry) BY DEF OpenTask
<1> QED BY <1>1, LeaveDecides

LEMMA InputDecides ==
    ASSUME SessionInv, NEW doc, Input(doc)
    PROVE  Chosen /\ Confirmed
<1> DEFINE ph == IF doc # editor.base.doc THEN "dirty" ELSE "clean"
           d == (doc # editor.base.doc)
<1>1. /\ editor' = [editor EXCEPT !.draft = doc, !.dirty = d, !.phase = ph]
      /\ run' = run /\ editor.attempt = None
  BY DEF Input
<1>2. editor \in Editors BY DEF SessionInv, SessionTyped
<1>3. d = (doc # editor.base.doc) OBVIOUS
<1> HIDE DEF ph, d
<1>4. editor'.dirty = d /\ editor'.draft = doc BY <1>1, <1>2 DEF Editors
<1>5. Held(editor') \/ editor'.draft = editor.base.doc BY <1>3, <1>4 DEF Held
<1> QED BY <1>1, <1>5, NothingSent DEF Chosen

LEMMA ConfirmSaveDecides ==
    ASSUME SessionInv, ConfirmSave
    PROVE  Chosen /\ Confirmed
<1> DEFINE desc == editor.staged.desc
<1>1. /\ editor.staged # None /\ editor.staged.base = editor.base
      /\ editor' = [editor EXCEPT !.staged = None, !.attempt = desc, !.phase = "pending"]
      /\ run' = NewRun("write", desc)
  BY DEF ConfirmSave
<1>2. editor \in Editors BY DEF SessionInv, SessionTyped
<1>3. editor.staged \in [desc : Descriptors, base : Snapshots] BY <1>1, <1>2 DEF Editors
<1>4. /\ desc \in Descriptors /\ editor.base \in Snapshots
      /\ desc.task = editor.base.task /\ desc.rev = editor.base.rev
  BY <1>1, <1>3 DEF SessionInv, EditorFits
<1>5. editor.base = reader.snap /\ reader.snap # None
  BY <1>4, NoneApart DEF SessionInv, BaselineIsShown
<1>6. desc = editor.staged.desc OBVIOUS
<1> HIDE DEF desc
<1>7. editor'.attempt = desc BY <1>1, <1>2 DEF Editors
<1>8. Held(editor') BY <1>4, <1>7, NoneApart DEF Held
<1>9. run'.arg = desc BY <1>1 DEF NewRun
<1> QED BY <1>1, <1>4, <1>5, <1>6, <1>8, <1>9 DEF Chosen, Confirmed

(* The other steps of the user.                                              *)
LEMMA EditDecides ==
    ASSUME SessionInv, StartEdit \/ ClickSave \/ CancelSave \/ CancelLeave
    PROVE  Chosen /\ Confirmed
<1>1. editor \in Editors BY DEF SessionInv, SessionTyped
<1>2. CASE StartEdit
  <2>1. ~Held(editor) /\ run' = run BY <1>2 DEF StartEdit
  <2> QED BY <2>1, NothingSent DEF Chosen
<1>3. CASE ClickSave
  <2>1. PICK s : editor' = [editor EXCEPT !.staged = s] BY <1>3 DEF ClickSave
  <2>2. run' = run BY <1>3 DEF ClickSave
  <2>3. /\ editor'.dirty = editor.dirty /\ editor'.attempt = editor.attempt
        /\ editor'.quarantined = editor.quarantined
    BY <1>1, <2>1 DEF Editors
  <2> QED BY <2>2, <2>3, BufferKept, NothingSent
<1>4. CASE CancelSave
  <2>1. run' = run /\ editor' = [editor EXCEPT !.staged = None] BY <1>4 DEF CancelSave
  <2>2. /\ editor'.dirty = editor.dirty /\ editor'.attempt = editor.attempt
        /\ editor'.quarantined = editor.quarantined
    BY <1>1, <2>1 DEF Editors
  <2> QED BY <2>1, <2>2, BufferKept, NothingSent
<1>5. CASE CancelLeave
  <2>1. run' = run /\ editor' = [editor EXCEPT !.departure = None] BY <1>5 DEF CancelLeave
  <2>2. /\ editor'.dirty = editor.dirty /\ editor'.attempt = editor.attempt
        /\ editor'.quarantined = editor.quarantined
    BY <1>1, <2>1 DEF Editors
  <2> QED BY <2>1, <2>2, BufferKept, NothingSent
<1> QED BY <1>2, <1>3, <1>4, <1>5

LEMMA SessionDecides ==
    ASSUME SessionInv, NEW kind \in Kinds \ {"write"}, NEW arg, BeginSession(kind, arg, editor)
    PROVE  Chosen /\ Confirmed
BY BeginsDecide DEF BeginSession

LEMMA UserStepDecides ==
    ASSUME SessionInv, User
    PROVE  Chosen /\ Confirmed
<1>0. "login" \in Kinds \ {"write"} /\ "logout" \in Kinds \ {"write"} BY DEF Kinds
<1>1. CASE \E u \in Users : SubmitLogin(u)
  <2>1. PICK u \in Users : SubmitLogin(u) BY <1>1
  <2>2. Leave("login", None) \/ BeginSession("login", u, editor) BY <2>1 DEF SubmitLogin
  <2> QED BY <1>0, <2>2, LeaveDecides, SessionDecides
<1>2. CASE SubmitInvalid
  <2>1. Leave("login", None) \/ (editor' = Invalidate(editor) /\ run' = run)
    BY <1>2 DEF SubmitInvalid
  <2> QED BY <2>1, LeaveDecides, HeldKept, NothingSent
<1>3. CASE ClickCheck BY <1>3, LeaveDecides DEF ClickCheck
<1>4. CASE ClickLogout \/ CancelLogout
  <2>1. Leave("logout", None) \/ (editor' = editor /\ run' = run)
    BY <1>4 DEF ClickLogout, CancelLogout
  <2> QED BY <2>1, LeaveDecides, HeldKept, NothingSent
<1>5. CASE ConfirmLogout BY <1>0, <1>5, SessionDecides DEF ConfirmLogout
<1>6. CASE LoadTasks \/ NextTasks BY <1>6, LeaveDecides DEF LoadTasks, NextTasks
<1>7. CASE OpenTask BY <1>7, OpenDecides
<1>8. CASE StartEdit \/ ClickSave \/ CancelSave \/ CancelLeave BY <1>8, EditDecides
<1>9. CASE \E doc \in Docs : Input(doc) BY <1>9, InputDecides
<1>10. CASE ConfirmSave BY <1>10, ConfirmSaveDecides
<1>11. CASE Discard
  <2>1. Leave("discard", None) \/ (~Held(editor) /\ run' = run) BY <1>11 DEF Discard
  <2>2. ~Held(editor) => Chosen BY DEF Chosen
  <2> QED BY <2>1, <2>2, LeaveDecides, NothingSent
<1>12. CASE ConfirmLeave
  <2>1. /\ editor.departure # None /\ page.mounted
        /\ Perform(editor.departure, Reset(editor, editor.base # None))
    BY <1>12 DEF ConfirmLeave
  <2> QED BY <2>1, PerformDecides
<1> QED BY <1>1, <1>2, <1>3, <1>4, <1>5, <1>6, <1>7, <1>8, <1>9, <1>10, <1>11, <1>12 DEF User

LEMMA AnswerSendsNothing ==
    ASSUME SessionInv, run # None, NEW stage, stage # "sent",
           run'.kind = run.kind /\ run'.stage = stage
    PROVE  Confirmed
BY DEF Confirmed

LEMMA EndDecides ==
    ASSUME SessionInv,
           \/ \E state : EndObserving(state, editor) \/ EndObserving(state, Invalidate(editor))
           \/ \E r : EndWith(r, editor) \/ EndWith(r, Invalidate(editor))
    PROVE  Chosen /\ Confirmed
<1>1. editor \in Editors BY DEF SessionInv, SessionTyped
<1>2. run' = None BY DEF EndObserving, EndWith
<1>3. \/ editor' = editor \/ editor' = Invalidate(editor)
      \/ editor' = Invalidate(Invalidate(editor))
  BY DEF EndObserving, EndWith, EditorAfter
<1>4. Held(editor) => Held(Invalidate(Invalidate(editor))) BY <1>1, InvalidateIs
<1> QED BY <1>2, <1>3, <1>4, HeldKept, NothingSent DEF Chosen

LEMMA PhaseDecides ==
    ASSUME SessionInv, NEW r, NEW ph, EndWith(r, [editor EXCEPT !.phase = ph])
    PROVE  Chosen /\ Confirmed
<1>1. editor \in Editors BY DEF SessionInv, SessionTyped
<1>2. run' = None /\ editor' = [editor EXCEPT !.phase = ph] BY DEF EndWith
<1>3. /\ editor'.dirty = editor.dirty /\ editor'.attempt = editor.attempt
      /\ editor'.quarantined = editor.quarantined
  BY <1>1, <1>2 DEF Editors
<1> QED BY <1>2, <1>3, BufferKept, NothingSent

(* The receipt is for the work that was sent.                                *)
LEMMA ReceiptDecides ==
    ASSUME SessionInv, run # None, run.kind = "write", run.stage = "answered",
           ReceiptMatches(run), NEW stored,
           stored = [task |-> run.arg.task, rev |-> run.arg.rev + 1, doc |-> run.arg.doc],
           EndWith(SavedReader(stored),
                   [editor EXCEPT !.base = stored, !.draft = stored.doc, !.attempt = None,
                                  !.dirty = FALSE, !.phase = "saved"])
    PROVE  Chosen /\ Confirmed
<1>1. editor \in Editors BY DEF SessionInv, SessionTyped
<1>2. /\ run' = None
      /\ editor' = [editor EXCEPT !.base = stored, !.draft = stored.doc, !.attempt = None,
                                  !.dirty = FALSE, !.phase = "saved"]
  BY DEF EndWith
<1>3. editor'.base = stored BY <1>1, <1>2 DEF Editors
<1>4. stored.doc = editor.draft BY DEF SessionInv, SaveFits
<1>5. run.ans.code = 200 BY DEF ReceiptMatches
<1> QED BY <1>2, <1>3, <1>4, <1>5, NothingSent DEF Chosen

LEMMA RunStepDecides ==
    ASSUME SessionInv, RunStep
    PROVE  Chosen /\ Confirmed
<1>0. run # None => run \in Runs BY DEF SessionInv, SessionTyped
<1>1. CASE ServeSession \/ ServeRead \/ ServeWrite
  <2>1. PICK ans : Answered(ans) BY <1>1 DEF ServeSession, ServeRead, ServeWrite
  <2>2. editor' = editor /\ run # None
    BY <1>1 DEF ServeSession, ServeRead, ServeWrite, pageVars
  <2>3. run'.kind = run.kind /\ run'.stage = "answered"
    BY <1>0, <2>1, <2>2 DEF Answered, Runs
  <2> QED BY <2>2, <2>3, HeldKept, AnswerSendsNothing
<1>2. CASE SessionSettles
  <2>1. CASE run' = NewRun("confirm-login", None) /\ UNCHANGED pageVars
    <3>1. editor' = editor /\ "confirm-login" \in Kinds \ {"write"} BY <2>1 DEF pageVars, Kinds
    <3> QED BY <2>1, <3>1, HeldKept, NothingSent
  <2>2. CASE \E state : EndObserving(state, editor) BY <2>2, EndDecides
  <2> QED BY <1>2, <2>1, <2>2 DEF SessionSettles
<1>3. CASE ReadSettles
  <2>1. CASE run # None /\ run' = [run EXCEPT !.stage = "hashing"] /\ UNCHANGED pageVars
    <3>1. editor' = editor /\ run'.kind = run.kind /\ run'.stage = "hashing"
      BY <1>0, <2>1 DEF pageVars, Runs
    <3> QED BY <2>1, <3>1, HeldKept, AnswerSendsNothing
  <2>2. CASE EndWith(IndexShown(run.ans), editor) BY <2>2, EndDecides
  <2>3. CASE EndWith(ClearedReader, Invalidate(editor)) BY <2>3, EndDecides
  <2>4. CASE EndObserving(Denied(run.ans.code), Invalidate(editor)) BY <2>4, EndDecides
  <2> QED BY <1>3, <2>1, <2>2, <2>3, <2>4 DEF ReadSettles
<1>4. CASE WriteDenied
  <2>1. /\ run # None /\ run' = [run EXCEPT !.stage = "denied"] /\ editor' = Invalidate(editor)
    BY <1>4 DEF WriteDenied
  <2>2. run'.kind = run.kind /\ run'.stage = "denied" BY <1>0, <2>1 DEF Runs
  <2> QED BY <2>1, <2>2, HeldKept, AnswerSendsNothing
<1>5. CASE WriteSettles
  <2>1. run # None /\ run.kind = "write" BY <1>5 DEF WriteSettles
  <2>2. CASE EndObserving(Denied(run.ans.code), editor) BY <2>2, EndDecides
  <2>3. CASE EndWith(reader, [editor EXCEPT
                 !.phase = IF run.ans.code = 409 THEN "conflict" ELSE "unknown"])
    BY <2>3, PhaseDecides
  <2> QED BY <1>5, <2>1, <2>2, <2>3, ReceiptDecides DEF WriteSettles
<1>6. CASE RunFails
  <2>1. CASE EndObserving("unknown", editor) \/ EndObserving("unknown", Invalidate(editor))
    BY <2>1, EndDecides
  <2>2. CASE EndWith(ClearedReader, Invalidate(editor)) BY <2>2, EndDecides
  <2>3. CASE EndWith(reader, editor) BY <2>3, EndDecides
  <2>4. CASE SaveUnconfirmed BY <2>4, PhaseDecides DEF SaveUnconfirmed
  <2> QED BY <1>6, <2>1, <2>2, <2>3, <2>4 DEF RunFails
<1> QED BY <1>1, <1>2, <1>3, <1>4, <1>5, <1>6 DEF RunStep

LEMMA StepDecides ==
    ASSUME SessionInv, [Next]_vars
    PROVE  Chosen /\ Confirmed
<1>1. CASE User BY <1>1, UserStepDecides
<1>2. CASE RunStep BY <1>2, RunStepDecides
<1>3. CASE Hashing
  <2>1. PICK r : Hashed(r) BY <1>3 DEF Hashing
  <2>2. run' = run \/ run' = None BY <2>1 DEF Hashed
  <2>3. Held(editor) => editor' = editor BY <2>1 DEF Hashed, pageVars
  <2>4. Chosen BY <2>3 DEF Chosen
  <2> QED BY <2>2, <2>4, NothingSent
<1>4. CASE Environment
  <2>1. CASE PageHide \/ PageShow
    <3>1. editor' = Invalidate(editor) /\ (run' = None \/ run' = NewRun("inspect", None))
      BY <2>1 DEF PageHide, PageShow
    <3>2. "inspect" \in Kinds \ {"write"} BY DEF Kinds
    <3> QED BY <3>1, <3>2, HeldKept, NothingSent
  <2>2. CASE ~(PageHide \/ PageShow)
    <3>1. editor' = editor /\ run' = run
      BY <1>4, <2>2 DEF Environment, ServeLate, SwitchSession, WriteElsewhere, pageVars
    <3> QED BY <3>1, HeldKept, NothingSent
  <2> QED BY <2>1, <2>2
<1>5. CASE UNCHANGED vars
  <2>1. editor' = editor /\ run' = run BY <1>5 DEF vars
  <2> QED BY <2>1, HeldKept, NothingSent
<1> QED BY <1>1, <1>2, <1>3, <1>4, <1>5 DEF Next

(* Nothing becomes of unsaved work but what the user confirmed (held, leave),*)
(* and what is sent is what the confirmation showed.                         *)
THEOREM UserAlwaysDecides == Spec => UserDecides
<1>1. Init => SessionInv BY SessionInit
<1>2. SessionInv /\ [Next]_vars => SessionInv' BY SessionNext
<1>3. SessionInv /\ [Next]_vars =>
          [Held(editor) /\ ~Held(editor') =>
              \/ editor.departure # None /\ page.mounted
              \/ run # None /\ run.kind = "write" /\ run.ans.code = 200
                 /\ editor'.base.doc = editor.draft
              \/ editor.attempt = None /\ editor'.draft = editor.base.doc]_vars
  BY StepDecides DEF Chosen
<1>4. SessionInv /\ [Next]_vars =>
          [run' # None /\ run'.kind = "write" /\ run'.stage = "sent" /\ run # run' =>
              /\ editor.staged # None /\ run'.arg = editor.staged.desc
              /\ reader.snap # None
              /\ run'.arg.task = reader.snap.task /\ run'.arg.rev = reader.snap.rev]_vars
  BY StepDecides DEF Confirmed
<1> QED BY <1>1, <1>2, <1>3, <1>4, PTL
        DEF Spec, UserDecides, WorkLeavesByChoice, ConfirmedIsSent

-----------------------------------------------------------------------------
(* The task draft.                                                           *)
Items == [id : Nat, rev : Nat \ {0}, home : Nat \X Nat]
Requests == {"remove", "reset", "import", "files"}
RequestPhases == {"confirm", "reading", "failed"}
Dialogs == [what : Requests, arg : Nat, left : Int, expected : Nat, on : Seq(Items),
            at : Nat, phase : RequestPhases, aborted : BOOLEAN]
Asks == [what : {"import", "reset"}, expected : Nat, on : Items, phase : RequestPhases]
TextEditors == [gen : Nat, id : Nat, rev : Nat \ {0}, ask : Asks \cup {None}]

(* A draft, or a file of one: valid, with identifiers that were drawn.       *)
Distinct(d) == \A i, j \in DOMAIN d : d[i].id = d[j].id => i = j
Valid(d, n) ==
    /\ d \in Seq(Items) /\ Len(d) <= MaxItems /\ Distinct(d)
    /\ \A i \in DOMAIN d : d[i].id \in 1..n
AtHome(d, g) == \A i \in DOMAIN d : d[i].home = <<g, d[i].id>>

-----------------------------------------------------------------------------
(* What the operations on items do to a valid draft.                         *)

LEMMA EditedIsValid ==
    ASSUME NEW n \in Nat, NEW d, Valid(d, n), NEW id \in Nat, NEW g \in Nat, AtHome(d, g)
    PROVE  /\ Valid(Edited(d, id, g), n) /\ AtHome(Edited(d, id, g), g)
           /\ IdsOf(Edited(d, id, g)) = IdsOf(d)
<1> DEFINE e == Edited(d, id, g)
           item(i) == IF d[i].id = id THEN [d[i] EXCEPT !.rev = d[i].rev + 1, !.home = <<g, id>>]
                      ELSE d[i]
<1>1. d \in Seq(Items) /\ DOMAIN d = 1..Len(d) /\ Len(d) \in Nat
  BY DEF Valid
<1>2. e = [i \in 1..Len(d) |-> item(i)]
  BY <1>1 DEF Edited
<1>3. ASSUME NEW i \in 1..Len(d)
      PROVE  item(i) \in Items /\ item(i).id = d[i].id /\ item(i).home = <<g, d[i].id>>
  <2>1. d[i] \in Items /\ d[i].home = <<g, d[i].id>>
    BY <1>1 DEF AtHome
  <2>2. d[i].rev + 1 \in Nat \ {0} /\ <<g, id>> \in Nat \X Nat
    BY <2>1 DEF Items
  <2> QED BY <2>1, <2>2 DEF Items
<1> HIDE DEF item
<1>4. e \in Seq(Items) /\ Len(e) = Len(d) /\ DOMAIN e = 1..Len(d)
  BY <1>1, <1>2, <1>3
<1>5. \A i \in 1..Len(d) : e[i].id = d[i].id /\ e[i].home = <<g, d[i].id>>
  BY <1>2, <1>3
<1> HIDE DEF e
<1>6. Valid(e, n)
  BY <1>1, <1>4, <1>5 DEF Valid, Distinct
<1>7. AtHome(e, g)
  BY <1>4, <1>5 DEF AtHome
<1>8. IdsOf(e) = IdsOf(d)
  BY <1>1, <1>4, <1>5 DEF IdsOf
<1> QED BY <1>6, <1>7, <1>8 DEF e

LEMMA RemovedIsValid ==
    ASSUME NEW n \in Nat, NEW d, Valid(d, n), NEW id \in IdsOf(d), NEW g, AtHome(d, g)
    PROVE  Valid(Removed(d, id), n) /\ AtHome(Removed(d, id), g)
<1> DEFINE p == CHOOSE i \in DOMAIN d : d[i].id = id
           front == SubSeq(d, 1, p - 1)
           back == SubSeq(d, p + 1, Len(d))
           r == front \o back
<1>1. d \in Seq(Items) /\ DOMAIN d = 1..Len(d) /\ Len(d) \in Nat /\ Len(d) <= MaxItems
  BY DEF Valid
<1>2. p \in 1..Len(d)
  BY <1>1 DEF IdsOf
<1> HIDE DEF p
<1>3. /\ front \in Seq(Items) /\ Len(front) = p - 1
      /\ \A i \in 1..(p - 1) : front[i] = d[i]
  <2>1. \A i \in 1..(p - 1) : d[i] \in Items
    BY <1>1, <1>2
  <2>2. /\ front \in Seq(Items)
        /\ Len(front) = IF 1 <= p - 1 THEN (p - 1) - 1 + 1 ELSE 0
        /\ \A i \in 1..((p - 1) - 1 + 1) : front[i] = d[1 + i - 1]
    BY <1>2, <2>1, SubSeqProperties
  <2> HIDE DEF front
  <2> QED BY <1>2, <2>2
<1>4. /\ back \in Seq(Items) /\ Len(back) = Len(d) - p
      /\ \A i \in 1..(Len(d) - p) : back[i] = d[p + i]
  <2>1. \A i \in (p + 1)..Len(d) : d[i] \in Items
    BY <1>1, <1>2
  <2>2. /\ back \in Seq(Items)
        /\ Len(back) = IF p + 1 <= Len(d) THEN Len(d) - (p + 1) + 1 ELSE 0
        /\ \A i \in 1..(Len(d) - (p + 1) + 1) : back[i] = d[(p + 1) + i - 1]
    BY <1>1, <1>2, <2>1, SubSeqProperties
  <2> HIDE DEF back
  <2>3. Len(d) - (p + 1) + 1 = Len(d) - p
    BY <1>1, <1>2
  <2>4. \A i \in 1..(Len(d) - p) : (p + 1) + i - 1 = p + i
    BY <1>1, <1>2
  <2>5. Len(back) = Len(d) - p
    <3>1. CASE p + 1 <= Len(d)
      BY <2>2, <2>3, <3>1
    <3>2. CASE p = Len(d)
      <4>1. ~(p + 1 <= Len(d)) /\ Len(d) - p = 0
        BY <1>1, <3>2
      <4> QED BY <2>2, <4>1
    <3>3. p + 1 <= Len(d) \/ p = Len(d)
      <4>1. \A x \in Int, y \in Int : x <= y => x + 1 <= y \/ x = y
        OBVIOUS
      <4>2. p \in Int /\ Len(d) \in Int /\ p <= Len(d)
        BY <1>1, <1>2
      <4> QED BY <4>1, <4>2
    <3> QED BY <3>1, <3>2, <3>3
  <2>6. \A i \in 1..(Len(d) - p) : back[i] = d[p + i]
    BY <2>2, <2>3, <2>4
  <2> QED BY <2>2, <2>5, <2>6
<1> HIDE DEF front, back
<1>5. /\ r \in Seq(Items) /\ Len(r) = Len(d) - 1
      /\ \A i \in 1..(Len(d) - 1) :
            r[i] = IF i <= p - 1 THEN front[i] ELSE back[i - (p - 1)]
  <2>1. /\ r \in Seq(Items) /\ Len(r) = Len(front) + Len(back)
        /\ \A i \in 1..(Len(front) + Len(back)) :
              r[i] = IF i <= Len(front) THEN front[i] ELSE back[i - Len(front)]
    BY <1>3, <1>4, ConcatProperties
  <2>2. Len(front) + Len(back) = Len(d) - 1 /\ Len(front) = p - 1
    BY <1>1, <1>2, <1>3, <1>4
  <2> HIDE DEF r
  <2> QED BY <2>1, <2>2
<1> HIDE DEF r
<1>6. \A i \in 1..(Len(d) - 1) : r[i] = IF i < p THEN d[i] ELSE d[i + 1]
  <2> SUFFICES ASSUME NEW i \in 1..(Len(d) - 1)
               PROVE  r[i] = IF i < p THEN d[i] ELSE d[i + 1]
    OBVIOUS
  <2>1. CASE i < p
    <3>1. i \in 1..(p - 1) /\ i <= p - 1
      BY <1>1, <1>2, <2>1
    <3> QED BY <2>1, <3>1, <1>3, <1>5
  <2>2. CASE ~(i < p)
    <3>1. i - (p - 1) \in 1..(Len(d) - p) /\ ~(i <= p - 1) /\ p + (i - (p - 1)) = i + 1
      BY <1>1, <1>2, <2>2
    <3> QED BY <2>2, <3>1, <1>4, <1>5
  <2> QED BY <2>1, <2>2
<1>7. DOMAIN r = 1..(Len(d) - 1)
  BY <1>5
<1>8. Distinct(r)
  <2> SUFFICES ASSUME NEW i \in 1..(Len(d) - 1), NEW j \in 1..(Len(d) - 1), r[i].id = r[j].id
               PROVE  i = j
    BY <1>7 DEF Distinct
  <2> DEFINE at(k) == IF k < p THEN k ELSE k + 1
  <2>1. /\ at(i) \in 1..Len(d) /\ at(j) \in 1..Len(d)
        /\ r[i] = d[at(i)] /\ r[j] = d[at(j)]
    BY <1>1, <1>2, <1>6
  <2>2. at(i) = at(j)
    BY <2>1, <1>1 DEF Valid, Distinct
  <2> QED BY <2>2, <1>1, <1>2
<1>9. \A i \in 1..(Len(d) - 1) : \E k \in 1..Len(d) : r[i] = d[k]
  <2> SUFFICES ASSUME NEW i \in 1..(Len(d) - 1) PROVE \E k \in 1..Len(d) : r[i] = d[k]
    OBVIOUS
  <2>1. i \in 1..Len(d) /\ i + 1 \in 1..Len(d)
    BY <1>1
  <2> QED BY <2>1, <1>6
<1>10. Len(r) <= MaxItems
  BY <1>1, <1>5, TaskDraftAssumption
<1>11. Valid(r, n)
  BY <1>1, <1>5, <1>7, <1>8, <1>9, <1>10 DEF Valid
<1>12. AtHome(r, g)
  BY <1>1, <1>7, <1>9 DEF AtHome
<1>13. Removed(d, id) = r
  BY DEF Removed, RemoveAt, r, front, back, p
<1> QED BY <1>11, <1>12, <1>13

(* New items stand behind the draft, with identifiers it does not have.      *)
Fresh(a, n, g) == \A i \in 1..Len(a) : a[i].id = n + i /\ a[i].home = <<g, n + i>>

LEMMA AddedIsValid ==
    ASSUME NEW n \in Nat, NEW d, Valid(d, n), NEW g \in Nat, AtHome(d, g),
           NEW a \in Seq(Items), Fresh(a, n, g), Len(d) + Len(a) <= MaxItems
    PROVE  /\ Valid(d \o a, n + Len(a)) /\ AtHome(d \o a, g)
           /\ IdsOf(d) \subseteq IdsOf(d \o a)
           /\ IsPrefix(d, d \o a) /\ Len(d \o a) = Len(d) + Len(a)
<1> DEFINE s == d \o a
           m == Len(a)
<1>0. m \in Nat /\ \A i \in 1..m : a[i].id = n + i /\ a[i].home = <<g, n + i>>
  BY DEF Fresh
<1>1. d \in Seq(Items) /\ DOMAIN d = 1..Len(d) /\ Len(d) \in Nat
  BY DEF Valid
<1>11. Len(d) + m <= MaxItems
  OBVIOUS
<1>2. /\ s \in Seq(Items) /\ Len(s) = Len(d) + m /\ DOMAIN s = 1..(Len(d) + m)
      /\ \A i \in 1..(Len(d) + m) : s[i] = IF i <= Len(d) THEN d[i] ELSE a[i - Len(d)]
  <2>1. /\ s \in Seq(Items) /\ Len(s) = Len(d) + Len(a)
        /\ \A i \in 1..(Len(d) + Len(a)) : s[i] = IF i <= Len(d) THEN d[i] ELSE a[i - Len(d)]
    BY <1>1, ConcatProperties
  <2> HIDE DEF s
  <2>2. DOMAIN s = 1..Len(s)
    BY <2>1
  <2> QED BY <2>1, <2>2
<1> HIDE DEF s, m
<1>3. \A i \in 1..Len(d) : i \in 1..(Len(d) + m) /\ s[i] = d[i] /\ d[i].id \in 1..n
  <2> SUFFICES ASSUME NEW i \in 1..Len(d)
               PROVE  i \in 1..(Len(d) + m) /\ s[i] = d[i] /\ d[i].id \in 1..n
    OBVIOUS
  <2>1. i \in 1..(Len(d) + m) /\ i <= Len(d)
    BY <1>0, <1>1
  <2>2. s[i] = d[i]
    BY <2>1, <1>2
  <2>3. d[i].id \in 1..n
    BY <1>1 DEF Valid
  <2> QED BY <2>1, <2>2, <2>3
<1>4. ASSUME NEW i \in 1..(Len(d) + m), ~(i <= Len(d))
      PROVE  /\ i - Len(d) \in 1..m /\ s[i] = a[i - Len(d)]
             /\ s[i].id = n + (i - Len(d)) /\ s[i].home = <<g, s[i].id>>
  <2>1. i - Len(d) \in 1..m
    BY <1>0, <1>1, <1>4
  <2> QED BY <2>1, <1>0, <1>2, <1>4
<1>5. \A i \in 1..(Len(d) + m) :
          /\ s[i].id \in 1..(n + m) /\ s[i].home = <<g, s[i].id>>
          /\ i <= Len(d) <=> s[i].id <= n
  <2> SUFFICES ASSUME NEW i \in 1..(Len(d) + m)
               PROVE  /\ s[i].id \in 1..(n + m) /\ s[i].home = <<g, s[i].id>>
                      /\ i <= Len(d) <=> s[i].id <= n
    OBVIOUS
  <2>1. CASE i <= Len(d)
    <3>1. i \in 1..Len(d)
      BY <1>1, <2>1
    <3>2. s[i] = d[i] /\ d[i].id \in 1..n /\ d[i].home = <<g, d[i].id>>
      BY <1>1, <1>3, <3>1 DEF AtHome
    <3> QED BY <1>0, <2>1, <3>2
  <2>2. CASE ~(i <= Len(d))
    <3>1. i - Len(d) \in 1..m /\ s[i].id = n + (i - Len(d)) /\ s[i].home = <<g, s[i].id>>
      BY <1>4, <2>2
    <3> QED BY <1>0, <2>2, <3>1
  <2> QED BY <2>1, <2>2
<1>6. Distinct(s)
  <2> SUFFICES ASSUME NEW i \in 1..(Len(d) + m), NEW j \in 1..(Len(d) + m), s[i].id = s[j].id
               PROVE  i = j
    BY <1>2 DEF Distinct
  <2>1. CASE i <= Len(d)
    <3>1. j <= Len(d)
      BY <1>5, <2>1
    <3>2. i \in 1..Len(d) /\ j \in 1..Len(d)
      BY <1>1, <2>1, <3>1
    <3>3. d[i].id = d[j].id
      BY <1>3, <3>2
    <3> QED BY <1>1, <3>2, <3>3 DEF Valid, Distinct
  <2>2. CASE ~(i <= Len(d))
    <3>1. ~(j <= Len(d))
      BY <1>5, <2>2
    <3>2. n + (i - Len(d)) = n + (j - Len(d))
      BY <1>4, <2>2, <3>1
    <3> QED BY <1>0, <1>1, <3>2
  <2> QED BY <2>1, <2>2
<1>7. Valid(s, n + m)
  <2>1. Len(s) <= MaxItems
    BY <1>2, <1>11
  <2>2. \A i \in DOMAIN s : s[i].id \in 1..(n + m)
    BY <1>2, <1>5
  <2>3. s \in Seq(Items)
    BY <1>2
  <2> QED BY <2>1, <2>2, <2>3, <1>6 DEF Valid
<1>8. AtHome(s, g)
  BY <1>2, <1>5 DEF AtHome
<1>9. IdsOf(d) \subseteq IdsOf(s)
  BY <1>1, <1>2, <1>3 DEF IdsOf
<1>10. IsPrefix(d, s)
  <2>1. \A i \in 1..Len(d) : d[i] \in Items /\ s[i] \in Items
    BY <1>1, <1>3
  <2> DEFINE x == SubSeq(d, 1, Len(d))
             y == SubSeq(s, 1, Len(d))
  <2>2. /\ x \in Seq(Items) /\ Len(x) = (IF 1 <= Len(d) THEN Len(d) - 1 + 1 ELSE 0)
        /\ \A i \in 1..(Len(d) - 1 + 1) : x[i] = d[1 + i - 1]
    BY <1>1, <2>1, SubSeqProperties
  <2>3. /\ y \in Seq(Items) /\ Len(y) = (IF 1 <= Len(d) THEN Len(d) - 1 + 1 ELSE 0)
        /\ \A i \in 1..(Len(d) - 1 + 1) : y[i] = s[1 + i - 1]
    BY <1>1, <2>1, SubSeqProperties
  <2> HIDE DEF x, y
  <2>4. Len(d) - 1 + 1 = Len(d) /\ \A i \in 1..Len(d) : 1 + i - 1 = i
    BY <1>1
  <2>5. Len(x) = Len(d) /\ Len(y) = Len(d) /\ \A i \in 1..Len(d) : x[i] = y[i]
    <3>1. Len(x) = Len(d) /\ Len(y) = Len(d)
      BY <1>1, <2>2, <2>3
    <3>2. \A i \in 1..Len(d) : x[i] = d[i] /\ y[i] = s[i]
      BY <2>2, <2>3, <2>4
    <3> QED BY <1>3, <3>1, <3>2
  <2>6. x = y
    BY <2>2, <2>3, <2>5, SeqEqual
  <2>7. Len(d) <= Len(s)
    BY <1>0, <1>1, <1>2
  <2> QED BY <2>6, <2>7 DEF IsPrefix, x, y
<1> QED BY <1>2, <1>7, <1>8, <1>9, <1>10 DEF s, m

LEMMA OpenedIsValid ==
    ASSUME NEW n \in Nat, NEW d, Valid(d, n), generation \in Nat
    PROVE  Valid(Opened(d), n) /\ AtHome(Opened(d), generation + 1)
<1> DEFINE e == Opened(d)
           item(i) == [d[i] EXCEPT !.home = <<generation + 1, d[i].id>>]
<1>1. d \in Seq(Items) /\ DOMAIN d = 1..Len(d) /\ Len(d) \in Nat
  BY DEF Valid
<1>2. e = [i \in 1..Len(d) |-> item(i)]
  BY <1>1 DEF Opened
<1>3. ASSUME NEW i \in 1..Len(d)
      PROVE  item(i) \in Items /\ item(i).id = d[i].id
             /\ item(i).home = <<generation + 1, d[i].id>>
  <2>1. d[i] \in Items
    BY <1>1
  <2>2. <<generation + 1, d[i].id>> \in Nat \X Nat
    BY <2>1 DEF Items
  <2> QED BY <2>1, <2>2 DEF Items
<1> HIDE DEF item
<1>4. e \in Seq(Items) /\ Len(e) = Len(d) /\ DOMAIN e = 1..Len(d)
  BY <1>1, <1>2, <1>3
<1>5. \A i \in 1..Len(d) : e[i].id = d[i].id /\ e[i].home = <<generation + 1, d[i].id>>
  BY <1>2, <1>3
<1> HIDE DEF e
<1>6. Valid(e, n)
  BY <1>1, <1>4, <1>5 DEF Valid, Distinct
<1>7. AtHome(e, generation + 1)
  BY <1>4, <1>5 DEF AtHome
<1> QED BY <1>6, <1>7 DEF e

-----------------------------------------------------------------------------
(* The invariant.  A request remembers the draft it was opened on for as     *)
(* long as no revision came between; a read whose dialog was closed under it *)
(* is aborted; the dialog of an editor is about the text it shows.           *)

DraftTyped ==
    /\ revision \in Nat /\ generation \in Nat /\ drawn \in Nat
    /\ prompt \in Dialogs \cup {None} /\ reads \subseteq Dialogs
    /\ monaco \in TextEditors \cup {None}

DraftIsValid == Valid(draft, drawn) /\ AtHome(draft, generation)
DirtyIsSet == draft = Empty \/ dirty
SavedIsValid == saved # None => Valid(saved, drawn)

DialogFits ==
    prompt # None =>
        /\ prompt.expected <= revision
        /\ prompt.expected = revision => prompt.on = draft /\ prompt.at = generation
        /\ prompt.what = "files" => Len(prompt.on) + prompt.arg <= MaxItems
        /\ prompt.what = "remove" => prompt.arg \in IdsOf(prompt.on)
        /\ prompt.what = "import" => saved # None
ReadsAreAborted == \A x \in reads : x.aborted

AskFits ==
    monaco # None /\ monaco.ask # None =>
        monaco.ask.on = [id |-> monaco.id, rev |-> monaco.ask.expected,
                         home |-> <<monaco.gen, monaco.id>>]

DraftInv == /\ DraftTyped /\ DraftIsValid /\ DirtyIsSet /\ SavedIsValid
        /\ DialogFits /\ ReadsAreAborted /\ AskFits

(* What a step may do to the draft while other things rest.                  *)
DraftRests == UNCHANGED <<draft, revision, generation, dirty, drawn, saved>>
DialogRests == UNCHANGED <<prompt, reads>>

LEMMA DraftInvInit == DraftInit => DraftInv
<1> SUFFICES ASSUME DraftInit PROVE DraftInv
  OBVIOUS
<1>1. Empty \in Seq(Items) /\ Len(Empty) = 0 /\ DOMAIN Empty = {}
  BY DEF Empty
<1>2. Valid(draft, drawn) /\ AtHome(draft, generation)
  BY <1>1, TaskDraftAssumption DEF DraftInit, Valid, AtHome, Distinct
<1> QED
  BY <1>2 DEF DraftInit, DraftInv, DraftTyped, DraftIsValid, DirtyIsSet, SavedIsValid, DialogFits,
              ReadsAreAborted, AskFits

(* More identifiers may be drawn.                                            *)
LEMMA ValidGrows ==
    ASSUME NEW m \in Nat, NEW n \in Nat, m <= n, NEW d, Valid(d, m)
    PROVE  Valid(d, n)
BY DEF Valid

(* A revision: nothing that was reviewed before it fits afterwards.          *)
LEMMA CommitKeeps ==
    ASSUME DraftInv, DialogRests \/ (prompt' = None /\ reads' \subseteq reads),
           draft' # Empty => dirty',
           revision' = revision + 1, generation' \in Nat, drawn' \in Nat, drawn <= drawn',
           Valid(draft', drawn'), AtHome(draft', generation'), UNCHANGED saved,
           monaco' = monaco
    PROVE  DraftInv'
<1>1. revision' \in Nat /\ revision < revision'
  BY DEF DraftInv, DraftTyped
<1>2. SavedIsValid'
  BY ValidGrows DEF DraftInv, DraftTyped, SavedIsValid
<1>3. DialogFits'
  <2> SUFFICES ASSUME prompt' # None
               PROVE  DialogFits'
    BY DEF DialogFits
  <2>1. prompt' = prompt /\ prompt \in Dialogs
    BY DEF DialogRests, DraftInv, DraftTyped
  <2>2. prompt.expected \in Nat /\ prompt.expected <= revision
    BY <2>1 DEF DraftInv, DialogFits, Dialogs
  <2>3. prompt.expected <= revision' /\ prompt.expected # revision'
    BY <1>1, <2>2 DEF DraftInv, DraftTyped
  <2> QED BY <2>1, <2>3 DEF DraftInv, DialogFits
<1>4. ReadsAreAborted' /\ AskFits'
  BY DEF DialogRests, DraftInv, ReadsAreAborted, AskFits
<1>5. DraftTyped'
  BY <1>1 DEF DialogRests, DraftInv, DraftTyped
<1> QED BY <1>2, <1>3, <1>4, <1>5 DEF DraftInv, DraftIsValid, DirtyIsSet

(* A step of a dialog leaves the draft alone.                                *)
LEMMA RestKeeps ==
    ASSUME DraftInv, DraftRests, DialogFits', ReadsAreAborted', AskFits',
           prompt' \in Dialogs \cup {None}, reads' \subseteq Dialogs,
           monaco' \in TextEditors \cup {None}
    PROVE  DraftInv'
BY DEF DraftInv, DraftRests, DraftTyped, DraftIsValid, DirtyIsSet, SavedIsValid

LEMMA OthersKeep ==
    ASSUME DraftInv, DraftRests, DialogRests, UNCHANGED monaco
    PROVE  DraftInv'
BY DEF DraftInv, DraftRests, DialogRests, DraftTyped, DraftIsValid, DirtyIsSet, SavedIsValid, DialogFits,
       ReadsAreAborted, AskFits

-----------------------------------------------------------------------------
(* Edits                                                                     *)

LEMMA DraftInvTitle ==
    ASSUME DraftInv, ChangeTitle
    PROVE  DraftInv'
BY CommitKeeps DEF ChangeTitle, Commit, DialogRests, DraftInv, DraftTyped, DraftIsValid

LEMMA NewIsTyped ==
    ASSUME generation \in Nat, NEW id \in Nat
    PROVE  New(id) \in Items /\ New(id).id = id /\ New(id).home = <<generation, id>>
BY DEF New, Items

LEMMA DraftInvAddText ==
    ASSUME DraftInv, AddText
    PROVE  /\ DraftInv' /\ IdsOf(draft) \subseteq IdsOf(draft')
<1> DEFINE a == <<New(drawn + 1)>>
<1>0. drawn \in Nat /\ generation \in Nat /\ drawn + 1 \in Nat /\ Len(draft) \in Nat
      /\ draft \in Seq(Items)
  BY DEF DraftInv, DraftTyped, DraftIsValid, Valid
<1>1. New(drawn + 1) \in Items /\ New(drawn + 1).id = drawn + 1
      /\ New(drawn + 1).home = <<generation, drawn + 1>>
  BY <1>0, NewIsTyped
<1>2. a \in Seq(Items) /\ Len(a) = 1 /\ a[1] = New(drawn + 1)
  BY <1>1
<1>3. Fresh(a, drawn, generation)
  <2> SUFFICES ASSUME NEW i \in 1..1
               PROVE  a[i].id = drawn + i /\ a[i].home = <<generation, drawn + i>>
    BY <1>2 DEF Fresh
  <2>1. i = 1
    OBVIOUS
  <2> QED BY <1>1, <1>2, <2>1
<1>4. Len(draft) + 1 <= MaxItems
  BY <1>0, TaskDraftAssumption DEF AddText
<1>5. draft' = draft \o a
  BY <1>0, <1>1 DEF AddText, Commit
<1> HIDE DEF a
<1>6. /\ Valid(draft', drawn + 1) /\ AtHome(draft', generation)
      /\ IdsOf(draft) \subseteq IdsOf(draft')
  <2>1. Valid(draft, drawn) /\ AtHome(draft, generation)
    BY DEF DraftInv, DraftIsValid
  <2>2. /\ Valid(draft \o a, drawn + Len(a)) /\ AtHome(draft \o a, generation)
        /\ IdsOf(draft) \subseteq IdsOf(draft \o a)
    BY <1>0, <1>2, <1>3, <1>4, <2>1, AddedIsValid
  <2> QED BY <1>2, <1>5, <2>2
<1>7. /\ revision' = revision + 1 /\ dirty' = TRUE /\ generation' = generation
      /\ drawn' = drawn + 1 /\ UNCHANGED <<prompt, reads, monaco, saved>>
  BY DEF AddText, Commit
<1> QED BY <1>0, <1>6, <1>7, CommitKeeps DEF DialogRests

(* An accepted edit of a text stays at home.                                 *)
LEMMA ChangeFits ==
    ASSUME DraftInv, monaco \in TextEditors, ChangeItem(monaco)
    PROVE  /\ Valid(draft', drawn) /\ AtHome(draft', generation)
           /\ IdsOf(draft') = IdsOf(draft)
           /\ revision' = revision + 1 /\ dirty' = TRUE /\ generation' = generation
<1>1. /\ monaco.gen = generation /\ monaco.id \in Nat
      /\ draft' = Edited(draft, monaco.id, monaco.gen)
      /\ revision' = revision + 1 /\ dirty' = TRUE /\ generation' = generation
  BY DEF ChangeItem, Accepted, Commit, TextEditors
<1>2. drawn \in Nat /\ generation \in Nat
  BY DEF DraftInv, DraftTyped
<1> QED BY <1>1, <1>2, EditedIsValid DEF DraftInv, DraftIsValid

(* The same, with the mounted editor moving on to its next revision.         *)
LEMMA ChangeKeeps ==
    ASSUME DraftInv, monaco \in TextEditors, ChangeItem(monaco),
           UNCHANGED <<prompt, reads, drawn, saved>>,
           monaco' \in TextEditors, monaco'.ask = None
    PROVE  DraftInv'
<1>1. /\ Valid(draft', drawn) /\ AtHome(draft', generation)
      /\ revision' = revision + 1 /\ dirty' = TRUE /\ generation' = generation
  BY ChangeFits
<1>2. revision' \in Nat /\ revision < revision'
  BY <1>1 DEF DraftInv, DraftTyped
<1>3. prompt = None
  BY DEF ChangeItem, Accepted, Free
<1> QED
  BY <1>1, <1>2, <1>3 DEF DraftInv, DraftTyped, DraftIsValid, DirtyIsSet, SavedIsValid, DialogFits,
              ReadsAreAborted, AskFits

LEMMA EditorIsTyped ==
    ASSUME DraftInv, monaco # None
    PROVE  monaco \in TextEditors
BY DEF DraftInv, DraftTyped

LEMMA DraftInvType ==
    ASSUME DraftInv, Type
    PROVE  DraftInv'
<1>1. monaco \in TextEditors /\ monaco.ask = None /\ ChangeItem(monaco)
      /\ monaco' = [monaco EXCEPT !.rev = monaco.rev + 1]
      /\ UNCHANGED <<prompt, reads, drawn, saved>>
  BY EditorIsTyped DEF Type
<1>2. monaco' \in TextEditors /\ monaco'.ask = None
  BY <1>1 DEF TextEditors
<1> QED BY <1>1, <1>2, ChangeKeeps

LEMMA DraftInvReplaceText ==
    ASSUME DraftInv, ReplaceText
    PROVE  DraftInv'
<1>1. monaco \in TextEditors /\ monaco.ask # None /\ UNCHANGED <<prompt, reads, drawn, saved>>
  BY EditorIsTyped DEF ReplaceText
<1>2. CASE /\ ItemReviewed(monaco) /\ ChangeItem(monaco)
           /\ monaco' = [monaco EXCEPT !.rev = monaco.rev + 1, !.ask = None]
  <2>1. monaco.rev + 1 \in Nat \ {0}
    BY <1>1 DEF TextEditors
  <2>2. monaco' \in TextEditors /\ monaco'.ask = None
    BY <1>1, <1>2, <2>1 DEF TextEditors
  <2> QED BY <1>1, <1>2, <2>2, ChangeKeeps
<1>3. CASE monaco' = [monaco EXCEPT !.ask.phase = "failed"] /\ UNCHANGED draftVars
  <2> DEFINE ask == [monaco.ask EXCEPT !.phase = "failed"]
  <2>1. monaco.ask \in Asks
    BY <1>1 DEF TextEditors
  <2>2. ask \in Asks /\ ask.on = monaco.ask.on /\ ask.expected = monaco.ask.expected
    BY <2>1 DEF Asks, RequestPhases
  <2>3. monaco' = [monaco EXCEPT !.ask = ask]
    BY <1>1, <1>3 DEF TextEditors
  <2> HIDE DEF ask
  <2>4. /\ monaco' \in TextEditors /\ monaco'.ask = ask
        /\ monaco'.id = monaco.id /\ monaco'.gen = monaco.gen
    BY <1>1, <2>2, <2>3 DEF TextEditors
  <2>5. AskFits'
    <3>1. monaco # None
      BY DEF ReplaceText
    <3> QED BY <1>1, <2>2, <2>4, <3>1 DEF DraftInv, AskFits
  <2>6. DialogFits' /\ ReadsAreAborted'
    BY <1>1, <1>3 DEF draftVars, DraftInv, DialogFits, ReadsAreAborted
  <2> QED BY <1>1, <1>3, <2>4, <2>5, <2>6, RestKeeps DEF draftVars, DraftRests, DraftInv, DraftTyped
<1> QED BY <1>2, <1>3 DEF ReplaceText

-----------------------------------------------------------------------------
(* The dialog of the draft                                                   *)

LEMMA DraftInvRequest ==
    ASSUME DraftInv, NEW what \in Requests, NEW arg \in Nat, NEW n \in Nat, Request(what, arg, n),
           what = "files" => Len(draft) + arg <= MaxItems,
           what = "remove" => arg \in IdsOf(draft),
           what = "import" => saved # None
    PROVE  DraftInv'
<1> DEFINE x == [what |-> what, arg |-> arg, left |-> n, expected |-> revision,
                 on |-> draft, at |-> generation, phase |-> "confirm", aborted |-> FALSE]
<1>1. prompt' = x /\ UNCHANGED <<draftVars, reads, monaco, saved, drawn>>
  BY DEF Request
<1>2. x \in Dialogs
  <2>1. revision \in Nat /\ generation \in Nat /\ draft \in Seq(Items) /\ n \in Int
    BY DEF DraftInv, DraftTyped, DraftIsValid, Valid
  <2>2. "confirm" \in RequestPhases /\ FALSE \in BOOLEAN
    BY DEF RequestPhases
  <2> QED BY <2>1, <2>2 DEF Dialogs
<1>3. DialogFits'
  BY <1>1 DEF DialogFits, draftVars, DraftInv, DraftTyped
<1>4. ReadsAreAborted' /\ AskFits' /\ DraftRests
  BY <1>1 DEF ReadsAreAborted, AskFits, DraftRests, draftVars, DraftInv
<1> HIDE DEF x
<1>5. prompt' \in Dialogs \cup {None} /\ reads' \subseteq Dialogs
      /\ monaco' \in TextEditors \cup {None}
  BY <1>1, <1>2 DEF DraftInv, DraftTyped
<1> QED BY <1>3, <1>4, <1>5, RestKeeps

LEMMA DraftInvRequests ==
    ASSUME DraftInv, RemoveText \/ ResetDraft \/ ImportDraft \/ (\E n \in 1..2 : ImportFiles(n))
    PROVE  DraftInv'
<1>1. CASE RemoveText
  <2>1. PICK i \in DOMAIN draft : draft[i].id = selected
    BY <1>1 DEF RemoveText, IdsOf
  <2>2. draft \in Seq(Items)
    BY DEF DraftInv, DraftIsValid, Valid
  <2>3. draft[i] \in Items
    BY <2>1, <2>2
  <2>4. selected \in IdsOf(draft) /\ Request("remove", selected, 0)
    BY <1>1 DEF RemoveText
  <2>5. selected \in Nat /\ "remove" \in Requests /\ 0 \in Nat
    BY <2>1, <2>3 DEF Items, Requests
  <2> QED BY <2>4, <2>5, DraftInvRequest
<1>2. CASE ResetDraft
  <2>1. Request("reset", 0, 0) /\ "reset" \in Requests /\ 0 \in Nat
    BY <1>2 DEF ResetDraft, Requests
  <2> QED BY <2>1, DraftInvRequest
<1>3. CASE ImportDraft
  <2>1. /\ Request("import", 0, 1) /\ saved # None
        /\ "import" \in Requests /\ 0 \in Nat /\ 1 \in Nat
    BY <1>3 DEF ImportDraft, Requests
  <2> QED BY <2>1, DraftInvRequest
<1>4. ASSUME NEW n \in 1..2, ImportFiles(n) PROVE DraftInv'
  <2>1. Request("files", n, n) /\ "files" \in Requests /\ n \in Nat /\ Len(draft) + n <= MaxItems
    BY <1>4 DEF ImportFiles, Requests
  <2> QED BY <2>1, DraftInvRequest
<1> QED BY <1>1, <1>2, <1>3, <1>4

(* A dialog that is replaced by one of another phase still fits.             *)
LEMMA DialogMoves ==
    ASSUME DraftInv, DraftRests, AskFits', monaco' \in TextEditors \cup {None}, prompt \in Dialogs, prompt # None,
           NEW x \in Dialogs, prompt' \in {x, prompt, None}, reads' \subseteq reads,
           x.what = prompt.what, x.arg = prompt.arg, x.on = prompt.on, x.at = prompt.at,
           x.expected = prompt.expected
    PROVE  DraftInv'
<1>1. prompt' \in Dialogs \cup {None} /\ reads' \subseteq Dialogs /\ ReadsAreAborted'
  BY DEF DraftInv, DraftTyped, ReadsAreAborted
<1>2. DialogFits'
  BY DEF DraftInv, DialogFits, DraftRests
<1> QED BY <1>1, <1>2, RestKeeps

LEMMA PhaseIsTyped ==
    ASSUME NEW x \in Dialogs, NEW phase \in RequestPhases
    PROVE  LET y == [x EXCEPT !.phase = phase]
           IN  /\ y \in Dialogs /\ y.what = x.what /\ y.arg = x.arg /\ y.on = x.on
               /\ y.at = x.at /\ y.expected = x.expected
BY DEF Dialogs

LEMMA DraftInvConfirmImport ==
    ASSUME DraftInv, ConfirmImport
    PROVE  DraftInv'
<1> DEFINE x == [prompt EXCEPT !.phase = "reading"]
<1>1. prompt \in Dialogs /\ prompt # None /\ prompt' = x
      /\ UNCHANGED <<draftVars, reads, monaco, saved, drawn>>
  BY DEF ConfirmImport, DraftInv, DraftTyped
<1>2. /\ x \in Dialogs /\ x.what = prompt.what /\ x.arg = prompt.arg /\ x.on = prompt.on
      /\ x.at = prompt.at /\ x.expected = prompt.expected
  BY <1>1, PhaseIsTyped DEF RequestPhases
<1> HIDE DEF x
<1>3. AskFits' /\ DraftRests /\ monaco' \in TextEditors \cup {None}
  BY <1>1 DEF AskFits, DraftRests, draftVars, DraftInv, DraftTyped
<1> QED BY <1>1, <1>2, <1>3, DialogMoves

(* A confirmed request acts on the draft it was opened on.                   *)
LEMMA ReviewedFits ==
    ASSUME DraftInv, NEW x \in reads \cup {prompt}, x # None, DraftReviewed(x)
    PROVE  /\ x = prompt /\ prompt \in Dialogs /\ mounted
           /\ prompt.on = draft /\ prompt.at = generation
BY DEF DraftInv, DraftTyped, DraftReviewed, ReadsAreAborted, DialogFits

LEMMA EmptyIsValid ==
    ASSUME NEW n \in Nat, NEW g
    PROVE  Valid(Empty, n) /\ AtHome(Empty, g)
<1>1. Empty \in Seq(Items) /\ Len(Empty) = 0 /\ DOMAIN Empty = {}
  BY DEF Empty
<1> QED BY <1>1, TaskDraftAssumption DEF Valid, AtHome, Distinct

LEMMA DraftInvConfirmNow ==
    ASSUME DraftInv, ConfirmNow
    PROVE  DraftInv'
<1>1. prompt # None /\ DraftReviewed(prompt) /\ prompt' = None
      /\ UNCHANGED <<reads, monaco, saved, drawn>>
  BY DEF ConfirmNow, Closed
<1>2. prompt.on = draft
  BY <1>1, ReviewedFits
<1>3. drawn \in Nat /\ generation \in Nat
  BY DEF DraftInv, DraftTyped
<1>4. CASE prompt.what = "remove" /\ Commit(Removed(draft, prompt.arg))
  <2>1. prompt.arg \in IdsOf(draft)
    BY <1>1, <1>2, <1>4 DEF DraftInv, DialogFits
  <2>2. Valid(Removed(draft, prompt.arg), drawn) /\ AtHome(Removed(draft, prompt.arg), generation)
    BY <1>3, <2>1, RemovedIsValid DEF DraftInv, DraftIsValid
  <2>3. /\ draft' = Removed(draft, prompt.arg) /\ revision' = revision + 1
        /\ dirty' = TRUE /\ generation' = generation
    BY <1>4 DEF Commit
  <2> QED BY <1>1, <1>3, <2>2, <2>3, CommitKeeps
<1>5. CASE prompt.what = "reset" /\ ReplaceDraft(Empty, TRUE)
  <2>1. /\ draft' = Empty /\ revision' = revision + 1 /\ generation' = generation + 1
    BY <1>5 DEF ReplaceDraft
  <2>2. Valid(Empty, drawn) /\ AtHome(Empty, generation + 1)
    BY <1>3, EmptyIsValid
  <2> QED BY <1>1, <1>3, <2>1, <2>2, CommitKeeps
<1> QED BY <1>4, <1>5 DEF ConfirmNow

LEMMA DraftInvCloseDialog ==
    ASSUME DraftInv, ClosePrompt
    PROVE  DraftInv'
<1>1. prompt \in Dialogs /\ prompt # None /\ prompt' = None
      /\ UNCHANGED <<draftVars, reads, monaco, saved, drawn>>
  BY DEF ClosePrompt, Closed, DraftInv, DraftTyped
<1>2. AskFits' /\ DraftRests /\ monaco' \in TextEditors \cup {None}
  BY <1>1 DEF AskFits, DraftRests, draftVars, DraftInv, DraftTyped
<1> QED BY <1>1, <1>2, DialogMoves

(* Nothing happens to the draft: a read fails, or reads on.                  *)
LEMMA ReadRests ==
    ASSUME DraftInv, NEW x \in reads \cup {prompt}, x # None,
           \/ Failed(x)
           \/ x = prompt /\ prompt' = [x EXCEPT !.left = x.left - 1]
           \/ UNCHANGED prompt,
           reads' = reads \ {x}, UNCHANGED <<draftVars, drawn, monaco, saved>>
    PROVE  DraftInv'
<1>1. x \in Dialogs
  BY DEF DraftInv, DraftTyped
<1>2. AskFits' /\ DraftRests /\ monaco' \in TextEditors \cup {None}
  BY DEF AskFits, DraftRests, draftVars, DraftInv, DraftTyped
<1>3. CASE UNCHANGED prompt
  <2>1. DialogFits' /\ ReadsAreAborted' /\ reads' \subseteq Dialogs /\ prompt' \in Dialogs \cup {None}
    BY <1>2, <1>3 DEF DraftInv, DraftTyped, DialogFits, ReadsAreAborted, DraftRests
  <2> QED BY <1>2, <2>1, RestKeeps
<1>4. CASE x = prompt /\ prompt' = [x EXCEPT !.phase = "failed"]
  <2> DEFINE y == [x EXCEPT !.phase = "failed"]
  <2>1. /\ y \in Dialogs /\ y.what = prompt.what /\ y.arg = prompt.arg /\ y.on = prompt.on
        /\ y.at = prompt.at /\ y.expected = prompt.expected
    BY <1>1, <1>4, PhaseIsTyped DEF RequestPhases
  <2> HIDE DEF y
  <2>2. prompt' = y
    BY <1>4 DEF y
  <2> QED BY <1>1, <1>2, <1>4, <2>1, <2>2, DialogMoves
<1>5. CASE x = prompt /\ prompt' = [x EXCEPT !.left = x.left - 1]
  <2> DEFINE y == [x EXCEPT !.left = x.left - 1]
  <2>1. /\ y \in Dialogs /\ y.what = prompt.what /\ y.arg = prompt.arg /\ y.on = prompt.on
        /\ y.at = prompt.at /\ y.expected = prompt.expected
    BY <1>1, <1>5 DEF Dialogs
  <2> HIDE DEF y
  <2>2. prompt' = y
    BY <1>5 DEF y
  <2> QED BY <1>1, <1>2, <1>5, <2>1, <2>2, DialogMoves
<1> QED BY <1>3, <1>4, <1>5 DEF Failed

(* All files of a confirmed request are added behind the draft.              *)
LEMMA FilesAdded ==
    ASSUME DraftInv, NEW x \in reads \cup {prompt}, x # None, DraftReviewed(x),
           x.what = "files"
    PROVE  LET next == x.on \o Added(x)
           IN  /\ Valid(next, drawn + x.arg) /\ AtHome(next, generation)
               /\ IdsOf(draft) \subseteq IdsOf(next)
               /\ IsPrefix(draft, next) /\ Len(next) = Len(draft) + x.arg
<1> DEFINE a == Added(x)
<1>1. x = prompt /\ x \in Dialogs /\ x.on = draft
  BY ReviewedFits
<1>2. drawn \in Nat /\ generation \in Nat /\ x.arg \in Nat /\ Len(draft) + x.arg <= MaxItems
  BY <1>1 DEF DraftInv, DraftTyped, DialogFits, Dialogs
<1>3. ASSUME NEW i \in 1..x.arg
      PROVE  /\ New(drawn + i) \in Items /\ New(drawn + i).id = drawn + i
             /\ New(drawn + i).home = <<generation, drawn + i>>
  <2>1. drawn + i \in Nat
    BY <1>2
  <2> QED BY <1>2, <2>1, NewIsTyped
<1>4. a = [i \in 1..x.arg |-> New(drawn + i)]
  BY DEF Added
<1>5. a \in Seq(Items) /\ Len(a) = x.arg
  BY <1>2, <1>3, <1>4
<1>6. Fresh(a, drawn, generation)
  BY <1>3, <1>4, <1>5 DEF Fresh
<1> HIDE DEF a
<1>7. /\ Valid(draft \o a, drawn + x.arg) /\ AtHome(draft \o a, generation)
      /\ IdsOf(draft) \subseteq IdsOf(draft \o a)
      /\ IsPrefix(draft, draft \o a) /\ Len(draft \o a) = Len(draft) + x.arg
  <2>1. Valid(draft, drawn) /\ AtHome(draft, generation)
    BY DEF DraftInv, DraftIsValid
  <2>2. drawn \in Nat /\ generation \in Nat
    BY <1>2
  <2>3. a \in Seq(Items) /\ Fresh(a, drawn, generation)
    BY <1>5, <1>6
  <2>4. Len(draft) + Len(a) <= MaxItems
    BY <1>2, <1>5
  <2>5. /\ Valid(draft \o a, drawn + Len(a)) /\ AtHome(draft \o a, generation)
        /\ IdsOf(draft) \subseteq IdsOf(draft \o a)
        /\ IsPrefix(draft, draft \o a) /\ Len(draft \o a) = Len(draft) + Len(a)
    BY <2>1, <2>2, <2>3, <2>4, AddedIsValid
  <2> QED BY <1>5, <2>5
<1> QED BY <1>1, <1>7 DEF a

LEMMA DraftInvReadFails ==
    ASSUME DraftInv, NEW x \in reads \cup {prompt}, FileFails(x)
    PROVE  DraftInv'
<1>1. /\ x # None /\ Failed(x) /\ reads' = reads \ {x}
      /\ UNCHANGED <<draftVars, drawn, monaco, saved>>
  BY DEF FileFails
<1> QED BY <1>1, ReadRests

LEMMA DraftInvRead ==
    ASSUME DraftInv, NEW x \in reads \cup {prompt}, Read(x)
    PROVE  DraftInv'
<1>1. x # None /\ reads' = reads \ {x} /\ UNCHANGED <<monaco, saved>>
  BY DEF Read
<1>2. CASE ~DraftReviewed(x)
  <2>1. Failed(x) /\ UNCHANGED <<draftVars, drawn>>
    BY <1>2 DEF Read
  <2> QED BY <1>1, <2>1, ReadRests
<1>3. CASE DraftReviewed(x)
  <2>1. x = prompt /\ x \in Dialogs /\ x.on = draft
    BY <1>1, <1>3, ReviewedFits
  <2>2. drawn \in Nat /\ generation \in Nat /\ x.arg \in Nat
    BY <2>1 DEF DraftInv, DraftTyped, Dialogs
  <2>3. CASE x.left > 1 /\ prompt' = [x EXCEPT !.left = x.left - 1] /\ UNCHANGED <<draftVars, drawn>>
    BY <1>1, <2>1, <2>3, ReadRests
  <2>4. CASE x.what = "import" /\ ReplaceDraft(Opened(saved), FALSE) /\ Closed /\ UNCHANGED drawn
    <3>1. Valid(saved, drawn)
      BY <1>1, <2>1, <2>4 DEF DraftInv, DialogFits, SavedIsValid
    <3>2. Valid(Opened(saved), drawn) /\ AtHome(Opened(saved), generation + 1)
      BY <2>2, <3>1, OpenedIsValid
    <3>3. /\ draft' = Opened(saved) /\ revision' = revision + 1 /\ dirty' = TRUE
          /\ generation' = generation + 1 /\ prompt' = None /\ reads' \subseteq reads
      BY <1>1, <2>4 DEF ReplaceDraft, Closed
    <3> QED BY <1>1, <2>2, <2>4, <3>2, <3>3, CommitKeeps
  <2>5. CASE x.what = "files" /\ drawn' = drawn + x.arg /\ Commit(x.on \o Added(x)) /\ Closed
    <3>1. /\ Valid(x.on \o Added(x), drawn + x.arg) /\ AtHome(x.on \o Added(x), generation)
      BY <1>1, <1>3, <2>5, FilesAdded
    <3>2. /\ draft' = x.on \o Added(x) /\ revision' = revision + 1 /\ dirty' = TRUE
          /\ generation' = generation /\ prompt' = None /\ reads' \subseteq reads
      BY <1>1, <2>5 DEF Commit, Closed
    <3>3. drawn' \in Nat /\ drawn <= drawn'
      BY <2>2, <2>5
    <3> QED BY <1>1, <2>2, <2>5, <3>1, <3>2, <3>3, CommitKeeps
  <2> QED BY <1>3, <2>1, <2>3, <2>4, <2>5 DEF Read
<1> QED BY <1>2, <1>3

-----------------------------------------------------------------------------
(* The editor's own dialog                                                   *)

(* Only the editor moves, and what it is asked fits it.                      *)
LEMMA EditorMoves ==
    ASSUME DraftInv, DraftRests, DialogRests, monaco' \in TextEditors \cup {None}, AskFits'
    PROVE  DraftInv'
<1>1. /\ DialogFits' /\ ReadsAreAborted'
      /\ prompt' \in Dialogs \cup {None} /\ reads' \subseteq Dialogs
  BY DEF DraftInv, DraftTyped, DialogFits, ReadsAreAborted, DraftRests, DialogRests
<1> QED BY <1>1, RestKeeps

LEMMA DraftInvAskEditor ==
    ASSUME DraftInv, NEW what \in {"import", "reset"}, AskEditor(what)
    PROVE  DraftInv'
<1> DEFINE on == [id |-> monaco.id, rev |-> monaco.rev, home |-> <<monaco.gen, monaco.id>>]
           ask == [what |-> what, expected |-> monaco.rev, on |-> on, phase |-> "confirm"]
<1>1. monaco \in TextEditors /\ monaco # None
  BY EditorIsTyped DEF AskEditor
<1>2. ask \in Asks /\ ask.on = on /\ ask.expected = monaco.rev
  <2>1. monaco.gen \in Nat /\ monaco.id \in Nat /\ monaco.rev \in Nat \ {0}
    BY <1>1 DEF TextEditors
  <2>2. on \in Items
    BY <2>1 DEF Items
  <2> HIDE DEF on
  <2> QED BY <2>1, <2>2 DEF Asks, RequestPhases
<1>3. monaco' = [monaco EXCEPT !.ask = ask] /\ DraftRests /\ DialogRests
  BY DEF AskEditor, DraftRests, DialogRests, draftVars
<1> HIDE DEF ask
<1>4. /\ monaco' \in TextEditors /\ monaco'.ask = ask /\ monaco'.id = monaco.id
      /\ monaco'.gen = monaco.gen /\ monaco'.rev = monaco.rev
  BY <1>1, <1>2, <1>3 DEF TextEditors
<1>5. AskFits'
  BY <1>2, <1>4 DEF AskFits
<1> QED BY <1>3, <1>4, <1>5, EditorMoves

LEMMA DraftInvCloseAsk ==
    ASSUME DraftInv, CloseAsk
    PROVE  DraftInv'
<1>1. monaco \in TextEditors /\ monaco' = [monaco EXCEPT !.ask = None]
  BY EditorIsTyped DEF CloseAsk
<1>2. monaco' \in TextEditors /\ monaco'.ask = None
  BY <1>1 DEF TextEditors
<1> QED BY <1>2, EditorMoves DEF CloseAsk, AskFits, DraftRests, DialogRests, draftVars

LEMMA DraftInvReadForItem ==
    ASSUME DraftInv, ReadForItem
    PROVE  DraftInv'
<1> DEFINE ask == [monaco.ask EXCEPT !.phase = "reading"]
<1>1. monaco \in TextEditors /\ monaco # None /\ monaco.ask # None /\ DraftRests /\ DialogRests
  BY EditorIsTyped DEF ReadForItem, DraftRests, DialogRests, draftVars
<1>2. monaco.ask \in Asks
  BY <1>1 DEF TextEditors
<1>3. ask \in Asks /\ ask.on = monaco.ask.on /\ ask.expected = monaco.ask.expected
  BY <1>2 DEF Asks, RequestPhases
<1>4. monaco' = [monaco EXCEPT !.ask = ask]
  BY <1>1 DEF ReadForItem, TextEditors
<1> HIDE DEF ask
<1>5. /\ monaco' \in TextEditors /\ monaco'.ask = ask
      /\ monaco'.id = monaco.id /\ monaco'.gen = monaco.gen
  BY <1>1, <1>3, <1>4 DEF TextEditors
<1>6. AskFits'
  BY <1>1, <1>3, <1>5 DEF DraftInv, AskFits
<1> QED BY <1>1, <1>5, <1>6, EditorMoves

-----------------------------------------------------------------------------
(* React and the router                                                      *)

LEMMA DraftInvRender ==
    ASSUME DraftInv, Render
    PROVE  DraftInv'
<1>1. DraftRests /\ DialogRests /\ generation \in Nat
  BY DEF Render, DraftRests, DialogRests, draftVars, DraftInv, DraftTyped
<1>2. CASE selected \notin IdsOf(draft)
  <2>1. monaco' = None
    BY <1>2 DEF Render
  <2> QED BY <1>1, <2>1, EditorMoves DEF AskFits
<1>3. CASE selected \in IdsOf(draft)
  <2> DEFINE keeps == monaco # None /\ monaco.gen = generation /\ monaco.id = selected
             ask == IF keeps THEN monaco.ask ELSE None
             i == CHOOSE i \in DOMAIN draft : draft[i].id = selected
  <2>1. i \in DOMAIN draft /\ draft[i].id = selected
    BY <1>3 DEF IdsOf
  <2>2. draft[i] \in Items /\ Item(draft, selected) = draft[i]
    <3>1. draft \in Seq(Items)
      BY DEF DraftInv, DraftIsValid, Valid
    <3> QED BY <2>1, <3>1 DEF Item
  <2> HIDE DEF i
  <2>3. selected \in Nat /\ Item(draft, selected).rev \in Nat \ {0}
    BY <2>1, <2>2 DEF Items
  <2>4. ask \in Asks \cup {None}
    BY EditorIsTyped DEF TextEditors
  <2>5. monaco' = [gen |-> generation, id |-> selected, rev |-> Item(draft, selected).rev,
                   ask |-> ask]
    BY <1>3 DEF Render
  <2>6. ask # None => /\ keeps /\ monaco # None /\ monaco.ask # None /\ ask = monaco.ask
                      /\ monaco.gen = generation /\ monaco.id = selected
    OBVIOUS
  <2> HIDE DEF ask, keeps
  <2>7. monaco' \in TextEditors /\ monaco'.ask = ask /\ monaco'.gen = generation
        /\ monaco'.id = selected
    BY <1>1, <2>3, <2>4, <2>5 DEF TextEditors
  <2>8. AskFits'
    BY <2>6, <2>7 DEF DraftInv, AskFits
  <2> QED BY <1>1, <2>7, <2>8, EditorMoves
<1> QED BY <1>2, <1>3

LEMMA AbortedIsTyped ==
    ASSUME DraftInv
    PROVE  reads \cup Aborted \subseteq Dialogs /\ \A x \in reads \cup Aborted : x.aborted
<1>1. CASE prompt # None /\ prompt.phase = "reading"
  <2>1. prompt \in Dialogs
    BY <1>1 DEF DraftInv, DraftTyped
  <2>2. [prompt EXCEPT !.aborted = TRUE] \in Dialogs /\ [prompt EXCEPT !.aborted = TRUE].aborted
    BY <2>1 DEF Dialogs
  <2> QED BY <1>1, <2>2 DEF Aborted, DraftInv, DraftTyped, ReadsAreAborted
<1>2. CASE ~(prompt # None /\ prompt.phase = "reading")
  BY <1>2 DEF Aborted, DraftInv, DraftTyped, ReadsAreAborted
<1> QED BY <1>1, <1>2

LEMMA DraftInvRouteChange ==
    ASSUME DraftInv, RouteChange
    PROVE  DraftInv'
<1>1. /\ reads' = reads \cup Aborted /\ prompt' = None /\ DraftRests
      /\ monaco' = IF monaco = None THEN None ELSE [monaco EXCEPT !.ask = None]
  BY DEF RouteChange, DraftRests, draftVars
<1>2. monaco' \in TextEditors \cup {None} /\ (monaco' # None => monaco'.ask = None)
  <2>1. CASE monaco = None
    BY <1>1, <2>1
  <2>2. CASE monaco # None
    <3>1. monaco \in TextEditors /\ monaco' = [monaco EXCEPT !.ask = None]
      BY <1>1, <2>2, EditorIsTyped
    <3> QED BY <3>1 DEF TextEditors
  <2> QED BY <2>1, <2>2
<1>3. DialogFits' /\ ReadsAreAborted' /\ AskFits' /\ reads' \subseteq Dialogs
  BY <1>1, <1>2, AbortedIsTyped DEF DialogFits, ReadsAreAborted, AskFits
<1> QED BY <1>1, <1>2, <1>3, RestKeeps

LEMMA DraftInvUnmount ==
    ASSUME DraftInv, Unmount
    PROVE  DraftInv'
<1>1. /\ reads' = reads \cup Aborted /\ prompt' = None /\ monaco' = None
      /\ revision' = revision + 1
      /\ UNCHANGED <<draft, generation, dirty, saved, drawn>>
  BY DEF Unmount
<1>2. DialogFits' /\ ReadsAreAborted' /\ AskFits' /\ DraftTyped'
  BY <1>1, AbortedIsTyped DEF DialogFits, ReadsAreAborted, AskFits, DraftInv, DraftTyped
<1> QED BY <1>1, <1>2 DEF DraftInv, DraftIsValid, DirtyIsSet, SavedIsValid

LEMMA DraftInvExportDraft ==
    ASSUME DraftInv, ExportDraft
    PROVE  DraftInv'
<1>1. /\ saved' = draft /\ prompt = None
      /\ UNCHANGED <<draftVars, drawn, prompt, reads, monaco>>
  BY DEF ExportDraft, Free
<1> QED BY <1>1 DEF draftVars, DraftInv, DraftTyped, DraftIsValid, DirtyIsSet, SavedIsValid, DialogFits,
                    ReadsAreAborted, AskFits

-----------------------------------------------------------------------------
LEMMA DraftInvNext == DraftInv /\ [DraftNext]_taskVars => DraftInv'
<1> SUFFICES ASSUME DraftInv, [DraftNext]_taskVars PROVE DraftInv'
  OBVIOUS
<1>1. CASE ChangeTitle
  BY <1>1, DraftInvTitle
<1>2. CASE AddText
  BY <1>2, DraftInvAddText
<1>3. CASE SelectItem
  BY <1>3, OthersKeep DEF SelectItem, DraftRests, DialogRests
<1>4. CASE ExportDraft
  BY <1>4, DraftInvExportDraft
<1>5. CASE Type
  BY <1>5, DraftInvType
<1>6. CASE RemoveText \/ ResetDraft \/ ImportDraft \/ (\E n \in 1..2 : ImportFiles(n))
  BY <1>6, DraftInvRequests
<1>7. CASE ConfirmNow
  BY <1>7, DraftInvConfirmNow
<1>8. CASE ConfirmImport
  BY <1>8, DraftInvConfirmImport
<1>9. CASE ClosePrompt
  BY <1>9, DraftInvCloseDialog
<1>10. ASSUME NEW x \in reads \cup {prompt}, Read(x) \/ FileFails(x) PROVE DraftInv'
  BY <1>10, DraftInvRead, DraftInvReadFails
<1>11. ASSUME NEW what \in {"import", "reset"}, AskEditor(what) PROVE DraftInv'
  BY <1>11, DraftInvAskEditor
<1>12. CASE CloseAsk
  BY <1>12, DraftInvCloseAsk
<1>13. CASE ReadForItem
  BY <1>13, DraftInvReadForItem
<1>14. CASE ReplaceText
  BY <1>14, DraftInvReplaceText
<1>15. CASE Render
  BY <1>15, DraftInvRender
<1>16. CASE RouteChange
  BY <1>16, DraftInvRouteChange
<1>17. CASE Unmount
  BY <1>17, DraftInvUnmount
<1>18. CASE UNCHANGED taskVars
  BY <1>18, OthersKeep DEF taskVars, draftVars, DraftRests, DialogRests
<1> QED
  BY <1>1, <1>2, <1>3, <1>4, <1>5, <1>6, <1>7, <1>8, <1>9, <1>10, <1>11, <1>12, <1>13, <1>14,
     <1>15, <1>16, <1>17, <1>18 DEF DraftNext

LEMMA DraftInvHolds ==
    DraftSpec => []DraftInv
<1>1. DraftInit => DraftInv
  BY DraftInvInit
<1>2. DraftInv /\ [DraftNext]_taskVars => DraftInv'
  BY DraftInvNext
<1> QED BY <1>1, <1>2, PTL DEF DraftSpec

-----------------------------------------------------------------------------
(* The bounds.  Only a mounted page accepts changes, and leaving it is the   *)
(* last revision; what React rendered last was a valid draft.                *)

DraftLimits ==
    /\ revision <= MaxCommits + 1 /\ (mounted => revision <= MaxCommits)
    /\ generation <= revision
    /\ selected \in 1..drawn \cup {None} /\ dirty \in BOOLEAN
    /\ Valid(view.draft, drawn)
    /\ monaco # None => monaco.id \in 1..drawn
    /\ prompt # None /\ prompt.what = "files" => prompt.arg >= 1

LEMMA DraftLimitsInit == DraftInit => DraftLimits
<1> SUFFICES ASSUME DraftInit PROVE DraftLimits
  OBVIOUS
<1>1. Valid(view.draft, drawn)
  BY EmptyIsValid DEF DraftInit, View
<1>2. revision <= MaxCommits + 1 /\ revision <= MaxCommits /\ generation <= revision
  BY TaskDraftAssumption DEF DraftInit
<1>3. /\ selected = None /\ dirty \in BOOLEAN /\ monaco = None /\ prompt = None
  BY DEF DraftInit
<1> QED BY <1>1, <1>2, <1>3 DEF DraftLimits

LEMMA ValidIds ==
    ASSUME NEW n, NEW d, Valid(d, n)
    PROVE  /\ First(d) \in 1..n \cup {None}
           /\ IdsOf(d) \subseteq 1..n
<1>1. d \in Seq(Items) /\ DOMAIN d = 1..Len(d) /\ Len(d) \in Nat
      /\ \A i \in DOMAIN d : d[i].id \in 1..n
  BY DEF Valid
<1>2. d # <<>> => 1 \in DOMAIN d
  BY <1>1
<1> QED BY <1>1, <1>2 DEF First, IdsOf, Empty

(* A change within its bound keeps the bounds.                               *)
LEMMA CommitKeepsLimits ==
    ASSUME DraftInv, DraftInv', DraftLimits, mounted,
           revision < MaxCommits, revision' = revision + 1,
           generation' \in {generation, generation + 1}, drawn <= drawn',
           selected' \in 1..drawn' \cup {None}, dirty' \in BOOLEAN,
           UNCHANGED <<view, mounted>>,
           monaco' # None => monaco # None /\ monaco'.id = monaco.id,
           prompt' # None => prompt' = prompt
    PROVE  DraftLimits'
<1>1. /\ revision \in Nat /\ generation \in Nat /\ drawn \in Nat /\ drawn' \in Nat
      /\ generation <= revision /\ MaxCommits \in Nat
  BY TaskDraftAssumption DEF DraftInv, DraftTyped, DraftLimits
<1>2. /\ revision' <= MaxCommits + 1 /\ revision' <= MaxCommits
      /\ generation' <= revision'
  BY <1>1
<1>3. Valid(view.draft, drawn')
  BY <1>1, ValidGrows DEF DraftLimits
<1>4. view' = view /\ mounted' = mounted
  OBVIOUS
<1>5. Valid(view'.draft, drawn')
  BY <1>3, <1>4
<1>6. monaco' # None => monaco'.id \in 1..drawn'
  BY <1>1 DEF DraftLimits
<1>7. prompt' # None /\ prompt'.what = "files" => prompt'.arg >= 1
  BY DEF DraftLimits
<1> QED BY <1>2, <1>5, <1>6, <1>7 DEF DraftLimits

(* So does a step that leaves the draft alone.                               *)
LEMMA RestKeepsLimits ==
    ASSUME DraftLimits, UNCHANGED <<revision, generation, dirty, drawn, mounted>>,
           selected' \in 1..drawn \cup {None}, Valid(view'.draft, drawn),
           monaco' # None => monaco'.id \in 1..drawn,
           prompt' # None /\ prompt'.what = "files" => prompt'.arg >= 1
    PROVE  DraftLimits'
BY DEF DraftLimits

(* An edit of a text, or what becomes of a question about it.                *)
LEMMA TextKeepsLimits ==
    ASSUME DraftInv, DraftInv', DraftLimits,
           Type \/ ReplaceText \/ CloseAsk \/ ReadForItem
               \/ (\E what \in {"import", "reset"} : AskEditor(what))
    PROVE  DraftLimits'
<1>1. monaco \in TextEditors /\ monaco # None
  BY EditorIsTyped DEF Type, ReplaceText, CloseAsk, ReadForItem, AskEditor
<1>2. UNCHANGED <<prompt, view, mounted, drawn>>
  BY DEF Type, ReplaceText, CloseAsk, ReadForItem, AskEditor
<1>3. monaco'.id = monaco.id
  BY <1>1 DEF Type, ReplaceText, CloseAsk, ReadForItem, AskEditor, TextEditors
<1>4. CASE ChangeItem(monaco)
  <2>1. /\ mounted /\ revision < MaxCommits /\ revision' = revision + 1
        /\ generation' = generation /\ selected' = selected /\ dirty' = TRUE
    BY <1>4 DEF ChangeItem, Accepted, Free, Commit
  <2>2. drawn <= drawn' /\ selected' \in 1..drawn' \cup {None}
    BY <1>2, <2>1 DEF DraftInv, DraftTyped, DraftLimits
  <2> QED BY <1>1, <1>2, <1>3, <2>1, <2>2, CommitKeepsLimits
<1>5. CASE UNCHANGED draftVars
  BY <1>1, <1>2, <1>3, <1>5, RestKeepsLimits DEF draftVars, DraftLimits
<1> QED
  BY <1>4, <1>5 DEF Type, ReplaceText, CloseAsk, ReadForItem, AskEditor

(* A request is opened, goes on, fails, or is closed.                        *)
LEMMA PromptKeepsLimits ==
    ASSUME DraftInv, DraftLimits, UNCHANGED <<draftVars, view, drawn, mounted>>,
           monaco' # None => monaco # None /\ monaco'.id = monaco.id,
           \/ prompt' = None
           \/ prompt' # None /\ (prompt'.what = "files" => prompt'.arg >= 1)
    PROVE  DraftLimits'
BY RestKeepsLimits DEF draftVars, DraftLimits

LEMMA RequestKeepsLimits ==
    ASSUME DraftInv, DraftLimits,
           RemoveText \/ ResetDraft \/ ImportDraft \/ (\E n \in 1..2 : ImportFiles(n))
    PROVE  DraftLimits'
<1>1. PICK what, arg, n :
          Request(what, arg, n) /\ (what = "files" => arg \in 1..2)
  BY DEF RemoveText, ResetDraft, ImportDraft, ImportFiles
<1>2. /\ prompt'.what = what /\ prompt'.arg = arg
      /\ UNCHANGED <<draftVars, view, drawn, mounted, monaco>>
  BY <1>1 DEF Request
<1>3. what = "files" => arg >= 1
  BY <1>1
<1> QED BY <1>2, <1>3, PromptKeepsLimits

LEMMA ReadKeepsLimits ==
    ASSUME DraftInv, DraftInv', DraftLimits, NEW x \in reads \cup {prompt},
           Read(x) \/ FileFails(x)
    PROVE  DraftLimits'
<1>1. x # None /\ x \in Dialogs /\ UNCHANGED <<view, mounted, monaco>>
  BY DEF Read, FileFails, DraftInv, DraftTyped
<1>2. CASE Failed(x) /\ UNCHANGED <<draftVars, drawn>>
  <2>1. CASE UNCHANGED prompt
    BY <1>1, <1>2, <2>1, RestKeepsLimits DEF draftVars, DraftLimits
  <2>2. CASE x = prompt /\ prompt' = [x EXCEPT !.phase = "failed"]
    <3>1. prompt'.what = prompt.what /\ prompt'.arg = prompt.arg /\ prompt # None
      BY <1>1, <2>2 DEF Dialogs
    <3> QED BY <1>1, <1>2, <3>1, RestKeepsLimits DEF draftVars, DraftLimits
  <2> QED BY <1>2, <2>1, <2>2 DEF Failed
<1>3. CASE Read(x) /\ DraftReviewed(x)
  <2>1. x = prompt /\ mounted
    BY <1>1, <1>3, ReviewedFits
  <2>2. CASE prompt' = [x EXCEPT !.left = x.left - 1] /\ UNCHANGED <<draftVars, drawn>>
    <3>1. prompt'.what = prompt.what /\ prompt'.arg = prompt.arg /\ prompt # None
      BY <1>1, <2>1, <2>2 DEF Dialogs
    <3> QED BY <1>1, <2>2, <3>1, RestKeepsLimits DEF draftVars, DraftLimits
  <2>3. drawn \in Nat /\ Valid(draft', drawn')
    BY DEF DraftInv, DraftTyped, DraftIsValid
  <2>4. CASE ReplaceDraft(Opened(saved), FALSE) /\ Closed /\ UNCHANGED drawn
    <3>1. /\ revision < MaxCommits /\ revision' = revision + 1
          /\ generation' = generation + 1 /\ selected' = First(draft')
          /\ dirty' = TRUE /\ prompt' = None
      BY <2>4 DEF ReplaceDraft, Closed
    <3>2. selected' \in 1..drawn' \cup {None} /\ drawn <= drawn'
      BY <2>3, <2>4, <3>1, ValidIds
    <3> QED BY <1>1, <2>1, <3>1, <3>2, CommitKeepsLimits
  <2>5. CASE /\ x.what = "files" /\ drawn' = drawn + x.arg
             /\ Commit(x.on \o Added(x)) /\ Closed
             /\ selected' = IF selected = None THEN drawn + 1 ELSE selected
    <3>1. /\ revision < MaxCommits /\ revision' = revision + 1
          /\ generation' = generation /\ dirty' = TRUE /\ prompt' = None
      BY <2>5 DEF Commit, Closed
    <3>2. x.arg \in Nat /\ x.arg >= 1 /\ selected \in 1..drawn \cup {None}
      BY <1>1, <2>1, <2>5 DEF Dialogs, DraftLimits
    <3>3. drawn <= drawn' /\ drawn + 1 \in 1..drawn' /\ 1..drawn \subseteq 1..drawn'
      BY <2>3, <2>5, <3>2
    <3>4. selected' \in 1..drawn' \cup {None}
      BY <2>5, <3>2, <3>3
    <3> QED BY <1>1, <2>1, <3>1, <3>3, <3>4, CommitKeepsLimits
  <2> QED BY <1>3, <2>1, <2>2, <2>4, <2>5 DEF Read
<1> QED BY <1>2, <1>3 DEF Read, FileFails

LEMMA ConfirmKeepsLimits ==
    ASSUME DraftInv, DraftInv', DraftLimits, ConfirmNow
    PROVE  DraftLimits'
<1>1. /\ mounted /\ prompt' = None /\ UNCHANGED <<view, monaco, mounted, drawn>>
      /\ revision < MaxCommits /\ revision' = revision + 1
      /\ generation' \in {generation, generation + 1} /\ dirty' \in BOOLEAN
      /\ selected' = First(draft')
  BY DEF ConfirmNow, DraftReviewed, Closed, Commit, ReplaceDraft
<1>2. drawn \in Nat /\ Valid(draft', drawn')
  BY DEF DraftInv, DraftTyped, DraftIsValid
<1>3. selected' \in 1..drawn' \cup {None} /\ drawn <= drawn'
  BY <1>1, <1>2, ValidIds
<1> QED BY <1>1, <1>3, CommitKeepsLimits

LEMMA RenderKeepsLimits ==
    ASSUME DraftInv, DraftLimits, Render
    PROVE  DraftLimits'
<1>1. /\ view'.draft = draft
      /\ UNCHANGED <<revision, generation, selected, dirty, prompt, drawn, mounted>>
  BY DEF Render, View, draftVars
<1>2. Valid(draft, drawn)
  BY DEF DraftInv, DraftIsValid
<1>3. monaco' # None => selected \in IdsOf(draft) /\ monaco'.id = selected
  BY DEF Render
<1>4. monaco' # None => monaco'.id \in 1..drawn
  BY <1>2, <1>3, ValidIds
<1> QED BY <1>1, <1>2, <1>4, RestKeepsLimits DEF DraftLimits

LEMMA LeavingKeepsLimits ==
    ASSUME DraftInv, DraftLimits, RouteChange \/ Unmount
    PROVE  DraftLimits'
<1>1. CASE RouteChange
  <2>1. monaco' # None => monaco # None /\ monaco' = [monaco EXCEPT !.ask = None]
    BY <1>1 DEF RouteChange
  <2>2. monaco' # None => monaco # None /\ monaco'.id = monaco.id
    BY <2>1, EditorIsTyped DEF TextEditors
  <2>3. prompt' = None /\ UNCHANGED <<draftVars, view, drawn, mounted>>
    BY <1>1 DEF RouteChange
  <2> QED BY <2>2, <2>3, PromptKeepsLimits
<1>2. CASE Unmount
  <2>1. /\ mounted /\ mounted' = FALSE /\ revision' = revision + 1
        /\ prompt' = None /\ monaco' = None
        /\ UNCHANGED <<generation, selected, dirty, view, drawn>>
    BY <1>2 DEF Unmount
  <2>2. /\ revision \in Nat /\ generation \in Nat /\ MaxCommits \in Nat
        /\ generation <= revision /\ revision <= MaxCommits
    BY <2>1, TaskDraftAssumption DEF DraftInv, DraftTyped, DraftLimits
  <2>3. revision' <= MaxCommits + 1 /\ generation' <= revision'
    BY <2>1, <2>2
  <2> QED BY <2>1, <2>3 DEF DraftLimits
<1> QED BY <1>1, <1>2

LEMMA DraftLimitsNext ==
    ASSUME DraftInv, DraftInv', DraftLimits, [DraftNext]_taskVars
    PROVE  DraftLimits'
<1>0. drawn \in Nat
  BY DEF DraftInv, DraftTyped
<1>1. CASE ChangeTitle \/ AddText
  <2>1. /\ mounted /\ revision < MaxCommits /\ revision' = revision + 1
        /\ generation' = generation /\ dirty' = TRUE
        /\ drawn' \in {drawn, drawn + 1}
        /\ selected' = selected \/ (selected' = drawn + 1 /\ drawn' = drawn + 1)
        /\ UNCHANGED <<view, mounted, monaco, prompt>>
    BY <1>1 DEF ChangeTitle, AddText, Free, Commit
  <2>2. selected \in 1..drawn \cup {None}
    BY DEF DraftLimits
  <2>3. drawn <= drawn' /\ selected' \in 1..drawn' \cup {None}
    BY <1>0, <2>1, <2>2
  <2> QED BY <2>1, <2>3, CommitKeepsLimits
<1>2. CASE SelectItem
  <2>1. selected' \in IdsOf(view.draft)
        /\ UNCHANGED <<revision, generation, dirty, drawn, mounted, view, monaco, prompt>>
    BY <1>2 DEF SelectItem
  <2>2. selected' \in 1..drawn
    BY <2>1, ValidIds DEF DraftLimits
  <2> QED BY <2>1, <2>2, RestKeepsLimits DEF DraftLimits
<1>3. CASE ExportDraft \/ UNCHANGED taskVars
  BY <1>3, RestKeepsLimits DEF ExportDraft, taskVars, draftVars, DraftLimits
<1>4. CASE Type \/ ReplaceText \/ CloseAsk \/ ReadForItem
               \/ (\E what \in {"import", "reset"} : AskEditor(what))
  BY <1>4, TextKeepsLimits
<1>5. CASE RemoveText \/ ResetDraft \/ ImportDraft \/ (\E n \in 1..2 : ImportFiles(n))
  BY <1>5, RequestKeepsLimits
<1>6. CASE ConfirmNow
  BY <1>6, ConfirmKeepsLimits
<1>7. CASE ConfirmImport
  <2>1. prompt \in Dialogs /\ prompt # None /\ prompt' = [prompt EXCEPT !.phase = "reading"]
        /\ UNCHANGED <<draftVars, view, drawn, mounted, monaco>>
    BY <1>7 DEF ConfirmImport, DraftInv, DraftTyped
  <2>2. prompt'.what = prompt.what /\ prompt'.arg = prompt.arg
    BY <2>1 DEF Dialogs
  <2> QED BY <2>1, <2>2, RestKeepsLimits DEF draftVars, DraftLimits
<1>8. CASE ClosePrompt
  BY <1>8, PromptKeepsLimits DEF ClosePrompt, Closed
<1>9. ASSUME NEW x \in reads \cup {prompt}, Read(x) \/ FileFails(x) PROVE DraftLimits'
  BY <1>9, ReadKeepsLimits
<1>10. CASE Render
  BY <1>10, RenderKeepsLimits
<1>11. CASE RouteChange \/ Unmount
  BY <1>11, LeavingKeepsLimits
<1> QED
  BY <1>1, <1>2, <1>3, <1>4, <1>5, <1>6, <1>7, <1>8, <1>9, <1>10, <1>11 DEF DraftNext

LEMMA TypesFollow == DraftInv /\ DraftLimits => DraftTypeOK
<1> SUFFICES ASSUME DraftInv, DraftLimits PROVE DraftTypeOK
  OBVIOUS
<1>1. \A i \in DOMAIN draft : draft[i].id \in 1..drawn /\ draft[i].rev \in Nat \ {0}
  <2>1. draft \in Seq(Items) /\ \A i \in DOMAIN draft : draft[i].id \in 1..drawn
    BY DEF DraftInv, DraftIsValid, Valid
  <2>2. \A i \in DOMAIN draft : draft[i] \in Items
    BY <2>1
  <2> QED BY <2>1, <2>2 DEF Items
<1>2. revision \in 0..(MaxCommits + 1) /\ generation \in 0..revision
  BY TaskDraftAssumption DEF DraftInv, DraftTyped, DraftLimits
<1>3. prompt # None => prompt.phase \in {"confirm", "reading", "failed"}
  BY DEF DraftInv, DraftTyped, Dialogs, RequestPhases
<1>4. monaco # None => monaco.id \in 1..drawn /\ monaco.rev \in Nat
  BY DEF DraftInv, DraftTyped, DraftLimits, TextEditors
<1> QED BY <1>1, <1>2, <1>3, <1>4 DEF DraftTypeOK, DraftLimits

(* However edits, confirmed reads, renders and navigation interleave: the    *)
(* draft is one its validation accepts, each text stands in the item and the *)
(* draft it was typed in, and a draft with content is dirty.                 *)
THEOREM DraftIsSound == DraftSpec => []DraftSound
<1>1. DraftInv /\ DraftLimits => DraftSound
  <2> SUFFICES ASSUME DraftInv, DraftLimits PROVE DraftSound
    OBVIOUS
  <2>1. /\ Len(draft) <= MaxItems /\ Distinct(draft)
        /\ AtHome(draft, generation) /\ (draft = Empty \/ dirty)
    BY DEF DraftInv, DraftIsValid, Valid, DirtyIsSet
  <2>2. IsInjective([i \in DOMAIN draft |-> draft[i].id])
    BY <2>1 DEF IsInjective, Distinct
  <2> QED BY <2>1, <2>2, TypesFollow DEF DraftSound, AtHome
<1>2. DraftInit => DraftLimits
  BY DraftLimitsInit
<1>3. DraftInv /\ DraftInv' /\ DraftLimits /\ [DraftNext]_taskVars => DraftLimits'
  BY DraftLimitsNext
<1> QED BY <1>1, <1>2, <1>3, DraftInvHolds, PTL DEF DraftSpec

-----------------------------------------------------------------------------
(* Steps                                                                     *)

LEMMA NothingIsApplied ==
    ASSUME UNCHANGED <<draft, generation>>
    PROVE  AppliedAsReviewed
BY DEF AppliedAsReviewed, Gone

(* An edit keeps every item, and consumes no question of the editor.         *)
LEMMA EditIsApplied ==
    ASSUME mounted, prompt = None, IdsOf(draft) \subseteq IdsOf(draft'),
           UNCHANGED generation,
           monaco # None /\ monaco.ask # None /\ monaco' # None /\ monaco'.ask = None =>
               monaco.ask.on \in ToSet(draft)
    PROVE  AppliedAsReviewed
BY DEF AppliedAsReviewed, Gone

(* A confirmed request was opened on the draft as it is.                     *)
LEMMA RequestIsApplied ==
    ASSUME mounted, prompt # None, prompt' = None, prompt.on = draft, prompt.at = generation,
           prompt.what = "files" =>
               IsPrefix(draft, draft') /\ Len(draft') = Len(draft) + prompt.arg
    PROVE  AppliedAsReviewed
BY DEF AppliedAsReviewed

(* The text an editor asked about is the one that is replaced.               *)
LEMMA ReplacedIsReviewed ==
    ASSUME DraftInv, monaco # None, monaco.ask # None, ItemReviewed(monaco), ChangeItem(monaco)
    PROVE  monaco.ask.on \in ToSet(draft)
<1> DEFINE i == CHOOSE i \in DOMAIN draft : draft[i].id = monaco.id
<1>1. /\ generation = monaco.gen /\ monaco.id \in IdsOf(draft)
      /\ Item(draft, monaco.id).rev = monaco.rev /\ monaco.rev = monaco.ask.expected
  BY DEF ChangeItem, Accepted, ItemReviewed
<1>2. i \in DOMAIN draft /\ draft[i].id = monaco.id
  BY <1>1 DEF IdsOf
<1>3. draft[i].rev = monaco.ask.expected
  BY <1>1 DEF Item
<1> HIDE DEF i
<1>4. draft[i] \in Items /\ draft[i].home = <<monaco.gen, monaco.id>>
  <2>1. draft \in Seq(Items) /\ AtHome(draft, generation)
    BY DEF DraftInv, DraftIsValid, Valid
  <2> QED BY <1>1, <1>2, <2>1 DEF AtHome
<1>5. monaco.ask.on = [id |-> monaco.id, rev |-> monaco.ask.expected,
                       home |-> <<monaco.gen, monaco.id>>]
  BY DEF DraftInv, AskFits
<1>6. draft[i] = monaco.ask.on
  BY <1>2, <1>3, <1>4, <1>5 DEF Items
<1> QED BY <1>2, <1>6 DEF ToSet

LEMMA ChangeKeepsItems ==
    ASSUME DraftInv, monaco # None, ChangeItem(monaco)
    PROVE  mounted /\ prompt = None /\ IdsOf(draft) \subseteq IdsOf(draft') /\ UNCHANGED generation
<1>1. IdsOf(draft') = IdsOf(draft) /\ generation' = generation
  BY EditorIsTyped, ChangeFits
<1> QED BY <1>1 DEF ChangeItem, Accepted, Free

LEMMA ReplaceTextIsReviewed ==
    ASSUME DraftInv, ReplaceText
    PROVE  AppliedAsReviewed
<1>1. CASE ItemReviewed(monaco) /\ ChangeItem(monaco)
  <2>1. monaco # None /\ monaco.ask # None
    BY DEF ReplaceText
  <2> QED BY <1>1, <2>1, ReplacedIsReviewed, ChangeKeepsItems, EditIsApplied
<1>2. CASE UNCHANGED draftVars
  BY <1>2, NothingIsApplied DEF draftVars
<1> QED BY <1>1, <1>2 DEF ReplaceText

LEMMA ConfirmNowIsReviewed ==
    ASSUME DraftInv, ConfirmNow
    PROVE  AppliedAsReviewed
<1>1. /\ prompt # None /\ DraftReviewed(prompt) /\ prompt' = None
      /\ prompt.what \in {"remove", "reset"}
  BY DEF ConfirmNow, Closed
<1>2. mounted /\ prompt.on = draft /\ prompt.at = generation /\ prompt.what # "files"
  BY <1>1, ReviewedFits
<1> QED BY <1>1, <1>2, RequestIsApplied

LEMMA ReadIsReviewed ==
    ASSUME DraftInv, NEW x \in reads \cup {prompt}, Read(x)
    PROVE  AppliedAsReviewed
<1>1. CASE UNCHANGED draftVars
  BY <1>1, NothingIsApplied DEF draftVars
<1>2. CASE DraftReviewed(x) /\ x.what = "import" /\ (x = prompt => Closed)
  <2>1. x # None
    BY DEF Read
  <2>2. x = prompt /\ mounted /\ prompt.on = draft /\ prompt.at = generation
    BY <1>2, <2>1, ReviewedFits
  <2>3. prompt # None /\ prompt' = None /\ prompt.what # "files"
    BY <1>2, <2>1, <2>2 DEF Closed
  <2> QED BY <2>2, <2>3, RequestIsApplied
<1>3. CASE /\ DraftReviewed(x) /\ x.what = "files" /\ (x = prompt => Closed)
           /\ Commit(x.on \o Added(x))
  <2>1. x # None
    BY DEF Read
  <2>2. x = prompt /\ mounted /\ prompt.on = draft /\ prompt.at = generation
    BY <1>3, <2>1, ReviewedFits
  <2>3. prompt # None /\ prompt' = None /\ draft' = x.on \o Added(x)
    BY <1>3, <2>1, <2>2 DEF Closed, Commit
  <2>4. IsPrefix(draft, x.on \o Added(x)) /\ Len(x.on \o Added(x)) = Len(draft) + x.arg
    BY <1>3, <2>1, FilesAdded
  <2>5. IsPrefix(draft, draft') /\ Len(draft') = Len(draft) + prompt.arg
    BY <2>2, <2>3, <2>4
  <2> QED BY <2>2, <2>3, <2>5, RequestIsApplied
<1> QED BY <1>1, <1>2, <1>3 DEF Read

LEMMA StepIsReviewed == DraftInv /\ [DraftNext]_taskVars => [AppliedAsReviewed]_taskVars
<1> SUFFICES ASSUME DraftInv, [DraftNext]_taskVars PROVE AppliedAsReviewed
  OBVIOUS
<1>1. CASE AddText
  <2>1. mounted /\ prompt = None /\ UNCHANGED <<generation, monaco>>
    BY <1>1 DEF AddText, Free, Commit
  <2> QED BY <1>1, <2>1, DraftInvAddText, EditIsApplied
<1>2. CASE Type
  <2>1. monaco # None /\ monaco.ask = None /\ ChangeItem(monaco)
    BY <1>2 DEF Type
  <2> QED BY <2>1, ChangeKeepsItems, EditIsApplied
<1>3. CASE ReplaceText
  BY <1>3, ReplaceTextIsReviewed
<1>4. CASE ConfirmNow
  BY <1>4, ConfirmNowIsReviewed
<1>5. ASSUME NEW x \in reads \cup {prompt}, Read(x) PROVE AppliedAsReviewed
  BY <1>5, ReadIsReviewed
<1>6. CASE ChangeTitle \/ SelectItem \/ ExportDraft
  BY <1>6, NothingIsApplied DEF ChangeTitle, SelectItem, ExportDraft, draftVars, Commit
<1>7. CASE RemoveText \/ ResetDraft \/ ImportDraft \/ (\E n \in 1..2 : ImportFiles(n))
  <2>1. UNCHANGED draftVars
    BY <1>7 DEF RemoveText, ResetDraft, ImportDraft, ImportFiles, Request
  <2> QED BY <2>1, NothingIsApplied DEF draftVars
<1>8. ASSUME NEW x \in reads \cup {prompt}, FileFails(x) PROVE AppliedAsReviewed
  BY <1>8, NothingIsApplied DEF FileFails, draftVars
<1>9. CASE ConfirmImport \/ ClosePrompt
  BY <1>9, NothingIsApplied DEF ConfirmImport, ClosePrompt, draftVars
<1>10. CASE (\E what \in {"import", "reset"} : AskEditor(what)) \/ CloseAsk \/ ReadForItem
  BY <1>10, NothingIsApplied DEF AskEditor, CloseAsk, ReadForItem, draftVars
<1>11. CASE Render \/ RouteChange \/ Unmount
  BY <1>11, NothingIsApplied DEF Render, RouteChange, Unmount, draftVars
<1>12. CASE UNCHANGED taskVars
  BY <1>12, NothingIsApplied DEF taskVars, draftVars
<1> QED
  BY <1>1, <1>2, <1>3, <1>4, <1>5, <1>6, <1>7, <1>8, <1>9, <1>10, <1>11, <1>12 DEF DraftNext

(* Content leaves the draft only by a request that was opened on exactly     *)
(* this draft and stands; an editor replaces the text it asked about; files  *)
(* are added all together; and nothing changes after the page was left.      *)
THEOREM OnlyReviewedIsApplied ==
    DraftSpec => ReviewedIsApplied
<1>1. DraftInv /\ [DraftNext]_taskVars => [AppliedAsReviewed]_taskVars
  BY StepIsReviewed
<1> QED BY <1>1, DraftInvHolds, PTL DEF DraftSpec, ReviewedIsApplied

-----------------------------------------------------------------------------
(* The runner panel.                                                         *)
(* None is none of the values it stands in for.                              *)
LEMMA NoneIsApart ==
    None \notin Nat /\ None \notin Facts /\ None \notin Reads /\ None \notin Reviews
BY RunnerAdminAssumption

PanelTyped ==
    /\ scope \in Nat /\ gen \in Nat /\ version \in Nat /\ outcomes \in Nat
    /\ timer \in BOOLEAN /\ unsure \in BOOLEAN
    /\ read \in Reads \cup {None}
    /\ snap \in [sample : Reads \cup {None}, stale : BOOLEAN, verify : BOOLEAN]
    /\ snap.sample # None => snap.sample.fact # None
    /\ action \in Nat \cup {None}

(* Of the timer, the read and the POST exactly one is there, unless the view *)
(* has moved on; a POST belongs to the generation that runs.                 *)
OneGoesOn ==
    gen = scope =>
        \/ timer /\ read = None /\ action = None
        \/ ~timer /\ read # None /\ action = None
        \/ ~timer /\ read = None /\ action = gen

(* The engine gave its facts after the read had begun.                       *)
FactsAreYounger ==
    \A r \in {read, snap.sample} :
        r # None /\ r.fact # None => r.fact.since <= r.age

(* A read under way began after the last POST had ended, and so did the one  *)
(* whose sample is not marked stale.                                         *)
ReadsAreLater ==
    gen = scope =>
        /\ read # None => read.after = outcomes
        /\ snap.sample # None /\ ~snap.stale => action = None /\ snap.sample.after = outcomes

(* An unconfirmed POST of this view leaves the demand to look.               *)
DoubtIsMarked == gen = scope /\ unsure => snap.verify

PanelInv == PanelTyped /\ OneGoesOn /\ FactsAreYounger /\ ReadsAreLater /\ DoubtIsMarked

-----------------------------------------------------------------------------
LEMMA NewReadTyped ==
    ASSUME NEW e \in BOOLEAN, NEW n \in Nat
    PROVE  /\ NewRead(e, n) \in Reads
           /\ NewRead(e, n).after = n /\ NewRead(e, n).fact = None
BY DEF NewRead, Reads, TooOld

LEMMA OlderKeepsOrder ==
    ASSUME NEW m \in 0..TooOld, NEW n \in 0..TooOld
    PROVE  Older(m) \in 0..TooOld /\ (m <= n => Older(m) <= Older(n))
BY DEF Older, TooOld

(* Time passes for a read and its facts alike.                               *)
LEMMA AgedTyped ==
    ASSUME NEW r \in Reads \cup {None}
    PROVE  /\ Aged(r) \in Reads \cup {None}
           /\ Aged(r) = None <=> r = None
           /\ r # None =>
                 /\ Aged(r).after = r.after
                 /\ Aged(r).fact = None <=> r.fact = None
                 /\ r.fact # None /\ r.fact.since <= r.age
                        => Aged(r).fact.since <= Aged(r).age
<1>1. CASE r = None
  BY <1>1 DEF Aged
<1>2. CASE r # None
  <2> DEFINE older == [r.fact EXCEPT !.since = Older(r.fact.since)]
             fact == IF r.fact = None THEN None ELSE older
             aged == [r EXCEPT !.age = Older(r.age), !.fact = fact]
  <2>1. r \in Reads
    BY <1>2
  <2>2. r.age \in 0..TooOld /\ r.fact \in Facts \cup {None}
    BY <2>1 DEF Reads
  <2>3. r.fact # None => older \in Facts /\ older.since = Older(r.fact.since)
    BY <2>2, OlderKeepsOrder DEF Facts
  <2>4. fact \in Facts \cup {None} /\ (fact = None <=> r.fact = None)
    BY <2>3, NoneIsApart
  <2>5. Aged(r) = aged
    BY <1>2 DEF Aged, AgedFact
  <2>6. Older(r.age) \in 0..TooOld
    BY <2>2, OlderKeepsOrder
  <2> HIDE DEF fact, older
  <2>7. aged \in Reads /\ aged.after = r.after /\ aged.fact = fact /\ aged.age = Older(r.age)
    BY <2>1, <2>4, <2>6 DEF Reads
  <2>8. ASSUME r.fact # None, r.fact.since <= r.age
        PROVE  fact.since <= Older(r.age)
    <3>1. fact.since = Older(r.fact.since)
      BY <2>3, <2>8 DEF fact
    <3>2. r.fact.since \in 0..TooOld
      BY <2>2, <2>8 DEF Facts
    <3> QED BY <2>2, <2>8, <3>1, <3>2, OlderKeepsOrder
  <2> HIDE DEF aged
  <2> QED BY <1>2, <2>4, <2>5, <2>7, <2>8, NoneIsApart
<1> QED BY <1>1, <1>2

LEMMA PanelInvInit == AdminInit => PanelInv
<1> SUFFICES ASSUME AdminInit PROVE PanelInv
  OBVIOUS
<1>1. read \in Reads /\ read.after = 0 /\ read.fact = None /\ read # None
  BY NewReadTyped, NoneIsApart DEF AdminInit
<1> QED
  BY <1>1 DEF AdminInit, Blank, PanelInv, PanelTyped, OneGoesOn, FactsAreYounger, ReadsAreLater, DoubtIsMarked

-----------------------------------------------------------------------------
(* A read begins where nothing else went on, and knows of every POST.        *)
LEMMA PanelInvBegin ==
    ASSUME PanelInv, TimerFires \/ ClickRefresh
    PROVE  PanelInv'
<1>1. PICK e \in BOOLEAN : Begin(e)
  BY DEF TimerFires, ClickRefresh
<1>2. read' = NewRead(e, outcomes) /\ ~timer' /\ action = None /\ gen = scope
  BY <1>1 DEF Begin, Owns
<1>3. UNCHANGED <<scope, gen, snap, action, version, outcomes, unsure>>
  BY DEF TimerFires, ClickRefresh
<1>4. read' \in Reads /\ read'.after = outcomes /\ read'.fact = None /\ read' # None
  BY <1>2, NewReadTyped, NoneIsApart DEF PanelInv, PanelTyped
<1>5. timer' = FALSE
  BY <1>1 DEF Begin
<1> QED
  BY <1>2, <1>3, <1>4, <1>5
  DEF PanelInv, PanelTyped, OneGoesOn, FactsAreYounger, ReadsAreLater, DoubtIsMarked

LEMMA PanelInvServeRead ==
    ASSUME PanelInv, ServeInventory
    PROVE  PanelInv'
<1>1. PICK ttl \in 1..TooOld :
          read' = [read EXCEPT !.fact = [version |-> version, ttl |-> ttl, since |-> 0]]
  BY DEF ServeInventory
<1> DEFINE fact == [version |-> version, ttl |-> ttl, since |-> 0]
<1>2. read \in Reads /\ fact \in Facts /\ fact.since = 0
  BY DEF PanelInv, PanelTyped, ServeInventory, Facts, TooOld
<1> HIDE DEF fact
<1>3. read' \in Reads /\ read'.after = read.after /\ read'.age = read.age /\ read'.fact = fact
  BY <1>1, <1>2 DEF Reads, fact
<1>4. read.age \in 0..TooOld
  BY <1>2 DEF Reads
<1>5. UNCHANGED <<scope, gen, snap, action, timer, version, outcomes, unsure>> /\ read # None
  BY DEF ServeInventory
<1>6. read' # None /\ fact.since <= read'.age
  BY <1>2, <1>3, <1>4, NoneIsApart DEF TooOld
<1>7. PanelTyped'
  BY <1>3, <1>5 DEF PanelInv, PanelTyped
<1>8. OneGoesOn' /\ ReadsAreLater' /\ DoubtIsMarked'
  BY <1>3, <1>5, <1>6 DEF PanelInv, OneGoesOn, ReadsAreLater, DoubtIsMarked
<1>9. FactsAreYounger'
  BY <1>3, <1>5, <1>6 DEF PanelInv, FactsAreYounger
<1> QED BY <1>7, <1>8, <1>9 DEF PanelInv

(* A sample is shown with what is still in doubt about it.                   *)
LEMMA PanelInvReadArrives ==
    ASSUME PanelInv, InventoryArrives
    PROVE  PanelInv'
<1>1. /\ read \in Reads /\ read # None /\ read.fact # None
      /\ gen = scope /\ ~timer /\ action = None
      /\ read' = None /\ timer' = TRUE
      /\ snap' = [sample |-> Sampled, stale |-> FALSE, verify |-> VerifyAfter]
      /\ unsure' = (unsure /\ ~(read.explicit /\ read.after = outcomes))
      /\ UNCHANGED <<scope, gen, action, version, outcomes>>
  BY DEF PanelInv, PanelTyped, OneGoesOn, InventoryArrives, EndRead, Owns
<1>2. /\ Sampled \in Reads /\ Sampled.after = read.after
      /\ Sampled.fact = read.fact /\ Sampled.age = read.age
  BY <1>1 DEF Sampled, Reads
<1>3. /\ snap'.sample = Sampled /\ snap'.stale = FALSE
      /\ snap'.verify = (snap.verify /\ ~read.explicit)
  BY <1>1 DEF VerifyAfter
<1>4. read.after = outcomes /\ read.fact.since <= read.age /\ read.explicit \in BOOLEAN
  BY <1>1 DEF PanelInv, ReadsAreLater, FactsAreYounger, Reads
<1>5. PanelTyped'
  BY <1>1, <1>2, <1>3 DEF PanelInv, PanelTyped, VerifyAfter
<1>6. OneGoesOn' /\ ReadsAreLater'
  BY <1>1, <1>2, <1>3, <1>4 DEF PanelInv, OneGoesOn, ReadsAreLater
<1>7. FactsAreYounger'
  BY <1>1, <1>2, <1>3, <1>4 DEF FactsAreYounger
<1>8. DoubtIsMarked'
  BY <1>1, <1>3, <1>4 DEF PanelInv, DoubtIsMarked
<1> QED BY <1>5, <1>6, <1>7, <1>8 DEF PanelInv

LEMMA PanelInvReadFails ==
    ASSUME PanelInv, InventoryFails
    PROVE  PanelInv'
<1>1. /\ read # None /\ gen = scope /\ action = None
      /\ read' = None /\ timer' = TRUE
      /\ snap' = [snap EXCEPT !.stale = (snap.sample # None)]
      /\ UNCHANGED <<scope, gen, action, version, outcomes, unsure>>
  BY DEF PanelInv, OneGoesOn, InventoryFails, EndRead, Owns
<1>2. /\ snap'.sample = snap.sample /\ snap'.stale = (snap.sample # None)
      /\ snap'.verify = snap.verify
  BY <1>1 DEF PanelInv, PanelTyped
<1>3. PanelTyped'
  BY <1>1, <1>2 DEF PanelInv, PanelTyped
<1> QED
  BY <1>1, <1>2, <1>3 DEF PanelInv, OneGoesOn, FactsAreYounger, ReadsAreLater, DoubtIsMarked

-----------------------------------------------------------------------------
(* A POST takes the place of the timer, and marks what is shown as stale.    *)
LEMMA PanelInvConfirm ==
    ASSUME PanelInv, Confirm
    PROVE  PanelInv'
<1>1. UNCHANGED <<scope, gen, read, version, outcomes, unsure>>
  BY DEF Confirm
<1>2. CASE PanelReviewed(review)
  <2>1. /\ gen = scope /\ read = None /\ action = None
        /\ action' = gen /\ timer' = FALSE /\ snap' = [snap EXCEPT !.stale = TRUE]
    BY <1>2 DEF Confirm, PanelReviewed, Owns, PanelReady
  <2>2. /\ snap'.sample = snap.sample /\ snap'.stale = TRUE /\ snap'.verify = snap.verify
    BY <2>1 DEF PanelInv, PanelTyped
  <2>3. PanelTyped'
    BY <1>1, <2>1, <2>2 DEF PanelInv, PanelTyped
  <2> QED
    BY <1>1, <2>1, <2>2, <2>3
    DEF PanelInv, OneGoesOn, FactsAreYounger, ReadsAreLater, DoubtIsMarked
<1>3. CASE ~PanelReviewed(review)
  <2>1. UNCHANGED <<action, timer, snap>>
    BY <1>3 DEF Confirm
  <2> QED
    BY <1>1, <2>1 DEF PanelInv, PanelTyped, OneGoesOn, FactsAreYounger, ReadsAreLater, DoubtIsMarked
<1> QED BY <1>2, <1>3

LEMMA PanelInvAcknowledged ==
    ASSUME PanelInv, Acknowledged
    PROVE  PanelInv'
<1>1. /\ action # None /\ action' = None /\ outcomes' = outcomes + 1
      /\ UNCHANGED <<scope, gen, snap, version, unsure>>
  BY DEF Acknowledged
<1>2. outcomes' \in Nat /\ NewRead(FALSE, outcomes + 1) \in Reads
      /\ NewRead(FALSE, outcomes + 1).after = outcomes + 1
      /\ NewRead(FALSE, outcomes + 1).fact = None
  <2>1. outcomes + 1 \in Nat
    BY DEF PanelInv, PanelTyped
  <2> QED BY <1>1, <2>1, NewReadTyped
<1>3. CASE gen = scope
  <2>1. action = gen
    BY <1>1, <1>3 DEF PanelInv, OneGoesOn
  <2>2. read' = NewRead(FALSE, outcomes + 1) /\ timer' = FALSE
    BY <1>3, <2>1 DEF Acknowledged, Owns
  <2>3. read' # None
    BY <1>2, <2>2, NoneIsApart
  <2>4. snap.sample # None => snap.stale
    BY <1>1, <1>3 DEF PanelInv, ReadsAreLater
  <2>5. PanelTyped'
    BY <1>1, <1>2, <2>2 DEF PanelInv, PanelTyped
  <2> QED
    BY <1>1, <1>2, <2>2, <2>3, <2>4, <2>5
    DEF PanelInv, OneGoesOn, FactsAreYounger, ReadsAreLater, DoubtIsMarked
<1>4. CASE gen # scope
  <2>1. UNCHANGED <<read, timer>>
    BY <1>4 DEF Acknowledged, Owns
  <2> QED
    BY <1>1, <1>2, <1>4, <2>1
    DEF PanelInv, PanelTyped, OneGoesOn, FactsAreYounger, ReadsAreLater, DoubtIsMarked
<1> QED BY <1>3, <1>4

LEMMA PanelInvUnconfirmed ==
    ASSUME PanelInv, Unconfirmed
    PROVE  PanelInv'
<1>1. /\ action # None /\ action' = None /\ outcomes' = outcomes + 1 /\ unsure' = TRUE
      /\ UNCHANGED <<scope, gen, read, version>>
  BY DEF Unconfirmed
<1>2. outcomes' \in Nat
  BY <1>1 DEF PanelInv, PanelTyped
<1>3. CASE gen = scope
  <2>1. action = gen /\ read = None /\ (snap.sample # None => snap.stale)
    BY <1>1, <1>3 DEF PanelInv, OneGoesOn, ReadsAreLater
  <2>2. snap' = [snap EXCEPT !.verify = TRUE] /\ timer' = TRUE
    BY <1>3, <2>1 DEF Unconfirmed, Owns
  <2>3. snap'.sample = snap.sample /\ snap'.stale = snap.stale /\ snap'.verify = TRUE
    BY <2>2 DEF PanelInv, PanelTyped
  <2>4. PanelTyped'
    BY <1>1, <1>2, <2>2, <2>3 DEF PanelInv, PanelTyped
  <2> QED
    BY <1>1, <2>1, <2>2, <2>3, <2>4
    DEF PanelInv, OneGoesOn, FactsAreYounger, ReadsAreLater, DoubtIsMarked
<1>4. CASE gen # scope
  <2>1. UNCHANGED <<snap, timer>>
    BY <1>4 DEF Unconfirmed, Owns
  <2> QED
    BY <1>1, <1>2, <1>4, <2>1
    DEF PanelInv, PanelTyped, OneGoesOn, FactsAreYounger, ReadsAreLater, DoubtIsMarked
<1> QED BY <1>3, <1>4

-----------------------------------------------------------------------------
(* The effects start the new view with a read of its own.                    *)
LEMMA PanelInvEffects ==
    ASSUME PanelInv, Effects
    PROVE  PanelInv'
<1>1. /\ gen' = scope /\ snap' = Blank /\ timer' = FALSE /\ action' = None /\ unsure' = FALSE
      /\ read' = NewRead(FALSE, outcomes') /\ UNCHANGED <<scope, version>>
  BY DEF Effects
<1>2. outcomes' \in Nat
  BY DEF Effects, PanelInv, PanelTyped
<1>3. read' \in Reads /\ read'.after = outcomes' /\ read'.fact = None /\ read' # None
  BY <1>1, <1>2, NewReadTyped, NoneIsApart
<1>4. /\ snap' \in [sample : Reads \cup {None}, stale : BOOLEAN, verify : BOOLEAN]
      /\ snap'.sample = None /\ snap'.verify = FALSE
  BY <1>1 DEF Blank
<1> QED
  BY <1>1, <1>2, <1>3, <1>4
  DEF PanelInv, PanelTyped, OneGoesOn, FactsAreYounger, ReadsAreLater, DoubtIsMarked

LEMMA PanelInvTick ==
    ASSUME PanelInv, Tick
    PROVE  PanelInv'
<1>1. /\ snap' = [snap EXCEPT !.sample = Aged(snap.sample)] /\ read' = Aged(read)
      /\ UNCHANGED <<scope, gen, action, timer, version, outcomes, unsure>>
  BY DEF Tick
<1>2. snap.sample \in Reads \cup {None} /\ read \in Reads \cup {None}
  BY DEF PanelInv, PanelTyped
<1>3. /\ snap'.sample = Aged(snap.sample)
      /\ snap'.stale = snap.stale /\ snap'.verify = snap.verify
  BY <1>1 DEF PanelInv, PanelTyped
<1>4. /\ Aged(snap.sample) \in Reads \cup {None} /\ Aged(read) \in Reads \cup {None}
      /\ Aged(snap.sample) = None <=> snap.sample = None
      /\ Aged(read) = None <=> read = None
  BY <1>2, AgedTyped
<1>5. \A r \in {read, snap.sample} : r # None =>
          /\ Aged(r).after = r.after
          /\ Aged(r).fact = None <=> r.fact = None
          /\ r.fact # None /\ r.fact.since <= r.age => Aged(r).fact.since <= Aged(r).age
  BY <1>2, AgedTyped
<1>6. PanelTyped'
  BY <1>1, <1>3, <1>4, <1>5 DEF PanelInv, PanelTyped
<1>7. OneGoesOn' /\ DoubtIsMarked'
  BY <1>1, <1>3, <1>4 DEF PanelInv, OneGoesOn, DoubtIsMarked
<1>8. FactsAreYounger'
  BY <1>1, <1>3, <1>4, <1>5 DEF PanelInv, FactsAreYounger
<1>9. ReadsAreLater'
  BY <1>1, <1>3, <1>4, <1>5 DEF PanelInv, ReadsAreLater
<1> QED BY <1>6, <1>7, <1>8, <1>9 DEF PanelInv

(* The inductive invariant holds throughout.                                 *)
LEMMA PanelInvNext ==
    ASSUME PanelInv, [AdminNext]_adminVars
    PROVE  PanelInv'
<1>1. CASE TimerFires \/ ClickRefresh BY <1>1, PanelInvBegin
<1>2. CASE ServeInventory BY <1>2, PanelInvServeRead
<1>3. CASE InventoryArrives BY <1>3, PanelInvReadArrives
<1>4. CASE InventoryFails BY <1>4, PanelInvReadFails
<1>5. CASE Confirm BY <1>5, PanelInvConfirm
<1>6. CASE Acknowledged BY <1>6, PanelInvAcknowledged
<1>7. CASE Unconfirmed BY <1>7, PanelInvUnconfirmed
<1>8. CASE Effects BY <1>8, PanelInvEffects
<1>9. CASE Tick BY <1>9, PanelInvTick
<1>10. CASE CloseReview \/ (\E kind \in {"probe", "cancel"} : Ask(kind)) \/ UNCHANGED adminVars
  BY <1>10 DEF CloseReview, Ask, adminVars, PanelInv, PanelTyped, OneGoesOn, FactsAreYounger,
               ReadsAreLater, DoubtIsMarked
<1>11. CASE TargetChanges
  BY <1>11 DEF TargetChanges, PanelInv, PanelTyped, OneGoesOn, FactsAreYounger, ReadsAreLater, DoubtIsMarked
<1>12. CASE Navigate
  <2>1. scope' \in Nat /\ gen' # scope'
    BY <1>12 DEF Navigate, PanelInv, PanelTyped
  <2> QED
    BY <1>12, <2>1 DEF Navigate, PanelInv, PanelTyped, OneGoesOn, FactsAreYounger, ReadsAreLater,
                       DoubtIsMarked
<1> QED
  BY <1>1, <1>2, <1>3, <1>4, <1>5, <1>6, <1>7, <1>8, <1>9, <1>10, <1>11, <1>12 DEF AdminNext

-----------------------------------------------------------------------------
(* The bounds: every POST was confirmed once, and its dialog stays open.     *)
PanelLimits ==
    /\ scope \in 0..MaxScopes /\ gen \in {scope - 1, scope}
    /\ version \in 0..MaxVersions
    /\ review \in Reviews \cup {None}
    /\ action # None => review # None /\ review.phase = "running"
    /\ posts \in 0..MaxPosts /\ outcomes <= posts
    /\ action # None => outcomes < posts
    /\ review # None /\ review.phase = "confirm" => posts < MaxPosts
    /\ \A r \in {read, snap.sample} : r # None => r.after <= outcomes

LEMMA PanelLimitsInit == AdminInit => PanelLimits
<1> SUFFICES ASSUME AdminInit PROVE PanelLimits
  OBVIOUS
<1>1. /\ scope = 0 /\ gen = 0 /\ version = 0 /\ posts = 0 /\ outcomes = 0
      /\ action = None /\ review = None /\ snap.sample = None /\ read.after = 0
  BY NewReadTyped DEF AdminInit, Blank
<1>2. /\ 0 \in 0..MaxScopes /\ 0 \in 0..MaxVersions /\ 0 \in 0..MaxPosts
  BY RunnerAdminAssumption
<1> QED BY <1>1, <1>2 DEF PanelLimits

(* A step of the inventory leaves what was posted alone.                     *)
LEMMA ReadingKeepsLimits ==
    ASSUME PanelInv, PanelLimits,
           TimerFires \/ ClickRefresh \/ ServeInventory \/ InventoryArrives
               \/ InventoryFails \/ Tick
    PROVE  PanelLimits'
<1>1. UNCHANGED <<scope, gen, action, review, version, outcomes, posts>>
  BY DEF TimerFires, ClickRefresh, ServeInventory, InventoryArrives, InventoryFails,
         EndRead, Tick
<1>2. read \in Reads \cup {None} /\ snap.sample \in Reads \cup {None} /\ outcomes \in Nat
      /\ snap \in [sample : Reads \cup {None}, stale : BOOLEAN, verify : BOOLEAN]
  BY DEF PanelInv, PanelTyped
<1>3. CASE TimerFires \/ ClickRefresh
  <2>1. PICK e \in BOOLEAN : read' = NewRead(e, outcomes)
    BY <1>3 DEF TimerFires, ClickRefresh, Begin
  <2>2. read'.after = outcomes /\ snap' = snap
    BY <1>2, <1>3, <2>1, NewReadTyped DEF TimerFires, ClickRefresh
  <2> QED BY <1>1, <1>2, <2>2 DEF PanelLimits
<1>4. CASE ServeInventory
  <2>1. read'.after = read.after /\ read # None /\ snap' = snap
    BY <1>2, <1>4 DEF ServeInventory, Reads
  <2> QED BY <1>1, <2>1 DEF PanelLimits
<1>5. CASE InventoryArrives
  <2>1. /\ read # None /\ read' = None
        /\ snap' = [sample |-> Sampled, stale |-> FALSE, verify |-> VerifyAfter]
    BY <1>5 DEF InventoryArrives, EndRead
  <2>2. snap'.sample.after = read.after
    BY <1>2, <2>1 DEF Sampled, Reads
  <2> QED BY <1>1, <2>1, <2>2 DEF PanelLimits
<1>6. CASE InventoryFails
  <2>1. read' = None /\ snap'.sample = snap.sample
    BY <1>2, <1>6 DEF InventoryFails, EndRead
  <2> QED BY <1>1, <2>1 DEF PanelLimits
<1>7. CASE Tick
  <2>1. read' = Aged(read) /\ snap'.sample = Aged(snap.sample)
    BY <1>2, <1>7 DEF Tick
  <2>2. \A r \in {read, snap.sample} :
            /\ Aged(r) = None <=> r = None
            /\ r # None => Aged(r).after = r.after
    BY <1>2, AgedTyped
  <2> QED BY <1>1, <2>1, <2>2 DEF PanelLimits
<1> QED BY <1>3, <1>4, <1>5, <1>6, <1>7

LEMMA PhaseKeepsReview ==
    ASSUME NEW x \in Reviews, NEW phase \in {"confirm", "running", "failed"}
    PROVE  /\ [x EXCEPT !.phase = phase] \in Reviews
           /\ [x EXCEPT !.phase = phase].phase = phase
           /\ [x EXCEPT !.phase = phase] # None
BY NoneIsApart DEF Reviews

LEMMA AskKeepsLimits ==
    ASSUME PanelInv, PanelLimits, NEW kind \in {"probe", "cancel"}, Ask(kind)
    PROVE  PanelLimits'
<1>1. /\ review = None /\ posts < MaxPosts /\ action = None /\ snap.sample # None
      /\ review' = [kind |-> kind, scope |-> scope, version |-> snap.sample.fact.version,
                    phase |-> "confirm"]
      /\ UNCHANGED <<scope, gen, snap, read, action, version, outcomes, posts>>
  BY DEF Ask, PanelReady
<1>2. snap.sample.fact.version \in Nat /\ scope \in Nat
  BY <1>1 DEF PanelInv, PanelTyped, Reads, Facts
<1>3. review' \in Reviews
  BY <1>1, <1>2 DEF Reviews
<1> QED BY <1>1, <1>3 DEF PanelLimits

LEMMA ConfirmKeepsPanel ==
    ASSUME PanelInv, PanelLimits, Confirm
    PROVE  PanelLimits'
<1>1. /\ review \in Reviews /\ review.phase = "confirm" /\ action = None
      /\ posts < MaxPosts /\ posts' = posts + 1
      /\ UNCHANGED <<scope, gen, read, version, outcomes>>
  BY DEF Confirm, PanelLimits
<1>2. snap'.sample = snap.sample
  BY DEF Confirm, PanelInv, PanelTyped
<1>3. /\ posts' \in 0..MaxPosts /\ outcomes < posts' /\ outcomes <= posts'
  BY <1>1, RunnerAdminAssumption DEF PanelLimits, PanelInv, PanelTyped
<1>4. CASE PanelReviewed(review)
  <2>1. review' = [review EXCEPT !.phase = "running"]
    BY <1>4 DEF Confirm
  <2>2. review' \in Reviews /\ review'.phase = "running" /\ review' # None
    BY <1>1, <2>1, PhaseKeepsReview
  <2> QED BY <1>1, <1>2, <1>3, <2>2 DEF PanelLimits
<1>5. CASE ~PanelReviewed(review)
  <2>1. review' = [review EXCEPT !.phase = "failed"] /\ action' = action
    BY <1>5 DEF Confirm
  <2>2. review' \in Reviews /\ review'.phase = "failed"
    BY <1>1, <2>1, PhaseKeepsReview
  <2> QED BY <1>1, <1>2, <1>3, <2>1, <2>2 DEF PanelLimits
<1> QED BY <1>4, <1>5

LEMMA OutcomeKeepsLimits ==
    ASSUME PanelInv, PanelLimits, Acknowledged \/ Unconfirmed
    PROVE  PanelLimits'
<1>1. /\ action # None /\ action' = None /\ outcomes' = outcomes + 1
      /\ UNCHANGED <<scope, gen, version, posts>>
  BY DEF Acknowledged, Unconfirmed
<1>2. /\ outcomes \in Nat /\ posts \in Nat /\ outcomes < posts
      /\ review \in Reviews
      /\ snap \in [sample : Reads \cup {None}, stale : BOOLEAN, verify : BOOLEAN]
  BY <1>1 DEF PanelInv, PanelTyped, PanelLimits
<1>3. outcomes' <= posts' /\ outcomes' \in Nat
  BY <1>1, <1>2
<1>4. review' \in Reviews \cup {None} /\ (review' # None => review'.phase = "failed")
  BY <1>2, PhaseKeepsReview DEF Acknowledged, Unconfirmed
<1>5. snap'.sample = snap.sample
  BY <1>2 DEF Acknowledged, Unconfirmed
<1>6. read' # None => read'.after <= outcomes'
  <2>1. CASE read' = read
    <3>1. read \in Reads \cup {None}
      BY DEF PanelInv, PanelTyped
    <3>2. read # None => read.after <= outcomes /\ read.after \in Nat
      BY <3>1 DEF PanelLimits, Reads
    <3> QED BY <1>1, <1>2, <2>1, <3>2
  <2>2. CASE read' = NewRead(FALSE, outcomes + 1)
    <3>1. PICK n \in Nat : n = outcomes + 1
      BY <1>2
    <3>2. read'.after = n
      BY <2>2, <3>1, NewReadTyped
    <3>3. n <= n /\ outcomes' = n
      BY <1>1, <3>1
    <3> QED BY <3>2, <3>3
  <2> QED BY <2>1, <2>2 DEF Acknowledged, Unconfirmed
<1>7. snap.sample # None => snap.sample.after <= outcomes'
  <2>1. snap.sample # None => snap.sample.after \in Nat /\ snap.sample.after <= outcomes
    BY <1>2 DEF PanelLimits, Reads
  <2> QED BY <1>1, <1>2, <2>1
<1> QED BY <1>1, <1>3, <1>4, <1>5, <1>6, <1>7 DEF PanelLimits

LEMMA EffectsKeepLimits ==
    ASSUME PanelInv, PanelLimits, Effects
    PROVE  PanelLimits'
<1>1. /\ gen' = scope /\ snap' = Blank /\ review' = None /\ action' = None
      /\ read' = NewRead(FALSE, outcomes') /\ UNCHANGED <<scope, version, posts>>
      /\ outcomes' = IF action = None THEN outcomes ELSE outcomes + 1
  BY DEF Effects
<1>2. outcomes \in Nat /\ posts \in Nat
  BY DEF PanelInv, PanelTyped, PanelLimits
<1>3. outcomes' \in Nat /\ outcomes' <= posts
  BY <1>1, <1>2 DEF PanelLimits
<1>4. read'.after = outcomes' /\ snap'.sample = None
  <2>1. PICK n \in Nat : n = outcomes'
    BY <1>3
  <2> QED BY <1>1, <2>1, NewReadTyped DEF Blank
<1>5. outcomes' <= outcomes'
  BY <1>3
<1> QED BY <1>1, <1>3, <1>4, <1>5 DEF PanelLimits

LEMMA PanelLimitsNext ==
    ASSUME PanelInv, PanelLimits, [AdminNext]_adminVars
    PROVE  PanelLimits'
<1>1. CASE TimerFires \/ ClickRefresh \/ ServeInventory \/ InventoryArrives
               \/ InventoryFails \/ Tick
  BY <1>1, ReadingKeepsLimits
<1>2. ASSUME NEW kind \in {"probe", "cancel"}, Ask(kind) PROVE PanelLimits'
  BY <1>2, AskKeepsLimits
<1>3. CASE CloseReview
  <2>1. /\ action = None /\ review' = None
        /\ UNCHANGED <<scope, gen, snap, read, action, version, outcomes, posts>>
    BY <1>3 DEF CloseReview, PanelLimits
  <2> QED BY <2>1 DEF PanelLimits
<1>4. CASE Confirm
  BY <1>4, ConfirmKeepsPanel
<1>5. CASE Acknowledged \/ Unconfirmed
  BY <1>5, OutcomeKeepsLimits
<1>6. CASE Navigate
  <2>1. /\ scope = gen /\ scope < MaxScopes /\ scope' = scope + 1 /\ scope \in Nat
        /\ UNCHANGED <<gen, snap, read, action, review, version, outcomes, posts>>
    BY <1>6 DEF Navigate, PanelInv, PanelTyped
  <2>2. scope' \in 0..MaxScopes /\ gen' \in {scope' - 1, scope'}
    BY <2>1, RunnerAdminAssumption
  <2> QED BY <2>1, <2>2 DEF PanelLimits
<1>7. CASE Effects
  BY <1>7, EffectsKeepLimits
<1>8. CASE TargetChanges
  <2>1. /\ version < MaxVersions /\ version' = version + 1 /\ version \in Nat
        /\ UNCHANGED <<scope, gen, snap, read, action, review, outcomes, posts>>
    BY <1>8 DEF TargetChanges, PanelInv, PanelTyped
  <2>2. version' \in 0..MaxVersions
    BY <2>1, RunnerAdminAssumption
  <2> QED BY <2>1, <2>2 DEF PanelLimits
<1>9. CASE UNCHANGED adminVars
  BY <1>9 DEF adminVars, PanelLimits
<1> QED
  BY <1>1, <1>2, <1>3, <1>4, <1>5, <1>6, <1>7, <1>8, <1>9 DEF AdminNext

LEMMA PanelTypesFollow == PanelInv /\ PanelLimits => AdminTypeOK
<1> SUFFICES ASSUME PanelInv, PanelLimits PROVE AdminTypeOK
  OBVIOUS
<1>1. \A r \in {read, snap.sample} \ {None} : r \in Reads /\ r.after \in 0..outcomes
  <2> SUFFICES ASSUME NEW r \in {read, snap.sample}, r # None
               PROVE  r \in Reads /\ r.after \in 0..outcomes
    OBVIOUS
  <2>1. r \in Reads /\ outcomes \in Nat /\ r.after <= outcomes
    BY DEF PanelInv, PanelTyped, PanelLimits
  <2>2. r.after \in Nat
    BY <2>1 DEF Reads
  <2> QED BY <2>1, <2>2
<1>2. outcomes \in 0..MaxPosts
  BY RunnerAdminAssumption DEF PanelInv, PanelTyped, PanelLimits
<1>3. snap.stale \in BOOLEAN /\ snap.verify \in BOOLEAN
      /\ timer \in BOOLEAN /\ unsure \in BOOLEAN
  BY DEF PanelInv, PanelTyped
<1> QED BY <1>1, <1>2, <1>3 DEF AdminTypeOK, PanelLimits

-----------------------------------------------------------------------------
(* The count of what goes on is one.                                         *)
LEMMA OneIsCounted ==
    ASSUME PanelInv
    PROVE  KeepsReading
<1> SUFFICES ASSUME gen = scope
             PROVE  Cardinality({x \in {"timer", "read", "action"} :
                       \/ x = "timer" /\ timer
                       \/ x = "read" /\ read # None
                       \/ x = "action" /\ action # None}) = 1
  BY DEF KeepsReading
<1> DEFINE on == {x \in {"timer", "read", "action"} :
                       \/ x = "timer" /\ timer
                       \/ x = "read" /\ read # None
                       \/ x = "action" /\ action # None}
<1>1. PICK y \in {"timer", "read", "action"} : on = {y}
  <2>1. CASE timer /\ read = None /\ action = None
    BY <2>1
  <2>2. CASE ~timer /\ read # None /\ action = None
    BY <2>2
  <2>3. CASE ~timer /\ read = None /\ action = gen
    <3>1. action # None
      BY <2>3, NoneIsApart DEF PanelInv, PanelTyped
    <3> QED BY <2>3, <3>1
  <2> QED BY <2>1, <2>2, <2>3 DEF PanelInv, OneGoesOn
<1> QED BY <1>1, FS_Singleton

(* Only a confirmation starts a POST, and it reviews everything.             *)
LEMMA OnlyConfirmPosts ==
    ASSUME PanelInv, [AdminNext]_adminVars
    PROVE  PostIsInformed
<1> SUFFICES ASSUME action' # None, action # action'
             PROVE  /\ scope = review.scope /\ snap.sample.after = outcomes
                    /\ snap.sample.fact.version = review.version
                    /\ snap.sample.fact.since < TooOld
                    /\ review.kind = "probe" => snap.sample.fact.since < snap.sample.fact.ttl
                    /\ ~unsure
  BY DEF PostIsInformed
<1>1. Confirm
  BY DEF AdminNext, adminVars, TimerFires, ClickRefresh, ServeInventory, InventoryArrives, InventoryFails, EndRead, Ask,
         CloseReview, Acknowledged, Unconfirmed, Navigate, Effects, TargetChanges, Tick
<1>2. PanelReviewed(review)
  BY <1>1 DEF Confirm
<1>3. /\ gen = review.scope /\ gen = scope
      /\ snap.sample # None /\ ~snap.stale /\ ~snap.verify
      /\ snap.sample.age < TooOld /\ snap.sample.fact.version = review.version
      /\ review.kind = "probe" => snap.sample.age < snap.sample.fact.ttl
  BY <1>2 DEF PanelReviewed, Owns, PanelReady
<1>4. snap.sample \in Reads /\ snap.sample.fact # None
  BY <1>3 DEF PanelInv, PanelTyped
<1>5. snap.sample.age \in 0..TooOld /\ snap.sample.fact \in Facts
  BY <1>4 DEF Reads
<1>6. snap.sample.fact.since \in 0..TooOld /\ snap.sample.fact.ttl \in 1..TooOld
  BY <1>5 DEF Facts
<1>7. snap.sample.fact.since <= snap.sample.age
  BY <1>3, <1>4 DEF PanelInv, FactsAreYounger
<1>8. snap.sample.after = outcomes /\ ~unsure
  BY <1>3 DEF PanelInv, ReadsAreLater, DoubtIsMarked
<1> QED BY <1>3, <1>5, <1>6, <1>7, <1>8 DEF TooOld

(* The panel never stops looking, and never acts without having looked.      *)
THEOREM PanelIsSound == AdminSpec => AdminSound
<1>1. AdminInit => PanelInv /\ PanelLimits
  BY PanelInvInit, PanelLimitsInit
<1>2. PanelInv /\ PanelLimits /\ [AdminNext]_adminVars => PanelInv' /\ PanelLimits'
  BY PanelInvNext, PanelLimitsNext
<1>3. PanelInv /\ PanelLimits => AdminTypeOK /\ KeepsReading
  BY OneIsCounted, PanelTypesFollow
<1>4. PanelInv /\ [AdminNext]_adminVars => [PostIsInformed]_adminVars
  BY OnlyConfirmPosts
<1> QED BY <1>1, <1>2, <1>3, <1>4, PTL DEF AdminSpec, AdminSound
=============================================================================
