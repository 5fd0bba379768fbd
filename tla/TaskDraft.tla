------------------------------ MODULE TaskDraft ------------------------------
(* The local task draft of the browser application: useTaskDraftController   *)
(* with its confirmation dialog, and the editor of the selected item with a  *)
(* dialog of its own.  Confirmed imports read files across awaits; React     *)
(* renders some time after the draft changed, so that an editor, and its     *)
(* late events, can outlive the item or the draft they were made for.        *)
(*                                                                           *)
(* A content is known by its home, the generation and item whose editor it   *)
(* was typed in, and by the item's revision.  The title, names, languages    *)
(* and sizes are left out; what validation refuses changes nothing.          *)
EXTENDS Integers, Sequences, FiniteSets, SequencesExt, PageValues

CONSTANTS
    MaxItems,    \* MAX_TASK_PAYLOAD_ITEMS
    MaxCommits,  \* bound: accepted changes of the draft
    MaxRoutes    \* bound: navigations that keep the page

ASSUME TaskDraftAssumption == MaxItems \in Nat /\ MaxCommits \in Nat /\ MaxRoutes \in Nat

VARIABLES
    draft,       \* draftRef: its items
    revision,    \* counts accepted changes
    generation,  \* counts replacements of the draft
    selected,    \* selectedRef
    dirty,
    prompt,      \* the confirmation that is open, and the draft it was opened on
    reads,       \* executions of dialogs that were closed under them
    view,        \* what React rendered last
    monaco,      \* the mounted editor: its key, live revision, and own dialog
    saved,       \* a file the user exported, None: none yet
    mounted, drawn, routes

draftVars == <<draft, revision, generation, selected, dirty>>
taskVars == <<draftVars, prompt, reads, view, monaco, saved, mounted, drawn, routes>>
-----------------------------------------------------------------------------
Empty == <<>>
IdsOf(d) == {d[i].id : i \in DOMAIN d}
Item(d, id) == d[CHOOSE i \in DOMAIN d : d[i].id = id]
First(d) == IF d = Empty THEN None ELSE d[1].id
New(id) == [id |-> id, rev |-> 1, home |-> <<generation, id>>]

\* The next revision of an item, typed in the editor of draft g.
Edited(d, id, g) == [i \in DOMAIN d |->
    IF d[i].id = id THEN [d[i] EXCEPT !.rev = @ + 1, !.home = <<g, id>>] ELSE d[i]]
Removed(d, id) == RemoveAt(d, CHOOSE i \in DOMAIN d : d[i].id = id)

\* A file holds items of this draft: reading it makes them at home in it.
Opened(file) == [i \in DOMAIN file |->
    [file[i] EXCEPT !.home = <<generation + 1, file[i].id>>]]

View == [gen |-> generation, draft |-> draft, selected |-> selected, open |-> prompt # None]

Commit(next) ==
    /\ revision < MaxCommits
    /\ draft' = next /\ revision' = revision + 1 /\ dirty' = TRUE
    /\ UNCHANGED generation

\* commit(next, true, empty)
ReplaceDraft(next, empty) ==
    /\ revision < MaxCommits
    /\ draft' = next /\ revision' = revision + 1 /\ dirty' = ~empty
    /\ generation' = generation + 1 /\ selected' = First(next)
-----------------------------------------------------------------------------
DraftInit ==
    /\ draft = Empty /\ revision = 0 /\ generation = 0 /\ selected = None /\ dirty = FALSE
    /\ prompt = None /\ reads = {} /\ view = View /\ monaco = None
    /\ saved = None /\ mounted = TRUE /\ drawn = 0 /\ routes = 0
-----------------------------------------------------------------------------
(* Edits.  isBusy() is the dialog, not what is rendered of it.               *)

Free == mounted /\ prompt = None

ChangeTitle ==
    /\ Free /\ ~view.open
    /\ Commit(draft)
    /\ UNCHANGED <<selected, prompt, reads, view, monaco, saved, mounted, drawn, routes>>

AddText ==
    /\ Free /\ ~view.open /\ Len(draft) < MaxItems
    /\ drawn' = drawn + 1
    /\ Commit(Append(draft, New(drawn + 1)))
    /\ selected' = drawn + 1
    /\ UNCHANGED <<prompt, reads, view, monaco, saved, mounted, routes>>

SelectItem ==
    /\ Free /\ ~view.open
    /\ \E id \in IdsOf(view.draft) : selected' = id
    /\ UNCHANGED <<draft, revision, generation, dirty, prompt, reads, view, monaco, saved,
                   mounted, drawn, routes>>

\* One export is followed, of a draft that has something in it.
ExportDraft ==
    /\ Free /\ ~view.open /\ draft # Empty /\ saved = None
    /\ saved' = draft
    /\ UNCHANGED <<draftVars, prompt, reads, view, monaco, mounted, drawn, routes>>

\* Slip: the item and its revision are thought to be enough.
AcceptedByRevision(gen, id, rev) == Free /\ id \in IdsOf(draft) /\ Item(draft, id).rev = rev
\* The guards of the editor's commit and of changeItem: not disabled, and the
\* draft, the item and the revision are those the editor shows.
Accepted(gen, id, rev) ==
    /\ Free /\ ~view.open /\ generation = gen /\ selected = id
    /\ id \in IdsOf(draft) /\ Item(draft, id).rev = rev

\* The change an editor asks for; what it typed is at home where it was mounted.
ChangeItem(e) ==
    /\ Accepted(e.gen, e.id, e.rev)
    /\ Commit(Edited(draft, e.id, e.gen))
    /\ UNCHANGED selected

\* An event of Monaco, maybe of a model that React is about to drop.
Type ==
    /\ monaco # None /\ monaco.ask = None
    /\ ChangeItem(monaco)
    /\ monaco' = [monaco EXCEPT !.rev = @ + 1]
    /\ UNCHANGED <<prompt, reads, view, saved, mounted, drawn, routes>>
-----------------------------------------------------------------------------
(* The dialog of the draft *)

Request(what, arg, n) ==
    /\ prompt' = [what |-> what, arg |-> arg, left |-> n, expected |-> revision,
                  on |-> draft, at |-> generation, phase |-> "confirm", aborted |-> FALSE]
    /\ UNCHANGED <<draftVars, reads, view, monaco, saved, mounted, drawn, routes>>

RemoveText == Free /\ ~view.open /\ selected \in IdsOf(draft) /\ Request("remove", selected, 0)
ResetDraft == Free /\ ~view.open /\ Request("reset", 0, 0)
\* A file may have been picked before the last render.
ImportDraft == Free /\ saved # None /\ Request("import", 0, 1)
ImportFiles(n) == Free /\ Len(draft) + n <= MaxItems /\ Request("files", n, n)

\* Slip: a read that comes back does not ask whether its dialog still stands.
ReviewedAlways(x) == mounted
\* checkReviewed
DraftReviewed(x) == mounted /\ ~x.aborted /\ revision = x.expected

Closed == prompt' = None
Failed(x) == IF x = prompt THEN prompt' = [x EXCEPT !.phase = "failed"] ELSE UNCHANGED prompt

ConfirmNow ==
    /\ prompt # None /\ prompt.phase = "confirm" /\ view.open
    /\ prompt.what \in {"remove", "reset"}
    /\ DraftReviewed(prompt)
    /\ \/ /\ prompt.what = "remove"
          /\ Commit(Removed(draft, prompt.arg))
          /\ selected' = First(Removed(draft, prompt.arg))
       \/ prompt.what = "reset" /\ ReplaceDraft(Empty, TRUE)
    /\ Closed
    /\ UNCHANGED <<reads, view, monaco, saved, mounted, drawn, routes>>

ConfirmImport ==
    /\ prompt # None /\ prompt.phase = "confirm" /\ view.open
    /\ prompt.what \in {"import", "files"}
    /\ DraftReviewed(prompt)
    /\ prompt' = [prompt EXCEPT !.phase = "reading"]
    /\ UNCHANGED <<draftVars, reads, view, monaco, saved, mounted, drawn, routes>>

ClosePrompt ==
    /\ prompt # None /\ prompt.phase \in {"confirm", "failed"} /\ view.open
    /\ Closed
    /\ UNCHANGED <<draftVars, reads, view, monaco, saved, mounted, drawn, routes>>

\* importTextFiles: all files or none.
Added(x) == [i \in 1..x.arg |-> New(drawn + i)]

\* One file was read.  A dialog that navigation closed leaves its read behind.
Read(x) ==
    /\ x \in reads \cup {prompt} /\ x # None /\ x.phase = "reading"
    /\ reads' = reads \ {x}
    /\ IF ~DraftReviewed(x) THEN Failed(x) /\ UNCHANGED <<draftVars, drawn>>
       ELSE \/ /\ x.left > 1
               /\ IF x = prompt THEN prompt' = [x EXCEPT !.left = @ - 1] ELSE UNCHANGED prompt
               /\ UNCHANGED <<draftVars, drawn>>
            \/ /\ x.left = 1 /\ x.what = "import"
               /\ ReplaceDraft(Opened(saved), FALSE)
               /\ IF x = prompt THEN Closed ELSE UNCHANGED prompt
               /\ UNCHANGED drawn
            \/ /\ x.left = 1 /\ x.what = "files"
               /\ drawn' = drawn + x.arg
               /\ Commit(x.on \o Added(x))
               /\ selected' = IF selected = None THEN drawn + 1 ELSE selected
               /\ IF x = prompt THEN Closed ELSE UNCHANGED prompt
    /\ UNCHANGED <<view, monaco, saved, mounted, routes>>

\* A file cannot be read, is no text or no draft, or ten seconds passed.
FileFails(x) ==
    /\ x \in reads \cup {prompt} /\ x # None /\ x.phase = "reading"
    /\ reads' = reads \ {x} /\ Failed(x)
    /\ UNCHANGED <<draftVars, view, monaco, saved, mounted, drawn, routes>>
-----------------------------------------------------------------------------
(* The editor's own dialog: replace the text by a file's, or by nothing.     *)

AskEditor(what) ==
    /\ mounted /\ monaco # None /\ monaco.ask = None /\ ~view.open
    /\ monaco' = [monaco EXCEPT !.ask = [what |-> what, expected |-> monaco.rev,
                                         on |-> [id |-> monaco.id, rev |-> monaco.rev,
                                                 home |-> <<monaco.gen, monaco.id>>],
                                         phase |-> "confirm"]]
    /\ UNCHANGED <<draftVars, prompt, reads, view, saved, mounted, drawn, routes>>

CloseAsk ==
    /\ monaco # None /\ monaco.ask # None /\ monaco.ask.phase # "reading"
    /\ monaco' = [monaco EXCEPT !.ask = None]
    /\ UNCHANGED <<draftVars, prompt, reads, view, saved, mounted, drawn, routes>>

ReadForItem ==
    /\ monaco # None /\ monaco.ask # None
    /\ monaco.ask.what = "import" /\ monaco.ask.phase = "confirm"
    /\ monaco' = [monaco EXCEPT !.ask.phase = "reading"]
    /\ UNCHANGED <<draftVars, prompt, reads, view, saved, mounted, drawn, routes>>

\* The revision the dialog was opened on is still the one the editor holds.
ItemReviewed(e) == e.rev = e.ask.expected

\* The text is replaced, or the dialog says why not.
ReplaceText ==
    /\ monaco # None /\ monaco.ask # None
    /\ monaco.ask.phase = (IF monaco.ask.what = "import" THEN "reading" ELSE "confirm")
    /\ \/ /\ ItemReviewed(monaco) /\ ChangeItem(monaco)
          /\ monaco' = [monaco EXCEPT !.rev = @ + 1, !.ask = None]
       \/ /\ ~(ItemReviewed(monaco) /\ Accepted(monaco.gen, monaco.id, monaco.rev))
          /\ monaco' = [monaco EXCEPT !.ask.phase = "failed"]
          /\ UNCHANGED draftVars
    /\ UNCHANGED <<prompt, reads, view, saved, mounted, drawn, routes>>
-----------------------------------------------------------------------------
(* React and the router *)

\* The editor is keyed by generation and item: another key is another editor.
Render ==
    /\ mounted /\ view' = View
    /\ LET key == [gen |-> generation, id |-> selected]
           keeps == monaco # None /\ monaco.gen = key.gen /\ monaco.id = key.id
       IN monaco' = IF selected \notin IdsOf(draft) THEN None
                    ELSE [gen |-> key.gen, id |-> key.id, rev |-> Item(draft, selected).rev,
                          ask |-> IF keeps THEN monaco.ask ELSE None]
    /\ UNCHANGED <<draftVars, prompt, reads, saved, mounted, drawn, routes>>

Aborted == IF prompt # None /\ prompt.phase = "reading"
           THEN {[prompt EXCEPT !.aborted = TRUE]} ELSE {}

\* Both dialogs close when the path changes.  Where neither reads a file, that
\* is ClosePrompt and CloseAsk.
RouteChange ==
    /\ \/ prompt # None /\ prompt.phase = "reading"
       \/ monaco # None /\ monaco.ask # None /\ monaco.ask.phase = "reading"
    /\ mounted /\ routes < MaxRoutes /\ routes' = routes + 1
    /\ reads' = reads \cup Aborted /\ prompt' = None
    /\ monaco' = IF monaco = None THEN None ELSE [monaco EXCEPT !.ask = None]
    /\ UNCHANGED <<draftVars, view, saved, mounted, drawn>>

Unmount ==
    /\ mounted /\ mounted' = FALSE
    /\ revision' = revision + 1
    /\ reads' = reads \cup Aborted /\ prompt' = None /\ monaco' = None
    /\ UNCHANGED <<draft, generation, selected, dirty, view, saved, drawn, routes>>
-----------------------------------------------------------------------------
DraftNext ==
    \/ ChangeTitle \/ AddText \/ SelectItem \/ ExportDraft \/ Type
    \/ RemoveText \/ ResetDraft \/ ImportDraft \/ (\E n \in 1..2 : ImportFiles(n))
    \/ ConfirmNow \/ ConfirmImport \/ ClosePrompt
    \/ (\E x \in reads \cup {prompt} : Read(x) \/ FileFails(x))
    \/ (\E what \in {"import", "reset"} : AskEditor(what))
    \/ CloseAsk \/ ReadForItem \/ ReplaceText
    \/ Render \/ RouteChange \/ Unmount

DraftSpec == DraftInit /\ [][DraftNext]_taskVars
-----------------------------------------------------------------------------
DraftTypeOK ==
    /\ \A i \in DOMAIN draft : draft[i].id \in 1..drawn /\ draft[i].rev \in Nat \ {0}
    /\ revision \in 0..(MaxCommits + 1) /\ generation \in 0..revision
    /\ selected \in 1..drawn \cup {None} /\ dirty \in BOOLEAN
    /\ prompt # None => prompt.phase \in {"confirm", "reading", "failed"}
    /\ monaco # None => monaco.id \in 1..drawn /\ monaco.rev \in Nat

\* The draft is one its validation accepts; every text stands in the item and
\* the draft it was typed in, although an import brings back identifiers and
\* revisions that editors of the replaced draft still hold (changeItem); and
\* a draft that is not empty warns before it is left (dirty).
DraftSound ==
    /\ DraftTypeOK
    /\ Len(draft) <= MaxItems /\ IsInjective([i \in DOMAIN draft |-> draft[i].id])
    /\ \A i \in DOMAIN draft : draft[i].home = <<generation, draft[i].id>>
    /\ draft = Empty \/ dirty

\* Content leaves the draft only by a confirmed request that was opened on
\* exactly this draft, or item, and stands; files are added all together.
Gone(id) == id \in IdsOf(draft) /\ (id \notin IdsOf(draft') \/ generation' # generation)
AppliedAsReviewed ==
    /\ (\E id \in 1..drawn : Gone(id)) =>
           /\ prompt # None /\ prompt' = None /\ mounted
           /\ prompt.on = draft /\ prompt.at = generation
    /\ monaco # None /\ monaco.ask # None /\ draft' # draft /\ prompt = None
           /\ monaco' # None /\ monaco'.ask = None =>
           monaco.ask.on \in ToSet(draft)
    /\ draft' # draft /\ prompt # None /\ prompt.what = "files" =>
           /\ IsPrefix(draft, draft')
           /\ Len(draft') = Len(draft) + prompt.arg
    /\ ~mounted => UNCHANGED <<draft, generation>>
ReviewedIsApplied == [][AppliedAsReviewed]_taskVars
==============================================================================
