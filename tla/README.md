# Formal models of the Cyanrex engine

Cyanrex is a self-hosted teaching platform: a Rust engine (`src/engine/src`) that runs the
teaching application, sends compile checks to signed runner agents, keeps a telemetry event
log, and prepares a durable collaboration backend; a browser application; and a JavaScript SDK.
This directory holds TLA+ models of its concurrent parts, in the engine and in the browser, TLC
configurations that check them on small instances, and TLAPS proofs for every instance.

## 1. Inventory

| Part | State it keeps | Operations | Talks to | What is hard | Correct when |
|---|---|---|---|---|---|
| Runner job queue (`runner_job_queue.rs`) | a bounded table of jobs with state, lease, deadline, source | submit probe/check, claim, cancel, complete, inventory; each reaps first | runner job routes | no background task; clock read outside the lock; results race expiry | quota and table bounds hold; leases are distinct; outcomes are final; slots come back |
| Agent registry and authenticator | agent records with heartbeat age; one secret per agent | register, heartbeat, prune, issue, verify | routes, queue (capacity) | three separate locks; pruning from a stale list | a registered agent keeps its secret; capacity respected |
| Agent client (`runner_agent_client.rs`) | current credential, current job | poll loop, renew, report, drain | the above over HTTP | lost, late and repeated requests; engine restarts | work starts at most once; no answer is fatal |
| Runner manager and driver | capacity leases, check slots | try_acquire, execute, detach, drop | eBPF routes, loader | cancellation; a debug run that cleans up and tries again | no slot leaks; "clean" means gone |
| Event bus | history, unread count, settings cache, counters, persist queue, latch | publish, acknowledge, delete, settings; writer | every publisher, PostgreSQL | asynchronous writer, unconfirmed SQL, latch, restart | confirmed means durable; retained means stored; counters agree |
| Event fan-out (`subscriptions.rs`) | channel per subscribed owner | subscribe, publish, drop | WebSocket streams | last drop races a new subscription | no live subscriber is cut off, no channel leaks |
| Module manager, dispatcher | module lifecycle | start, stop, command | routes | capability gate | only allowed commands run |
| Live authentication | users, sessions, throttles | login, logout, account changes | routes, optional PostgreSQL | revocation against requests in flight | a revoked session does nothing |
| Durable accounts and Sessions | PostgreSQL rows, retained connections | Session check, one-time password, login, clean-up | resource stores | authority checked in the same transaction; lost commit answers | no command without current authority; a code is used once |
| Task, Artifact, Review stores | rows with revisions; blobs | create, replace at expected revision, publish | Session commands | lost updates; blob written, row not | no lost update; a row names a complete blob |
| Draft intent journal | intents with a dispatch mark | reserve, dispatch, inspect | Artifact and Task stores | unknown outcomes | at most one dispatch |
| Upload ledgers, staging, publication | reserved intents, chunk journal, published rows, chunk files, one-shot attempts | reserve, stage a chunk (logged or plain), publish | files and PostgreSQL | two stores that share no transaction; jobs outlive their callers; files change under a scan | rows and files agree; published and confirmed mean bytes that were there |
| Grant stores | publisher and recipient grants | grant, revoke | file commands | compare-and-set revisions | a revoked grant grants nothing |
| File client and receiver | flow and buffer leases, part files | fetch, verify, assemble, save | HTTP | cancelled waiters, late work | a lease outlives dispatched work |
| Learning store (`learning_store.rs`, `learning_store/`) | attempts with feedback: a database table, a local file, a published snapshot | record, comment at a revision, read | routes, PostgreSQL, one file | a blocking worker outlives its caller; lost answers; a fallback for one kind of call only | what was confirmed is kept and shown; nothing is taken back |
| eBPF loader, headers, environment | pins, Aya sessions, list of attachments; compile scope | compile, attach, detach | kernel | three places changed one after another, by requests that may be dropped | what runs is listed; detached means detached |
| Platform HTTP adapters and host | admission slots, retained storage | admit, project, shut down | durable stores | slot released with the body | no slot leak |
| Browser event stream (`features/events/eventStream.ts`) | one socket, one snapshot request, one timer, rows shown | connect, merge, retry, dispose | the event routes | snapshot and live events overlap without identifiers; late callbacks | rows are the newest; a gap is announced; the stream catches up |
| Session page (`platform_http/session_ui`) | Session state, task list, shown task, editor with one saved draft | login, logout, list, open, edit, save | the platform's HTTP adapter | answers after navigation; a Session that another tab changes; lost PUT answers | private data only with an active Session; a save is sent once, as reviewed |
| Task draft (`useTaskDraftController.ts`) | local draft with generation and revisions, dialogs, file reads | edit, import, export, remove, reset | React, files | a dialog or a read outlives what it was about | only what was reviewed is lost or replaced |
| Runner panel (`useRunnerAgentAdmin.ts`) | sample, age, dialog, one POST in flight | poll, probe, cancel | runner routes | closures outlive a navigation; unconfirmed POSTs | a POST goes out on fresh, reviewed facts |
| Other browser code, SDK | private requests, event history | load, cancel, retry | HTTP | late answers | a late answer changes nothing |

How the modelled parts interact: a user's submission enters the queue; an agent registers (registry,
then authenticator), reports a heartbeat, claims (authenticator, then registry, then queue, each
under its own lock), asks whether its lease still stands, works, and sends a result. Every part
publishes events: the bus appends them to the owner's history, hands them to the fan-out for
connected streams, and queues them for one background writer that owns the inserts into PostgreSQL;
acknowledgements, deletions and settings go through the same bus and must be ordered after what the
writer still holds. In the browser, the event stream merges a snapshot of that history with what the
fan-out sends, the runner panel shows the queue and the registry and sends probes and cancellations,
and the task draft and the Session page edit documents, one locally, one through the durable Task
store. The upload path is prepared but not yet routed: its ledgers, staging adapter and publisher are
called one after another by whoever holds an attempt.

`PROJECT.json` lists all parts with their files, and for every hazard the line where it bites
and the properties that would catch it.

## 2. Plan

1. `RunnerJobQueue`: the table, alone, with proofs for every constant. *Done.*
2. `RunnerFleet`, refining `JobService`: the protocol around the table. *Done,
   with proofs of the refinement and of every safety property.*
3. `EventBus`: publication, confirmed mutations and the writer, over one PostgreSQL. *Done,
   with proofs.*
4. `EventFanout`: the live queues of one owner. *Done, with proofs.*
5. `FileUpload`: reserve, stage, confirm, publish. *Done, with proofs.*
6. `EventStream`, `SessionPage`, `TaskDraft`, `RunnerAdmin`: the browser's concurrent parts. *Done,
   with proofs.*
   `LearningStore`: attempts and feedback over two stores. *Done, with proofs.*
   `EbpfRunner`: runs, their capacity leases and what they leave in the kernel. *Done, with proofs.*
7. An abstract event log that `EventBus` implements ("confirmed, then final").
8. The check and completion slots and their caches.
9. `DraftJournal` and `ArtifactStore`: intent, blob, row, with a crash between any two; abstract
   specification "published at most once".
10. `TaskStore`: expected-revision replacement as an atomic register; `Grants`: compare-and-set
    ledgers.
11. `SessionSource`: retained-transaction authority, one-time password use, login issue, clean-up.
12. `LoopbackHost`: admission slots and shutdown order; private requests and the
    event history of the browser.

Every module takes its limits as CONSTANTS with named assumptions, has one action per operation,
and declares no RECURSIVE operator, so that each can be proved about as well as checked. Where a
component has small instances of its own, they share a run: a union module picks one of several
components at the start (`MCTeaching`, `MCPages`, `MCEventService`, `MCFleetSafe`, `MCFleetLive`).

## 3. What is modelled

The names of actions follow the functions of the code; `PROJECT.json` maps each definition to its
lines. A definition whose comment begins with "Slip:" is not part of the model: it is a mistaken
form of the definition that follows it, used to confirm that a property notices the mistake.

### RunnerJobQueue (`services/runner_job_queue.rs`, `models/runner_job.rs`)

`jobs` is the table; `issued`, `leases` count identifiers and lease tokens (UUIDs in the code: never
drawn twice, so the n-th draw is the number n); `clock` is the wall clock. Every public method locks
the mutex, reaps, and acts, so each is one action, and `Reaped(t)` is part of it: `SubmitProbe`,
`SubmitCheck`, `ClaimJob`, `CancelQueued`/`CancelClaimed`, `Complete`, and `Observe` for every call
that only reaps (inventory, sync, a refused call). The code reads the clock *before* it takes the
mutex, so an action may work with any reading `t` of the last `MaxLag` units: operations reach the
table out of the order of their readings. Source text is a flag (`source`: still held), outputs and
sizes are left out.

### RunnerFleet and JobService (routes, registry, authenticator, agent client and executor)

`RunnerFleet` extends the queue. `registry` and `credentials` are the two other tables; a handler
takes the three locks one after the other, so it is several actions (`ServeVerify`, `ServeAdmit`,
`ServeClaim`, ...; `ServeRegister`, `ServeIssue`) and the record of the call carries what it read.
`agent[a].pc` follows `poll_once` and `process_job`; an agent waits for one call, and a call it gave
up on stays in `calls` and may be served late or never. `TimeOut` (the request is lost, its answer is
lost, or both are late), `Crash`, `Drain` and `EngineRestart` are the faults, at any step. The
signature is a number: the secret issued last verifies, no other does. Nonces and clock skew are left
out: an agent never sends a request twice. Work is `Execute` to `Finish`, counted in `runs`.

`JobService` says what the control plane promises of a job: a life cycle (`Moves`), work started at
most once and only after a claim, success only after work. `KeepsPromise` is the refinement:
`phase` is computed from the table (`PhaseOf`), `runs` is itself.

### EventBus (`services/event_bus.rs`, `event_bus_db.rs`, `event_bus/*.rs`)

`op[o]` is the operation that holds owner `o`'s gate. A publication is `StartPublish`,
`LoadSettings`, `CountAdmitted`, `Accept`: each await is a boundary, and from the history lock to the
send nothing awaits. `CancelPublish` drops the future at any of them. A confirmed mutation is
`StartMutation`, `SendBarrier`, (the writer's answer), `Sql`, `Apply`, `Report`; `FlushFails` is its
deadline. Without a database it goes straight to `Apply`. `CallerLeaves` drops the caller: with a
database a detached worker goes on. The writer is `WriterTake`, `WriterCollect`, `WriterClose`,
`PersistGroup` (in any order of groups: a hash map), `TrimGroup`, `WriterDone`, `WriterGivesUp`.
Tables are sets of rows with a serial key; an event has an identifier, a timestamp that may lag by
`Skew`, and a kind, which is all that delete filters can see. Storage faults are a constant set:
`query` (a statement fails and changes nothing), `schema` (the tables cannot be created), `lost` (a
statement takes effect and its answer is lost; an insert is then retried and stores its rows twice),
`slow` (a ten-second deadline passes). A statement that timed out either ran or did not; that the
server runs it even later is not modelled. The one-second life of the writer's count is an expiry at
any time (`CountExpires`). The clamp of limits to 50..50000 is a choice of `Settings`.
History variables: `seen`, `acked` (last event covered by an acknowledgement that took effect, that
was confirmed), `gone` (events a confirmed deletion covered), `chosen` (settings chosen last).

The legacy best-effort mutations (`mutations.rs`, `delete_operation.rs`) are called only by benchmarks
and tests and are not modelled, nor are the filters and limits of reads.

### EventFanout (`event_bus/subscriptions.rs`, `routes/events/stream.rs`)

One owner: the registry holds at most one channel (`registered`), channels are numbered as made, a
subscription holds the channel it joined. `LookUp` and `Send` are two steps because `publish`
releases the registry lock in between; `DropReceiver` and `Unregister` are two because the receiver is
given up before the lock is taken. `Queued` is tokio's broadcast channel (external): it keeps
`Capacity` messages of a slow receiver and then reports a lag, on which `next_message` closes the
stream. Owners do not share anything but the lock, so one is enough; publications of one owner are
ordered by its gate in `EventBus`.

### EventStream (`features/events/eventStream.ts`)

`startEventStream`: one connection (`link`), the connections whose callbacks may still come
(`ghosts`), the timers that are set, and what the page shows. A callback compares the generation of
its connection with a counter; in the model that comparison is the flag `live`, cleared when the
counter moves on. `OnOpen`, `OnSnapshot`, `OnSnapshotFails`, `OnMessage`, `OnBadMessage`, `OnClose`
and `DeadlinePasses` are the callbacks, each with what `Retry` and `CleanConnection` do;
`LivesLong` is the stability timer. `Reconciled` is `reconcileSnapshot`: the wire has no identifier,
so events are compared by content, and `content` makes some of them equal records. The server
publishes, stores late, and reads its snapshot after the subscription (external).

### SessionPage (`platform_http/session_ui`)

One browser tab. Every handler, and every continuation after an `await`, is one action: the user's
(`SubmitLogin` to `CancelLeave`), the platform's (`ServeSession`, `ServeRead`, `ServeWrite`), the
continuations (`SessionSettles`, `ReadSettles`, `Hashed`, `WriteSettles`, `RunFails`), and
`PageHide`/`PageShow`. `run` is the one current operation; an aborted one moves to `ghosts` (its
continuation still comes) and its request to `late` (it may still be served). The cookie belongs to
the browser, so another tab may change it (`SwitchSession`); another client may save
(`WriteElsewhere`). A document is one of a few values, a revision is its place in `store`. `PageValues`
holds the one constant that the three pages share, `None`.

### TaskDraft (`features/tasks/useTaskDraftController.ts`)

`draft`, `revision`, `generation` are what the refs hold; `view` is what React has rendered of them,
changed by `Render` some time later, and `monaco` the mounted text editor, which may belong to an
item or a generation that is gone. `prompt` is the confirmation, `reads` the file reads that a
confirmed import started. `ConfirmNow`, `ConfirmImport`, `Read` and `ReplaceText` check what was
reviewed (`DraftReviewed`, `ItemReviewed`) at the moment they act.

### RunnerAdmin (`features/runner/useRunnerAgentAdmin.ts`)

`scope` is the navigation the page shows, `gen` the generation whose closures run: `Navigate` moves
the first, `Effects` the second, and in between the old closures act (`Owns`). `snap` is what is
shown, `read` and `action` the two requests in flight, `timer` the poll, `review` the confirmation.
`version` is what an administrator reviews, changed by the engine at any time (`TargetChanges`); ages count ten-second periods.

### FileUpload (`file_upload_store`, `file_upload_chunk_journal`, `file_upload_staging`, `file_upload_publication`)

`reserved`, `rows` and `published` are the three ledgers, one transaction each; `files` is the private
directory of each staging root. `at[a]` follows an attempt from `Prepare` and `Start` (the control
permit) through `LogUnknown`, `Dispatch`, the job (`Create`, `WriteEnds`), `LogConfirmed`, and
`Verify`; a publication from `Scan` (`ReadChunk`, `LookAt`) through `Insert` and a second and third
scan. `Fail` drops the future at any await while `job[a]` runs on; `Restart` ends all of them;
`Touch` lets a process of the same user replace, change or remove an entry. The retained identity of
an entry (inode, length, times) is a number, `snap`. `ack` is whether the caller learns of a
COMMIT. Actions that only read immutable reservations are left out, as are database administrators
who change ledgers. The journal pin of a publication compares `Confirmed` rows, which never change.
`moments` is history: whether all bytes were right at one moment before, or after, the insert.

### LearningStore (`services/learning_store.rs` and `services/learning_store/`)

`table` is the database, `file` the local JSON file, `memory` the snapshot that local reads share,
`worker` the blocking task that loads or commits it and owns `persist_lock` until it ends. A call is a
record, a comment or a query: `Begin` picks the backend as `active_pool` does, `SchemaReady` sends the
statement, `RunStatement` runs it, `StatementAnswers` or `StatementFails` ends the wait. These are
separate because an answer may be lost, and because a statement may run after its caller has gone.
Only a record falls back to the local store, and it disables the pool for good unless it was the
schema that failed. Locally a call loads the file first (`StartLoading`, `ReadFile`, `PublishLoaded`,
`SetReady`), then takes the snapshot or the lock (`AdmitRecord`, `AdmitReview`) and waits for the
worker's `WriteAndRename` and `PublishCommit`. `Disconnect` drops a request at any await; `Restart` ends
all of them and keeps table and file. A row is the sequence of its comments; the code keeps the last
and their number, which is what `UpdateMatches` compares. Rows of other users are other attempts, so
the filter by owner is left out; so are the grading and the order of what a read returns. The two
stores are never merged: an attempt recorded locally is not in the database, which the code
documents and the properties respect (`via`).

### EbpfRunner (`services/ebpf_loader`, `runner_manager.rs`, `runner_driver.rs`, `routes/ebpf`)

A program is known in three places: its pin directory in bpffs (`pins`, and `loaded` when bpftool pinned
a program there), the Aya sessions of the process, and the list of attachments. `run[r]` is the
handler of `run_ebpf`: `Acquire` takes the capacity lease, then bpftool loads (`MakePinDirectory`,
`LoadAll`, `LoadAnswers`, `Track`) or Aya does (`LoadAya`, `PinMaps`, `OpenSession`, `ListSession`). A
debug run whose program bpftool could not attach detaches it and tries again with Aya (`StartFallback`,
`Retry`). `detach[c]` is `detach_for_user`, for a request of its own or inside that run: the targets
are read once and removed one by one (`NextTarget`; `DropSession` or `Stat`; `RemovalEnds`), the list
is updated at the end (`Untrack`) and the driver reports whether anything is left (`Inspect`).
Removals run on blocking threads and go on when their request is dropped (`jobs`). The execution limit, a
client that leaves, a removal that fails and a restart may come at any step. Paths are drawn at random
in the code; here a run has one for each backend. Compiling, attaching and verifying are their outcomes;
the source text on the list and the stream of kernel events are left out. `lost` is history: runs whose
handler did not get to its end.

### Unions

`MCTeaching`, `MCTermination`, `MCHost`, `MCPages`, `MCEventService`, `MCFleetSafe` and `MCFleetLive` put independent instances
into one run: a
variable that never changes (`part`, `half`, `fleet`) says which one moves, the variables of the
others rest. Nothing interacts across a union; it only saves runs. `MCPages` extends the modules of its pages,
whose definitions have names of their own; the other unions instantiate theirs.

## 4. What the runs check

| Run | Instance | Shows |
|---|---|---|
| `teaching` | queue: 2 jobs, 2 agents, table of 1, readings late by 1, 4 time units. Store: any 3 of 2 attempts, 2 comments, 1 query; 1 restart | `TableSound` (types, table bound, leases, custody of source), `SlotsFreedInTime`, `LifeCycle` (final outcomes, single claim, honoured cancels); `LearnSound`, `ReadsAreCurrent`, `RowsOnlyGrow` |
| `all_ends` | queue: 2 jobs, 1 agent, quota of 1, up to 2 jobs per claim. Bus: 2 owners, 2 events, 1 mutation, queue of 1, batch of 2, deadlines, with and without a database | `TableSound` with the user quota and distinct tokens, `ChecksTerminate`; `GateIsReleased`, `QueueDrains` |
| `fleet_faults` | 1 agent, 1 job, 1 fault and 1 engine restart, heartbeats that go stale | `KeepsPromise` (refinement of `JobService`), no work on ended jobs, no fatal answer |
| `fleet_safe` | 1 agent with 1 slot and 2 jobs and 1 fault; 2 agents and 1 job with a lease of no time | `AgentCapacity`; `RunsOnceOnItsLease` |
| `fleet_live` | 1 agent and 1 fault; 2 agents, registry of 1 | `OneServesProbes`, `EveryRegistrationSettles`, `IssueNeverRefused` |
| `bus_confirmed` | 1 owner, with and without a database, 3 events, 2 mutations, 1 fault of any kind, timestamps late by 1, 1 restart | `ConfirmedIsFinal`: confirmed deletions and acknowledgements |
| `event_service` | fan-out: 3 connections, 3 channels, 4 events, queue of 2. Bus: 1 owner, 2 kinds, 3 events, 2 mutations, 1 failed statement, 1 restart, with and without a database | `ChannelsFitStreams`, `NoSilentGap`; `AdmissionIsExact`, `TableFollowsHistory`, `UnreadCountIsRight`, `SettingsInForce` |
| `event_stream` | 3 events of 2 contents, list of 2 rows, 2 failures | `RowsAreNewest`, `StreamSound`, `EffectsAreEarned`, `CatchesUp` |
| `pages` | Session page: 2 accounts, 3 tasks, list pages of 1, 1 save, 1 change from outside, 1 late request, 1 hide. Draft: 2 items, 3 changes, 1 navigation. Runner panel: 2 POSTs, 1 change, 1 navigation | `PrivateOnlyWhileActive`, `PageAgrees`, `UserDecides`; `DraftSound`, `ReviewedIsApplied`; `AdminSound` |
| `host` | files: 2 uploads of one version (two chunks, and none), 2 roots, 3 attempts, 2 control permits, 1 worker, 3 touches. Programs: 2 runs, 1 client that detaches, 1 dropped request, failed removal or restart | `UploadSound`, `ReceiptsHold`; `KernelSound`, `CleanMeansGone` |
| `doc_cold_drop_new` | 1 owner, tables that cannot be created once | *violation*, see findings |
| `doc_detach` | 2 runs, 1 client that detaches everything again and again, no fault | *violation*, see findings |

Properties with names such as `TableSound` or `UploadSound` are conjunctions of named parts, each
with its comment, in the module of the component.

**Bounds.** The interesting cases need few actors. A quota or table is contested by two jobs; a lease
by two agents, or by one agent and its own earlier call; a late request needs one fault, and a
second one adds only repetitions of what one fault leaves behind (a lease nobody holds, a secret
nobody expects). Limits are set so low that they are reached: a table of one, a quota of one, a
registry of one, a queue of one or two messages, histories of one or two events with three
events to hold, so that evictions, refusals and a closed queue all occur. Time bounds (`Horizon`) are
late enough for each timeout of the instance to pass in the run; `LastSubmit` and
`LastFault` stop new input early enough for it. `CHECK_DEADLOCK FALSE` stands only where inputs are
bounded, after which the bus and the fan-out have nothing to do; time lets queue and fleet always
look at the table. Symmetry is used only in runs without liveness. `RetainedIsStored` and
`AdmissionIsExact` are about storage that reports what it did: with lost answers the code latches or
knowingly keeps both copies, so those faults belong to `bus_confirmed` alone.
Two failures of the event stream give a reconnect during a recovery; three events are one more than
the list holds. On the Session page one change from outside and one late request meet every stage of
the one save; three tasks of two accounts make a list page that ends early and one that continues.
In `host` three attempts are an original, its repetition through another root, and a
publisher; three touches are what it takes to deceive a publisher without its second look (one chunk is
wrong when it starts, the other goes wrong after it was read, the first is put right before it is
read), and files are touched only while one root is
in use (`Bound`), because a second root adds copies that no publication looks at. Two runs give
two paths to one request, and four with retries; the clean-up of one run is the second detacher that the
client meets.

In `all_ends` both jobs are submitted at the first instant, so the second check is refused, or admitted after
a cancellation.

**Fairness.** The queue: time passes, and somebody keeps calling it (agents poll on an interval, the
user's page asks for the status); nothing else reaps. The fleet: an agent that runs takes its next
step, the engine answers a call somebody waits for, time passes, users look; nothing makes an agent
restart and no late call need be served. The bus: the holder of a gate runs on, and its own deadline
passes; the writer and the database may stop for ever (`GateIsReleased`). Only `QueueDrains` assumes
that the writer runs on (`WriterRuns`), as its premise. The event stream (`FairSpec`): the server
answers what was asked, sockets deliver or close, timers fire, accepted events are stored; failures
are bounded, and nothing makes them stop otherwise. In `doc_detach`
(`PatientSpec`) handlers that are served go on, and the user keeps asking for everything to be
detached. Upload, fan-out, pages and
learning store state no liveness: every wait in them may be cancelled by its owner.

**Findings.** `doc_cold_drop_new`: when `ensure_schema` fails (without passing its deadline),
`settings_for_user` caches the default settings, drop-oldest, for an owner whose stored policy is
drop-new, and does not set the latch. Once the tables can be created, publications of that owner go to
the database under the wrong policy, without the check `docs/en/event-stream.md` promises, until a
restart or the next change of settings.

`doc_detach`: `detach_for_user` removes its targets one by one and takes them off the list together, at
the end; the first target that is not found ends it before that. Let a user have an Aya program and
a debug run of bpftool attached, and ask to detach all: the session of the first is dropped and its
pins are removed; meanwhile the debug run cleans up its own path, so the stat of the second target
fails. The first stays listed without a pin, and so every later "Detach All" of this user
fails at it, leaving whatever it has not reached attached; `docs/en/teacher-guide.md` has teachers click
it and verify that the list is empty. Detaching the other paths one at a time still works.

Remarks that cost no run. After an engine restart an
agent is answered 401 before the registry is asked, where `docs/en/runner-agent.md` speaks of 404; and
a full registry answers 400, which stops the agent, where the same table speaks of 503; `Outcome` and
`ServeRegister` show both. In the browser stream, when more than `limit` events arrive between the
subscription and the snapshot, the merge can place an older buffered row behind a newer one and lose a
row of the newest, where `docs/en/event-stream.md` speaks of insertion order; `RowsAreNewest` is
therefore stated for connections whose buffer stayed within the limit (`Comparable`). In the runner panel, an explicit
refresh that joins an automatic read already in flight does not clear the mark that an unconfirmed POST
left, and a navigation forgets that mark. In the task draft, the comparison of generations and that of
the selected item in a disabled editor overlap: only a form of `Accepted` that trusts item and revision
alone lets text go astray.

## 5. What is proved

`RunnerJobQueueProofs` proves for any jobs, agents, users, quota, timeouts and lag: `TypeOK`,
`OwnerQuota`, `TableBounded`, `LeaseIntegrity`, `SourceCustody`, `SlotsFreedInTime`,
`OutcomeIsFinal`, `ClaimedAtMostOnce`, `CancelIsHonoured`. The assumption is `QueueConstants`: sensible
signs, `MinTimeout` below both maxima, `None` outside the data. The argument is one inductive
invariant, `IInv`. None of the properties is inductive alone. `TableOK` says of a table and a number of
drawn tokens that records are well formed (state, lease, agent, deadline, source and completion time
fit each other), tokens are distinct and drawn, quota and size hold; `Timely` says of each record
that it was created, claimed and completed in the order and within the distances the timeouts allow,
relative to the latest reading an operation worked with. Both are needed because readings may go
back: a record may be younger than the table. Reaping (`ReapedOK`), putting a new job (`PutOK`) and
replacing a record (`ReplaceOK`) preserve `TableOK`; each action is a reap and one of these. The
three action properties follow from `StepFacts`: what one step may do to one record.

`RunnerFleetProofs` proves for any jobs, agents, credentials, faults and restarts that the control
plane implements `JobService` (`PromiseIsKept`), that no job's work is started twice (`WorkStartsOnce`)
and that nobody works on a job that shows a result or a cancellation (`EndedStops`). To the queue's
`QueueConstants` it adds `FleetConstants`: signs, and that an answer without a body (`None`) is neither
an identifier nor the verdict "cancel". The invariant `FleetInv` adds to the queue's own `IInv` what
none of the three tables can say. The right to work on a job is born as the answer to a claim (a
ticket in `calls`), passes to the agent that hears it, and ends with its report; a lost answer or a crash loses
it for good. `OneHolder`: nobody else has it. `Rights`: whoever has it finds a job that left the queue, and
until the work starts one with no run, no result and no report under way. `Reports`: a call that says
"succeeded" is about a job that was run, one that says "cancelled" about one that somebody asked
to cancel or that is no longer claimed, and so is the answer "cancel" on its way (`Verdicts`).
`Waits`: an agent waits for at most one call, the one its state expects, so an answer to a call it gave
up on is never heard. Each action is first shown to leave `FInv` alone, then to do one thing to
one job: nothing (`Quiet`: reaping included), its birth (`Born`) or one move (`Moved`). `PhaseMoves`
turns those into steps of `JobService`, and `Execute` is its `StartWork`.

It also proves, from the same invariant, the types (`FleetTypeCorrect`), that no
agent holds more leases than it may run at once (`CapacityHolds`), and that no answer stops an agent
(`NoAgentStops`). For the capacity, `CallsMeasured` and `RegistryMeasured` bound what a heartbeat in
flight, the registry and an admitted claim say the agent may still take: the numbers may be old,
but the queue adds the leases it counts itself, under the lock it claims under. `NoAgentStops` has a
hypothesis, room in the registry for every agent: without it the engine answers 400, which does stop
an agent (see the findings).

`WorkIsLeased` is the strongest result about work: an agent works under the lease it was given or
under one the queue has forgotten, no two agents hold one job, and no job is started twice. `LeaseInv`
calls the tickets on their way to an agent and the lease it holds its papers. `PapersValid`: a paper
names a job that left the queue and, while the queue remembers that job, is bound to this agent and
this token. `SoleBearer`: no two agents have papers for one job. `SecretsSuffice` (`IssueNeverRefused`)
needs that the registry admits no more agents than the authenticator keeps secrets for
(`MaxRegisteredAgents <= MaxCredentials`; both are 256 in the code) and the invariant `RoomInv`: the
list by which a registration prunes the secrets names its own agent and was never longer than the
registry may be, however old it is when it is used. That is why pruning leaves room.

`EventBusProofs` proves five results for any owners, settings, capacities, clocks and numbers of events,
mutations, faults and restarts, from `BusConstants`: settings have a policy and a limit, the
queue holds something, a batch is not empty, and `None` is not data. `ShapeInv` gives the types and which
steps an operation, the writer and a deployment without a database can be in. `FinalInv` says what a barrier
does. A barrier that still counts is that of the operation that waits for it and the last its owner
has queued (`BarrierOK`), so behind it nothing of this owner is pending (`FlushedOK`) and the statement
meets every row there will be. An event that an owner has is older than the one it publishes
(`NumberedOK`), so nothing confirmed covers what comes later. `ConfirmedStaysFinal` follows for every kind of fault.
`UnreadInv` adds that the unread events are the last ones of a history in publication order, which
evictions, deletions and smaller limits preserve (`UnreadStaysRight`, for every kind of fault).

Three results are about statements that fail whole or not at all (`FaultsKnown`: no answer is lost or late
and the tables can be created). Under the other faults memory and tables may know different settings or rows
until the latch or a restart, and the code promises nothing more than what `ConfirmedIsFinal` says; one of these
cases is the finding `doc_cold_drop_new`. `SettingsInv` (`SettingsStayInForce`): stored, cached and chosen settings agree, and a
reader that began before the choice has nothing to put into the cache. `AdmissionStaysExact` climbs
three steps on it. `OnceInv`: no event is pending twice, or pending and stored. `ForceInv`: what is on
its way was admitted under the settings chosen last, so the writer applies to it the limit it was
admitted under, and the count a publication found is still right when it is accepted. `CountInv`: while storage is active the
slots counted as taken are exactly the stored and the pending events, and within the limit, so the
writer has room for all it was handed. `TableKeepsUp` (`TableFollowsHistory`) puts memory and
table side by side (`RetainInv`): what is pending or stored and newer than a retained event is retained
too, so a trim, which takes the oldest rows over the limit, takes none that the bus shows. This one
also assumes `Skew = 0`. Rows are trimmed by timestamp and memory evicts in the order of
publication, and where the two orders differ a retained event may be trimmed.

`StreamProofs` proves for any connections, channels and events that open streams receive from the
registered channel and that no channel outlives its subscriptions. The invariant adds that a
registered channel has a subscription that is open or about to unregister it (`Tended`), and that an
open stream means some channel is registered. `Tended` is why the drop in two steps is harmless.

For the fan-out, `StreamsHaveNoGap` rests on a second invariant, `Gapless`: what a subscription got and what its queue
holds are numbered consecutively up to the last event sent to its channel, and reach back at least to
the events after its subscription; a lag closes the stream before it may skip.

The same module proves the three safety properties of the browser's stream for any number of events, failures and
rows, any contents, and from `EventStreamAssumption` (natural limits, a list of at least one row, and `None` is
not data). `StreamIsSound` needs to know which situations there are. `StreamInv` lists four: the stream is
over, it waits for its retry timer, it connects under its deadline, or it shows the rows of an open connection.
In each it says which timers are set, which connections are left behind and what their callbacks may still
find; every callback leads from one situation to another, a late one stays where it is. `EffectsStayEarned`
follows from the same steps. `RowsStayNewest` needs the history of a connection (`RowsInv`): what was buffered while the
snapshot was loading is numbered without a hole from the subscription on, the answer is the newest part of the log
at its moment, and once open the rows are the newest part of what has come, while `Accounted` says that the
copies the merge still expects to meet again are those live events that the snapshot contains and the
connection has not brought yet. That is what makes comparing by content exact, twins included. The lemmas that count places in
intervals and sequences are in `Counting`, which the proofs of the bus and the pages use too.

`TableIsSound`, `RecordsMoveForward` and `ChannelsComeAndGo` state these results in the form in which
the runs check them.

`HostProofs` proves, for any uploads, roots, attempts, sizes, permits and limits, that the journal,
the files and the publications agree between any two steps (`UploadIsSound`), and that what a
publication or a receipt says was true of all the bytes at one moment (`ReceiptsAreTrue`). The
assumption is `UploadAssumption`: sizes are natural numbers and the number of touches is bounded by
one. `UploadSound` is not inductive; `LedgersAgree` adds that a journaled attempt past its seal earned
its row (`Earned`), that a publishing attempt stands on a complete journal from its preparation on
(`Backed`), and that a row past the insert is the attempt's own (`OwnRow`). For the receipts, `Looked`
says what a scan in progress knows: a job belongs to the attempt that waits for it (`JobFits`), a
retained snapshot is not newer than the file's (`SeenIsPast`), and while it is still the file's, the
bytes are right (`SeenIsRight`). When the last chunk of the second look still has its retained
snapshot, every chunk had right bytes when the first look ended: that is the moment `moments` records
(`MomentBefore`, `MomentAfter`). The lemma `FilesMove` carries it: the snapshot of an entry never
returns to an earlier one. That is an assumption on the operating system, made in `Touch` and `Create`.

About the kernel the same module proves, for any runs, users and detachers and from `EbpfConstants` (runs and
detachers are different and have users), that nothing runs unlisted after a run that was served
(`KernelIsSound`), and that what was reported clean is gone (`CleanStaysGone`). A path is `Past` once its program
was due to be listed; from then on no step puts it into the kernel or on the list, and that is why a
removal, once done, stays done. `PlacesOK` says where a program may be when it is not listed: on the way
there, or left by a run whose handler was dropped. `DoneOK`: what a request removed is in neither place
of the kernel. `FallbackOK`: the clean-up of a debug run has the program it is for among its targets
until it is removed, although it reads them from a list that others change; so a retried run has one program.

`PageProofs` is about the three pages. Of the Session page it proves `PrivateOnlyWhileActive`,
`PageAgrees` and `UserDecides` (`OnlyAnActiveSessionShows`, `PageAlwaysAgrees`, `UserAlwaysDecides`) for any
accounts, tasks, documents, list pages and histories, from `SessionPageAssumption`: tasks are numbers with owners,
and `None` is not data. The invariant `SessionInv` puts between these properties what the page relies on without
checking it. `ReadsOwnTasks`: a read or a save whose answer is still wanted belongs to an active Session, and a
list is loaded into a cleared reader, a task from the list that is shown and while the editor has none; that is why a continuation that comes after a denial, a
hidden page or another account finds nothing to show. `AnswersStored`: an answer on its way, or under the hash, is
about versions that were stored, of one owner, and of the task that was asked for; since the store only grows,
the delay does not matter. `EditorFits` and `SaveFits` tie what is staged, what is sent and what is typed to the
version that is shown. `OncePerConfirm` numbers confirmations: a save that was sent has not been stored, and a
request left behind by an aborted save carries a number no other request has; so a receipt that comes, a lost
answer and a request that is served late make one version together.

The draft's two properties hold for any number of items, changes and navigations (`DraftIsSound`,
`OnlyReviewedIsApplied`, from `TaskDraftAssumption`: the limits are natural numbers). The invariant `DraftInv` says
what makes late dialogs and reads harmless. An open request holds the draft and the generation it was opened on
for as long as no revision came between (`DialogFits`); so whatever still passes `DraftReviewed` is about the
draft as it is. A read whose dialog was closed under it is aborted (`ReadsAreAborted`). The question of
an editor is about the text with the revision it remembers (`AskFits`), and since texts stand at home
(`AtHome`), that text is the one `ChangeItem` replaces. Every drawn identifier is below `drawn`, which keeps
added ones distinct. What `Edited`, `Removed`, `Added` and `Opened` do to a valid draft are lemmas. `DraftLimits`
adds the ranges of the other variables.

Of the panel, `PanelIsSound` proves `AdminSound` from `RunnerAdminAssumption` (natural limits, and `None` is not data).
`OneGoesOn`: of timer, read and POST exactly one is there; `FactsAreYounger` and `ReadsAreLater` relate the
age and order of what is shown to what a read in flight will bring; `DoubtIsMarked` keeps the mark of an
unconfirmed POST until somebody asks for a look. All of
them speak of the time when the closures that run are those of the page shown (`gen = scope`): between
a navigation and its effects the old closures own nothing. `PanelLimits` adds the ranges.

`LearningStoreProofs` proves, for any calls, number of restarts, and with a database or without, that what
was confirmed stays in the store that confirmed it (`StoreKeepsItsPromises`), that a read shows all that
was confirmed when it began (`ReadsShowWhatWasConfirmed`), and that no step takes a row back
(`StoresOnlyGrow`). The assumptions are `LearnConstants`, that the kinds of calls are disjoint and `Absent` is
none of them, and `LearnAbsent`, that it is not a worker either. The invariant `LearnInv` says who
depends on the snapshot and why it can be trusted. Before loading it is empty (`EmptyUntilLoaded`), a
loading worker holds the file's rows (`LoadSound`), a committing worker holds rows that extend the
snapshot and contain what its caller saves (`CommitSound`), and an attempt is in a store only because
its own call put it there (`RowsFromCalls`), so a record never overwrites one. `StatementsHold` speaks of
statements that ran rather than of answers that came: it is what carries over a lost answer. A read that
is still waiting for its answer has already seen what was confirmed before it (`SeenHolds`).

**Only model-checked.** Liveness under fairness (`ChecksTerminate`, `OneServesProbes`,
`EveryRegistrationSettles`, `GateIsReleased`, `QueueDrains`, `CatchesUp`) and anything with ENABLED are outside the
prover's reach, as are induction over data and RECURSIVE operators, which no module uses. Every other property of a
passing run is proved. With timestamps out of order,
`TableFollowsHistory` is neither promised nor checked; `bus_confirmed` runs with `Skew = 1`.

## 6. What is not modelled

The parts marked `not_modelled` in `PROJECT.json`, each with its reason: those the plan names are
next; others are pure computation, privileged I/O or presentation. Most of the repository's core logic is
Rust. Of its JavaScript and TypeScript, 96 000 lines, more than 70 000 are a vendored editor bundle
(`frontend/public/monaco`), and most of the rest translations, generated interface types, views and
styles, which have no states to model; the parts that do are the four browser modules, and what is left of them in the plan. Inside the modelled parts:
formats, sizes and hashes of requests, rate limits, the compiler itself (`Finish` succeeds or fails),
the cancellation of a compile that runs, and metrics.
