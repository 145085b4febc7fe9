# Verification of Atra

TLA+ models of the Atra coding-agent system (`src/`, a Rust workspace), the TLC
configurations that check them and the TLAPS proofs about them.  Paths below are
relative to `src/crates/`.

## 1. The system

Atra is a personal coding agent.  One **Controller** process per Workspace owns
conversations, agent turns, approvals, persistence and the life of **Runners**;
Runners execute commands and patches; **Clients** (a terminal UI, a Web daemon
with a browser UI, a CLI) observe and operate the Controller without owning
state.  A model provider is called over HTTP.

| Component | Source | State | Operations | Hard behaviour |
|---|---|---|---|---|
| Turn lifecycle registry | `atra-controller/src/lifecycle.rs` | active turns, observation pins, pending interactions | start, cancel, finish, pin, register / claim / resolve | callers keep tokens, senders, receivers and pins across awaits |
| Turn execution | `atra-controller/src/turn.rs`, `commands.rs` | the turn task, its model stream, its tool calls | send, continue, compact, cancel | a turn future is dropped at any await while its database write goes on |
| Thread store and tree | `atra-controller/src/storage.rs`, `agent.rs` | events, checkpoints, the tree of threads in SQLite | append, fork, rewind, restore, delete; the agents' create, send, wait, cancel, delete | a crash between two appends; a thread that vanishes between validation and acceptance |
| Model surface, codecs | `atra-controller/src/model/` | none between requests | derive, plan a compaction, decode a stream, retry | two decoders of one stream; retry after partial output |
| Published views | `atra-controller/src/views.rs`, `atra-protocol/src/state.rs` | snapshots of the Controller, threads, checkpoints, processes; subscribers | apply operation, subscribe, shut down | a subscription racing an operation, a deletion or the shutdown |
| Providers | `atra-controller/src/model/*_auth.rs`, `commands.rs` | logins, tokens, catalogs | log in and out, reload, refresh, publish | refresh tokens that are spent once; a login during a refresh |
| Runners and skills | `atra-controller/src/runner_pool.rs`, `runner.rs`, `skills.rs` | Runners, their environments, generations of skills | launch, watch, collect, deploy | a launch racing the end it is told of; two turns that deploy at once |
| Managed processes | `atra-controller/src/lib.rs`, `runner_pool.rs`, `turn.rs` | records, watchers, the turn's foreground process | register, watch, stop, delete | a start nobody waits for any more; a deletion during a registration |
| Runner | `atra-runner/src/lib.rs` | processes, output buffers, callback bridge | start, wait, stop, subscribe, patch, relay callbacks | answer and cancellation race; exit races stop; a handle is given again |
| Terminal UI | `atra-tui` | the App, its transcript | keys, answers, changes | answers in no order with the subscription they are about |
| Web UI and daemon | `atra-web-ui`, `atra-web` | route, drawers, drafts, replicas, push subscriptions | navigate, send, draw again, notify | effects that depend on each other; rows that are not drawn again; a file that cannot be written |

How they interact.  A client command reaches `commands.rs`, which locks the
Controller's `mutation` mutex, consults the registry and the view, and starts a
turn task.  The task writes to SQLite through one connection (`storage.rs`),
publishes each event on the thread's view (`views.rs`), calls the model, and
sends requests over one pipe to a Runner.  A command that runs on the Runner can
call back (`atri agent …`); the Runner relays the callback over the same pipe to
the Controller, which runs it as an operation on other threads.  Answers to
approvals come from command handlers, which take the waiter out of the registry,
save the decision and send through a oneshot that the turn awaits.  Clients keep
replicas of the views and apply the operations they are sent.  Nothing is shared
between processes but these pipes, sockets and the database.

What makes it hard: a turn future is dropped at any await (`select!` in
`handle_started_streaming`) while the statement it submitted still runs; locks
are released between steps that belong together; several commands race for the
same interaction, the same process or the same output; the Runner, the
Controller and the clients may each go away first.  The full list, each entry at
its line with the properties that watch it, is `hazards` in `PROJECT.json`.

## 2. The modules

| Module | Models | Composed with |
|---|---|---|
| `TurnLifecycle` | `lifecycle.rs`: the registry and the holders of what it hands out | refines `Interaction` |
| `Interaction` | abstract: what a user may expect of one approval or question | – |
| `ThreadTurn` | `turn.rs`, `commands.rs`, parts of `storage.rs` and `views.rs`: one thread, its turns, its database, its view, the handlers that answer | refines `TurnLifecycle` |
| `ThreadTree` | `agent.rs`, `storage.rs`: the tree of threads, checkpoints, histories, the agents' requests | – |
| `ModelSurface` | `model/surface.rs`, `compaction_plan` of `turn.rs` | checked with `ModelStream` |
| `ModelCodecs` | `model/api/*`: the live decoders and the parsers of four protocols | used by `ModelStream` |
| `TurnProjection` | `TurnProjector` of `commands.rs` | used by `ModelStream`, `LiveTranscripts` |
| `ModelStream` | one request: attempts, stream, what is shown, saved and performed of it | `ModelCodecs`, `TurnProjection`, `ViewState` |
| `ViewState` | `state.rs` of `atra-protocol`: the published states and their operations | used by five modules |
| `Views` | `views.rs`, `connection.rs`: topics, subscribers, replicas | `ViewState` |
| `Providers` | one provider: its login, tokens, catalog, operations | – |
| `RunnerPool` | `runner_pool.rs`, `runner.rs`: launches, watchers, deployment | `Skills` |
| `Skills` | `skills.rs`: collection, digest, what a message invokes | – |
| `RunnerProcesses` | `ProcessManager` of `atra-runner/src/lib.rs` | checked with `AgentCallbacks` |
| `AgentCallbacks` | `CallbackBridge`, the Controller's reader and callback tasks, `run_callback_operation` | – |
| `ManagedProcesses` | the processes of one thread as the Controller knows them | checked with `RunnerPool` |
| `Terminal` | the App of `atra-tui` | – |
| `TuiTranscript` | the entries of the terminal's transcript | used by `LiveTranscripts` |
| `WebTranscript`, `WebPage` | turns and activities of a thread; which rows are drawn again | used by `LiveTranscripts` |
| `LiveTranscripts` | a Controller's turns, and both transcripts that follow them | the three above |
| `WebShell` | routes, history, drawers, pins, marks of the browser | – |
| `WebComposer` | drafts, their storage, sends and their tasks | – |
| `WebPush` | watchers of the daemon, subscriptions and their file | – |
| `…_proofs` | theorems about the module they are named after | – |

An `MC…` module adds what TLC needs: scenarios, symmetry sets, sequence
constants.  `MCModel`, `MCRunner`, `MCManagedProcesses` and `MCWeb` check modules
that share nothing in one run: a variable `part` says which one a behaviour is of.

### TurnLifecycle

`LifecycleState` sits behind one `StdMutex`, so each method is one action:
`start`/`start_agent` → `Start`, `StartAgent`; `begin_cancellation(_many)` →
`BeginCancellation`; `clear_interactions` → `ClearInteractions`; `finish` →
`Finish`, `LaunchFails`; `register_*` → `RegisterInteraction`; `claim` →
`Claim`; `resolve_*` → `Resolve`; `pin_many` → `PinMany`; `release` and `Drop` →
`ReleasePin`.  `active`, `observationPins`, `interactions`, `nextInteraction` are
the fields of the state.  The holders are modelled because the promises are about
them: `task`/`awaiting` is the turn task and the oneshot receiver it holds,
`claimed` the `PendingInteraction` a command handler took out, `pins` the
`ObservationPin`s alive.  `turnCount` and the field `turn` stand for the identity
of the `Arc<ActiveTurn>` (the code tells turns apart by `Arc::ptr_eq`).

### ThreadTurn

Three copies of a conversation: `store` (SQLite), `view` (what clients are
shown), `local.events` (what a request is built from).  `db` is the queue of
statements on the single connection: an append is *submitted* under the
`mutation` lock, *run* later (`RunStatement`), and *acknowledged* to whoever
still waits.  Dropping the turn future (`DropTurn`) releases the lock and makes
the statement nobody's, but does not take it back.  `pc` follows the task through
`run_turn`/`continue_thread`/`compact_thread`, `continue_turn`,
`execute_model_responses` and the ending (`complete_turn_cancellation`,
`complete_registered_turn`).  `handler` follows `ApprovalAllow`, `ApprovalDeny`,
`QuestionAnswer`.  `ReplaceHistory`/`HistoryReplaced` are rewinds and restores,
`Crash` is the end of the process: statements not yet run are lost, the next
access materializes the view from the log.  An event is a kind and the call,
interaction or turn it is about; a call is named by its position in the log, and
`local.todo` is the set of calls the turn has to close, in the order of the log
(`FirstOf`).  `ImplementsLifecycle` maps the module onto
`TurnLifecycle`: what is checked there holds of the real callers.

### ThreadTree

`threads` are the rows of the store, each with its parent, whether its agent may
delegate, and the threads its history stems from; `log` has events that name the
thread and number they were made by, so that a history that is another thread's
shows; `checkpoints` the position they were taken at.  `views` is what clients are
shown, `active` the registered turns.  A scenario says which tree is stored when the
Controller starts, and what the agents may ask.  An agent's request goes through the states
of its callback (validated, accepted) and then on by itself, with the lock
`mutation`; a wait remembers the turns it saw.

### ModelSurface, ModelCodecs, TurnProjection, ModelStream

A log is a sequence of events; an item of a surface is the position it was
derived from.  `Surface` is `derive` with `applicable_compaction` and
`append_shadowed_state`; `PlanThrough` is `compaction_plan` with
`preserve_references`.  `covers` is a history field: what a replacement was made
from.  `ModelStream` lets a server stream an answer in frames of one of four
protocols and stop anywhere; each frame is decoded live (`ModelCodecs`), shown
(`TurnProjection`), and at the end parsed again; what is complete is saved, and
calls are performed.  `Fails` says after what an attempt is repeated.

### RunnerProcesses

`proc` holds what `ManagedProcess` and the operating system know of a process:
output written, read into the full file, copied to the tail, waiting in the
answer buffer, and the `shutdown`/`closed` channels of the reader; `managed` is
the map of handles.  Each request is a task with its own program counter, from one
await to the next, because it looks the process up once and keeps the `Arc`.  The
time limit of `finish_output` is an action (`GiveUpReader`): the request goes on while the
reader still runs, and says so (`left`).

### AgentCallbacks

`relay` is `relay_agent_callback` for one control connection, `pending`/`answer`
the bridge, `up`/`down` the two directions of the Runner's pipe, `call` the
callback tasks of the Controller's reader, `op` the operations which an accepted
callback hands over to, `mutation` and `writer` the two locks they take.  A
message in `down` is whole or begun, as a dropped write leaves it.

### ManagedProcesses

`proc` and `managed` are the Runner's processes and its map of handles, in steps
of a request (`RunnerProcesses` has them in detail).  `record` is
`RunnerPool.processes`, `shown` the status in the thread's views, `watch[p]` the
subscription made when process `p` is registered and the task that listens to it
(`watch_process`); its `mail` is the one state a `watch` channel keeps.  `lock` is
`State.mutation`.  `handler[Turn]` follows `State::execute` and
`register_spawned_processes`, with `slot` for `ActiveTurn.process`; the handlers
of clients follow `start_managed_process` and `StopProcess`.  What a cancelled
turn leaves behind is `orphans` (a start nobody waits for), `doomed` (stops sent
by the reader or after a deletion) and `unread` (an answer that was delivered and
dropped).  Ids the Controller generates are fresh; those of `atri proc spawn` are
chosen and may return.  Clients name only processes they are shown, so
`materialize_process` inserts nothing.  Relaunching a Runner is `RunnerPool`'s: once
its connection is lost it stays so here.

### RunnerPool and Skills

A generation of skills is collected from a disk by `Skills` (which twins hide
which, which directories cannot be used); a deployment writes objects, then the
tree, then the digest, under the lock of the Runner's environment.  Launches hold
the lock of the pool from the first publication to the last; watchers hear the
end of a Runner and publish it.  Turns prepare with the Runners they took a copy
of.

### Views and ViewState

`ViewState` gives, for each operation, the set of its results: empty if the
operation is rejected, which the Controller must never see.  `Views` keeps the
topics, each with its state and its subscribers' queues; a client has a replica
which applies what it is sent: a set of one state, or of none before its snapshot.
`Heard` is what one message makes of it, `Received` what a sequence of them does.
Handlers that give `mutation` up between the store and the views are several
actions.  What a cancelled turn saves and publishes to nobody has actions of its own:
events, of the clean-up and of an append its dropped future submitted
(`SaveUnseen`), and a name (`NameThread`); `unseen` and `shown` of a stored thread say
what the views lack.

### Providers

The login is a file and what is kept of it in memory.  Tasks are clients'
operations, turns that use a token, and publications; each runs from await to
await.  `excused` notes what the properties except; `fresh` says of what a task
found that no login changed since.  The one refresh token is spent by the answer
that carries the next.  Writing the file, reading it again and answering the browser
fail each on its own: what is saved may be unread, and an emptied file left behind.

### Terminal

One loop takes keys, answers and changes of subscriptions; requests run beside
it (`requests`) and answer through one queue (`updates`).  `app` is the App with its
target, overlay and subscription; `threads`, `saved` and `deleted` are the
Controller, which other clients and turns change too.

### LiveTranscripts, TuiTranscript, WebTranscript, WebPage

The Controller of the models runs turns with items of every kind and publishes
them through `TurnProjection`.  `TuiTranscript` changes entries in place;
`TranscriptFollows` says they are what the state makes of them.  `WebPage` marks
scopes and draws the readers that are due; `PageFollows` says that this is the
page drawn from nothing.

### WebShell, WebComposer, WebPush

The browser runs one callback at a time: each event, answer and run of an effect
is a step.  `WebShell` has the route, the session history, the drawers' entries
in it, streams of Controllers, pins and marks.  `WebComposer` has drafts by
thread, the storage, and tasks that outlive the page that sent them.  `WebPush`
has the daemon's watchers, the subscriptions in memory and in the file.

## 3. The runs

| Run | Instance | Question |
|---|---|---|
| `lifecycle` | 2 threads, 2 clients, 1 observer with 2 targets, 2 turns, 2 interactions, limit 1 of agent turns | Can two handlers win, can a stale interaction survive, can a pin be lost; does it implement `Interaction`? |
| `turn` | 6 scenarios: two clients that race for the answers of one turn; an answer delivered in the next turn; rewinds, restores, compactions and a crash around two turns | Is the log well formed wherever a turn is cancelled or the process ends, does nothing run that was not allowed, does the view follow, does a cancelled turn end; does it implement `TurnLifecycle`? |
| `model` | 10 events, 2 compactions, 2 models, 1 switch or rewind; 9 streams of up to 3 items in 4 protocols, 1 retry | Is what a model is shown complete, current, well formed; is what is shown and saved of an answer what it said; does a turn ask again for nothing? |
| `runner` | 2 requests of 6 kinds, 2 processes under 1 handle, one of which writes, 1 chunk of output; 2 callbacks | Is output answered once, are answers complete, are callbacks settled, does everything end? |
| `managed` | 3 processes, 1 started by the Controller, 1 id that spawns choose, the turn and 1 client; 2 Runners, 2 launches, 2 turns, 4 disks | Is every process somebody's to stop, nothing of a deleted thread listed, every end shown, every shown Runner there with the skills its digest names? |
| `views` | 6 mixes of up to 5 changes over 2 threads, 1 process id, 1 checkpoint, 3 events; a client that subscribes to anything at any time | Is a replica the state; do the views agree; does everyone hear the end? |
| `tree` | 6 mixes from an empty store of up to 4 threads, 2 agents, 2 checkpoints, 2 turns, 3 requests; 3 from a stored tree of 2 or 3 threads: two sends under one root, a wait and a rewind, turns and rewinds | Do store, views and registry agree on the tree; do waits report the turn they saw; is each history the thread's own? |
| `providers` | 3 kinds of provider, 2 tasks, 2 logins, 2 refreshes, 2 operations | Does the last login stand, is what is shown true at rest, do operations end? |
| `terminal` | 8 mixes of up to 9 keys and 4 events elsewhere | Does the App show and act on its target; does nothing wait for ever? |
| `web` | 11 mixes of transcripts, 7 of the shell, 5 of the composer; 2 browsers with 3 push endpoints | Do both transcripts follow; is the shell true and does the route come to rest; is a message sent once; do subscriptions stand? |
| `terminal_delete` | as `terminal` | Finding 1 |
| `callbacks_frames` | 2 callbacks | Finding 2 |

Why the bounds are enough.  The races are between pairs: two clients for one
interaction, a turn and the handler of the turn before, a wait and a stop, a
callback and its cancellation, a launch and the watcher of the one before; each
run has the two actors and one more step of each than the race needs.  Two
interactions per run let a stale id meet a fresh one; three items let a response
have a call executed, a call open and a text; two compactions, with and without a
replay key, let one hide the other.  A third turn meets no state the second did
not leave.  `MaxAgentTurns = 1` reaches the limit that is 8 in the code: in `tree` a
second send under the root is refused while the first runs and accepted after it, a
wait meets the rewind of the thread it waits for, and an accepted send finds a log
that was cut before.  Where
the product of everything is out of reach, a run takes several scenarios, each
with the actors of one kind of race.  `CHECK_DEADLOCK FALSE` stands where bounded
or finished behaviours stop: the turns, the requests or the keys are used up.
Symmetry is used in runs of invariants and step properties only, never with
liveness.

Every property has a mutant in `PROJECT.json`: a plausible slip in one mapped
definition (the operators marked `mutant` in the modules) under which the run's
own configuration refutes it.

## 4. Fairness

* `ThreadTurn!Fairness`: tokio's mutex is a FIFO queue, so who waits for it gets
  it: strong fairness for the steps that take it.  The connection thread and the
  tasks that need nobody run: weak fairness.  Users owe nothing: there is none
  for starts, cancellations, claims, the model or a tool.
* `RunnerProcesses!Fairness`: the Runner's requests go on and their time limits pass.
  Nothing says that a process exits, also after its signals, that a descendant closes the
  output it holds, or that a reader reads.
* `AgentCallbacks!Fairness`: every task goes on, the lock is granted in turn, the
  reader reads.  Nobody has to ask, leave or die.
* `ManagedProcesses!Fairness`: the Controller's tasks run and the Runner answers.
  Nothing says that a process exits, that a user asks or cancels, or that the
  connection ends.
* `RunnerPool!Fairness`: launches, deployments and turns go on, watchers run: a
  Runner that is asked answers or ends.
* `Views!FairSpec`: a subscriber is served.  `Providers!Fairness`: some task that can
  go on does (what the tasks have to do is finite); a service answers or fails.  The
  user owes the browser's login nothing: `OperationsEnd` excepts a login that waits
  for it.  `Terminal!FairSpec`: the loop takes what is there, requests are answered or
  fail.
* `WebShell!Fairness`: the browser runs callbacks and effects that are due,
  streams arrive.  The user and the Controllers owe nothing.

## 5. What is proved

Eight modules of proofs.  Every theorem is about the specification TLC checks, for
every value of its constants: any number of clients, turns, processes, tasks,
callbacks and requests, any sequence of legal steps.  The only assumptions are the
named ones of the modules (bounds are naturals, sets of names do not overlap, the
users are finitely many); TLC evaluates each in a run.  Every inductive invariant
was checked by TLC before it was proved.

| Run | Proved of its properties | Only model-checked |
|---|---|---|
| `lifecycle` | all 4 | – |
| `turn` | `ConversationIsSound`, `RunsOnlyIfAllowed`, `ViewIsTrue`, `NothingLost`, `ImplementsLifecycle` | `CancelledTurnEnds` (liveness) |
| `views` | `ViewsAgree`, `SubscribersAreServed` | `EveryoneHearsTheEnd` (liveness) |
| `managed` | `ProcessesAreTracked`, `DeletedThreadIsEmpty` | the Runners and their skills, liveness |
| `providers` | `LoginIsKept`, `ShownIsTrue` | `OperationsEnd` (liveness) |
| `runner` | `AnswersAreComplete`; `CallbacksAreSettled` and more of `AgentCallbacks` | liveness |
| others | – | see the end of this section |

### TurnLifecycle_proofs

* `TypeCorrect`.  `TypeOK` is inductive: one lemma per group of actions.
* `InteractionOwnership`.  `InteractionsOwned` is inductive relative to `TypeOK`:
  only `finish` ends a turn and it retains no interaction of the thread; only an
  active turn registers; a new turn starts on a thread that had none, whose
  interactions are therefore empty.
* `SingleSender`.  `OneSender` is not inductive: a fresh id must be new.  The
  strengthening `SenderInv` adds `IdsIssued`: every id in the registry, with a
  handler or already used is at most `next_interaction`.
* `PinAccounting`.  `PinsInv` adds that the pins are finitely many, so that
  cardinalities can be counted; the pins `pin_many` makes for one thread are in
  bijection with the positions that name it (`NewPinsCounted`).
* `ObservationStability`.  From `PinsInv`: a thread with a count of 0 has no pin
  (`UnusedIsUnpinned`), so no turn starts under an observer.
* `InteractionRefinement`.  `Spec => ImplementsInteraction`.  `TurnInv` says that
  only a running or asking task holds a receiver and that an interaction waits
  for the turn of its own thread.  With it each action maps to one step of
  `Interaction` or a stutter: a registration to `AskInteraction`; a dropped turn,
  a lost or sent answer to `Settle`; everything else, also the clearing of a
  thread's interactions, to a stutter.

### ThreadTurn_proofs

Five theorems from one inductive invariant `IInv`, whose parts are:

* `SavedSound`.  What can ever be the log is sound: the log with the statement
  under way (`Written`), the checkpoints, the target of a rewind.  Every part of
  `LogSound` holds of a prefix, so a rewind keeps it.
* `DbOwned`, `AckedOwned`, `LockOwned`.  A statement is of the holder of
  `mutation`, or of nobody; one that a dropped future left is the first in the
  queue and the turn is being cleaned up.  This is why the clean-up, whose
  statements come after it, sees its event.
* `CallsTracked`.  The calls without a result in `Written` are exactly those the
  turn has yet to close or to execute, and none when an outcome is saved.  A call
  is named by its position in the log, so one that is saved is a new one.
* `OutcomeOfTurn`.  `Written` has an outcome of the turn once it is past saving
  it, and none before.
* `HandlersClaim`, `TurnRegistered`, `IdsUsed`, `AwaitsLatest`.  Where an
  interaction is: registered, claimed or answered, and for whom the turn waits.
* `AllowedIsDecided`.  An executing command was allowed by a saved event: the
  oneshot is written after the event.
* `ShownInTurn`, `ShownInOrder` and `ViewIsTrue`.

`ConversationSound`, `AllowedBeforeRun` and `ViewTrue` follow.  `NothingIsLost` is
an action property: a step that shortens the log leaves the rest in a
checkpoint.  `LifecycleImplemented` proves `Spec => ImplementsLifecycle`: one lemma
per action says which step of `TurnLifecycle` it is, or that it is a stutter; what
is proved of the registry so holds of its real callers.  (The step in which the
process ends is excepted, as in the property.)

### ManagedProcesses_proofs

`DeletionIsComplete`: `DeletedThreadIsEmpty` is not inductive, since the view of
a registration comes two steps after the thread was looked up.  `DeletionInv` adds
`RegistrationsLocked` (between its record and its view a registration holds
`mutation` and the thread exists) and `OneHolder`.  The deletion waits for the
lock, so it meets no such registration; a state heard later is refused because
nothing of the thread is shown.

`ProcessesTracked`: every running process is somebody's to stop.  The argument is
that whoever lets go of a process has handed it on or knows that it ended, which
needs each part to be right about what it holds.  `Tracked` says so: on a
connected Runner a running process has its handle, so a stop under its id ends
that process (`RunnerSound`); an id the Controller generated is of one process
only (`OwnId`); each handler, the slot of the turn, each record and each watcher is of
the process it names (`HandlersSound`, `SlotSound`, `RecordsSound`, `WatchesSound`);
what is shown as running has a watcher or has ended (`ShownSound`); starts are
counted (`RequestsCounted`), the lock has its holder (`LockSound`), and every process
is held (`ProcessesHeld`).  That processes are only added and end once (`Grows`)
keeps what a step does not touch.

### Providers_proofs

`WorkInv` is about the login, for any number of tasks that use and change it: tokens
are of known logins (`LoginsKnown`), a refresh holds its lock (`LockHeld`), each
task's work fits its place (`WorksFit`), memory and file agree between the steps of an
operation (`Agrees`), a token in use is the last of its login (`TokensCurrent`), what
a task found since a login is of that login (`FreshIsTrue`), and the catalog is that
of the login (`CatalogSound`).  What the properties except — a change of the login
that crosses a refresh, an answer that is lost, a file changed by an operation that
then failed and read it no more — is noted in `excused`, which only grows; while
nothing is, no change of login crosses a refresh, so the refresh token read under the
lock is current (`LoginKept`).  `ShownSound` says who will still publish when what is
shown is not what is in use: operations publish after they change, and `StoreLogin`
resets `fresh` for whoever fetched before.  At rest nobody is left to publish, so it
is true (`ShownTrue`).

### RunnerProcesses_proofs, AgentCallbacks_proofs

`AnswersComplete`: a request past `finish_output` has a process whose reader ended or
was given up on (`left`, which is the exception of the property); otherwise the buffer
is empty after the last `take_output` (`Answered`); a chunk is in the buffer or in one
answer (`OutputAnsweredOnce`); a spawn or a patch is news, or was told once
(`NewsIsTrue`).  `CallbackSoundness`: a request is read once, a callback out of
`pending` has its end, and what its client is told was settled before it was written
(`SettledInv`).  `MutationsAreExclusive`: `mutation` goes from the validation to the
accepted operation with nobody in between (`LockIsHeld`).

### Views_proofs

`ViewsAlwaysAgree`: the list of threads, each thread, its checkpoints and its
processes agree with each other and with the store.  `ViewsAgree` is inductive only
with `ServerFits`: what the views lack of a stored thread is what was saved unseen,
and what follows keeps its order (`RowFits`, `Shows`); a stored thread has been issued
(`StoreFits`); the runs of a process are numbered (`RunsFit`); the list names each
thread once (`ControllerFits`), so an update finds one row; a thread has one turn at
most (`ThreadsFit`); a process with a view has a run, and of an only run that is shown
to have ended nothing more is heard (`ProcessesFit`); and while the Controller runs, a
process with a view has a status in its thread (`ProcessesListed`).  Each command,
turn step and watcher is a lemma: what it stores, what its operations make of the
views (`StateNext` on a state that fits has one result at most, and it fits), and that
both say the same.

What a sequence of messages leads to is defined by a recursive function.  The
library's induction takes an operator, which the provers cannot instantiate; induction
over the length of a sequence is done here with `LeastNatural`, which comes from the
library's `WFMin`: the least number at which two runs of the messages differ would be
0 or have a predecessor at which they agree (`RunsAgree`).  With it come `ReceivedIs`,
and that messages received one after the other are received together.

### Subscriptions_proofs

`SubscribersAlwaysServed`, on top of `ServerFits`.  The invariant is a statement for
each client (`Served`): `ClientFits` says what it may hold (a snapshot comes first
and only to an empty replica, every operation is one of its topic, what is on its
way leads somewhere), `ClientServed` what it is owed (attached, it leads to what
is published; detached, its channel ends with a reason, and a reason told is true).
A step treats each client in one of a few ways (`Treated`): left alone, sent the news
of its topic, dismissed with the last news and the reason, or forgotten, as a process
whose view the next one takes.  A client that is treated so stays served,
whatever the step; each command then shows that what it publishes of a topic is
what its messages make of the state before, which is the step of
`ViewsAlwaysAgree` seen from the channel.  `Later` says what makes a reason stay
true: a shut Controller does not run again, a deleted id is not issued again, the
runs of a process only grow.

### Only model-checked

* All liveness: `CancelledTurnEnds`, `OperationsEnd`, `StopEnds`, `CallbacksEnd`,
  `EndsAreShown`, `EveryoneHearsTheEnd`, `WaitsEnd`, `RouteComesToRest`.  The prover
  has no `ENABLED`.
* `SurfaceIsSound`, `CompactionAdvances`, `AnswerIsShown`, `TextIsKept`,
  `AsksWithNews`, `TranscriptFollows`: they say what recursive definitions compute of a
  log or a stream, with a different induction for each codec and each fold.
* `RunnersAreTrue`, which rests on the recursive collection of skills.
* The invariants of the tree, the terminal and the browser, of which nothing is
  proved: `TreeIsWhole`, `AgentsAreAnswered`, `HistoryIsOwn`, `AppFollowsTarget`,
  `PageFollows`, `ShellIsTrue`, `SentOnce`, `PushIsTrue`, and the action properties of
  these runs.

## 6. Findings and observations

Two findings have runs that TLC must find violated:

1. `terminal_delete`: the thread picker keeps the row, not the thread, while it
   asks for confirmation (`atra-tui/src/app/interaction.rs:422`); when the list
   changes, another thread than the marked one is deleted.
2. `callbacks_frames`: a cancellation drops a half-written answer
   (`atra-controller/src/runner_client.rs:69`); the Runner's loop ends at the next
   message, although a test says that late answers are discarded.

Holes met while modelling.  The properties name each of them and exclude nothing
else:

* The results a cancelled turn saves, and an append its dropped future submitted,
  are published by nobody (`turn.rs:316`): the view lacks them until it is built
  again; so it is with a name saved for the thread.  `ViewIsTrue`, `ViewsAgree`.
* A second compaction request shows an old shadowed value where a request has
  none (`model/surface.rs:112`).  `SurfaceIsSound`.
* Two protocols accept answers with nothing in them: Responses one without an item or
  whose items have no text (`model/api/responses.rs:489`), Messages one that pauses before
  its first block (`model/api/messages.rs:341`).  The turn asks the same again
  (`turn.rs:665`).  `AsksWithNews`.
* The reader of a process is given up on after 1 s (`atra-runner/src/lib.rs:1168`): an
  answer that says the end may lack output.  `AnswersAreComplete`.
* A login whose file is written and whose answer to the browser fails is reported as
  failed and not read (`model/codex_auth.rs:242`–`250`): file and memory differ until the
  next reload.  So do they after a file that was written and not synced, or emptied
  and not removed.  `LoginIsKept`, `ShownIsTrue`.
* A process spawned again under its id is not registered again
  (`atra-controller/src/lib.rs:629`) and stays shown as exited; the watcher of a
  lost Runner reports zero omitted bytes (`lib.rs:372`).  `ProcessesAreTracked`,
  `EndsAreShown`, `ViewsAgree`.
* The watcher of a launch may publish the end before the launch publishes that it
  runs (`runner_pool.rs:434`): the Runner is shown as running for ever; of two
  turns that prepare with different generations the older may be noted last
  (`turn.rs:729`).  `RunnersAreTrue`.
* An invalid skill of a preferred source still hides the one it shadows
  (`skills.rs:126`).  Ids of deleted checkpoints are given again
  (`storage.rs:57`).  `HistoryIsOwn`.
* Between the refresh of a provider and its publication a login may be overwritten
  in the view until the next operation (`commands.rs:459`).  `ShownIsTrue`.
* The last card of the turn before, and a command whose turn ended, are not drawn
  again (`thread_store.rs:783`); the effects that leave an unavailable thread and
  restore the saved one alternate over a stopped Workspace
  (`atra-web-ui/src/main.rs:667`–`745`).  `PageFollows`, `RouteComesToRest`.
* What is typed while a message is sent is cleared by its answer
  (`atra-web-ui/src/main.rs:3030`).  `SentOnce`.

## 7. Not modelled

Rendering, wording, formats and encodings; wire types; how a request is spelled;
queries of the Workspace; the algorithm of patches; the command line tools; the
sandbox and the platform.  `PROJECT.json` lists them with the reason.  Two
hazards have no property: a statement of the database that fails (`commands.rs:551`),
and a wait that forgets its process by handle, whatever process has the handle by
then (`atra-runner/src/lib.rs:910`); a third, a Runner that never answers while the
pool is locked (`runner_pool.rs:104`), is excluded by the fairness.

Abstractions within the modelled parts: a model may stream any item at any time; the
token counts that trigger a compaction are a free choice; timers (the 50 ms of
draining and the 1 s of `finish_output`, the 1.2 s of `stop`, deadlines of waits) may
fire at any time.

Where conditions of a `CASE` overlap, the first one that holds is meant, as TLC
evaluates it; the modules with proofs have no such `CASE`.

## 8. What is left

* `ModelSurface`: that a request is well formed, by induction over the log with
  `LeastNatural`; the derivation is a fold whose prefix property would be the lemma.
* `ThreadTree`: `TreeIsWhole` and `AgentsAreAnswered`, whose invariants relate store,
  views and registry much as `ServerFits` does; the callback of an agent adds its
  position between validation and acceptance.
* `Terminal` and the browser: `AppFollowsTarget`, `SentOnce` and `PushIsTrue` are about
  one actor and its requests, and within reach; the transcripts rest on folds.
* `RunnerPool`: the part of `RunnersAreTrue` that does not depend on the collection
  of skills (a Runner shown as running is there, but for the hole of section 6).
* Liveness under the fairness of section 4 stays with TLC.
* A database that fails, the removal of a wait by handle and a Runner that never
  answers (the hazards of section 7) need states the modules do not have.

