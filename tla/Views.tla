-------------------------------- MODULE Views --------------------------------
(***************************************************************************)
(* The published views of the Controller and their subscriptions: what     *)
(* every client sees of threads, checkpoints and processes while other     *)
(* clients, turns and watchers change them (views.rs, connection.rs,       *)
(* lib.rs, commands.rs, and the replicas of crates/atra-client).           *)
(*                                                                         *)
(* Each operation on the views runs under one lock and is one step.  The   *)
(* lock "mutation" of the commands shows only as the order of their steps: *)
(* a handler that keeps it from its first read of the store to its change  *)
(* of the views is one action, and one that gives it up is several.        *)
(***************************************************************************)
EXTENDS ViewState, FiniteSets

CONSTANTS ThreadIds, ProcessIds, Clients,
          Topics,      \* what the clients may subscribe to
          Mixes,       \* bound: groups of operations that happen together, and how many
          MaxEvents,   \* bound: events of a thread
          MaxRuns      \* bound: processes started under one id

VARIABLES
  stored,       \* the store: thread id -> [title, events], and beside them (for the
                \* properties) the title shown last and the numbers of the events
                \* that nobody published
  issued,       \* the thread ids it has given out
  saved,        \* its checkpoints: id -> [thread, events]
  active,       \* the threads whose turn is registered (lifecycle.rs)
  records,      \* the ids of processes the Runner pool has a record of
  runs,         \* the processes themselves, by id and run
  controller,   \* the view of the Controller
  threads,      \* the loaded threads: id -> state
  checkpoints,  \* the loaded checkpoints: id -> [thread, events]
  processes,    \* the views of processes: id -> [thread, status, tail, omitted]
  conn,         \* the connection and the replica of each client
  mix,          \* the groups and the bound of this behaviour
  steps

views == <<controller, threads, checkpoints, processes>>
world == <<stored, issued, saved, active, records, runs>>
vars == <<world, views, conn, mix, steps>>

\* The bound of TailBuffer, in the characters of the model.
MaxTail == 2
Characters == {"a", "b"}
CheckpointIds == 1..2
\* Every process of the model belongs to one thread.
ProcessThread == CHOOSE t \in ThreadIds : TRUE

ControllerTopic == [kind |-> "controller", id |-> "controller"]
ThreadTopic(t) == [kind |-> "thread", id |-> t]
CheckpointTopic(k) == [kind |-> "checkpoint", id |-> k]
ProcessTopic(p) == [kind |-> "process", id |-> p]

ASSUME ConstantsAssumption ==
  /\ MaxRuns \in Nat
  /\ Topics \subseteq {ControllerTopic} \cup {ThreadTopic(t) : t \in ThreadIds}
                     \cup {CheckpointTopic(k) : k \in CheckpointIds}
                     \cup {ProcessTopic(p) : p \in ProcessIds}

Running == controller.lifecycle = "running"
Metadata(t) == [id |-> t, title |-> stored[t].title]
Loaded(t) == t \in DOMAIN threads

-----------------------------------------------------------------------------
(* Messages.                                                               *)

Snapshot(s) == [message |-> "snapshot", state |-> s]
Operation(op) == [message |-> "operation", op |-> op]
Terminal(why) == [message |-> "terminal", why |-> why]
Operations(ops) == [i \in DOMAIN ops |-> Operation(ops[i])]

\* What a message makes of a state of that kind, if it is not rejected.
Heard(kind, states, message) ==
  CASE message.message = "snapshot"  -> {message.state}
    [] message.message = "operation" -> UNION {StateNext(kind, s, message.op) : s \in states}
    [] message.message = "terminal"  -> states

\* ... and what some messages make of it, one after the other.
Received(kind, states, messages) ==
  LET heard[n \in 0..Len(messages)] ==
        IF n = 0 THEN states ELSE Heard(kind, heard[n - 1], messages[n]) IN
  heard[Len(messages)]

\* The Controller applies the operations that it sends.
Applied(kind, s, ops) == Received(kind, {s}, Operations(ops))

\* The state a topic stands for, if it is published.
Published(topic) ==
  CASE topic.kind = "controller" -> {controller}
    [] topic.kind = "thread"     -> {threads[t] : t \in DOMAIN threads \cap {topic.id}}
    [] topic.kind = "checkpoint" -> {checkpoints[k] : k \in DOMAIN checkpoints \cap {topic.id}}
    [] topic.kind = "process"    -> {processes[p] : p \in DOMAIN processes \cap {topic.id}}

\* Every subscriber of a topic gets the news of that topic.
Publish(News(_)) ==
  conn' = [c \in Clients |->
             IF conn[c].attached THEN [conn[c] EXCEPT !.queue = @ \o News(conn[c].topic)]
                                 ELSE conn[c]]

PublishTo(topic, ops) ==
  Publish(LAMBDA other : IF other = topic THEN Operations(ops) ELSE <<>>)

\* The subscribers of some topics get their last message.
Dismiss(Gone(_), News(_), why) ==
  conn' = [c \in Clients |->
             CASE ~conn[c].attached -> conn[c]
               [] conn[c].attached /\ Gone(conn[c].topic) ->
                    [conn[c] EXCEPT !.queue = @ \o News(conn[c].topic) \o <<Terminal(why)>>,
                                    !.attached = FALSE]
               [] OTHER -> [conn[c] EXCEPT !.queue = @ \o News(conn[c].topic)]]

Step == steps < mix.steps /\ steps' = steps + 1

-----------------------------------------------------------------------------
\* A thread has no name, the title 0, until it gets one.
NewRow(events) == [title |-> 0, shown |-> 0, events |-> events, unseen |-> {}]

Unconnected == [pc |-> "idle", topic |-> ControllerTopic, queue |-> <<>>,
                attached |-> FALSE, replica |-> {}, end |-> "none"]

\* The Controller starts with what the store holds, and loads no thread.
Init ==
  /\ stored = [t \in {ProcessThread} |-> NewRow(<<[sequence |-> 1]>>)]
  /\ issued = {ProcessThread} /\ saved = <<>> /\ active = {} /\ records = {} /\ runs = <<>>
  /\ controller = NewController(<<[id |-> ProcessThread, title |-> 0]>>,
                                [p \in {"provider"} |-> [lifecycle |-> "ready"]])
  /\ threads = <<>> /\ checkpoints = <<>> /\ processes = <<>>
  /\ conn = [c \in Clients |-> Unconnected]
  /\ mix \in Mixes /\ steps = 0

-----------------------------------------------------------------------------
(* Operations on the view of the Controller and of a thread.               *)

\* apply_controller
ApplyController(op) ==
  /\ Running /\ controller' \in ControllerNext(controller, op)
  /\ PublishTo(ControllerTopic, <<op>>)
  /\ UNCHANGED <<threads, checkpoints, processes>>

ApplyThreadAlone(t, op) ==   \* mutant: the list of threads does not follow
  /\ Running /\ Loaded(t)
  /\ \E s \in ThreadNext(threads[t], op) : threads' = [threads EXCEPT ![t] = s]
  /\ PublishTo(ThreadTopic(t), <<op>>)
  /\ UNCHANGED <<controller, checkpoints, processes>>

\* apply_thread: the thread, and its status in the list if that changes
ApplyThread(t, op) ==
  /\ Running /\ Loaded(t)
  /\ \E s \in ThreadNext(threads[t], op) :
       LET status == [op |-> "status", id |-> t, status |-> AgentStatus(s)]
           news == IF t \in DOMAIN controller.statuses /\ controller.statuses[t] = AgentStatus(s)
                   THEN <<>> ELSE <<status>> IN
       /\ threads' = [threads EXCEPT ![t] = s]
       /\ controller' \in Applied("controller", controller, news)
       /\ Publish(LAMBDA topic : CASE topic = ThreadTopic(t) -> Operations(<<op>>)
                                   [] topic = ControllerTopic -> Operations(news)
                                   [] OTHER -> <<>>)
  /\ UNCHANGED <<checkpoints, processes>>

\* update_thread_metadata and replace_thread_history: both views, or neither
ApplyBoth(t, metadata, ops) ==
  /\ Running /\ Loaded(t)
  /\ controller' \in ControllerNext(controller, [op |-> "updated", thread |-> metadata])
  /\ \E s \in Applied("thread", threads[t], ops) : threads' = [threads EXCEPT ![t] = s]
  /\ Publish(LAMBDA topic :
       CASE topic = ControllerTopic -> Operations(<<[op |-> "updated", thread |-> metadata]>>)
         [] topic = ThreadTopic(t)  -> Operations(ops)
         [] OTHER -> <<>>)
  /\ UNCHANGED <<checkpoints, processes>>

\* What the store knows of a thread.  A thread with processes is loaded, so the
\* Runner pool has none of a thread that is not.
Materialized(t) ==
  LET known(k) == IF k \in DOMAIN saved /\ saved[k].thread = t THEN <<k>> ELSE <<>> IN
  NewThread(Metadata(t), stored[t].events, known(2) \o known(1), <<>>)

\* materialize_thread_locked
Materialize(t) ==
  IF Loaded(t) THEN UNCHANGED threads
  ELSE \E s \in Materialized(t) : threads' = Upsert(threads, t, s)

-----------------------------------------------------------------------------
(* Commands (handle_command).                                              *)

\* ThreadCreate, ThreadFork and an agent's new thread: the id is a new one
CreateThread(t, events) ==
  /\ "create" \in mix.kinds /\ Running /\ t \notin issued
  /\ issued' = issued \cup {t}
  /\ stored' = Upsert(stored, t, NewRow(events))
  /\ ApplyController([op |-> "added", thread |-> [id |-> t, title |-> 0]])
  /\ Step /\ UNCHANGED <<saved, active, records, runs>>

\* ThreadFork: the new thread has the events of the old one up to a point
ForkThread(t, of) ==
  /\ of \in DOMAIN stored \ active /\ Loaded(of)
  /\ \E n \in 0..Len(stored[of].events) : CreateThread(t, SubSeq(stored[of].events, 1, n))

\* A handler begins with the thread loaded, and takes the lock again.
LoadThread(t) ==
  /\ Running /\ t \in DOMAIN stored /\ ~Loaded(t) /\ Materialize(t)
  /\ Step /\ UNCHANGED <<world, controller, checkpoints, processes, conn>>

\* A title is stored, and then both views show it.
Entitle(t, title) ==
  /\ stored' = [stored EXCEPT ![t].title = title, ![t].shown = title]
  /\ ApplyBoth(t, [id |-> t, title |-> title],
               <<[op |-> "metadata", metadata |-> [id |-> t, title |-> title]]>>)
  /\ Step /\ UNCHANGED <<issued, saved, active, records, runs>>

\* ThreadRename, ThreadSetModel
UpdateMetadata(t) ==
  /\ "metadata" \in mix.kinds /\ t \in DOMAIN stored \ active
  /\ Entitle(t, stored[t].title + 1)

\* The store gives the id after the greatest there is: ids come back.
NextCheckpoint(k) ==
  /\ k \in CheckpointIds /\ \A j \in DOMAIN saved : j < k
  /\ k = 1 \/ k - 1 \in DOMAIN saved

\* ThreadCheckpointCreate
CreateCheckpoint(t, k) ==
  /\ "history" \in mix.kinds /\ t \in DOMAIN stored \ active /\ NextCheckpoint(k)
  /\ saved' = Upsert(saved, k, [thread |-> t, events |-> stored[t].events])
  /\ ApplyThread(t, [op |-> "checkpoint", checkpoint |-> k])
  /\ Step /\ UNCHANGED <<stored, issued, active, records, runs>>

\* ThreadReplaceHistory: a rewind, or the events of a checkpoint
ReplaceHistory(t, k) ==
  /\ "history" \in mix.kinds /\ t \in DOMAIN stored \ active /\ NextCheckpoint(k)
  /\ \E events \in {SubSeq(stored[t].events, 1, n) : n \in 0..Len(stored[t].events)}
                   \cup {saved[j].events : j \in {j \in DOMAIN saved : saved[j].thread = t}} :
       /\ stored' = [stored EXCEPT ![t].events = events, ![t].unseen = {}, ![t].shown = stored[t].title]
       /\ ApplyBoth(t, Metadata(t), <<[op |-> "metadata", metadata |-> Metadata(t)],
                                      [op |-> "replaced", events |-> events],
                                      [op |-> "checkpoint", checkpoint |-> k]>>)
  /\ saved' = Upsert(saved, k, [thread |-> t, events |-> stored[t].events])
  /\ Step /\ UNCHANGED <<issued, active, records, runs>>

OfThread(topic, t) ==
  CASE topic.kind = "thread"     -> topic.id = t
    [] topic.kind = "checkpoint" -> topic.id \in DOMAIN checkpoints /\ checkpoints[topic.id].thread = t
    [] topic.kind = "process"    -> topic.id \in DOMAIN processes /\ t = ProcessThread
    [] OTHER -> FALSE

DeleteThreadQuietly(t) ==   \* mutant: who watches its checkpoints is not told
  /\ "delete" \in mix.kinds /\ Running /\ t \in DOMAIN stored \ active
  /\ stored' = Without(stored, {t})
  /\ saved' = Without(saved, {k \in DOMAIN saved : saved[k].thread = t})
  /\ records' = IF t = ProcessThread THEN {} ELSE records
  /\ controller' \in ControllerNext(controller, [op |-> "removed", id |-> t])
  /\ threads' = Without(threads, {t})
  /\ checkpoints' = Without(checkpoints, {k \in DOMAIN checkpoints : checkpoints[k].thread = t})
  /\ processes' = IF t = ProcessThread THEN <<>> ELSE processes
  /\ Dismiss(LAMBDA topic : topic.kind # "checkpoint" /\ OfThread(topic, t),
             LAMBDA topic : IF topic = ControllerTopic
                            THEN Operations(<<[op |-> "removed", id |-> t]>>) ELSE <<>>,
             "deleted")
  /\ Step /\ UNCHANGED <<issued, active, runs>>

\* delete_thread_subtree and Views::delete_threads, for one thread
DeleteThread(t) ==
  /\ "delete" \in mix.kinds /\ Running /\ t \in DOMAIN stored \ active
  /\ stored' = Without(stored, {t})
  /\ saved' = Without(saved, {k \in DOMAIN saved : saved[k].thread = t})
  /\ records' = IF t = ProcessThread THEN {} ELSE records
  /\ controller' \in ControllerNext(controller, [op |-> "removed", id |-> t])
  /\ threads' = Without(threads, {t})
  /\ checkpoints' = Without(checkpoints, {k \in DOMAIN checkpoints : checkpoints[k].thread = t})
  /\ processes' = IF t = ProcessThread THEN <<>> ELSE processes
  /\ Dismiss(LAMBDA topic : OfThread(topic, t),
             LAMBDA topic : IF topic = ControllerTopic
                            THEN Operations(<<[op |-> "removed", id |-> t]>>) ELSE <<>>,
             "deleted")
  /\ Step /\ UNCHANGED <<issued, active, runs>>

ShutDownQuietly ==   \* mutant: only the subscribers of the Controller are told
  /\ "shutdown" \in mix.kinds /\ Running
  /\ controller' = [controller EXCEPT !.lifecycle = "stopping"]
  /\ threads' = <<>> /\ checkpoints' = <<>> /\ processes' = <<>>
  /\ Dismiss(LAMBDA topic : topic = ControllerTopic,
             LAMBDA topic : IF topic = ControllerTopic
                            THEN Operations(<<[op |-> "lifecycle", lifecycle |-> "stopping"]>>)
                            ELSE <<>>,
             "shutdown")
  /\ UNCHANGED <<world, steps>>

\* Shutdown: State::shutdown and Views::shutdown
ShutDown ==
  /\ "shutdown" \in mix.kinds /\ Running
  /\ controller' = [controller EXCEPT !.lifecycle = "stopping"]
  /\ threads' = <<>> /\ checkpoints' = <<>> /\ processes' = <<>>
  /\ Dismiss(LAMBDA topic : TRUE,
             LAMBDA topic : IF topic = ControllerTopic
                            THEN Operations(<<[op |-> "lifecycle", lifecycle |-> "stopping"]>>)
                            ELSE <<>>,
             "shutdown")
  /\ UNCHANGED <<world, steps>>

-----------------------------------------------------------------------------
(* A turn.  What it does besides publishing is in ThreadTurn.              *)

\* start_turn, as far as the registration
BeginTurn(t) ==
  /\ "turns" \in mix.kinds /\ Running /\ t \in DOMAIN stored \ active
  /\ Materialize(t)
  /\ active' = active \cup {t}
  /\ Step /\ UNCHANGED <<stored, issued, saved, records, runs, controller, checkpoints, processes, conn>>

Starting(t) == t \in active /\ Loaded(t) /\ threads[t].turn = {}

\* launch_turn
ShowTurn(t) ==
  /\ Starting(t) /\ \E phase \in {"running", "compacting"} :
                      ApplyThread(t, [op |-> "started", phase |-> phase])
  /\ UNCHANGED <<world, steps>>

\* ... or the views are stopped, and the turn is given up
AbandonTurn(t) ==
  /\ t \in active /\ ~Running
  /\ active' = active \ {t}
  /\ UNCHANGED <<stored, issued, saved, records, runs, views, conn, steps>>

TurnShown(t) == t \in active /\ Loaded(t) /\ threads[t].turn # {}

\* run_turn names a thread that has no name by the message.
Name(t) == IF stored[t].title = 0 THEN 1 ELSE stored[t].title
NameThread(t) == TurnShown(t) /\ Entitle(t, Name(t))

\* The store numbers the events of a thread.
NextEvent(t) ==
  LET events == stored[t].events IN
  [sequence |-> IF events = <<>> THEN 1 ELSE events[Len(events)].sequence + 1]

\* persist_public_event, TurnProjector::event_finalized
AppendEvent(t) ==
  /\ TurnShown(t) /\ Len(stored[t].events) < MaxEvents
  /\ stored' = [stored EXCEPT ![t].events = Append(@, NextEvent(t))]
  /\ ApplyThread(t, [op |-> "event", event |-> NextEvent(t)])
  /\ Step /\ UNCHANGED <<issued, saved, active, records, runs>>

\* A cancelled turn is dropped after it saved and before it published, or its
\* clean-up saves the results of open calls, which nobody publishes.
SaveUnseen(t) ==
  /\ TurnShown(t)
  /\ \/ /\ Len(stored[t].events) < MaxEvents
        /\ stored' = [stored EXCEPT ![t].events = Append(@, NextEvent(t)),
                                    ![t].unseen = @ \cup {NextEvent(t).sequence}]
     \/ stored' = [stored EXCEPT ![t].title = Name(t)]
  /\ Step /\ UNCHANGED <<issued, saved, active, records, runs, views, conn>>

\* The phases of a turn, its questions and its approvals.
ChangeTurn(t) ==
  /\ t \in active
  /\ \/ \E phase \in {"running", "compacting", "cancelling"} :
          ApplyThread(t, [op |-> "phase", phase |-> phase])
     \/ ApplyThread(t, [op |-> "retry", retry |-> 1])
     \/ \E kind \in {"questions", "approval"} :
          ApplyThread(t, [op |-> "requested", interaction |-> [kind |-> kind, id |-> steps]])
     \/ Loaded(t) /\ \E turn \in threads[t].turn : \E p \in turn.pending :
          ApplyThread(t, [op |-> "resolved", id |-> p.id])
  /\ Step /\ UNCHANGED world

\* The outcome, and then the registry (complete_registered_turn).
FinishTurn(t) ==
  /\ t \in active
  /\ \E outcome \in {"completed", "failed", "cancelled"} :
       ApplyThread(t, [op |-> "finished", outcome |-> outcome])
  /\ active' = active \ {t}
  /\ UNCHANGED <<stored, issued, saved, records, runs, steps>>

-----------------------------------------------------------------------------
(* Processes.                                                              *)

LastRun(p) == Cardinality({n \in 1..MaxRuns : <<p, n>> \in DOMAIN runs})

\* register_managed_process with insert_process.  The view of an earlier
\* process of that id is replaced, and with it go its subscribers.
Register(p) ==
  LET t == ProcessThread IN
  /\ "processes" \in mix.kinds /\ Running /\ t \in DOMAIN stored /\ p \notin records /\ Loaded(t)
  /\ LastRun(p) < MaxRuns
  /\ records' = records \cup {p}
  /\ runs' = Upsert(runs, <<p, LastRun(p) + 1>>,
                    [status |-> "running", tail |-> <<>>, omitted |-> 0, watched |-> TRUE])
  /\ processes' = Upsert(processes, p, [status |-> "running", tail |-> <<>>, omitted |-> 0])
  /\ \E s \in ThreadNext(threads[t], [op |-> "process", process |-> p, status |-> "running"]) :
       threads' = [threads EXCEPT ![t] = s]
  /\ conn' = [c \in Clients |->
                CASE conn[c].attached /\ conn[c].topic = ThreadTopic(t) ->
                       [conn[c] EXCEPT !.queue = Append(@, Operation(
                          [op |-> "process", process |-> p, status |-> "running"]))]
                  [] conn[c].attached /\ conn[c].topic = ProcessTopic(p) ->
                       [conn[c] EXCEPT !.attached = FALSE]
                  [] OTHER -> conn[c]]
  /\ Step /\ UNCHANGED <<stored, issued, saved, active, controller, checkpoints>>

\* The process writes a character, or ends.
Produce(p, n) ==
  /\ <<p, n>> \in DOMAIN runs /\ runs[<<p, n>>].status = "running" /\ runs[<<p, n>>].watched
  /\ \/ \E char \in Characters :
          LET tail == Append(runs[<<p, n>>].tail, char)
              over == IF Len(tail) > MaxTail THEN 1 ELSE 0 IN
          runs' = [runs EXCEPT ![<<p, n>>].tail = SubSeq(tail, over + 1, Len(tail)),
                               ![<<p, n>>].omitted = @ + over]
     \/ runs' = [runs EXCEPT ![<<p, n>>].status = "exited"]
  /\ Step /\ UNCHANGED <<stored, issued, saved, active, records, views, conn>>

OutputNews(s, r) ==
  LET overlap == Overlap(s.tail, r.tail) IN
  IF s.tail = r.tail /\ s.omitted = r.omitted THEN <<>>
  ELSE <<[op |-> "output", content |-> SubSeq(r.tail, overlap + 1, Len(r.tail)),
          truncate |-> Len(s.tail) - overlap, omitted |-> r.omitted]>>

StatusNews(s, r) == IF s.status = r.status THEN <<>> ELSE <<[op |-> "status", status |-> r.status]>>

\* synchronize_process: the view of the process and the summary in its thread,
\* or neither; the watcher ends with the process and when it is refused.
Synchronize(p, n, r) ==
  LET t == ProcessThread
      known == Running /\ p \in DOMAIN processes /\ Loaded(t)
      news == OutputNews(processes[p], r) \o StatusNews(processes[p], r)
      summary == IF StatusNews(processes[p], r) = <<>> THEN <<>>
                 ELSE <<[op |-> "process", process |-> p, status |-> r.status]>>
      results == IF known THEN Applied("process", processes[p], news) ELSE {} IN
  /\ runs' = [runs EXCEPT ![<<p, n>>].watched = results # {} /\ r.status = "running"]
  /\ IF results = {} THEN UNCHANGED <<views, conn>>
     ELSE /\ \E s \in results : processes' = [processes EXCEPT ![p] = s]
          /\ \E s \in Applied("thread", threads[t], summary) : threads' = [threads EXCEPT ![t] = s]
          /\ Publish(LAMBDA topic : CASE topic = ProcessTopic(p) -> Operations(news)
                                      [] topic = ThreadTopic(t)  -> Operations(summary)
                                      [] OTHER -> <<>>)
          /\ UNCHANGED <<controller, checkpoints>>
  /\ UNCHANGED <<stored, issued, saved, active, records, steps>>

\* watch_process
Watch(p, n) ==
  /\ <<p, n>> \in DOMAIN runs /\ runs[<<p, n>>].watched
  /\ Synchronize(p, n, [status |-> runs[<<p, n>>].status, tail |-> runs[<<p, n>>].tail,
                        omitted |-> runs[<<p, n>>].omitted])

\* The subscription fails: the Runner is gone.
LoseWatch(p, n) ==
  /\ "lost" \in mix.kinds /\ <<p, n>> \in DOMAIN runs /\ runs[<<p, n>>].watched
  /\ Synchronize(p, n, [status |-> "unavailable", tail |-> <<>>, omitted |-> 0])

\* StopProcess: RunnerPool::stop_process.  The view stays.
StopProcess(p) ==
  /\ "processes" \in mix.kinds /\ p \in records /\ Running
  /\ runs' = [runs EXCEPT ![<<p, LastRun(p)>>].status = "exited"]
  /\ records' = records \ {p}
  /\ UNCHANGED <<stored, issued, saved, active, views, conn, steps>>

-----------------------------------------------------------------------------
(* Providers and Runners in the view of the Controller.                    *)

Busy == {"logging in", "logging out", "refreshing"}

\* start_provider_operation, and what its task publishes at its end
StartProvider(p) ==
  /\ "providers" \in mix.kinds /\ p \in DOMAIN controller.providers
  /\ controller.providers[p].lifecycle \notin Busy
  /\ \E lifecycle \in Busy :
       ApplyController([op |-> "provider", id |-> p, provider |-> [lifecycle |-> lifecycle]])
  /\ Step /\ UNCHANGED world

\* The task of an operation, or the refresh after a turn, publishes its result.
EndProvider(p) ==
  /\ "providers" \in mix.kinds /\ p \in DOMAIN controller.providers
  /\ \E lifecycle \in {"ready", "failed"} :
       ApplyController([op |-> "provider", id |-> p, provider |-> [lifecycle |-> lifecycle]])
  /\ Step /\ UNCHANGED world

\* start_runner_launch; its end, or the end of the Runner (watch_runner)
LaunchRunner(name) ==
  /\ "runners" \in mix.kinds
  /\ name \in DOMAIN controller.runners => controller.runners[name] # "launching"
  /\ ApplyController([op |-> "runner", name |-> name, runner |-> "launching"])
  /\ Step /\ UNCHANGED world

ShowRunner(name) ==
  /\ "runners" \in mix.kinds /\ name \in DOMAIN controller.runners
  /\ \E lifecycle \in {"ready", "failed"} :
       ApplyController([op |-> "runner", name |-> name, runner |-> lifecycle])
  /\ Step /\ UNCHANGED world

-----------------------------------------------------------------------------
(* The connection of a client that subscribes (connection.rs).             *)

SetConn(c, new) == conn' = [conn EXCEPT ![c] = new]
Refuse(c) == SetConn(c, [conn[c] EXCEPT !.pc = "open", !.queue = <<Terminal("error")>>])

Ask(c, topic) ==
  /\ conn[c].pc = "idle"
  /\ SetConn(c, [conn[c] EXCEPT !.pc = "asked", !.topic = topic])
  /\ UNCHANGED <<world, views, steps>>

\* materialize_thread and materialize_checkpoint
Prepare(c) ==
  LET topic == conn[c].topic IN
  /\ conn[c].pc = "asked" /\ topic.kind \in {"thread", "checkpoint"}
  /\ \/ /\ Running /\ topic.kind = "thread" /\ topic.id \in DOMAIN stored
        /\ Materialize(topic.id) /\ UNCHANGED checkpoints
        /\ SetConn(c, [conn[c] EXCEPT !.pc = "loaded"])
     \/ /\ Running /\ topic.kind = "checkpoint" /\ topic.id \in DOMAIN saved
        /\ checkpoints' = IF topic.id \in DOMAIN checkpoints THEN checkpoints
                          ELSE Upsert(checkpoints, topic.id, saved[topic.id])
        /\ UNCHANGED threads
        /\ SetConn(c, [conn[c] EXCEPT !.pc = "loaded"])
     \/ /\ ~Running \/ topic.id \notin (IF topic.kind = "thread" THEN DOMAIN stored ELSE DOMAIN saved)
        /\ Refuse(c) /\ UNCHANGED <<threads, checkpoints>>
  /\ UNCHANGED <<world, controller, processes, steps>>

\* materialize_process: every process with a record has its view
PrepareProcess(c) ==
  /\ conn[c].pc = "asked" /\ conn[c].topic.kind = "process"
  /\ IF conn[c].topic.id \in DOMAIN processes THEN SetConn(c, [conn[c] EXCEPT !.pc = "loaded"])
                                              ELSE Refuse(c)
  /\ UNCHANGED <<world, views, steps>>

\* subscribe_controller, subscribe_thread, subscribe_checkpoint, subscribe_process
Attach(c) ==
  LET topic == conn[c].topic IN
  /\ conn[c].pc = IF topic = ControllerTopic THEN "asked" ELSE "loaded"
  /\ \/ \E s \in Published(topic) :
          SetConn(c, [conn[c] EXCEPT !.pc = "open",
            !.attached = Running,
            !.queue = <<Snapshot(s)>> \o (IF Running THEN <<>> ELSE <<Terminal("shutdown")>>)])
     \/ Published(topic) = {} /\ Refuse(c)
  /\ UNCHANGED <<world, views, steps>>

End(c, why) == [conn[c] EXCEPT !.pc = "ended", !.attached = FALSE, !.queue = <<>>, !.end = why]

\* The client's replica: it starts with the snapshot and applies operations; any
\* other message, or an operation it cannot apply, ends it.
Receive(c, message) ==
  LET replica == conn[c].replica
      expected == message.message = "operation" \/ replica = {}
      results == IF expected THEN Heard(conn[c].topic.kind, replica, message) ELSE {} IN
  IF message.message = "terminal" THEN {End(c, message.why)}
  ELSE IF results = {} THEN {End(c, "rejected")}
  ELSE {[conn[c] EXCEPT !.queue = Tail(@), !.replica = {s}] : s \in results}

\* serve_subscription writes a message, and the client receives it.
Deliver(c) ==
  /\ conn[c].pc = "open" /\ conn[c].queue # <<>>
  /\ \E new \in Receive(c, Head(conn[c].queue)) : SetConn(c, new)
  /\ UNCHANGED <<world, views, steps>>

\* The sender was dropped: the connection is closed without a last message.
Close(c) ==
  /\ conn[c].pc = "open" /\ conn[c].queue = <<>> /\ ~conn[c].attached
  /\ SetConn(c, End(c, "closed"))
  /\ UNCHANGED <<world, views, steps>>

\* The client goes away, or sends a second request.
Leave(c) ==
  /\ conn[c].pc = "open"
  /\ SetConn(c, End(c, "left"))
  /\ UNCHANGED <<world, views, steps>>

-----------------------------------------------------------------------------
Serve(c) == Prepare(c) \/ PrepareProcess(c) \/ Attach(c) \/ Deliver(c) \/ Close(c)

Change ==
  \/ \E t \in ThreadIds :
       \/ CreateThread(t, <<>>) \/ LoadThread(t) \/ UpdateMetadata(t) \/ DeleteThread(t)
       \/ BeginTurn(t) \/ ShowTurn(t) \/ AbandonTurn(t) \/ AppendEvent(t) \/ ChangeTurn(t)
       \/ FinishTurn(t) \/ NameThread(t) \/ SaveUnseen(t)
       \/ \E of \in ThreadIds : ForkThread(t, of)
       \/ \E k \in CheckpointIds : CreateCheckpoint(t, k) \/ ReplaceHistory(t, k)
  \/ \E p \in ProcessIds :
       \/ Register(p) \/ StopProcess(p)
       \/ \E n \in 1..MaxRuns : Produce(p, n) \/ Watch(p, n) \/ LoseWatch(p, n)
  \/ StartProvider("provider") \/ EndProvider("provider")
  \/ LaunchRunner("runner") \/ ShowRunner("runner") \/ ShutDown

Next ==
  /\ \/ Change
     \/ \E c \in Clients : Serve(c) \/ Leave(c) \/ \E topic \in Topics : Ask(c, topic)
  /\ UNCHANGED mix

Spec == Init /\ [][Next]_vars

\* The task of a connection runs, and its client reads.
FairSpec == Spec /\ \A c \in Clients : WF_vars(Serve(c) /\ UNCHANGED mix)
-----------------------------------------------------------------------------
\* The state a client will have once it received everything in its channel.
Replayed(client) == Received(client.topic.kind, client.replica, client.queue)

\* What a client has received, and what is on its way to it, is the state that
\* is published: no operation is lost, sent twice, sent in the wrong order or
\* refused by a replica, whenever the client subscribed.
\* (Views::apply_*, subscribe_*, ThreadSubscription::receive_operation)
ReplicasFollow ==
  \A c \in Clients :
    /\ conn[c].end # "rejected"
    /\ conn[c].pc = "open" /\ conn[c].attached => Replayed(conn[c]) = Published(conn[c].topic)
    /\ conn[c].replica # {} => Replayed(conn[c]) # {}

EndsWithReason(queue) == queue # <<>> /\ queue[Len(queue)].message = "terminal"

\* The reasons that a client was told, or will be, for the end of its subscription.
Reasons(client) ==
  IF client.pc = "ended" THEN {client.end}
  ELSE {m.why : m \in {n \in ToSet(client.queue) : n.message = "terminal"}}

\* Nobody waits for news that will not come: a subscription that gets none ends
\* with the reason, and it is the true one.  The one hole is a process whose view
\* is replaced by that of the next process under its id.
\* (Views::delete_threads, Views::shutdown, insert_process)
NobodyForgotten ==
  \A c \in Clients :
    LET topic == conn[c].topic IN
    /\ conn[c].attached => Published(topic) # {} /\ Running
    /\ conn[c].pc = "open" /\ ~conn[c].attached =>
         \/ EndsWithReason(conn[c].queue)
         \/ topic.kind = "process" /\ LastRun(topic.id) > 1
    /\ "shutdown" \in Reasons(conn[c]) => ~Running
    /\ "deleted" \in Reasons(conn[c]) =>
         CASE topic.kind = "thread"     -> topic.id \notin DOMAIN stored
           [] topic.kind = "process"    -> ProcessThread \notin DOMAIN stored
           [] topic.kind = "checkpoint" -> issued # DOMAIN stored
           [] OTHER -> FALSE

\* What the views may show of a thread: its title and all of its events, but for
\* what was saved and never published.
Shown(t) == [id |-> t, title |-> stored[t].shown]
Shows(view, events, unseen) ==
  LET seen == {e \in ToSet(events) : e.sequence \notin unseen} IN
  view \in Seq(seen) /\ Ascending(view) /\ seen \subseteq ToSet(view)

ListAgrees ==
  /\ DOMAIN controller.statuses = DOMAIN stored
  /\ ToSet(controller.threads) = {Shown(t) : t \in DOMAIN stored}
  /\ \A t \in DOMAIN stored :
       controller.statuses[t] = IF Loaded(t) THEN AgentStatus(threads[t]) ELSE "idle"

ThreadsAgree ==
  /\ \A t \in DOMAIN threads :
       /\ t \in DOMAIN stored /\ threads[t].metadata = Shown(t)
       /\ Shows(threads[t].events, stored[t].events, stored[t].unseen)
       /\ ToSet(threads[t].checkpoints) = {k \in DOMAIN saved : saved[k].thread = t}
  /\ \A t \in DOMAIN stored \ DOMAIN threads :
       stored[t].shown = stored[t].title /\ stored[t].unseen = {}
  /\ \A k \in DOMAIN checkpoints : k \in DOMAIN saved /\ checkpoints[k] = saved[k]

ProcessesAgree ==
  /\ records \subseteq DOMAIN processes
  /\ \A p \in DOMAIN processes :
       /\ Loaded(ProcessThread) /\ threads[ProcessThread].processes[p] = processes[p].status
       /\ processes[p].status = "running" =>
            runs[<<p, LastRun(p)>>].watched \/ processes[p].omitted > 0 \/ LastRun(p) > 1
       /\ processes[p].status = "exited" /\ LastRun(p) = 1 => processes[p].tail = runs[<<p, 1>>].tail

\* The views agree with each other and with the store: the list shows the status
\* and the title of every thread and no deleted one, a thread its events and what
\* the views of its processes show, a process shown as running is watched, and one
\* that ended shows the end of its output.
\* Three holes.  What a cancelled turn saved and did not publish, events or a name,
\* is missing from the views until the history of the thread is replaced (or, a
\* name, the thread is renamed or has another turn), but nothing else is, and
\* later events follow in order.  A lost Runner is reported with nothing omitted,
\* which is refused for a process whose view has omitted output.  The watcher of a
\* process stopped by a client reports its end to the view of the next one under
\* that id.
\* (apply_thread, update_thread_metadata, synchronize_process, delete_threads)
ViewsAgree == Running => ListAgrees /\ ThreadsAgree /\ ProcessesAgree

\* Who subscribes is shown what is published, until it is told the end.
SubscribersAreServed == ReplicasFollow /\ NobodyForgotten

\* A client whose subscription the shutdown ends, or that subscribes while the
\* Controller stops, is told.  (serve_subscription)
EveryoneHearsTheEnd ==
  \A c \in Clients : []<>(~Running => conn[c].pc \in {"idle", "ended"})
=============================================================================
