----------------------------- MODULE ThreadTree -----------------------------
(***************************************************************************)
(* The threads of the Controller and what agents do with the threads below *)
(* their own (agent.rs, storage.rs and commands.rs of atra-controller):    *)
(* creating, forking and deleting threads, their logs and checkpoints,     *)
(* turns started by clients and by agents, waiting for them and listing    *)
(* them.                                                                   *)
(*                                                                         *)
(* Whoever changes the tree holds `mutation`.  An agent's operation is     *)
(* validated by its callback; once accepted it goes on by itself, with the *)
(* lock, whether the callback is aborted or not (run_callback_operation).  *)
(* What happens in a turn is in ThreadTurn, how callbacks are cancelled    *)
(* and answered in AgentCallbacks, how pins are counted in TurnLifecycle.  *)
(***************************************************************************)
EXTENDS Integers, Sequences, FiniteSets, SequencesExt, FiniteSetsExt

CONSTANTS
  Agents,         \* callbacks of running commands
  MaxAgentTurns,  \* agent turns under one root (8 in the code)
  Scenarios       \* what a run starts from and adds up: the parents of the threads in the
                  \* store, threads ever created, checkpoints at a time, turns ever
                  \* started, requests of agents and what they ask

ASSUME BoundsAssumption ==
  /\ MaxAgentTurns \in Nat
  /\ \A s \in Scenarios :
       /\ <<s.threads, s.checkpoints, s.turns, s.requests>> \in Nat \X Nat \X Nat \X Nat
       /\ Len(s.tree) <= s.threads
       /\ \A t \in DOMAIN s.tree : s.tree[t] \in 0..(t - 1)

VARIABLES
  scenario,     \* the tree there was and the bounds, chosen once
  threads,      \* rows: id -> its parent, whether it may delegate, the threads it stems from
  lastThread,   \* ids of threads are never used again
  log,          \* events of each thread
  checkpoints,  \* id -> its thread and the events then
  views,        \* the threads clients are shown, with the status of their turn
  active,       \* the registered turns
  mutation,     \* the operation that holds the lock, or Free
  agent,        \* what each callback is doing
  turns, requests  \* bounds

store == <<threads, lastThread, log, checkpoints>>
bounds == <<scenario, turns, requests>>
vars == <<store, views, active, mutation, agent, bounds>>

Nobody == 0
Stored == DOMAIN threads
Free == [op |-> "none"]
Idle == [at |-> "idle"]

Event(kind, thread, turn) == [kind |-> kind, thread |-> thread, turn |-> turn]

\* The threads above a thread, and below it.
Above[t \in 0..scenario.threads] ==
  IF t \notin Stored THEN {} ELSE
  IF threads[t].parent = Nobody THEN {} ELSE {threads[t].parent} \cup Above[threads[t].parent]

Descendants(t) == {d \in Stored : t \in Above[d]}

RootThread(t) == CHOOSE r \in {t} \cup Above[t] : threads[r].parent = Nobody

\* insert_thread_context
Context(id) == <<Event("context", id, 0)>>

\* The Controller starts on the threads it stored before, all of them idle.
Init ==
  /\ scenario \in Scenarios
  /\ threads = [t \in DOMAIN scenario.tree |-> [parent |-> scenario.tree[t], delegates |-> TRUE, from |-> {}]]
  /\ lastThread = Len(scenario.tree)
  /\ log = [t \in DOMAIN scenario.tree |-> Context(t)] /\ checkpoints = <<>>
  /\ views = [t \in DOMAIN scenario.tree |-> "idle"] /\ active = <<>>
  /\ mutation = Free
  /\ agent = [a \in Agents |-> Idle]
  /\ turns = 0 /\ requests = 0

-----------------------------------------------------------------------------
(* The store.  Foreign keys are enforced.                                   *)

Extended(f, key, value) == [k \in DOMAIN f \cup {key} |-> IF k = key THEN value ELSE f[k]]
Without(f, keys) == [k \in DOMAIN f \ keys |-> f[k]]

\* A new row, with the events its log begins with.
InsertThread(row, Events(_)) ==
  LET id == lastThread + 1 IN
  /\ id <= scenario.threads
  /\ row.parent # Nobody => row.parent \in Stored
  /\ lastThread' = id
  /\ threads' = Extended(threads, id, row)
  /\ log' = Extended(log, id, Events(id))
  /\ UNCHANGED checkpoints

\* delete_threads: children before their parents, all or none.
DeleteRows(subtree) ==
  /\ subtree \subseteq Stored
  /\ \A t \in Stored \ subtree : threads[t].parent \notin subtree
  /\ threads' = Without(threads, subtree)
  /\ log' = Without(log, subtree)
  /\ checkpoints' = Without(checkpoints, {c \in DOMAIN checkpoints : checkpoints[c].thread \in subtree})
  /\ UNCHANGED lastThread

\* The next id of a checkpoint; those of deleted ones are used again.
NextCheckpoint == Max({0} \cup DOMAIN checkpoints) + 1

SourceOfAny(thread, checkpoint) ==    \* mutant: a checkpoint of any thread
  IF checkpoint = 0 THEN log[thread] ELSE checkpoints[checkpoint].log

\* The history a message is in: the log, or one of the thread's checkpoints.
SourceOf(thread, checkpoint) ==
  IF checkpoint = 0 THEN log[thread]
  ELSE IF checkpoints[checkpoint].thread = thread THEN checkpoints[checkpoint].log ELSE <<>>

\* What is left of a history up to one of its messages.
PrefixesOf(history) ==
  {SubSeq(history, 1, IF history[n].kind = "user" THEN n - 1 ELSE n) :
     n \in {m \in DOMAIN history : history[m].kind \in {"user", "final"}}}

-----------------------------------------------------------------------------
(* The registry of turns.                                                   *)

Turn(root) == [turn |-> turns + 1, root |-> root, cancelling |-> FALSE, at |-> "starting", after |-> 0]

\* A callback that waits for a thread pins it until it has reported.
Observed(t) ==
  \E a \in Agents : agent[a].at = "waiting" /\ t \in DOMAIN agent[a].waits /\ agent[a].waits[t].at # "done"

IsActive(t) == t \in DOMAIN active

\* ensure_mutable, and ensure_deletable for each thread of a subtree
IsMutable(t) == ~IsActive(t) /\ ~Observed(t)

Deletable(root, subtree) == \A t \in subtree : IsMutable(t)

AgentTurns(root) == {t \in DOMAIN active : active[t].root = root}

HasRoomBelow(invoking) ==   \* mutant: what runs below the sender is counted
  Cardinality({t \in AgentTurns(RootThread(invoking)) : t \in Descendants(invoking)}) < MaxAgentTurns

HasRoom(invoking) == Cardinality(AgentTurns(RootThread(invoking))) < MaxAgentTurns

-----------------------------------------------------------------------------
(* Commands of clients.                                                     *)

Unlocked == mutation = Free

CreateThread ==
  /\ Unlocked
  /\ InsertThread([parent |-> Nobody, delegates |-> FALSE, from |-> {}], Context)
  /\ mutation' = [op |-> "show", thread |-> lastThread']
  /\ UNCHANGED <<views, active, agent, bounds>>

\* The fork is a sibling and may do what its source may.  A client may name
\* any checkpoint, one of a thread it has not heard is gone as well.
ForkThread ==
  /\ Unlocked
  /\ \E t \in Stored : \E c \in {0} \cup DOMAIN checkpoints :
       /\ IsMutable(t)
       /\ \E events \in PrefixesOf(SourceOf(t, c)) :
            InsertThread([threads[t] EXCEPT !.from = @ \cup {t}], LAMBDA id : events)
  /\ mutation' = [op |-> "show", thread |-> lastThread']
  /\ UNCHANGED <<views, active, agent, bounds>>

CreateCheckpoint ==
  /\ Unlocked /\ Cardinality(DOMAIN checkpoints) < scenario.checkpoints
  /\ \E t \in Stored :
       /\ IsMutable(t)
       /\ checkpoints' = Extended(checkpoints, NextCheckpoint, [thread |-> t, log |-> log[t]])
  /\ UNCHANGED <<threads, lastThread, log, views, active, mutation, agent, bounds>>

\* replace_history: rewind to a message, or restore a checkpoint.
ReplaceHistory ==
  /\ Unlocked /\ Cardinality(DOMAIN checkpoints) < scenario.checkpoints
  /\ \E t \in Stored : \E c \in {0} \cup DOMAIN checkpoints :
       /\ IsMutable(t)
       /\ \E events \in PrefixesOf(SourceOf(t, c)) \cup (IF c = 0 THEN {} ELSE {SourceOf(t, c)} \ {<<>>}) :
            log' = [log EXCEPT ![t] = events]
       /\ checkpoints' = Extended(checkpoints, NextCheckpoint, [thread |-> t, log |-> log[t]])
  /\ UNCHANGED <<threads, lastThread, views, active, mutation, agent, bounds>>

\* delete_thread_subtree; the processes of the threads are in ManagedProcesses.
DeleteThread ==
  /\ Unlocked
  /\ \E t \in Stored : \E recursive \in BOOLEAN :
       LET subtree == {t} \cup Descendants(t) IN
       /\ ~recursive => subtree = {t}
       /\ Deletable(t, subtree)
       /\ mutation' = [op |-> "delete", left |-> {subtree}, rows |-> {}]
  /\ UNCHANGED <<store, views, active, agent, bounds>>

\* start_turn registers under the lock, and shows the turn without it.
StartTurn ==
  /\ Unlocked /\ turns < scenario.turns
  /\ \E t \in Stored :
       /\ IsMutable(t)
       /\ active' = Extended(active, t, Turn(Nobody))
  /\ turns' = turns + 1
  /\ UNCHANGED <<store, views, mutation, agent, scenario, requests>>

CancelTurn ==
  /\ \E t \in DOMAIN active : active' = [active EXCEPT ![t].cancelling = TRUE]
  /\ UNCHANGED <<store, views, mutation, agent, bounds>>

-----------------------------------------------------------------------------
(* Accepted operations, which hold the lock.                                *)

\* add_thread
ShowThread ==
  /\ mutation.op = "show"
  /\ views' = Extended(views, mutation.thread, "idle")
  /\ mutation' = Free
  /\ UNCHANGED <<store, active, agent, bounds>>

\* commit_thread_snapshot: the rows of a subtree, then its views.
DeleteSubtree ==
  /\ mutation.op = "delete" /\ mutation.rows = {} /\ mutation.left # {}
  /\ \E subtree \in mutation.left :
       /\ DeleteRows(subtree)
       /\ mutation' = [mutation EXCEPT !.left = @ \ {subtree}, !.rows = subtree]
  /\ UNCHANGED <<views, active, agent, bounds>>

DeleteViews ==
  /\ mutation.op = "delete" /\ mutation.rows # {}
  /\ views' = Without(views, mutation.rows)
  /\ mutation' = IF mutation.left = {} THEN Free ELSE [mutation EXCEPT !.rows = {}]
  /\ UNCHANGED <<store, active, agent, bounds>>

\* The rest of start_agent_turn.
LaunchAgentTurn ==
  /\ mutation.op = "launch"
  /\ active' = [active EXCEPT ![mutation.thread].at = "preparing"]
  /\ views' = [views EXCEPT ![mutation.thread] = "running"]
  /\ mutation' = Free
  /\ UNCHANGED <<store, agent, bounds>>

-----------------------------------------------------------------------------
(* A turn, as far as others see it.                                         *)

Proceeds(t, from, to) ==
  /\ active[t].at = from
  /\ active' = [active EXCEPT ![t].at = to]

Writes(t, kind) == log' = [log EXCEPT ![t] = Append(@, Event(kind, t, active[t].turn))]

LaunchTurn(t) ==
  /\ Proceeds(t, "starting", "preparing") /\ active[t].root = Nobody
  /\ views' = [views EXCEPT ![t] = "running"]
  /\ UNCHANGED <<store, mutation, agent, bounds>>

SaveMessage(t) ==
  /\ Unlocked /\ ~active[t].cancelling
  /\ Proceeds(t, "preparing", "working")
  /\ Writes(t, "user")
  /\ UNCHANGED <<threads, lastThread, checkpoints, views, mutation, agent, bounds>>

SaveAnswer(t) ==
  /\ Unlocked /\ ~active[t].cancelling
  /\ Proceeds(t, "working", "answered")
  /\ Writes(t, "final")
  /\ UNCHANGED <<threads, lastThread, checkpoints, views, mutation, agent, bounds>>

\* Only a turn of a client may ask.
AskQuestion(t) ==
  /\ active[t].root = Nobody /\ ~active[t].cancelling
  /\ Proceeds(t, "working", "asking")
  /\ views' = [views EXCEPT ![t] = "question"]
  /\ UNCHANGED <<store, mutation, agent, bounds>>

AnswerQuestion(t) ==
  /\ Proceeds(t, "asking", "working")
  /\ views' = [views EXCEPT ![t] = "running"]
  /\ UNCHANGED <<store, mutation, agent, bounds>>

\* complete_registered_turn: the outcome, the view, the registry.
SaveOutcome(t) ==
  /\ Unlocked
  /\ active[t].at \in {"preparing", "working", "asking", "answered"}
  /\ active[t].at # "answered" => active[t].cancelling
  /\ Proceeds(t, active[t].at, "ending")
  /\ Writes(t, "outcome")
  /\ UNCHANGED <<threads, lastThread, checkpoints, views, mutation, agent, bounds>>

FinishesFirst(t) ==   \* mutant: the registry hears of the end first
  /\ active[t].at = "ending"
  /\ active' = Without(active, {t})
  /\ UNCHANGED <<store, views, mutation, agent, bounds>>

ShowOutcome(t) ==
  /\ Proceeds(t, "ending", "shown")
  /\ views' = [views EXCEPT ![t] = "idle"]
  /\ UNCHANGED <<store, mutation, agent, bounds>>

FinishTurn(t) ==
  /\ active[t].at = "shown"
  /\ active' = Without(active, {t})
  /\ UNCHANGED <<store, views, mutation, agent, bounds>>

-----------------------------------------------------------------------------
(* Requests of agents.  The thread a command runs in is known by its        *)
(* execution context; it may be deleted while the command is stopped.       *)

Request(a, kind) ==
  /\ agent[a] = Idle /\ requests < scenario.requests /\ kind \in scenario.asks
  /\ requests' = requests + 1

\* authorize_descendant
MayReach(invoking, t) == invoking # t /\ t \in Descendants(invoking)

\* agent_request looks at its own thread, then at the models of a provider.
BeginCreate(a) ==
  /\ Request(a, "create")
  /\ \E t \in Stored :
       /\ threads[t].parent = Nobody \/ threads[t].delegates
       /\ agent' = [agent EXCEPT ![a] = [at |-> "creating", thread |-> t]]
  /\ UNCHANGED <<store, views, active, mutation, scenario, turns>>

AcceptCreate(a) ==
  /\ Unlocked /\ agent[a].at = "creating"
  /\ IF agent[a].thread \in Stored
     THEN \E delegates \in BOOLEAN :
            /\ InsertThread([parent |-> agent[a].thread, delegates |-> delegates, from |-> {}], Context)
            /\ mutation' = [op |-> "show", thread |-> lastThread']
     ELSE UNCHANGED <<store, mutation>>
  /\ agent' = [agent EXCEPT ![a] = Idle]
  /\ UNCHANGED <<views, active, bounds>>

\* The acceptance of start_agent_turn: the caller learns the last sequence.
AcceptSend(a) ==
  /\ Unlocked /\ Request(a, "send") /\ turns < scenario.turns
  /\ \E invoking \in Stored : \E t \in Descendants(invoking) :
       /\ MayReach(invoking, t)
       /\ IsMutable(t)
       /\ HasRoom(invoking)
       /\ active' = Extended(active, t, [Turn(RootThread(invoking)) EXCEPT !.after = Len(log[t])])
       /\ mutation' = [op |-> "launch", thread |-> t]
  /\ turns' = turns + 1
  /\ UNCHANGED <<store, views, agent, scenario>>

\* accept_agent_cancellation: all of them at once.
AcceptCancel(a) ==
  /\ Unlocked /\ Request(a, "cancel")
  /\ \E invoking \in Stored : \E t \in Descendants(invoking) : \E recursive \in BOOLEAN :
       LET reached == {t} \cup IF recursive THEN Descendants(t) ELSE {} IN
       /\ MayReach(invoking, t)
       /\ active' = [d \in DOMAIN active |->
                       IF d \in reached THEN [active[d] EXCEPT !.cancelling = TRUE] ELSE active[d]]
  /\ UNCHANGED <<store, views, mutation, agent, scenario, turns>>

\* accept_agent_deletion: of the subtrees asked for those in no other one,
\* each of them deleted or refused as a whole.
DeleteRoots(asked) == {t \in asked : asked \cap Above[t] = {}}

AcceptDelete(a) ==
  /\ Unlocked /\ Request(a, "delete")
  /\ \E invoking \in Stored : \E asked \in SUBSET Descendants(invoking) : \E recursive \in BOOLEAN :
       LET valid == {t \in asked : MayReach(invoking, t) /\ (recursive \/ Descendants(t) = {})}
           accepted == {t \in DeleteRoots(valid) : Deletable(t, {t} \cup Descendants(t))} IN
       /\ accepted # {}
       /\ mutation' = [op |-> "delete", left |-> {{t} \cup Descendants(t) : t \in accepted}, rows |-> {}]
  /\ UNCHANGED <<store, views, active, agent, scenario, turns>>

\* agent_wait pins its targets and takes their turns under the lock.
BeginWait(a) ==
  /\ Unlocked /\ Request(a, "wait")
  /\ \E invoking \in Stored : \E targets \in (SUBSET Descendants(invoking)) \ {{}} :
       agent' = [agent EXCEPT ![a] =
         [at |-> "waiting",
          waits |-> [t \in targets |->
            [at |-> IF IsActive(t) THEN "watching" ELSE "reporting",
             turn |-> IF IsActive(t) THEN active[t].turn ELSE 0,
             ended |-> FALSE, status |-> "none", last |-> <<>>]]]]
  /\ UNCHANGED <<store, views, active, mutation, scenario, turns>>

Waits(a, t, at) ==
  /\ agent[a].at = "waiting" /\ t \in DOMAIN agent[a].waits
  /\ agent[a].waits[t].at = at

\* wait_for_turn: its end, a question, or the deadline
SeeEnd(a, t) ==
  /\ Waits(a, t, "watching")
  /\ IsActive(t) => active[t].turn # agent[a].waits[t].turn
  /\ agent' = [agent EXCEPT ![a].waits[t].at = "reporting", ![a].waits[t].ended = TRUE]
  /\ UNCHANGED <<store, views, active, mutation, bounds>>

GiveUp(a, t) ==
  /\ Waits(a, t, "watching")
  /\ agent' = [agent EXCEPT ![a].waits[t].at = "reporting"]
  /\ UNCHANGED <<store, views, active, mutation, bounds>>

\* agent_report: the row and the view, then the log.
ReadStatus(a, t) ==
  /\ Waits(a, t, "reporting")
  /\ agent' = IF t \in Stored /\ t \in DOMAIN views
              THEN [agent EXCEPT ![a].waits[t].at = "reading", ![a].waits[t].status = views[t]]
              ELSE [agent EXCEPT ![a].waits[t].at = "done", ![a].waits[t].status = "gone"]
  /\ UNCHANGED <<store, views, active, mutation, bounds>>

ReadEvents(a, t) ==
  /\ Waits(a, t, "reading")
  /\ agent' = [agent EXCEPT ![a].waits[t].at = "done",
                            ![a].waits[t].last = IF t \in Stored THEN SubSeq(log[t], Len(log[t]), Len(log[t])) ELSE <<>>]
  /\ UNCHANGED <<store, views, active, mutation, bounds>>

\* The list: the ids below, then each row; a row that is gone is an error.
BeginList(a) ==
  /\ Request(a, "list")
  /\ \E t \in Stored :
       agent' = [agent EXCEPT ![a] = [at |-> "listing", thread |-> t, left |-> Descendants(t), rows |-> <<>>]]
  /\ UNCHANGED <<store, views, active, mutation, scenario, turns>>

ReadRow(a) ==
  /\ agent[a].at = "listing" /\ agent[a].left # {}
  /\ LET t == Min(agent[a].left) IN
     agent' = IF t \in Stored
              THEN [agent EXCEPT ![a].left = @ \ {t}, ![a].rows = Extended(@, t, threads[t].parent)]
              ELSE [agent EXCEPT ![a] = Idle]
  /\ UNCHANGED <<store, views, active, mutation, bounds>>

\* recursive_preorder: a row whose parent is not in the list is an error.
IsHierarchy(root, rows) == \A t \in DOMAIN rows : rows[t] \in {root} \cup DOMAIN rows

\* The request is answered, or its callback aborted; pins are released.
EndRequest(a) ==
  /\ agent[a] # Idle
  /\ agent' = [agent EXCEPT ![a] = Idle]
  /\ UNCHANGED <<store, views, active, mutation, bounds>>

-----------------------------------------------------------------------------
ClientStep ==
  \/ CreateThread \/ ForkThread \/ CreateCheckpoint \/ ReplaceHistory \/ DeleteThread
  \/ StartTurn \/ CancelTurn

OperationStep == ShowThread \/ DeleteSubtree \/ DeleteViews \/ LaunchAgentTurn

TurnStep(t) ==
  \/ LaunchTurn(t) \/ SaveMessage(t) \/ SaveAnswer(t) \/ AskQuestion(t) \/ AnswerQuestion(t)
  \/ SaveOutcome(t) \/ ShowOutcome(t) \/ FinishTurn(t)

AgentStep(a) ==
  \/ BeginCreate(a) \/ AcceptCreate(a) \/ AcceptSend(a) \/ AcceptCancel(a) \/ AcceptDelete(a)
  \/ BeginWait(a) \/ BeginList(a) \/ ReadRow(a) \/ EndRequest(a)
  \/ \E t \in 1..scenario.threads :
       SeeEnd(a, t) \/ GiveUp(a, t) \/ ReadStatus(a, t) \/ ReadEvents(a, t)

Next ==
  \/ ClientStep \/ OperationStep
  \/ \E t \in DOMAIN active : TurnStep(t)
  \/ \E a \in Agents : AgentStep(a)

Spec == Init /\ [][Next]_vars

-----------------------------------------------------------------------------
\* The store, the views and the registry agree on the tree: a parent exists and
\* is older, no turn runs and nobody waits in a thread that is gone, an agent's
\* turn counts for the root its thread is really under, whoever below that root
\* sent it, so that there are never more of them than the limit, and, when nobody
\* changes the tree, clients are shown the threads there are.
\* (accept_agent_deletion, start_agent_turn, run_callback_operation)
TreeIsWhole ==
  /\ \A t \in Stored : threads[t].parent \in (Stored \cup {Nobody}) \cap 0..(t - 1)
  /\ \A t \in DOMAIN active : t \in Stored /\ active[t].root \in {Nobody, RootThread(t)}
  /\ \A t \in 1..scenario.threads : Observed(t) => t \in Stored
  /\ Unlocked => DOMAIN views = Stored
  /\ \A r \in Stored : Cardinality(AgentTurns(r)) <= MaxAgentTurns

\* A wait that saw the end of a turn reports that turn: its thread is still
\* there, its status is not that of a turn, and its last event is the outcome -
\* though clients may rewind, delete and send while the report is put together.
\* And a list never finds the tree broken.  (agent_wait, recursive_preorder)
AgentsAreAnswered ==
  \A a \in Agents :
    /\ agent[a].at = "waiting" =>
         \A t \in DOMAIN agent[a].waits : LET w == agent[a].waits[t] IN
           w.at = "done" /\ w.ended =>
             w.status = "idle" /\ w.last = <<Event("outcome", t, w.turn)>>
    /\ agent[a].at = "listing" /\ agent[a].left = {} => IsHierarchy(agent[a].thread, agent[a].rows)

\* A history is of its own thread, or of those it was forked from, whatever
\* checkpoint a client names; and what a turn of an agent adds comes after the
\* sequence its sender was told.  (fork_thread, replace_history, start_agent_turn)
Lineage(t) == {t} \cup threads[t].from
HistoryIsOwn ==
  /\ \A t \in Stored : \A n \in DOMAIN log[t] :
       /\ log[t][n].thread \in Lineage(t)
       /\ t \in DOMAIN active => (log[t][n].turn = active[t].turn => n > active[t].after)
  /\ \A c \in DOMAIN checkpoints : \A n \in DOMAIN checkpoints[c].log :
       checkpoints[c].log[n].thread \in Lineage(checkpoints[c].thread)
=============================================================================
