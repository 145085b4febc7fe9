----------------------------- MODULE ThreadTurn -----------------------------
(***************************************************************************)
(* One thread of the Controller while turns run on it (turn.rs and         *)
(* commands.rs of atra-controller): the turn task, its tool calls, the     *)
(* handlers that answer its approvals, and the commands that rewrite the   *)
(* history between two turns.                                              *)
(*                                                                         *)
(* Three copies of the conversation exist: the durable log in SQLite, the  *)
(* view published to clients, and the snapshot a model request is built    *)
(* from.  Every write locks `mutation`, appends to the log, and publishes. *)
(* A cancelled turn future is dropped at whatever await it is at: its lock *)
(* is released, yet the statement it submitted to the single database      *)
(* connection still runs, in the order of submission.                      *)
(***************************************************************************)
EXTENDS Naturals, Sequences, FiniteSets, SequencesExt

CONSTANTS
  Thread,           \* the thread
  Clients,          \* connections that answer interactions
  NoTurn,           \* no turn, no claimed interaction
  MaxTurns,         \* bound: turns ever started
  MaxInteractions,  \* bound: interactions registered since the last restart
  Scenarios         \* what happens, and how often

\* items: what the model streams, texts and calls by what they ask for;
\* streamed: of them in one log; rounds: model requests in one log.
ASSUME ConstantsAssumption ==
  /\ {MaxTurns, MaxInteractions} \subseteq Nat
  /\ Clients \cap {"turn", "command", "nobody", "free"} = {}
  /\ \A s \in Scenarios :
       /\ s.items \subseteq {"commentary", "final", "plain", "command", "question"}
       /\ s.requests \subseteq {"send", "continue", "compact"} /\ s.clients \subseteq Clients
       /\ s.turns \in 0..MaxTurns
       /\ {s.rounds, s.streamed, s.compactions, s.replacements, s.crashes} \subseteq Nat

VARIABLES
  store,            \* the events table: position n holds sequence n - 1
  checkpoints,      \* logs saved by replace_history
  db,               \* statements submitted to the connection, not yet run
  acked,            \* actor -> the statement it awaits has run
  mutation,         \* holder of the mutation lock, or "free"
  view,             \* published events with their positions
  phase,            \* published phase of the active turn, or "idle"
  shown,            \* published pending interaction, or 0
  active,           \* the registered turn, or NoTurn
  interactions,     \* registered interactions
  nextInteraction,  \* last interaction id handed out
  turnCount,        \* turns ever started
  pc,               \* where the turn task is
  local,            \* the turn task's local variables
  awaiting,         \* interaction whose receiver the turn holds, or 0
  claimed,          \* client -> interaction it claimed, or NoTurn
  handler,          \* client -> where its handler is
  sent,             \* answers sent through an interaction's oneshot
  scenario, replacements, crashes   \* bounds

durable == <<store, checkpoints>>
published == <<view, phase, shown>>
registry == <<active, interactions, nextInteraction, turnCount>>
answering == <<claimed, handler, sent>>
bounds == <<scenario, replacements, crashes>>
vars == <<durable, db, acked, mutation, published, registry, pc, local, awaiting, answering, bounds>>

-----------------------------------------------------------------------------
(* The log.                                                                *)

Results == {"output", "denied", "answered", "interrupted"}
Decisions == {"allowed", "refused"}
Outcomes == {"completed", "failed", "cancelled"}
Kinds == {"user", "commentary", "final", "call", "request", "compaction"}
           \cup Results \cup Decisions \cup Outcomes

\* id: the call of a call or result, the interaction of a decision, the turn
\* of an outcome, 0 otherwise.  A call is named by its position in the log.
Event(kind, id) == [kind |-> kind, id |-> id]
Events == [kind : Kinds, id : Nat]

Count(log, kinds) == Len(SelectSeq(log, LAMBDA e : e.kind \in kinds))
ResultsOf(log, call) == {n \in DOMAIN log : log[n].kind \in Results /\ log[n].id = call}
FreshCall(log) == Len(log) + 1

\* prepare_thread_for_turn: the calls that neither a result nor a compaction
\* follows.
OpenCalls(log) ==
  {log[n].id : n \in {m \in DOMAIN log : log[m].kind = "call" /\
     \A k \in DOMAIN log : k > m =>
       log[k].kind # "compaction" /\ ~(log[k].kind \in Results /\ log[k].id = log[m].id)}}

\* The event that decides whether a turn can be continued, or "none".
Resumable(log) ==
  LET last == SelectLastInSeq(log, LAMBDA e :
                e.kind \in {"user", "commentary", "final", "call", "compaction"} \cup Results)
  IN  IF last = 0 THEN "none" ELSE log[last].kind

\* history_end_sequence: a rewind to a user message leaves that message out.
HistoryEnd(log, n) == IF log[n].kind = "user" THEN n - 1 ELSE n

Published(log) == [n \in DOMAIN log |-> [seq |-> n, event |-> log[n]]]

-----------------------------------------------------------------------------
Actors == {"turn", "command"} \cup Clients

TurnRunning == {"preparing", "closing", "user", "resuming", "reading", "compacting",
  "summarising", "reloading", "requesting", "streaming", "batch", "registered", "asked",
  "executing", "denied", "answered", "compacted", "storing"}
TurnEnding == {"cancelling", "sweeping", "sweepstoring", "outcome", "outcomestoring",
  "concluding", "finishing"}

NoLocals == [request |-> "none", events |-> <<>>, todo |-> {}, batch |-> <<>>,
  followUp |-> FALSE, final |-> FALSE, error |-> FALSE, outcome |-> "none", next |-> "none"]

Idle == [at |-> "idle", answer |-> "none"]

Tools == {"plain", "command", "question"}
Locals == [request : {"none", "send", "continue", "compact"}, events : Seq(Events), todo : SUBSET Nat,
  batch : Seq([call : Nat, tool : Tools]), followUp : BOOLEAN, final : BOOLEAN, error : BOOLEAN,
  outcome : Outcomes \cup {"none"}, next : TurnRunning \cup {"none", "swept"}]

\* What the connection is asked to do: append an event, or replace the history.
Targets == [base : {"store", "checkpoint"}, log : Seq(Events), upto : Nat]
Statements == [by : Clients \cup {"turn", "nobody"}, event : Events]
                \cup [by : {"command"}, target : Targets]

ActiveTurns == [turn : 1..MaxTurns, cancelling : BOOLEAN]
Interactions == [id : 1..MaxInteractions, tool : Tools \ {"plain"}, turn : 1..MaxTurns]
Answers == Decisions \cup {"answered"}

ASSUME NoTurnAssumption == NoTurn \notin ActiveTurns \cup Interactions

TypeOK ==
  /\ store \in Seq(Events) /\ checkpoints \subseteq Seq(Events)
  /\ db \in Seq(Statements) /\ acked \in [Actors -> Nat] /\ mutation \in Actors \cup {"free"}
  /\ view \in Seq([seq : Nat, event : Events])
  /\ phase \in {"idle", "running", "awaiting", "cancelling"} /\ shown \in 0..MaxInteractions
  /\ active \in ActiveTurns \cup {NoTurn} /\ interactions \subseteq Interactions
  /\ nextInteraction \in 0..MaxInteractions /\ turnCount \in 0..MaxTurns
  /\ pc \in {"none", "launching"} \cup TurnRunning \cup TurnEnding
  /\ local \in Locals /\ awaiting \in 0..MaxInteractions
  /\ claimed \in [Clients -> Interactions \cup {NoTurn}]
  /\ handler \in [Clients -> [at : {"idle", "deciding", "storing", "resolving"},
                              answer : Answers \cup {"none"}]]
  /\ sent \subseteq [id : 1..MaxInteractions, answer : Answers]
  /\ scenario \in Scenarios /\ replacements \in Nat /\ crashes \in Nat

Init ==
  /\ store = <<>> /\ checkpoints = {}
  /\ db = <<>> /\ acked = [a \in Actors |-> 0] /\ mutation = "free"
  /\ view = <<>> /\ phase = "idle" /\ shown = 0
  /\ active = NoTurn /\ interactions = {} /\ nextInteraction = 0 /\ turnCount = 0
  /\ pc = "none" /\ local = NoLocals /\ awaiting = 0
  /\ claimed = [c \in Clients |-> NoTurn] /\ handler = [c \in Clients |-> Idle]
  /\ sent = {}
  /\ scenario \in Scenarios /\ replacements = 0 /\ crashes = 0

IsActive == active # NoTurn
IsCancelling == IsActive /\ active.cancelling

-----------------------------------------------------------------------------
(* Statements on the database connection, under the mutation lock.         *)

Submit(actor, statement) ==
  /\ mutation = "free"
  /\ mutation' = actor
  /\ db' = Append(db, statement)

RunStatementBare ==   \* mutant: only a cut that loses events saves a checkpoint
  /\ db # <<>>
  /\ LET s == Head(db) IN
       /\ IF s.by = "command"
            THEN LET base == IF s.target.base = "store" THEN store ELSE s.target.log IN
                 /\ store' = SubSeq(base, 1, s.target.upto)
                 /\ checkpoints' = IF s.target.upto < Len(store) THEN checkpoints \cup {store} ELSE checkpoints
            ELSE /\ store' = Append(store, s.event)
                 /\ UNCHANGED checkpoints
       /\ acked' = IF s.by = "nobody" THEN acked ELSE [acked EXCEPT ![s.by] = Len(store')]
  /\ db' = Tail(db)
  /\ UNCHANGED <<mutation, published, registry, pc, local, awaiting, answering, bounds>>

\* The connection thread runs the statements in order, whoever still waits.
RunStatement ==
  /\ db # <<>>
  /\ LET s == Head(db) IN
       /\ IF s.by = "command"
            THEN LET base == IF s.target.base = "store" THEN store ELSE s.target.log IN
                 /\ store' = SubSeq(base, 1, s.target.upto)
                 /\ checkpoints' = checkpoints \cup {store}
            ELSE /\ store' = Append(store, s.event)
                 /\ UNCHANGED checkpoints
       /\ acked' = IF s.by = "nobody" THEN acked ELSE [acked EXCEPT ![s.by] = Len(store')]
  /\ db' = Tail(db)
  /\ UNCHANGED <<mutation, published, registry, pc, local, awaiting, answering, bounds>>

\* The writer sees its statement acknowledged, publishes and unlocks.
Acknowledge(actor) ==
  /\ acked[actor] # 0
  /\ acked' = [acked EXCEPT ![actor] = 0]
  /\ mutation' = "free"

PublishStored(actor) ==
  /\ view' = Append(view, [seq |-> acked[actor], event |-> store[acked[actor]]])
  /\ UNCHANGED <<phase, shown>>

-----------------------------------------------------------------------------
(* The turn task: append_event and the states between two awaits.          *)

\* append_event: saves `e` and goes on at `next` with the locals `loc`.
Save(e, next, loc) ==
  /\ Submit("turn", [by |-> "turn", event |-> e])
  /\ pc' = "storing"
  /\ local' = [loc EXCEPT !.next = next]
  /\ UNCHANGED <<durable, acked, published, registry, awaiting, answering, bounds>>

Goto(next, loc) ==
  /\ pc' = next
  /\ local' = loc
  /\ UNCHANGED <<durable, db, acked, mutation, registry, answering, bounds>>

\* The turn future returned; a cancellation that came first still wins.
Return(outcome) ==
  /\ Goto(IF IsCancelling THEN "cancelling" ELSE "outcome", [local EXCEPT !.outcome = outcome])
  /\ awaiting' = 0
  /\ UNCHANGED published

Stored ==
  /\ pc = "storing"
  /\ Acknowledge("turn")
  /\ PublishStored("turn")
  /\ pc' = local.next
  /\ UNCHANGED <<durable, db, registry, local, awaiting, answering, bounds>>

\* start_turn: under the lock, a thread without a turn.
StartTurn(request) ==
  /\ mutation = "free" /\ ~IsActive
  /\ turnCount < scenario.turns
  /\ turnCount' = turnCount + 1
  /\ active' = [turn |-> turnCount + 1, cancelling |-> FALSE]
  /\ pc' = "launching"
  /\ local' = [NoLocals EXCEPT !.request = request]
  /\ UNCHANGED <<durable, db, acked, mutation, published, interactions, nextInteraction>>
  /\ UNCHANGED <<awaiting, answering, bounds>>

\* launch_turn: a view that still shows a turn refuses this one.
Launch ==
  /\ pc = "launching"
  /\ IF phase = "idle"
       THEN pc' = "preparing" /\ phase' = "running" /\ UNCHANGED <<active, local>>
       ELSE pc' = "none" /\ active' = NoTurn /\ local' = NoLocals /\ UNCHANGED phase
  /\ UNCHANGED <<durable, db, acked, mutation, view, shown, interactions, nextInteraction>>
  /\ UNCHANGED <<turnCount, awaiting, answering, bounds>>

\* A read is a statement too: it runs when those submitted before it have run.
Readable == db = <<>>

PrepareContinued ==   \* mutant: only a continued turn closes open calls
  /\ pc = "preparing" /\ Readable
  /\ Goto("closing", [local EXCEPT
       !.todo = IF local.request = "continue" THEN OpenCalls(store) ELSE {}])
  /\ UNCHANGED <<published, awaiting>>

Prepare ==
  /\ pc = "preparing" /\ Readable
  /\ Goto("closing", [local EXCEPT !.todo = OpenCalls(store)])
  /\ UNCHANGED <<published, awaiting>>

\* The calls are closed in the order of the log.
FirstOf(calls) == {call \in calls : \A other \in calls : call <= other}

CloseCall ==
  /\ pc = "closing"
  /\ \E call \in FirstOf(local.todo) :
       Save(Event("interrupted", call), "closing", [local EXCEPT !.todo = @ \ {call}])

\* run_turn, continue_thread and compact_thread part here.
Prepared ==
  /\ pc = "closing" /\ local.todo = {}
  /\ Goto(CASE local.request = "send" -> "user"
            [] local.request = "continue" -> "resuming"
            [] local.request = "compact" -> "compacting", local)
  /\ UNCHANGED <<published, awaiting>>

SaveUserMessage ==
  /\ pc = "user"
  /\ Save(Event("user", 0), "reading", local)

Resume ==
  /\ pc = "resuming" /\ Readable
  /\ IF Resumable(store) \in {"none", "final", "call"}
       THEN Return("failed")
       ELSE Goto("reading", local) /\ UNCHANGED <<published, awaiting>>

\* The top of the loop of continue_turn; the tokens decide whether to compact.
ReadHistory ==
  /\ pc \in {"reading", "reloading"} /\ Readable
  /\ \E next \in IF pc = "reading" THEN {"requesting", "compacting"} ELSE {"requesting"} :
       Goto(next, [local EXCEPT !.events = store])
  /\ UNCHANGED <<published, awaiting>>

CanCompact == Count(store, {"compaction"}) < scenario.compactions

SaveCompactionRequest ==
  /\ pc = "compacting" /\ CanCompact
  /\ Save(Event("request", 0), "summarising", local)

\* After an automatic compaction the loop goes on, compact_thread is done.
SaveCompaction ==
  /\ pc = "summarising" /\ CanCompact
  /\ Save(Event("compaction", 0),
          IF local.request = "compact" THEN "compacted" ELSE "reloading", local)

SaveRequest ==
  /\ pc = "requesting" /\ Count(store, {"request"}) < scenario.rounds
  /\ Save(Event("request", 0), "streaming",
          [local EXCEPT !.batch = <<>>, !.followUp = FALSE, !.final = FALSE, !.error = FALSE])

\* No plan, or an empty summary: compact_history returns false.
SkipCompaction ==
  /\ pc \in {"compacting", "summarising"}
  /\ IF local.request = "compact"
       THEN Return("failed")
       ELSE Goto("requesting", local) /\ UNCHANGED <<published, awaiting>>

FinishCompaction == pc = "compacted" /\ Return("completed")

\* One OutputItemDone of the stream; a call is executed when the stream ended.
StreamItem ==
  /\ pc = "streaming" /\ Count(store, {"commentary", "final", "call"}) < scenario.streamed
  /\ \E item \in scenario.items :
       \/ item = "commentary" /\ Save(Event(item, 0), "streaming", local)
       \/ item = "final" /\ Save(Event(item, 0), "streaming", [local EXCEPT !.final = TRUE])
       \/ /\ item \notin {"commentary", "final"}
          /\ Save(Event("call", FreshCall(store)), "streaming",
               [local EXCEPT !.batch = Append(@, [call |-> FreshCall(store), tool |-> item])])

StreamCompletes ==
  /\ pc = "streaming"
  /\ Goto("batch", local)
  /\ UNCHANGED <<published, awaiting>>

\* The calls received so far are still executed; text streamed before the
\* error is kept as commentary.
StreamBreaks ==
  /\ pc = "streaming"
  /\ LET broken == [local EXCEPT !.error = TRUE] IN
       \/ Goto("batch", broken) /\ UNCHANGED <<published, awaiting>>
       \/ Save(Event("commentary", 0), "batch", broken)

-----------------------------------------------------------------------------
(* execute_model_responses: the calls of one response, in their order.     *)

Call == Head(local.batch)
HasCall(tool) == pc = "batch" /\ local.batch # <<>> /\ Call.tool = tool

\* save_tool_result
SaveResult(kind) ==
  Save(Event(kind, Call.call), "batch", [local EXCEPT !.batch = Tail(@), !.followUp = TRUE])

\* A tool that needs no user, or input the validation rejects.
RunPlain == HasCall("plain") /\ SaveResult("output")

\* register_approval, register_question
RegisterInteraction ==
  /\ HasCall("command") \/ HasCall("question")
  /\ IsActive /\ ~IsCancelling /\ nextInteraction < MaxInteractions
  /\ nextInteraction' = nextInteraction + 1
  /\ interactions' = interactions \cup
       {[id |-> nextInteraction + 1, tool |-> Call.tool, turn |-> active.turn]}
  /\ awaiting' = nextInteraction + 1
  /\ pc' = "registered"
  /\ UNCHANGED <<durable, db, acked, mutation, published, active, turnCount, local>>
  /\ UNCHANGED <<answering, bounds>>

\* interaction_requested
RequestInteraction ==
  /\ pc = "registered"
  /\ IF shown = 0
       THEN /\ phase' = "awaiting" /\ shown' = awaiting
            /\ Goto("asked", local)
            /\ UNCHANGED <<view, awaiting>>
       ELSE Return("failed")

\* The oneshot has its value; allowed calls run, the others have their result.
ReceiveAnswer ==
  /\ pc = "asked"
  /\ \E a \in sent :
       /\ a.id = awaiting
       /\ Goto(CASE a.answer = "allowed" -> "executing"
                 [] a.answer = "refused" -> "denied"
                 [] a.answer = "answered" -> "answered", local)
  /\ awaiting' = 0
  /\ UNCHANGED published

\* A custom tool call lists operations, each with its own approval; its one
\* result is saved after the last.  A function call is a list of one.
NextOperation ==
  /\ pc \in {"executing", "denied"} /\ Call.tool = "command"
  /\ Goto("batch", local)
  /\ UNCHANGED <<published, awaiting>>

SaveAnswer == pc \in {"denied", "answered"} /\ SaveResult(pc)

RunCommand == pc = "executing" /\ SaveResult("output")

\* The handler dropped the waiter it claimed.
LoseAnswer ==
  /\ pc = "asked"
  /\ \A a \in sent : a.id # awaiting
  /\ \A i \in interactions : i.id # awaiting
  /\ \A c \in Clients : claimed[c] # NoTurn => claimed[c].id # awaiting
  /\ Return("failed")

\* The provider, the Runner or a missing capability fails the turn; the calls
\* not yet executed stay without a result.
Fail ==
  /\ pc \in {"compacting", "summarising", "requesting", "executing"} \/ HasCall("plain")
  /\ Return("failed")

EndBatch ==
  /\ pc = "batch" /\ local.batch = <<>>
  /\ CASE local.error -> Return("failed")
       [] ~local.error /\ ~local.followUp /\ local.final -> Return("completed")
       [] OTHER -> Goto("reading", local) /\ UNCHANGED <<published, awaiting>>

-----------------------------------------------------------------------------
(* Cancellation: handle_started_streaming and complete_turn_cancellation.  *)

\* ThreadCancel takes no lock.
Cancel ==
  /\ IsActive /\ ~active.cancelling
  /\ active' = [active EXCEPT !.cancelling = TRUE]
  /\ UNCHANGED <<durable, db, acked, mutation, published, interactions, nextInteraction>>
  /\ UNCHANGED <<turnCount, pc, local, awaiting, answering, bounds>>

\* The turn future is dropped: lock, receiver and acknowledgement go with it.
InTurn == pc \in TurnRunning

DropTurnLocked ==   \* mutant: the guard of the lock outlives the future
  /\ InTurn /\ IsCancelling
  /\ pc' = "cancelling"
  /\ db' = [n \in DOMAIN db |-> IF db[n].by = "turn" THEN [db[n] EXCEPT !.by = "nobody"] ELSE db[n]]
  /\ acked' = [acked EXCEPT !["turn"] = 0]
  /\ awaiting' = 0
  /\ local' = NoLocals
  /\ UNCHANGED <<durable, mutation, published, registry, answering, bounds>>

DropTurn ==
  /\ InTurn /\ IsCancelling
  /\ pc' = "cancelling"
  /\ mutation' = IF mutation = "turn" THEN "free" ELSE mutation
  /\ db' = [n \in DOMAIN db |-> IF db[n].by = "turn" THEN [db[n] EXCEPT !.by = "nobody"] ELSE db[n]]
  /\ acked' = [acked EXCEPT !["turn"] = 0]
  /\ awaiting' = 0
  /\ local' = NoLocals
  /\ UNCHANGED <<durable, published, registry, answering, bounds>>

BeginCleanupKeeping ==   \* mutant: no clear_interactions
  /\ pc = "cancelling"
  /\ phase' = "cancelling"
  /\ pc' = "sweeping"
  /\ UNCHANGED <<durable, db, acked, mutation, view, shown, active, interactions>>
  /\ UNCHANGED <<nextInteraction, turnCount, local, awaiting, answering, bounds>>

\* start_cancellation, request_cancellation and clear_interactions
BeginCleanup ==
  /\ pc = "cancelling"
  /\ phase' = "cancelling"
  /\ interactions' = {}
  /\ pc' = "sweeping"
  /\ UNCHANGED <<durable, db, acked, mutation, view, shown, active, nextInteraction, turnCount>>
  /\ UNCHANGED <<local, awaiting, answering, bounds>>

\* prepare_thread_for_turn once more, this time without a projector.
Sweep ==
  /\ pc = "sweeping" /\ Readable
  /\ LET open == OpenCalls(store) IN
       IF open = {}
         THEN Goto("outcome", [local EXCEPT !.outcome = "cancelled"])
         ELSE Goto("sweepstoring", [local EXCEPT !.todo = open])
  /\ UNCHANGED <<published, awaiting>>

SweepCall ==
  /\ pc = "sweepstoring" /\ local.next # "swept"
  /\ \E call \in FirstOf(local.todo) :
       /\ Submit("turn", [by |-> "turn", event |-> Event("interrupted", call)])
       /\ local' = [local EXCEPT !.todo = @ \ {call}, !.next = "swept"]
  /\ UNCHANGED <<durable, acked, published, registry, pc, awaiting, answering, bounds>>

SweepStored ==
  /\ pc = "sweepstoring" /\ local.next = "swept"
  /\ Acknowledge("turn")
  /\ IF local.todo = {}
       THEN pc' = "outcome" /\ local' = [NoLocals EXCEPT !.outcome = "cancelled"]
       ELSE UNCHANGED pc /\ local' = [local EXCEPT !.next = "none"]
  /\ UNCHANGED <<durable, db, published, registry, awaiting, answering, bounds>>

-----------------------------------------------------------------------------
(* complete_registered_turn: the outcome, the view, the registry.          *)

SaveOutcome ==
  /\ pc = "outcome"
  /\ Submit("turn", [by |-> "turn", event |-> Event(local.outcome, active.turn)])
  /\ pc' = "outcomestoring"
  /\ UNCHANGED <<durable, acked, published, registry, local, awaiting, answering, bounds>>

OutcomeStored ==
  /\ pc = "outcomestoring"
  /\ Acknowledge("turn")
  /\ PublishStored("turn")
  /\ pc' = "concluding"
  /\ UNCHANGED <<durable, db, registry, local, awaiting, answering, bounds>>

PublishTurnFinished ==
  /\ pc = "concluding"
  /\ phase' = "idle" /\ shown' = 0
  /\ Goto("finishing", local)
  /\ UNCHANGED <<view, awaiting>>

Finish ==
  /\ pc = "finishing"
  /\ active' = NoTurn /\ interactions' = {}
  /\ pc' = "none" /\ local' = NoLocals
  /\ UNCHANGED <<durable, db, acked, mutation, published, nextInteraction, turnCount>>
  /\ UNCHANGED <<awaiting, answering, bounds>>

-----------------------------------------------------------------------------
(* The handlers of ApprovalAllow, ApprovalDeny and QuestionAnswer.         *)

ClaimAndResolve(c, answer) ==   \* mutant: the answer is sent before it is saved
  /\ handler[c] = Idle
  /\ \E i \in interactions :
       /\ i.id = shown
       /\ (i.tool # "question") = (answer \in Decisions)
       /\ interactions' = interactions \ {i}
       /\ claimed' = [claimed EXCEPT ![c] = i]
  /\ handler' = [handler EXCEPT ![c] = [at |-> "resolving", answer |-> answer]]
  /\ UNCHANGED <<durable, db, acked, mutation, published, active, nextInteraction, turnCount>>
  /\ UNCHANGED <<pc, local, awaiting, sent, bounds>>

Claim(c, answer) ==
  /\ handler[c] = Idle
  /\ \E i \in interactions :
       /\ i.id = shown
       /\ (i.tool # "question") = (answer \in Decisions)
       /\ interactions' = interactions \ {i}
       /\ claimed' = [claimed EXCEPT ![c] = i]
  /\ handler' = [handler EXCEPT ![c] =
       [at |-> IF answer \in Decisions THEN "deciding" ELSE "resolving", answer |-> answer]]
  /\ UNCHANGED <<durable, db, acked, mutation, published, active, nextInteraction, turnCount>>
  /\ UNCHANGED <<pc, local, awaiting, sent, bounds>>

\* persist_public_event
SaveDecision(c) ==
  /\ handler[c].at = "deciding"
  /\ Submit(c, [by |-> c, event |-> Event(handler[c].answer, claimed[c].id)])
  /\ handler' = [handler EXCEPT ![c].at = "storing"]
  /\ UNCHANGED <<durable, acked, published, registry, pc, local, awaiting, claimed, sent, bounds>>

DecisionStored(c) ==
  /\ handler[c].at = "storing"
  /\ Acknowledge(c)
  /\ PublishStored(c)
  /\ handler' = [handler EXCEPT ![c].at = "resolving"]
  /\ UNCHANGED <<durable, db, registry, pc, local, awaiting, claimed, sent, bounds>>

\* The decision cannot be saved: the handler drops the waiter with its error.
DecisionFails(c) ==
  /\ handler[c].at = "deciding" /\ mutation = "free"
  /\ claimed' = [claimed EXCEPT ![c] = NoTurn]
  /\ handler' = [handler EXCEPT ![c] = Idle]
  /\ UNCHANGED <<durable, db, acked, mutation, published, registry, pc, local, awaiting>>
  /\ UNCHANGED <<sent, bounds>>

\* resolve_interaction on the view, then resolve_approval or
\* resolve_questions; when the view refuses, the waiter is dropped.
Resolve(c) ==
  /\ handler[c].at = "resolving"
  /\ IF phase = "awaiting" /\ shown = claimed[c].id
       THEN /\ phase' = "running" /\ shown' = 0
            /\ sent' = IF awaiting = claimed[c].id
                         THEN sent \cup {[id |-> awaiting, answer |-> handler[c].answer]} ELSE sent
       ELSE UNCHANGED <<phase, shown, sent>>
  /\ claimed' = [claimed EXCEPT ![c] = NoTurn]
  /\ handler' = [handler EXCEPT ![c] = Idle]
  /\ UNCHANGED <<durable, db, acked, mutation, view, registry, pc, local, awaiting, bounds>>

-----------------------------------------------------------------------------
(* ThreadReplaceHistory, and the end of the process.                       *)

\* From the current log or a checkpoint, up to a message or whole.
ReplaceHistory ==
  /\ ~IsActive /\ replacements < scenario.replacements
  /\ \E target \in {[base |-> "store", log |-> store]}
                    \cup {[base |-> "checkpoint", log |-> cp] : cp \in checkpoints} :
       \E upto \in {HistoryEnd(target.log, n) : n \in {m \in DOMAIN target.log :
                      target.log[m].kind \in {"user", "commentary", "final"}}}
                    \cup (IF target.base = "store" THEN {} ELSE {Len(target.log)}) :
         Submit("command", [by |-> "command", target |-> [base |-> target.base,
           log |-> IF target.base = "store" THEN <<>> ELSE target.log, upto |-> upto]])
  /\ replacements' = replacements + 1
  /\ UNCHANGED <<durable, acked, published, registry, pc, local, awaiting, answering, scenario, crashes>>

HistoryShortened ==   \* mutant: the view is cut instead of replaced
  /\ mutation = "command" /\ db = <<>>
  /\ acked' = [acked EXCEPT !["command"] = 0]
  /\ mutation' = "free"
  /\ view' = SelectSeq(view, LAMBDA v : v.seq <= Len(store))
  /\ UNCHANGED <<durable, db, phase, shown, registry, pc, local, awaiting, answering, bounds>>

\* replace_thread_history publishes the log as it is then.
HistoryReplaced ==
  /\ mutation = "command" /\ db = <<>>
  /\ acked' = [acked EXCEPT !["command"] = 0]
  /\ mutation' = "free"
  /\ view' = Published(store)
  /\ UNCHANGED <<durable, db, phase, shown, registry, pc, local, awaiting, answering, bounds>>

\* Statements not yet run are lost; the next access materializes the view.
Crash ==
  /\ crashes < scenario.crashes
  /\ crashes' = crashes + 1
  /\ db' = <<>> /\ acked' = [a \in Actors |-> 0] /\ mutation' = "free"
  /\ view' = Published(store) /\ phase' = "idle" /\ shown' = 0
  /\ active' = NoTurn /\ interactions' = {} /\ nextInteraction' = 0
  /\ pc' = "none" /\ local' = NoLocals /\ awaiting' = 0
  /\ claimed' = [c \in Clients |-> NoTurn] /\ handler' = [c \in Clients |-> Idle]
  /\ sent' = {}
  /\ UNCHANGED <<durable, turnCount, scenario, replacements>>

-----------------------------------------------------------------------------
TurnStep ==
  \/ Launch \/ Stored \/ Prepare \/ CloseCall \/ Prepared \/ SaveUserMessage \/ Resume
  \/ ReadHistory \/ SaveCompactionRequest \/ SaveCompaction \/ SkipCompaction
  \/ FinishCompaction \/ SaveRequest \/ StreamItem \/ StreamCompletes \/ StreamBreaks
  \/ RunPlain \/ RegisterInteraction \/ RequestInteraction \/ ReceiveAnswer \/ NextOperation
  \/ SaveAnswer \/ RunCommand \/ LoseAnswer \/ Fail \/ EndBatch

EndStep ==
  \/ DropTurn \/ BeginCleanup \/ Sweep \/ SweepCall \/ SweepStored
  \/ SaveOutcome \/ OutcomeStored \/ PublishTurnFinished \/ Finish

HandlerStep(c) == SaveDecision(c) \/ DecisionFails(c) \/ DecisionStored(c) \/ Resolve(c)

Next ==
  \/ RunStatement
  \/ \E request \in scenario.requests : StartTurn(request)
  \/ TurnStep \/ EndStep \/ Cancel
  \/ \E c \in scenario.clients : HandlerStep(c) \/ \E answer \in Decisions \cup {"answered"} : Claim(c, answer)
  \/ ReplaceHistory \/ HistoryReplaced \/ Crash

\* The mutex is fair, so who waits for it gets it: strong fairness for the
\* steps that take it.  Users owe nobody a command.
Fairness ==
  /\ WF_vars(RunStatement) /\ WF_vars(HistoryReplaced)
  /\ WF_vars(Launch \/ DropTurn \/ BeginCleanup \/ Sweep \/ SweepStored
              \/ OutcomeStored \/ PublishTurnFinished \/ Finish)
  /\ SF_vars(SweepCall \/ SaveOutcome)
  /\ \A c \in Clients : SF_vars(SaveDecision(c)) /\ WF_vars(DecisionStored(c) \/ Resolve(c))

Spec == Init /\ [][Next]_vars /\ Fairness

-----------------------------------------------------------------------------
(* What the conversation promises.                                         *)

\* A call has at most one result, and a result comes after its call - also when
\* the result was being written while its turn was dropped, and after rewinds.
\* (DropTurn against prepare_thread_for_turn)
OneResultPerCall ==
  \A n \in DOMAIN store : store[n].kind \in Results =>
    /\ \E m \in 1..(n - 1) : store[m] = Event("call", store[n].id)
    /\ ResultsOf(store, store[n].id) = {n}

\* The model is never asked to continue a history with an unanswered call,
\* whatever interrupted the turns before.  (prepare_thread_for_turn)
RequestsHaveAllResults ==
  pc \in {"requesting", "streaming"} =>
    \A n \in DOMAIN local.events : local.events[n].kind = "call" =>
      ResultsOf(local.events, local.events[n].id) # {}

\* A turn whose cancellation was published leaves no call open, though its last
\* write was under way when it was dropped.  (complete_turn_cancellation)
CancellationClosesCalls ==
  \A n \in DOMAIN store : store[n].kind = "cancelled" =>
    OpenCalls(SubSeq(store, 1, n)) = {}

\* No turn has two outcomes, though a cancellation may arrive while the first is
\* being written, and none is finished without one.  (complete_registered_turn)
OneOutcomePerTurn ==
  /\ \A m, n \in DOMAIN store :
       store[m].kind \in Outcomes /\ store[n].kind \in Outcomes /\ store[m].id = store[n].id
         => m = n
  /\ pc \in {"concluding", "finishing"} =>
       \E n \in DOMAIN store : store[n].kind \in Outcomes /\ store[n].id = active.turn

\* A command that needs approval runs only after the user allowed this very
\* call, and the decision is in the log and in the view by then.
\* (ApprovalAllow against approve_and_execute)
RunsOnlyIfAllowed ==
  pc = "executing" =>
    LET allowed == Event("allowed", nextInteraction)
        call == Event("call", Call.call)
    IN  \E m, n \in DOMAIN store :
          /\ m < n /\ store[m] = call /\ store[n] = allowed
          /\ \E v \in DOMAIN view : view[v] = [seq |-> n, event |-> allowed]

\* What clients are shown is the log with gaps at most: same events, same
\* positions, same order.  A rewind under way is the exception.
ViewFollowsLog ==
  mutation # "command" =>
    /\ \A v \in DOMAIN view :
         view[v].seq \in DOMAIN store /\ store[view[v].seq] = view[v].event
    /\ \A v, w \in DOMAIN view : v < w => view[v].seq < view[w].seq

\* Only a rewind or a restore takes events out of the log, and what it takes
\* out stays in a checkpoint.  (replace_history)
NothingLost == [][IsPrefix(store, store') \/ store \in checkpoints']_durable

\* The view shows a turn from its launch to its last step, so a thread that the
\* registry calls free can be used.  A turn that waits for an answer can get one:
\* as long as nobody claimed the interaction, it is shown.  And what is shown
\* while no turn is cancelled is the interaction the turn waits for.
\* (launch_turn, TurnFinished, interaction_requested, resolve_*)
ViewFollowsTurn ==
  /\ phase = "idle" <=> pc \in {"none", "launching", "finishing"}
  /\ (pc = "asked" /\ \E i \in interactions : i.id = awaiting) =>
       phase = "awaiting" /\ shown = awaiting
  /\ (shown # 0 /\ ~IsCancelling /\ InTurn) => shown = awaiting

\* The conversation as it is saved: well formed, every call with one result
\* after it, none open when a turn is cancelled or the model is asked, every turn
\* with one outcome.
ConversationIsSound ==
  TypeOK /\ OneResultPerCall /\ RequestsHaveAllResults /\ CancellationClosesCalls /\ OneOutcomePerTurn

\* The conversation and the turn as they are shown.
ViewIsTrue == ViewFollowsLog /\ ViewFollowsTurn

\* A turn whose cancellation was accepted ends, whatever holds the lock or
\* waits on the connection then.  (complete_turn_cancellation)
CancelledTurnEnds == []<>~IsCancelling

-----------------------------------------------------------------------------
(* The registry as TurnLifecycle states it.                                *)

TaskOf ==
  CASE pc \in {"none", "launching", "cancelling"} -> pc
    [] pc = "registered" -> "asking"
    [] pc \in TurnRunning \ {"registered"} -> "running"
    [] OTHER -> "publishing"

Registered(i) == [id |-> i.id, thread |-> Thread, turn |-> i.turn,
                  kind |-> IF i.tool = "question" THEN "questions" ELSE "approval"]

LifecycleActive ==
  IF IsActive THEN [turn |-> active.turn, agentRoot |-> NoTurn, cancelling |-> active.cancelling]
  ELSE NoTurn

LifecycleClaimed == [c \in Clients |->
  IF claimed[c] = NoTurn THEN NoTurn ELSE Registered(claimed[c])]

Lifecycle == INSTANCE TurnLifecycle WITH
  ThreadId <- {Thread}, Observers <- {}, MaxAgentTurns <- 1, MaxTargets <- 1,
  active <- [t \in {Thread} |-> LifecycleActive],
  observationPins <- [t \in {Thread} |-> 0], pins <- {},
  interactions <- {Registered(i) : i \in interactions},
  task <- [t \in {Thread} |-> TaskOf], awaiting <- [t \in {Thread} |-> awaiting],
  claimed <- LifecycleClaimed,
  sent <- {a.id : a \in sent}

ASSUME LifecycleAssumption == NoTurn \notin Lifecycle!ActiveTurn \cup Lifecycle!PendingInteraction

\* The turn task and its handlers use the registry as TurnLifecycle says, in
\* every step but that in which the process ends.
ImplementsLifecycle ==
  Lifecycle!Init /\ [][Lifecycle!Next \/ crashes' # crashes]_(Lifecycle!vars)
=============================================================================
