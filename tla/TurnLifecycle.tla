--------------------------- MODULE TurnLifecycle ---------------------------
(***************************************************************************)
(* The registry of thread activity that the Controller consults before it  *)
(* lets anything touch a thread (atra-controller/src/lifecycle.rs): which  *)
(* threads have an active turn, which are pinned by an `agent wait`, and   *)
(* which interactions (approvals and questions) wait for a user.           *)
(*                                                                         *)
(* One StdMutex guards the registry, so every method is one action.  The   *)
(* actors that call it appear with what they hold between two calls: the   *)
(* turn task of each thread (the receiver of the interaction it awaits),   *)
(* the command handlers (the sender of the interaction they claimed) and   *)
(* the observers (their ObservationPins, with the turn each one watches).  *)
(***************************************************************************)
EXTENDS Naturals, Sequences, FiniteSets

CONSTANTS
  ThreadId,         \* threads that exist
  Observers,        \* `agent wait` callbacks
  Clients,          \* connections that answer interactions
  NoTurn,           \* no turn / no claimed waiter / no agent root
  MaxAgentTurns,    \* the concurrency limit of start_agent (8 in the code)
  MaxTurns,         \* bound: turns ever started
  MaxInteractions,  \* bound: interactions ever registered
  MaxTargets        \* bound: targets of one `agent wait`

ASSUME ConstantsAssumption ==
  /\ NoTurn \notin ThreadId
  /\ MaxAgentTurns \in Nat /\ MaxTurns \in Nat
  /\ MaxInteractions \in Nat /\ MaxTargets \in Nat

VARIABLES
  active,            \* thread -> its ActiveTurn, or NoTurn
  observationPins,   \* thread -> count of pins
  interactions,      \* registered interactions, their waiters still unclaimed
  nextInteraction,   \* the last InteractionId handed out
  turnCount,         \* identities of the Arc<ActiveTurn> handed out so far
  task,              \* thread -> where its turn task is
  awaiting,          \* thread -> interaction whose receiver the turn holds; 0: none
  claimed,           \* client -> the PendingInteraction it claimed, or NoTurn
  sent,              \* interactions whose oneshot carried an answer
  pins               \* ObservationPins alive, with the turn captured by pin_many

registry == <<active, observationPins, interactions, nextInteraction, turnCount>>
vars == <<registry, task, awaiting, claimed, sent, pins>>

TurnId == 1..MaxTurns
InteractionId == 1..MaxInteractions
InteractionKind == {"approval", "questions"}
ActiveTurn == [turn : TurnId, agentRoot : ThreadId \cup {NoTurn}, cancelling : BOOLEAN]

\* `turn` is the ActiveTurn that registered the interaction: a history field.
PendingInteraction ==
  [id : InteractionId, thread : ThreadId, kind : InteractionKind, turn : TurnId]

ASSUME NoTurnAssumption == NoTurn \notin ActiveTurn \cup PendingInteraction \cup TurnId

\* A turn task between start() and finish(): about to be spawned, running its
\* turn future, publishing an interaction, cleaning up after the future was
\* dropped, or publishing the outcome.
TaskState == {"none", "launching", "running", "asking", "cancelling", "publishing"}

ObservationPin ==
  [observer : Observers, slot : 1..MaxTargets, thread : ThreadId,
   turn : TurnId \cup {NoTurn}]

TypeOK ==
  /\ active \in [ThreadId -> ActiveTurn \cup {NoTurn}]
  /\ observationPins \in [ThreadId -> Nat]
  /\ interactions \subseteq PendingInteraction
  /\ nextInteraction \in 0..MaxInteractions
  /\ turnCount \in 0..MaxTurns
  /\ task \in [ThreadId -> TaskState]
  /\ awaiting \in [ThreadId -> 0..MaxInteractions]
  /\ claimed \in [Clients -> PendingInteraction \cup {NoTurn}]
  /\ sent \subseteq InteractionId
  /\ pins \subseteq ObservationPin

Init ==
  /\ active = [t \in ThreadId |-> NoTurn]
  /\ observationPins = [t \in ThreadId |-> 0]
  /\ interactions = {}
  /\ nextInteraction = 0
  /\ turnCount = 0
  /\ task = [t \in ThreadId |-> "none"]
  /\ awaiting = [t \in ThreadId |-> 0]
  /\ claimed = [c \in Clients |-> NoTurn]
  /\ sent = {}
  /\ pins = {}

IsActive(t) == active[t] # NoTurn
IsCancelling(t) == IsActive(t) /\ active[t].cancelling
TurnOf(t) == IF IsActive(t) THEN active[t].turn ELSE NoTurn
InteractionsOf(t) == {i \in interactions : i.thread = t}
AgentTurns(root) == {t \in ThreadId : IsActive(t) /\ active[t].agentRoot = root}

-----------------------------------------------------------------------------
(* Starting and finishing a turn.                                          *)

\* ensure_mutable, ensure_deletable: also the guard of start and start_agent.
UnusedUnlessActive(t) == ~IsActive(t)   \* mutant: pins are not consulted

Unused(t) == ~IsActive(t) /\ observationPins[t] = 0

Register(t, root) ==
  /\ turnCount < MaxTurns
  /\ turnCount' = turnCount + 1
  /\ active' = [active EXCEPT
       ![t] = [turn |-> turnCount + 1, agentRoot |-> root, cancelling |-> FALSE]]
  /\ task' = [task EXCEPT ![t] = "launching"]
  /\ UNCHANGED <<observationPins, interactions, nextInteraction, awaiting, claimed, sent, pins>>

\* start: a turn the user asked for.
Start(t) == Unused(t) /\ Register(t, NoTurn)

\* start_agent: a turn an agent asked for, counted against its root thread.
StartAgent(t, root) ==
  /\ Unused(t)
  /\ Cardinality(AgentTurns(root)) < MaxAgentTurns
  /\ Register(t, root)

\* finish: called once by the turn task, or by launch_turn when the view
\* refuses the turn before the task exists.
FinishKeepsInteractions(t) ==   \* mutant: no retain in finish
  /\ active' = [active EXCEPT ![t] = NoTurn]
  /\ UNCHANGED interactions

FinishActive(t) ==
  /\ active' = [active EXCEPT ![t] = NoTurn]
  /\ interactions' = interactions \ InteractionsOf(t)

Finish(t) ==
  /\ task[t] = "publishing"
  /\ FinishActive(t)
  /\ task' = [task EXCEPT ![t] = "none"]
  /\ UNCHANGED <<observationPins, nextInteraction, turnCount, awaiting, claimed, sent, pins>>

LaunchFails(t) ==
  /\ task[t] = "launching"
  /\ FinishActive(t)
  /\ task' = [task EXCEPT ![t] = "none"]
  /\ UNCHANGED <<observationPins, nextInteraction, turnCount, awaiting, claimed, sent, pins>>

Launch(t) ==
  /\ task[t] = "launching"
  /\ task' = [task EXCEPT ![t] = "running"]
  /\ UNCHANGED <<registry, awaiting, claimed, sent, pins>>

-----------------------------------------------------------------------------
(* Cancelling.  The token is latched; the task notices it later.           *)

\* begin_cancellation_many; begin_cancellation is the case of one thread.
BeginCancellation(threads) ==
  /\ \E t \in threads : IsActive(t)
  /\ active' = [t \in ThreadId |->
       IF t \in threads /\ IsActive(t)
         THEN [active[t] EXCEPT !.cancelling = TRUE] ELSE active[t]]
  /\ UNCHANGED <<observationPins, interactions, nextInteraction, turnCount>>
  /\ UNCHANGED <<task, awaiting, claimed, sent, pins>>

\* The biased select drops the turn future, and with it the receiver it awaits.
DropTurn(t) ==
  /\ task[t] \in {"running", "asking"}
  /\ IsCancelling(t)
  /\ task' = [task EXCEPT ![t] = "cancelling"]
  /\ awaiting' = [awaiting EXCEPT ![t] = 0]
  /\ UNCHANGED <<registry, claimed, sent, pins>>

\* clear_interactions, from complete_turn_cancellation.
ClearInteractions(t) ==
  /\ task[t] = "cancelling"
  /\ interactions' = interactions \ InteractionsOf(t)
  /\ task' = [task EXCEPT ![t] = "publishing"]
  /\ UNCHANGED <<active, observationPins, nextInteraction, turnCount, awaiting, claimed, sent, pins>>

\* The turn future returned (with or without an error); a token signalled by
\* then still makes the turn a cancelled one.
TurnReturns(t) ==
  /\ task[t] = "running"
  /\ awaiting[t] = 0
  /\ task' = [task EXCEPT ![t] = IF IsCancelling(t) THEN "cancelling" ELSE "publishing"]
  /\ UNCHANGED <<registry, awaiting, claimed, sent, pins>>

-----------------------------------------------------------------------------
(* Interactions: registered by the turn, claimed by one command handler.   *)

\* register_approval, register_question.
RegisterByCount(t, kind) ==   \* mutant: the id is the size of the registry
  /\ task[t] = "running" /\ awaiting[t] = 0
  /\ IsActive(t) /\ ~IsCancelling(t)
  /\ Cardinality(interactions) < MaxInteractions
  /\ LET id == Cardinality(interactions) + 1 IN
       /\ nextInteraction' = IF id > nextInteraction THEN id ELSE nextInteraction
       /\ interactions' = interactions \cup
            {[id |-> id, thread |-> t, kind |-> kind, turn |-> active[t].turn]}
       /\ awaiting' = [awaiting EXCEPT ![t] = id]
  /\ task' = [task EXCEPT ![t] = "asking"]
  /\ UNCHANGED <<active, observationPins, turnCount, claimed, sent, pins>>

RegisterInteraction(t, kind) ==
  /\ task[t] = "running" /\ awaiting[t] = 0
  /\ IsActive(t) /\ ~IsCancelling(t)
  /\ nextInteraction < MaxInteractions
  /\ nextInteraction' = nextInteraction + 1
  /\ interactions' = interactions \cup
       {[id |-> nextInteraction + 1, thread |-> t, kind |-> kind, turn |-> active[t].turn]}
  /\ awaiting' = [awaiting EXCEPT ![t] = nextInteraction + 1]
  /\ task' = [task EXCEPT ![t] = "asking"]
  /\ UNCHANGED <<active, observationPins, turnCount, claimed, sent, pins>>

\* interaction_requested succeeded: the turn awaits the receiver.
Ask(t) ==
  /\ task[t] = "asking"
  /\ task' = [task EXCEPT ![t] = "running"]
  /\ UNCHANGED <<registry, awaiting, claimed, sent, pins>>

\* The turn future returns an error while it holds a receiver.
FailAwaiting(t) ==
  /\ task' = [task EXCEPT ![t] = IF IsCancelling(t) THEN "cancelling" ELSE "publishing"]
  /\ awaiting' = [awaiting EXCEPT ![t] = 0]
  /\ UNCHANGED <<registry, claimed, sent, pins>>

\* interaction_requested failed: the waiter stays registered until
\* clear_interactions or finish.
AskFails(t) == task[t] = "asking" /\ FailAwaiting(t)

\* claim: at most one handler takes the waiter out of the registry.
Claim(c, kind) ==
  /\ claimed[c] = NoTurn
  /\ \E i \in interactions :
       /\ i.kind = kind
       /\ interactions' = interactions \ {i}
       /\ claimed' = [claimed EXCEPT ![c] = i]
  /\ UNCHANGED <<active, observationPins, nextInteraction, turnCount, task, awaiting, sent, pins>>

ReceiverAlive(id) == \E t \in ThreadId : awaiting[t] = id

\* resolve_approval, resolve_questions: the send fails when the turn is gone.
Resolve(c) ==
  /\ claimed[c] # NoTurn
  /\ sent' = IF ReceiverAlive(claimed[c].id) THEN sent \cup {claimed[c].id} ELSE sent
  /\ claimed' = [claimed EXCEPT ![c] = NoTurn]
  /\ UNCHANGED <<registry, task, awaiting, pins>>

\* The handler failed between the claim and the send: the sender is dropped.
DropClaim(c) ==
  /\ claimed[c] # NoTurn
  /\ claimed' = [claimed EXCEPT ![c] = NoTurn]
  /\ UNCHANGED <<registry, task, awaiting, sent, pins>>

\* The awaited oneshot has its answer: the turn goes on.
ReceiveAnswer(t) ==
  /\ task[t] = "running" /\ awaiting[t] \in sent
  /\ awaiting' = [awaiting EXCEPT ![t] = 0]
  /\ UNCHANGED <<registry, task, claimed, sent, pins>>

SenderAlive(id) ==
  \/ \E i \in interactions : i.id = id
  \/ \E c \in Clients : claimed[c] # NoTurn /\ claimed[c].id = id

\* The sender is gone: "approval was removed before it was resolved".
LoseAnswer(t) ==
  /\ task[t] = "running" /\ awaiting[t] # 0
  /\ awaiting[t] \notin sent /\ ~SenderAlive(awaiting[t])
  /\ FailAwaiting(t)

-----------------------------------------------------------------------------
(* Observation pins.                                                       *)

\* pin_many: a thread named twice is pinned twice.
PinManyDistinct(o, targets) ==   \* mutant: a set of threads is counted
  /\ \A p \in pins : p.observer # o
  /\ observationPins' = [t \in ThreadId |->
       IF \E k \in DOMAIN targets : targets[k] = t
         THEN observationPins[t] + 1 ELSE observationPins[t]]
  /\ pins' = pins \cup
       {[observer |-> o, slot |-> k, thread |-> targets[k], turn |-> TurnOf(targets[k])] :
          k \in DOMAIN targets}
  /\ UNCHANGED <<active, interactions, nextInteraction, turnCount, task, awaiting, claimed, sent>>

PinMany(o, targets) ==
  /\ \A p \in pins : p.observer # o
  /\ observationPins' = [t \in ThreadId |->
       observationPins[t] + Cardinality({k \in DOMAIN targets : targets[k] = t})]
  /\ pins' = pins \cup
       {[observer |-> o, slot |-> k, thread |-> targets[k], turn |-> TurnOf(targets[k])] :
          k \in DOMAIN targets}
  /\ UNCHANGED <<active, interactions, nextInteraction, turnCount, task, awaiting, claimed, sent>>

\* release, or Drop when the callback is cancelled: the wait of one target ends
\* (turn finished, question pending, or deadline) independently of the others.
ReleasePin(p) ==
  /\ p \in pins
  /\ pins' = pins \ {p}
  /\ observationPins' = [observationPins EXCEPT ![p.thread] = IF @ = 0 THEN 0 ELSE @ - 1]
  /\ UNCHANGED <<active, interactions, nextInteraction, turnCount, task, awaiting, claimed, sent>>

-----------------------------------------------------------------------------
TurnStep(t) ==
  \/ Launch(t) \/ LaunchFails(t) \/ DropTurn(t) \/ ClearInteractions(t)
  \/ TurnReturns(t) \/ Ask(t) \/ AskFails(t) \/ ReceiveAnswer(t) \/ LoseAnswer(t)
  \/ Finish(t)
  \/ \E kind \in InteractionKind : RegisterInteraction(t, kind)

ClientStep(c) ==
  \/ \E kind \in InteractionKind : Claim(c, kind)
  \/ Resolve(c) \/ DropClaim(c)

Targets == UNION {[1..n -> ThreadId] : n \in 1..MaxTargets}

Next ==
  \/ \E t \in ThreadId : Start(t) \/ TurnStep(t)
  \/ \E t, root \in ThreadId : StartAgent(t, root)
  \/ \E threads \in SUBSET ThreadId : BeginCancellation(threads)
  \/ \E c \in Clients : ClientStep(c)
  \/ \E o \in Observers, targets \in Targets : PinMany(o, targets)
  \/ \E p \in pins : ReleasePin(p)

Spec == Init /\ [][Next]_vars

-----------------------------------------------------------------------------
(* What the registry promises.                                             *)

\* Every interaction still in the registry was asked by the turn its thread
\* runs now: no answer meant for an earlier turn can reach a later one.
\* (finish and clear_interactions against the register_* of the next turn)
InteractionsOwned ==
  \A i \in interactions : IsActive(i.thread) /\ active[i.thread].turn = i.turn

\* While an observer holds a pin, the thread runs the turn the observer found
\* or none: an `agent wait` never reports on a turn that replaced it.
\* (pin_many against start and start_agent)
ObservedTurnsStable ==
  \A p \in pins : IsActive(p.thread) => active[p.thread].turn = p.turn

\* The pin counts are exactly the pins alive: none is lost, so a thread is
\* protected until its last observer left, and none leaks, so it is usable then.
\* (pin_many with repeated targets, release and Drop)
PinsCounted ==
  \A t \in ThreadId : observationPins[t] = Cardinality({p \in pins : p.thread = t})

\* The sender of an interaction is in one place at a time - the registry or one
\* handler - and nowhere once it was used: allow and deny never both win.
\* (claim)
OneSender ==
  /\ \A i, j \in interactions : i.id = j.id => i = j
  /\ \A c \in Clients : claimed[c] # NoTurn =>
       /\ \A i \in interactions : i.id # claimed[c].id
       /\ \A d \in Clients :
            claimed[d] # NoTurn /\ claimed[d].id = claimed[c].id => c = d
  /\ \A id \in sent : ~SenderAlive(id)

\* What is registered is of the right kind, and the pins are counted.
\* (TurnLifecycle)
RegistryIsSound == TypeOK /\ PinsCounted

\* An interaction belongs to the running turn and has one sender.
\* (finish, clear_interactions, claim)
InteractionsAreSound == InteractionsOwned /\ OneSender

-----------------------------------------------------------------------------
(* The life of one interaction, as module Interaction states it.           *)

InteractionStatus == [id \in InteractionId |->
  CASE id > nextInteraction -> "unused"
    [] id \in sent -> "answered"
    [] id \notin sent /\ id <= nextInteraction /\ ReceiverAlive(id) /\ SenderAlive(id) -> "open"
    [] OTHER -> "void"]

Protocol == INSTANCE Interaction WITH status <- InteractionStatus

\* Every interaction is asked once, in the order of the ids, and then answered
\* at most once or made void for good. (register_*, claim, resolve_*, finish)
ImplementsInteraction == Protocol!Spec

=============================================================================
