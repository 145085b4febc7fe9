--------------------------- MODULE AgentCallbacks ---------------------------
(***************************************************************************)
(* The operations on other agents that a command asks for (atri agent ...): *)
(* the Runner's CallbackBridge and the relay of one control client, the    *)
(* two streams between Runner and Controller, the Controller's reader and  *)
(* its callback tasks, and the operations, which go on once accepted even  *)
(* if the callback is cancelled (run_callback_operation).                  *)
(*                                                                         *)
(* A callback is named by its id.  A request is made by a client that may  *)
(* go away; so may the Controller.                                         *)
(***************************************************************************)
EXTENDS Naturals, Sequences

CONSTANT Callbacks   \* callbacks, numbered in the order they are made

VARIABLES
  relay,        \* the Runner's control connection of a callback
  pending,      \* CallbackBridge.pending
  answer,       \* its channel: none yet, the answer, or closed
  serving,      \* the Runner's serve loop
  up,           \* stream from the Runner
  down,         \* stream to the Runner: answers, whole or begun
  controller,   \* is it alive
  registered,   \* callback_cancellations of the Controller's reader
  cancelled,    \* those of them that were signalled
  call,         \* the Controller's callback tasks
  op,           \* their operations
  mutation,     \* holder of the mutation lock
  writer        \* holder of the lock of `down`

runner == <<relay, pending, answer, serving>>
tasks == <<registered, cancelled, call, op, mutation, writer>>
vars == <<runner, up, down, controller, tasks>>

TypeOK ==
  /\ relay \in [Callbacks -> {"idle", "entering", "sending", "select", "claimed",
                              "cancelling", "awaiting", "done"}]
  /\ pending \subseteq {c \in Callbacks : relay[c] \in {"sending", "select"}}
  /\ answer \in [Callbacks -> {"none", "value", "closed"}]
  /\ serving \in {"up", "closing", "down"}
  /\ up \in Seq([kind : {"request", "cancel"}, id : Callbacks])
  /\ down \in Seq([whole : BOOLEAN, id : Callbacks])
  /\ controller \in BOOLEAN
  /\ registered \subseteq Callbacks /\ cancelled \subseteq Callbacks
  /\ call \in [Callbacks -> {"none", "queued", "holding", "joining", "observing",
                             "answering", "writing", "done", "aborted"}]
  /\ op \in [Callbacks -> {"none", "accepted", "stored", "released", "done", "lost"}]
  /\ mutation \subseteq Callbacks /\ writer \subseteq Callbacks

Init ==
  /\ relay = [c \in Callbacks |-> "idle"]
  /\ pending = {}
  /\ answer = [c \in Callbacks |-> "none"]
  /\ serving = "up"
  /\ up = <<>> /\ down = <<>>
  /\ controller = TRUE
  /\ registered = {} /\ cancelled = {}
  /\ call = [c \in Callbacks |-> "none"]
  /\ op = [c \in Callbacks |-> "none"]
  /\ mutation = {} /\ writer = {}

-----------------------------------------------------------------------------
(* The Runner: begin and relay_agent_callback.                             *)

RelayTo(c, pc) == relay' = [relay EXCEPT ![c] = pc]

\* begin, its first look at `closed`
Enter(c) ==
  /\ relay[c] = "idle" /\ \A b \in Callbacks : b < c => relay[b] # "idle"
  /\ RelayTo(c, IF serving = "up" THEN "entering" ELSE "done")
  /\ UNCHANGED <<pending, answer, serving, up, down, controller, tasks>>

Insert(c) ==
  /\ relay[c] = "entering"
  /\ IF serving = "up"
       THEN RelayTo(c, "sending") /\ pending' = pending \cup {c}
       ELSE RelayTo(c, "done") /\ UNCHANGED pending
  /\ UNCHANGED <<answer, serving, up, down, controller, tasks>>

SendRequest(c) ==
  /\ relay[c] = "sending"
  /\ IF controller
       THEN /\ RelayTo(c, "select")
            /\ up' = Append(up, [kind |-> "request", id |-> c])
            /\ UNCHANGED pending
       ELSE /\ RelayTo(c, "done")
            /\ pending' = pending \ {c}
            /\ UNCHANGED up
  /\ UNCHANGED <<answer, serving, down, controller, tasks>>

\* The answer, or the closed bridge, wins the select; or the relay, too late to
\* cancel, awaits it.
Hear(c) ==
  /\ relay[c] \in {"select", "awaiting"} /\ answer[c] # "none"
  /\ RelayTo(c, "done")
  /\ UNCHANGED <<pending, answer, serving, up, down, controller, tasks>>

LeaveUnclaimed(c) ==   \* mutant: a cancellation does not claim the callback
  /\ relay[c] = "select"
  /\ RelayTo(c, "claimed")
  /\ UNCHANGED <<pending, answer, serving, up, down, controller, tasks>>

\* The client went away, or its process exited: claim_cancel.
Leave(c) ==
  /\ relay[c] = "select"
  /\ RelayTo(c, IF c \in pending THEN "claimed" ELSE "awaiting")
  /\ pending' = pending \ {c}
  /\ UNCHANGED <<answer, serving, up, down, controller, tasks>>

SendCancel(c) ==
  /\ relay[c] = "claimed"
  /\ RelayTo(c, "cancelling")
  /\ up' = IF controller THEN Append(up, [kind |-> "cancel", id |-> c]) ELSE up
  /\ UNCHANGED <<pending, answer, serving, down, controller, tasks>>

\* complete, for an answer that arrived whole
Complete(c) ==
  /\ serving = "up" /\ down # <<>> /\ Head(down) = [whole |-> TRUE, id |-> c]
  /\ down' = Tail(down)
  /\ answer' = [answer EXCEPT ![c] = IF c \in pending THEN "value" ELSE @]
  /\ pending' = pending \ {c}
  /\ UNCHANGED <<relay, serving, up, controller, tasks>>

\* The stream ended; or a message begun and not finished runs into the next, be
\* that an answer or one of the requests that turns make.
StopServing ==
  /\ serving = "up"
  /\ down # <<>> => ~Head(down).whole
  /\ controller => down # <<>> /\ writer # {Head(down).id}
  /\ serving' = "closing"
  /\ UNCHANGED <<relay, pending, answer, up, down, controller, tasks>>

\* close, after it set `closed`
Close ==
  /\ serving = "closing"
  /\ serving' = "down"
  /\ answer' = [c \in Callbacks |-> IF c \in pending THEN "closed" ELSE answer[c]]
  /\ pending' = {}
  /\ UNCHANGED <<relay, up, down, controller, tasks>>

-----------------------------------------------------------------------------
(* The Controller: reader, callback tasks, operations.                     *)

CallTo(c, pc) == call' = [call EXCEPT ![c] = pc]

ReadRequest(c) ==
  /\ controller /\ up # <<>> /\ Head(up) = [kind |-> "request", id |-> c]
  /\ up' = Tail(up)
  /\ registered' = registered \cup {c}
  /\ CallTo(c, "queued")
  /\ UNCHANGED <<runner, down, controller, cancelled, op, mutation, writer>>

ReadCancel(c) ==
  /\ controller /\ up # <<>> /\ Head(up) = [kind |-> "cancel", id |-> c]
  /\ up' = Tail(up)
  /\ cancelled' = cancelled \cup (registered \cap {c})
  /\ registered' = registered \ {c}
  /\ UNCHANGED <<runner, down, controller, call, op, mutation, writer>>

\* The stream from the Runner ended: dropping a canceller signals it.
ReadEnd ==
  /\ controller /\ serving = "down" /\ up = <<>> /\ registered # {}
  /\ cancelled' = cancelled \cup registered
  /\ registered' = {}
  /\ UNCHANGED <<runner, up, down, controller, call, op, mutation, writer>>

\* The operation's validation takes the mutation lock,
Validate(c) ==
  /\ controller /\ call[c] = "queued" /\ mutation = {}
  /\ CallTo(c, "holding")
  /\ mutation' = {c}
  /\ UNCHANGED <<runner, up, down, controller, registered, cancelled, op, writer>>

\* and fails,
Refuse(c) ==
  /\ controller /\ call[c] = "holding"
  /\ CallTo(c, "answering")
  /\ mutation' = {}
  /\ UNCHANGED <<runner, up, down, controller, registered, cancelled, op, writer>>

\* or, for a wait, pins the turns to observe and lets go,
Pin(c) ==
  /\ controller /\ call[c] = "holding"
  /\ CallTo(c, "observing")
  /\ mutation' = {}
  /\ UNCHANGED <<runner, up, down, controller, registered, cancelled, op, writer>>

Observe(c) ==
  /\ controller /\ call[c] = "observing"
  /\ CallTo(c, "answering")
  /\ UNCHANGED <<runner, up, down, controller, registered, cancelled, op, mutation, writer>>

\* or hands the lock to an operation of its own task and awaits that.
Accept(c) ==
  /\ controller /\ call[c] = "holding"
  /\ CallTo(c, "joining")
  /\ op' = [op EXCEPT ![c] = "accepted"]
  /\ UNCHANGED <<runner, up, down, controller, registered, cancelled, mutation, writer>>

\* The operation: what it stores, then what it publishes and starts; then it
\* lets go of the lock and cleans up (a deletion stops processes).
Store(c) ==
  /\ controller /\ op[c] = "accepted"
  /\ op' = [op EXCEPT ![c] = "stored"]
  /\ UNCHANGED <<runner, up, down, controller, registered, cancelled, call, mutation, writer>>

StoreFails(c) ==
  /\ controller /\ op[c] = "accepted"
  /\ op' = [op EXCEPT ![c] = "released"]
  /\ mutation' = {}
  /\ UNCHANGED <<runner, up, down, controller, registered, cancelled, call, writer>>

Publish(c) ==
  /\ controller /\ op[c] = "stored"
  /\ op' = [op EXCEPT ![c] = "released"]
  /\ mutation' = {}
  /\ UNCHANGED <<runner, up, down, controller, registered, cancelled, call, writer>>

EndOperation(c) ==
  /\ controller /\ op[c] = "released"
  /\ op' = [op EXCEPT ![c] = "done"]
  /\ UNCHANGED <<runner, up, down, controller, registered, cancelled, call, mutation, writer>>

Join(c) ==
  /\ controller /\ call[c] = "joining" /\ op[c] = "done"
  /\ CallTo(c, "answering")
  /\ UNCHANGED <<runner, up, down, controller, registered, cancelled, op, mutation, writer>>

\* write_callback_response: an answer larger than what the pipe takes is written
\* in parts.
Answer(c) ==
  /\ controller /\ call[c] = "answering" /\ writer = {}
  /\ \E whole \in BOOLEAN :
       /\ down' = Append(down, [whole |-> whole, id |-> c])
       /\ CallTo(c, IF whole THEN "done" ELSE "writing")
       /\ writer' = IF whole THEN {} ELSE {c}
  /\ UNCHANGED <<runner, up, controller, registered, cancelled, op, mutation>>

\* The Runner reads no further than what was written.
FinishAnswer(c) ==
  /\ controller /\ call[c] = "writing"
  /\ down' = [down EXCEPT ![Len(down)].whole = TRUE]
  /\ CallTo(c, "done")
  /\ writer' = {}
  /\ UNCHANGED <<runner, up, controller, registered, cancelled, op, mutation>>

AbortOperation(c) ==   \* mutant: the operation belongs to the callback's task
  /\ controller /\ c \in cancelled /\ call[c] \notin {"done", "aborted"}
  /\ CallTo(c, "aborted")
  /\ mutation' = mutation \ {c}
  /\ op' = [op EXCEPT ![c] = IF @ \in {"accepted", "stored", "released"} THEN "lost" ELSE @]
  /\ writer' = writer \ {c}
  /\ UNCHANGED <<runner, up, down, controller, registered, cancelled>>

\* The cancellation wins the select of the callback's task, whatever it awaits.
Abort(c) ==
  /\ controller /\ c \in cancelled /\ call[c] \notin {"done", "aborted"}
  /\ CallTo(c, "aborted")
  /\ mutation' = IF call[c] = "holding" THEN {} ELSE mutation
  /\ writer' = writer \ {c}
  /\ UNCHANGED <<runner, up, down, controller, registered, cancelled, op>>

\* The Controller's process ends.
Die ==
  /\ controller
  /\ controller' = FALSE
  /\ up' = <<>>
  /\ op' = [c \in Callbacks |-> IF op[c] \in {"none", "done"} THEN op[c] ELSE "lost"]
  /\ UNCHANGED <<runner, down, registered, cancelled, call, mutation, writer>>

RunnerStep(c) ==
  \/ Insert(c) \/ SendRequest(c) \/ Hear(c) \/ SendCancel(c) \/ Complete(c)
ControllerStep(c) ==
  \/ ReadRequest(c) \/ ReadCancel(c) \/ Validate(c) \/ Refuse(c) \/ Pin(c)
  \/ Observe(c) \/ Accept(c) \/ Store(c) \/ StoreFails(c) \/ Publish(c)
  \/ EndOperation(c) \/ Join(c)
  \/ Answer(c) \/ FinishAnswer(c) \/ Abort(c)

Next ==
  \/ \E c \in Callbacks : Enter(c) \/ Leave(c) \/ RunnerStep(c) \/ ControllerStep(c)
  \/ StopServing \/ Close \/ ReadEnd \/ Die

Spec == Init /\ [][Next]_vars

\* Every task goes on, and the mutation lock is granted in turn (tokio's Mutex
\* is a queue).  Nobody has to ask, to go away or to die.
Fairness ==
  /\ WF_vars((~controller \/ Len(down) > 1) /\ StopServing) /\ WF_vars(Close)
  /\ \A c \in Callbacks :
       /\ WF_vars(RunnerStep(c)) /\ WF_vars((ReadRequest(c) \/ ReadCancel(c)))
       /\ SF_vars(Validate(c)) /\ SF_vars(Answer(c))
       /\ WF_vars((Refuse(c) \/ Pin(c) \/ Accept(c) \/ Observe(c) \/ Join(c) \/ FinishAnswer(c)))
       /\ WF_vars((Store(c) \/ StoreFails(c) \/ Publish(c) \/ EndOperation(c)))

FairSpec == Spec /\ Fairness

-----------------------------------------------------------------------------
\* The first terminal wins: a callback whose cancellation was claimed never gets
\* an answer, and the other way round nobody tells the Controller to cancel what
\* was answered.  (complete, claim_cancel)
FirstTerminalWins ==
  \A c \in Callbacks : relay[c] \in {"claimed", "cancelling"} => answer[c] = "none" /\ c \notin pending

\* Who is told how an operation went can rely on it: it is done, or it was
\* refused and will never be.  (run_callback_operation)
AnsweredIsSettled ==
  \A c \in Callbacks : answer[c] = "value" => op[c] \in {"none", "done"}

\* A callback has one end, and its client is told the truth about it.
CallbacksAreSettled == TypeOK /\ FirstTerminalWins /\ AnsweredIsSettled

\* Once accepted, an operation ends whoever goes away; and every client that
\* asked hears, or is told that nobody will answer: again and again nobody
\* waits.  (run_callback_operation, close)
CallbacksEnd ==
  []<>(\A c \in Callbacks :
         /\ op[c] \in {"none", "done"} \/ ~controller
         /\ relay[c] \in {"idle", "done", "cancelling"})

-----------------------------------------------------------------------------
(* What a test says, and the code does not do.                             *)

\* A late answer to a cancelled callback is discarded; the serve loop goes on.
LateAnswerIsDiscarded == controller => serving = "up"
=============================================================================
