----------------------- MODULE AgentCallbacks_proofs -----------------------
(***************************************************************************)
(* Proofs about the callbacks of commands, for any set of callbacks: a     *)
(* callback has one end, what its client is told is settled, and two       *)
(* operations never change threads at the same time.                       *)
(***************************************************************************)
EXTENDS AgentCallbacks, TLAPS

-----------------------------------------------------------------------------
(* The inductive invariant.                                                *)

Request(c) == [kind |-> "request", id |-> c]

\* A callback that waits for its end has none, nor has one that never asked, or
\* whose cancellation was claimed: claim_cancel and complete both take it out of
\* `pending` first.
UnansweredIsOpen ==
  \A c \in Callbacks :
    c \in pending \/ relay[c] \in {"idle", "entering", "claimed", "cancelling"} => answer[c] = "none"

\* A callback asks once, and its request is read once.  (begin, the reader)
Unasked(c) == relay[c] \in {"idle", "entering", "sending"}
RequestsReadOnce ==
  /\ \A c \in Callbacks : Unasked(c) => call[c] = "none"
  /\ \A i \in 1..Len(up) : up[i].kind = "request" =>
       /\ ~Unasked(up[i].id) /\ call[up[i].id] = "none"
       /\ \A j \in 1..Len(up) : up[j] = up[i] => j = i

\* Only the task of a request that was read is cancelled.  (callback_cancellations)
CancelledWereRead == \A c \in registered \cup cancelled : call[c] # "none"

\* How far the callback's task says how far its operation is.
\* (run_callback_operation)
TaskFollowsOperation ==
  \A c \in Callbacks :
    /\ call[c] \in {"none", "queued", "holding", "observing"} => op[c] = "none"
    /\ call[c] \in {"answering", "writing", "done"} => op[c] \in {"none", "done"}

\* What is on its way to a client, or arrived, was settled when it was written.
Told(c) == answer[c] = "value" \/ \E i \in 1..Len(down) : down[i].id = c
ToldIsSettled ==
  \A c \in Callbacks : Told(c) =>
    call[c] \in {"writing", "done", "aborted"} /\ op[c] \in {"none", "done"}

SettledInv ==
  /\ TypeOK /\ UnansweredIsOpen /\ RequestsReadOnce /\ CancelledWereRead
  /\ TaskFollowsOperation /\ ToldIsSettled

-----------------------------------------------------------------------------
(* The mutation lock.                                                      *)

Mutates(c) == call[c] = "holding" \/ op[c] \in {"accepted", "stored"}

\* Operations change threads one at a time: the lock goes from the validation to
\* the accepted operation with nobody in between, also when the callback is
\* cancelled just then.  (run_callback_operation)
OneMutation == \A b, c \in Callbacks : Mutates(b) /\ Mutates(c) => b = c

LockIsHeld ==
  \A c \in Callbacks :
    /\ Mutates(c) => mutation = {c}
    /\ op[c] \in {"accepted", "stored"} => call[c] \in {"joining", "aborted"}
    /\ call[c] \in {"none", "queued", "holding"} => op[c] = "none"

-----------------------------------------------------------------------------
(* The two streams.                                                        *)

Ups == [kind : {"request", "cancel"}, id : Callbacks]
Downs == [whole : BOOLEAN, id : Callbacks]

\* What the streams carry.
LEMMA StreamsTyped ==
  ASSUME TypeOK
  PROVE  /\ up \in Seq(Ups) /\ down \in Seq(Downs)
         /\ \A i \in 1..Len(up) : up[i] \in Ups /\ up[i].id \in Callbacks
  <1>1. up \in Seq(Ups) /\ down \in Seq(Downs)
    BY DEF TypeOK, Ups, Downs
  <1>2. \A i \in 1..Len(up) : up[i] \in Ups
    BY <1>1
  <1> QED BY <1>1, <1>2 DEF Ups

\* What the Controller reads off its stream, and what it leaves.
LEMMA ReadUp ==
  ASSUME TypeOK, up # <<>>, up' = Tail(up)
  PROVE  /\ up' \in Seq(Ups) /\ Len(up) \in Nat \ {0} /\ Len(up') = Len(up) - 1
         /\ \A i \in 1..Len(up') : up'[i] = up[i + 1] /\ i + 1 \in 1..Len(up)
         /\ Head(up) = up[1] /\ 1 \in 1..Len(up)
  BY StreamsTyped

\* What the Runner reads off its stream, and what it leaves.
LEMMA ReadDown ==
  ASSUME TypeOK, down # <<>>, down' = Tail(down)
  PROVE  /\ down' \in Seq(Downs) /\ Len(down) \in Nat \ {0} /\ Len(down') = Len(down) - 1
         /\ \A i \in 1..Len(down') : down'[i] = down[i + 1] /\ i + 1 \in 1..Len(down)
         /\ Head(down) = down[1] /\ 1 \in 1..Len(down)
  BY StreamsTyped

\* What the Runner appends to its stream, and what it leaves.
LEMMA AppendedUp ==
  ASSUME TypeOK, NEW m \in Ups, up' = Append(up, m)
  PROVE  /\ up' \in Seq(Ups) /\ Len(up) \in Nat /\ Len(up') = Len(up) + 1
         /\ \A i \in 1..Len(up) : up'[i] = up[i]
         /\ up'[Len(up) + 1] = m
  BY StreamsTyped

\* What the Controller appends to its stream, and what it leaves.
LEMMA AppendedDown ==
  ASSUME TypeOK, NEW m \in Downs, down' = Append(down, m)
  PROVE  /\ down' \in Seq(Downs) /\ Len(down) \in Nat /\ Len(down') = Len(down) + 1
         /\ \A i \in 1..Len(down) : down'[i] = down[i]
         /\ down'[Len(down) + 1] = m
  BY StreamsTyped

\* A step that leaves the requests on their way alone.
LEMMA SameRequests ==
  ASSUME TypeOK, RequestsReadOnce, up' = up,
         \A b \in Callbacks : Unasked(b)' => Unasked(b) /\ call'[b] = "none",
         \A b \in Callbacks : call[b] = "none" => call'[b] = "none"
  PROVE  RequestsReadOnce'
  BY StreamsTyped DEF RequestsReadOnce

-----------------------------------------------------------------------------
(* What clients are told is settled.                                       *)

\* Nothing is asked at the start.
LEMMA InitSettled == Init => SettledInv
  BY DEF Init, SettledInv, TypeOK, UnansweredIsOpen, RequestsReadOnce, Unasked,
         CancelledWereRead, TaskFollowsOperation, ToldIsSettled, Told

\* The relay of a callback.  (begin, relay_agent_callback, complete)
LEMMA RunnerStepSettled ==
  ASSUME SettledInv, NEW c \in Callbacks, Enter(c) \/ Leave(c) \/ RunnerStep(c)
  PROVE  SettledInv'
<1>1. CASE Enter(c)
  <2>1. TypeOK'
    BY <1>1 DEF Enter, SettledInv, TypeOK, RelayTo, tasks
  <2>2. UnansweredIsOpen'
    BY <1>1 DEF Enter, SettledInv, UnansweredIsOpen, TypeOK, RelayTo, tasks
  <2>3. RequestsReadOnce'
    <3>1. up' = up /\ call' = call
      BY <1>1 DEF Enter, tasks
    <3>2. \A b \in Callbacks : Unasked(b)' => Unasked(b)
      BY <1>1 DEF Enter, SettledInv, TypeOK, Unasked, RelayTo, tasks
    <3>3. \A b \in Callbacks : Unasked(b) => call[b] = "none"
      BY DEF SettledInv, RequestsReadOnce
    <3> QED BY <3>1, <3>2, <3>3, SameRequests DEF SettledInv
  <2>4. CancelledWereRead' /\ TaskFollowsOperation' /\ ToldIsSettled'
    BY <1>1 DEF Enter, SettledInv, CancelledWereRead, TaskFollowsOperation, ToldIsSettled, Told, tasks
  <2> QED BY <2>1, <2>2, <2>3, <2>4 DEF SettledInv
<1>2. CASE Leave(c)
  <2>1. TypeOK'
    BY <1>2 DEF Leave, SettledInv, TypeOK, RelayTo, tasks
  <2>2. UnansweredIsOpen'
    BY <1>2 DEF Leave, SettledInv, UnansweredIsOpen, TypeOK, RelayTo, tasks
  <2>3. RequestsReadOnce'
    <3>1. up' = up /\ call' = call
      BY <1>2 DEF Leave, tasks
    <3>2. \A b \in Callbacks : Unasked(b)' => Unasked(b)
      BY <1>2 DEF Leave, SettledInv, TypeOK, Unasked, RelayTo, tasks
    <3>3. \A b \in Callbacks : Unasked(b) => call[b] = "none"
      BY DEF SettledInv, RequestsReadOnce
    <3> QED BY <3>1, <3>2, <3>3, SameRequests DEF SettledInv
  <2>4. CancelledWereRead' /\ TaskFollowsOperation' /\ ToldIsSettled'
    BY <1>2 DEF Leave, SettledInv, CancelledWereRead, TaskFollowsOperation, ToldIsSettled, Told, tasks
  <2> QED BY <2>1, <2>2, <2>3, <2>4 DEF SettledInv
<1>3. CASE Insert(c)
  <2>1. TypeOK'
    BY <1>3 DEF Insert, SettledInv, TypeOK, RelayTo, tasks
  <2>2. UnansweredIsOpen'
    BY <1>3 DEF Insert, SettledInv, UnansweredIsOpen, TypeOK, RelayTo, tasks
  <2>3. RequestsReadOnce'
    BY <1>3, SameRequests DEF Insert, SettledInv, TypeOK, RequestsReadOnce, Unasked, RelayTo, tasks
  <2>4. CancelledWereRead'
    BY <1>3 DEF Insert, SettledInv, CancelledWereRead, TypeOK, RelayTo, tasks
  <2>5. TaskFollowsOperation'
    BY <1>3 DEF Insert, SettledInv, TaskFollowsOperation, RequestsReadOnce, TypeOK, RelayTo, tasks
  <2>6. ToldIsSettled'
    BY <1>3 DEF Insert, SettledInv, ToldIsSettled, Told, TaskFollowsOperation, RequestsReadOnce,
                UnansweredIsOpen, TypeOK, RelayTo, tasks
  <2> QED BY <2>1, <2>2, <2>3, <2>4, <2>5, <2>6 DEF SettledInv
<1>4. CASE SendRequest(c)
  <2>1. CASE ~controller
    <3>1. TypeOK'
      BY <1>4, <2>1 DEF SendRequest, SettledInv, TypeOK, RelayTo, tasks
    <3>2. UnansweredIsOpen'
      BY <1>4, <2>1 DEF SendRequest, SettledInv, UnansweredIsOpen, TypeOK, RelayTo, tasks
    <3>3. RequestsReadOnce'
      <4>1. up' = up /\ call' = call
        BY <1>4, <2>1 DEF SendRequest, tasks
      <4>2. \A b \in Callbacks : Unasked(b)' => Unasked(b)
        BY <1>4, <2>1 DEF SendRequest, SettledInv, TypeOK, Unasked, RelayTo, tasks
      <4>3. \A b \in Callbacks : Unasked(b) => call[b] = "none"
        BY DEF SettledInv, RequestsReadOnce
      <4> QED BY <4>1, <4>2, <4>3, SameRequests DEF SettledInv
    <3>4. CancelledWereRead' /\ TaskFollowsOperation' /\ ToldIsSettled'
      BY <1>4, <2>1 DEF SendRequest, SettledInv, CancelledWereRead, TaskFollowsOperation, ToldIsSettled, Told, tasks
    <3> QED BY <3>1, <3>2, <3>3, <3>4 DEF SettledInv
  <2>2. CASE controller
    <3>1. up' = Append(up, Request(c)) /\ Request(c) \in Ups
      BY <1>4, <2>2 DEF SendRequest, Request, Ups
    <3>2. /\ up' \in Seq(Ups) /\ Len(up) \in Nat /\ Len(up') = Len(up) + 1
          /\ \A i \in 1..Len(up) : up'[i] = up[i] /\ up[i] \in Ups /\ up[i].id \in Callbacks
          /\ up'[Len(up) + 1] = Request(c)
      BY <3>1, AppendedUp, StreamsTyped DEF SettledInv
    <3>3. TypeOK' /\ UnansweredIsOpen' /\ CancelledWereRead' /\ TaskFollowsOperation' /\ ToldIsSettled'
      <4>1. TypeOK'
        <5>1. /\ relay' = [relay EXCEPT ![c] = "select"] /\ up' \in Seq(Ups)
              /\ UNCHANGED <<pending, answer, serving, down, controller, tasks>>
          BY <1>4, <2>2, <3>2 DEF SendRequest, RelayTo
        <5> QED BY <5>1 DEF SettledInv, TypeOK, tasks, Ups
      <4>2. UnansweredIsOpen'
        BY <1>4, <2>2 DEF SendRequest, SettledInv, TypeOK, UnansweredIsOpen, RelayTo
      <4>3. CancelledWereRead' /\ TaskFollowsOperation' /\ ToldIsSettled'
        BY <1>4 DEF SendRequest, SettledInv, CancelledWereRead, TaskFollowsOperation, ToldIsSettled,
                    Told, tasks
      <4> QED BY <4>1, <4>2, <4>3
    <3>4. \A i \in 1..Len(up) : up[i] # Request(c)
      BY <1>4 DEF SendRequest, SettledInv, RequestsReadOnce, Unasked, Request
    <3>5. \A b \in Callbacks : Unasked(b)' => Unasked(b) /\ b # c
      BY <1>4, <2>2 DEF SendRequest, RelayTo, Unasked, SettledInv, TypeOK
    <3>6. call' = call /\ call[c] = "none"
      BY <1>4 DEF SendRequest, tasks, SettledInv, RequestsReadOnce, Unasked
    <3>7. RequestsReadOnce'
      BY <3>2, <3>4, <3>5, <3>6 DEF SettledInv, RequestsReadOnce, Request
    <3> QED BY <3>3, <3>7 DEF SettledInv
  <2> QED BY <2>1, <2>2 DEF SettledInv, TypeOK
<1>5. CASE Hear(c)
  BY <1>5 DEF Hear, SettledInv, TypeOK, UnansweredIsOpen, RequestsReadOnce, Unasked, CancelledWereRead,
              TaskFollowsOperation, ToldIsSettled, Told, RelayTo, tasks
<1>6. CASE SendCancel(c)
  <2>1. CASE ~controller
    <3>1. TypeOK'
      BY <1>6, <2>1 DEF SendCancel, SettledInv, TypeOK, RelayTo, tasks
    <3>2. UnansweredIsOpen'
      BY <1>6, <2>1 DEF SendCancel, SettledInv, UnansweredIsOpen, TypeOK, RelayTo, tasks
    <3>3. RequestsReadOnce'
      <4>1. up' = up /\ call' = call
        BY <1>6, <2>1 DEF SendCancel, tasks
      <4>2. \A b \in Callbacks : Unasked(b)' => Unasked(b)
        BY <1>6, <2>1 DEF SendCancel, SettledInv, TypeOK, Unasked, RelayTo, tasks
      <4>3. \A b \in Callbacks : Unasked(b) => call[b] = "none"
        BY DEF SettledInv, RequestsReadOnce
      <4> QED BY <4>1, <4>2, <4>3, SameRequests DEF SettledInv
    <3>4. CancelledWereRead' /\ TaskFollowsOperation' /\ ToldIsSettled'
      BY <1>6, <2>1 DEF SendCancel, SettledInv, CancelledWereRead, TaskFollowsOperation, ToldIsSettled, Told, tasks
    <3> QED BY <3>1, <3>2, <3>3, <3>4 DEF SettledInv
  <2>2. CASE controller
    <3> DEFINE m == [kind |-> "cancel", id |-> c]
    <3>1. up' = Append(up, m) /\ m \in Ups
      BY <1>6, <2>2 DEF SendCancel, Ups
    <3>2. /\ up' \in Seq(Ups) /\ Len(up) \in Nat /\ Len(up') = Len(up) + 1
          /\ \A i \in 1..Len(up) : up'[i] = up[i] /\ up[i] \in Ups /\ up[i].id \in Callbacks
          /\ up'[Len(up) + 1] = m
      BY <3>1, AppendedUp, StreamsTyped DEF SettledInv
    <3>3. TypeOK' /\ UnansweredIsOpen' /\ CancelledWereRead' /\ TaskFollowsOperation' /\ ToldIsSettled'
      <4>1. TypeOK'
        <5>1. /\ relay[c] = "claimed" /\ relay' = [relay EXCEPT ![c] = "cancelling"] /\ up' \in Seq(Ups)
              /\ UNCHANGED <<pending, answer, serving, down, controller, tasks>>
          BY <1>6, <2>2, <3>2 DEF SendCancel, RelayTo
        <5> QED BY <5>1 DEF SettledInv, TypeOK, tasks, Ups
      <4>2. UnansweredIsOpen'
        BY <1>6, <2>2 DEF SendCancel, SettledInv, TypeOK, UnansweredIsOpen, RelayTo
      <4>3. CancelledWereRead' /\ TaskFollowsOperation' /\ ToldIsSettled'
        BY <1>6 DEF SendCancel, SettledInv, CancelledWereRead, TaskFollowsOperation, ToldIsSettled,
                    Told, tasks
      <4> QED BY <4>1, <4>2, <4>3
    <3>4. call' = call /\ \A b \in Callbacks : Unasked(b)' => Unasked(b)
      BY <1>6 DEF SendCancel, RelayTo, Unasked, SettledInv, TypeOK, tasks
    <3>5. RequestsReadOnce'
      BY <3>2, <3>4 DEF SettledInv, RequestsReadOnce
    <3> QED BY <3>3, <3>5 DEF SettledInv
  <2> QED BY <2>1, <2>2 DEF SettledInv, TypeOK
<1>7. CASE Complete(c)
  <2>s. /\ down' \in Seq(Downs) /\ Len(down) \in Nat \ {0}
        /\ Len(down') = Len(down) - 1 /\ down[1] = [whole |-> TRUE, id |-> c]
        /\ \A i \in 1..Len(down') : down'[i] = down[i + 1] /\ i + 1 \in 1..Len(down)
    BY <1>7, ReadDown DEF Complete, SettledInv, TypeOK, Ups, Downs
  <2>1. TypeOK'
    BY <1>7, <2>s DEF Complete, SettledInv, TypeOK, tasks
  <2>2. UnansweredIsOpen'
    BY <1>7, <2>s DEF Complete, SettledInv, UnansweredIsOpen, TypeOK, tasks
  <2>3. RequestsReadOnce'
    BY <1>7, <2>s DEF Complete, SettledInv, RequestsReadOnce, Unasked, TypeOK, tasks
  <2>4. CancelledWereRead'
    BY <1>7, <2>s DEF Complete, SettledInv, CancelledWereRead, TypeOK, tasks
  <2>5. TaskFollowsOperation'
    BY <1>7, <2>s DEF Complete, SettledInv, TaskFollowsOperation, RequestsReadOnce, TypeOK, tasks
  <2>6. ToldIsSettled'
    BY <1>7, <2>s DEF Complete, SettledInv, ToldIsSettled, Told, TaskFollowsOperation, RequestsReadOnce,
                      UnansweredIsOpen, TypeOK, tasks
  <2> QED BY <2>1, <2>2, <2>3, <2>4, <2>5, <2>6 DEF SettledInv
<1> QED BY <1>1, <1>2, <1>3, <1>4, <1>5, <1>6, <1>7 DEF RunnerStep

\* The Controller's side of a callback.  (handle_callback, run_callback_operation)
LEMMA ControllerStepSettled ==
  ASSUME SettledInv, NEW c \in Callbacks, ControllerStep(c)
  PROVE  SettledInv'
<1>1. CASE ReadRequest(c)
  <2>s. /\ up' \in Seq(Ups) /\ Len(up) \in Nat \ {0}
        /\ Len(up') = Len(up) - 1 /\ up[1] = [kind |-> "request", id |-> c]
        /\ \A i \in 1..Len(up') : up'[i] = up[i + 1] /\ i + 1 \in 1..Len(up)
    BY <1>1, ReadUp DEF ReadRequest, SettledInv, TypeOK, Ups, Downs
  <2>1. TypeOK'
    BY <1>1, <2>s DEF ReadRequest, SettledInv, TypeOK, CallTo, runner
  <2>2. UnansweredIsOpen'
    BY <1>1, <2>s DEF ReadRequest, SettledInv, UnansweredIsOpen, TypeOK, CallTo, runner
  <2>3. RequestsReadOnce'
    <3>1. \A i \in 1..Len(up') : up'[i].kind = "request" => up'[i].id # c
      <4> SUFFICES ASSUME NEW i \in 1..Len(up'), up'[i].kind = "request", up'[i].id = c PROVE FALSE
        OBVIOUS
      <4>1. /\ up[i + 1] = up'[i] /\ i + 1 \in 1..Len(up) /\ 1 \in 1..Len(up) /\ i \in Nat \ {0}
            /\ up[1] = Request(c)
        BY <2>s DEF Request
      <4>2. up[i + 1] = Request(c)
        BY <4>1, StreamsTyped DEF Ups, SettledInv, Request
      <4>3. i + 1 = 1
        BY <4>1, <4>2 DEF SettledInv, RequestsReadOnce, Request
      <4> QED BY <4>1, <4>3
    <3>4. ~Unasked(c) /\ relay' = relay /\ \A b \in Callbacks \ {c} : call'[b] = call[b]
      <4>1. up[1].kind = "request" /\ up[1].id = c /\ 1 \in 1..Len(up)
        BY <2>s
      <4>2. relay[c] \notin {"idle", "entering", "sending"}
        BY <4>1 DEF SettledInv, RequestsReadOnce, Unasked
      <4>3. relay' = relay /\ \A b \in Callbacks \ {c} : call'[b] = call[b]
        BY <1>1 DEF ReadRequest, CallTo, SettledInv, TypeOK, runner
      <4> QED BY <4>2, <4>3 DEF Unasked
    <3>2. \A i \in 1..Len(up') : up'[i].id \in Callbacks
      BY <2>s, StreamsTyped DEF SettledInv
    <3>3. \A b \in Callbacks : Unasked(b)' => b # c /\ call'[b] = "none"
      BY <3>4 DEF Unasked, SettledInv, RequestsReadOnce
    <3>5. ASSUME NEW i \in 1..Len(up'), up'[i].kind = "request"
          PROVE  /\ relay'[up'[i].id] \notin {"idle", "entering", "sending"} /\ call'[up'[i].id] = "none"
                 /\ \A j \in 1..Len(up') : up'[j] = up'[i] => j = i
      <4>1. up'[i] = up[i + 1] /\ i + 1 \in 1..Len(up) /\ up'[i].id \in Callbacks \ {c}
        BY <2>s, <3>1, <3>2, <3>5
      <4>2. /\ relay[up'[i].id] \notin {"idle", "entering", "sending"} /\ call[up'[i].id] = "none"
            /\ \A j \in 1..Len(up) : up[j] = up[i + 1] => j = i + 1
        BY <4>1, <3>5 DEF SettledInv, RequestsReadOnce, Unasked
      <4>3. ASSUME NEW j \in 1..Len(up'), up'[j] = up'[i] PROVE j = i
        <5>1. up[j + 1] = up[i + 1] /\ j + 1 \in 1..Len(up)
          BY <2>s, <4>1, <4>3
        <5>2. j + 1 = i + 1 /\ i \in Nat /\ j \in Nat
          BY <5>1, <4>2, <2>s
        <5> QED BY <5>2
      <4> QED BY <3>4, <4>1, <4>2, <4>3
    <3> QED BY <3>3, <3>5 DEF RequestsReadOnce, Unasked
  <2>4. CancelledWereRead'
    BY <1>1, <2>s DEF ReadRequest, SettledInv, CancelledWereRead, TypeOK, CallTo, runner
  <2>5. TaskFollowsOperation'
    BY <1>1, <2>s DEF ReadRequest, SettledInv, TaskFollowsOperation, RequestsReadOnce, TypeOK, CallTo,
                      runner
  <2>6. ToldIsSettled'
    BY <1>1, <2>s DEF ReadRequest, SettledInv, ToldIsSettled, Told, TaskFollowsOperation,
                      RequestsReadOnce, UnansweredIsOpen, TypeOK, CallTo, runner
  <2> QED BY <2>1, <2>2, <2>3, <2>4, <2>5, <2>6 DEF SettledInv
<1>2. CASE ReadCancel(c)
  <2>s. /\ up' \in Seq(Ups) /\ Len(up) \in Nat \ {0}
        /\ Len(up') = Len(up) - 1 /\ up[1] = [kind |-> "cancel", id |-> c]
        /\ \A i \in 1..Len(up') : up'[i] = up[i + 1] /\ i + 1 \in 1..Len(up)
    BY <1>2, ReadUp DEF ReadCancel, SettledInv, TypeOK, Ups, Downs
  <2>1. TypeOK'
    BY <1>2, <2>s DEF ReadCancel, SettledInv, TypeOK, runner
  <2>2. UnansweredIsOpen'
    BY <1>2, <2>s DEF ReadCancel, SettledInv, UnansweredIsOpen, TypeOK, runner
  <2>3. RequestsReadOnce'
    BY <1>2, <2>s DEF ReadCancel, SettledInv, RequestsReadOnce, Unasked, TypeOK, runner
  <2>4. CancelledWereRead'
    BY <1>2, <2>s DEF ReadCancel, SettledInv, CancelledWereRead, TypeOK, runner
  <2>5. TaskFollowsOperation'
    BY <1>2, <2>s DEF ReadCancel, SettledInv, TaskFollowsOperation, RequestsReadOnce, TypeOK, runner
  <2>6. ToldIsSettled'
    BY <1>2, <2>s DEF ReadCancel, SettledInv, ToldIsSettled, Told, TaskFollowsOperation,
                      RequestsReadOnce, UnansweredIsOpen, TypeOK, runner
  <2> QED BY <2>1, <2>2, <2>3, <2>4, <2>5, <2>6 DEF SettledInv
<1>3. CASE Validate(c)
  BY <1>3 DEF Validate, SettledInv, TypeOK, UnansweredIsOpen, RequestsReadOnce, Unasked,
              CancelledWereRead, TaskFollowsOperation, ToldIsSettled, Told, CallTo, runner
<1>4. CASE Refuse(c)
  BY <1>4 DEF Refuse, SettledInv, TypeOK, UnansweredIsOpen, RequestsReadOnce, Unasked,
              CancelledWereRead, TaskFollowsOperation, ToldIsSettled, Told, CallTo, runner
<1>5. CASE Pin(c)
  BY <1>5 DEF Pin, SettledInv, TypeOK, UnansweredIsOpen, RequestsReadOnce, Unasked, CancelledWereRead,
              TaskFollowsOperation, ToldIsSettled, Told, CallTo, runner
<1>6. CASE Observe(c)
  BY <1>6 DEF Observe, SettledInv, TypeOK, UnansweredIsOpen, RequestsReadOnce, Unasked,
              CancelledWereRead, TaskFollowsOperation, ToldIsSettled, Told, CallTo, runner
<1>7. CASE Accept(c)
  BY <1>7 DEF Accept, SettledInv, TypeOK, UnansweredIsOpen, RequestsReadOnce, Unasked,
              CancelledWereRead, TaskFollowsOperation, ToldIsSettled, Told, CallTo, runner
<1>8. CASE Store(c)
  BY <1>8 DEF Store, SettledInv, TypeOK, UnansweredIsOpen, RequestsReadOnce, Unasked, CancelledWereRead,
              TaskFollowsOperation, ToldIsSettled, Told, runner
<1>9. CASE StoreFails(c)
  BY <1>9 DEF StoreFails, SettledInv, TypeOK, UnansweredIsOpen, RequestsReadOnce, Unasked,
              CancelledWereRead, TaskFollowsOperation, ToldIsSettled, Told, runner
<1>10. CASE Publish(c)
  BY <1>10 DEF Publish, SettledInv, TypeOK, UnansweredIsOpen, RequestsReadOnce, Unasked,
               CancelledWereRead, TaskFollowsOperation, ToldIsSettled, Told, runner
<1>11. CASE EndOperation(c)
  BY <1>11 DEF EndOperation, SettledInv, TypeOK, UnansweredIsOpen, RequestsReadOnce, Unasked,
               CancelledWereRead, TaskFollowsOperation, ToldIsSettled, Told, runner
<1>12. CASE Join(c)
  BY <1>12 DEF Join, SettledInv, TypeOK, UnansweredIsOpen, RequestsReadOnce, Unasked, CancelledWereRead,
               TaskFollowsOperation, ToldIsSettled, Told, CallTo, runner
<1>13. CASE Answer(c)
  <2>s. PICK whole \in BOOLEAN :
          /\ down' \in Seq(Downs) /\ Len(down) \in Nat
          /\ Len(down') = Len(down) + 1 /\ down'[Len(down) + 1] = [whole |-> whole, id |-> c]
          /\ \A i \in 1..Len(down) : down'[i] = down[i]
          /\ CallTo(c, IF whole THEN "done" ELSE "writing")
          /\ writer' = IF whole THEN {} ELSE {c}
    <3>1. PICK whole \in BOOLEAN :
            /\ down' = Append(down, [whole |-> whole, id |-> c])
            /\ CallTo(c, IF whole THEN "done" ELSE "writing")
            /\ writer' = IF whole THEN {} ELSE {c}
      BY <1>13 DEF Answer
    <3>2. [whole |-> whole, id |-> c] \in Downs
      BY DEF Downs
    <3> QED BY <3>1, <3>2, AppendedDown DEF SettledInv
  <2>1. TypeOK'
    BY <1>13, <2>s DEF Answer, SettledInv, TypeOK, CallTo, runner
  <2>2. UnansweredIsOpen'
    BY <1>13, <2>s DEF Answer, SettledInv, UnansweredIsOpen, TypeOK, CallTo, runner
  <2>3. RequestsReadOnce'
    BY <1>13, <2>s DEF Answer, SettledInv, RequestsReadOnce, Unasked, TypeOK, CallTo, runner
  <2>4. CancelledWereRead'
    BY <1>13, <2>s DEF Answer, SettledInv, CancelledWereRead, TypeOK, CallTo, runner
  <2>5. TaskFollowsOperation'
    BY <1>13, <2>s DEF Answer, SettledInv, TaskFollowsOperation, RequestsReadOnce, TypeOK, CallTo, runner
  <2>6. ToldIsSettled'
    BY <1>13, <2>s DEF Answer, SettledInv, ToldIsSettled, Told, TaskFollowsOperation, RequestsReadOnce,
                       UnansweredIsOpen, TypeOK, CallTo, runner
  <2> QED BY <2>1, <2>2, <2>3, <2>4, <2>5, <2>6 DEF SettledInv
<1>14. CASE FinishAnswer(c)
  <2>s. /\ down' \in Seq(Downs) /\ Len(down') = Len(down)
        /\ \A i \in 1..Len(down) : down'[i].id = down[i].id
    <3>1. down \in Seq(Downs) /\ Len(down) \in Nat /\ DOMAIN down = 1..Len(down)
      BY StreamsTyped DEF SettledInv
    <3>2. \A i \in 1..Len(down) : down[i] \in Downs
      BY <3>1
    <3>3. /\ down' \in [1..Len(down) -> Downs]
          /\ \A i \in 1..Len(down) : down'[i].id = down[i].id
      BY <1>14, <3>1, <3>2 DEF FinishAnswer, Downs
    <3> QED BY <3>1, <3>3
  <2>1. TypeOK'
    BY <1>14, <2>s DEF Downs, FinishAnswer, SettledInv, TypeOK, RelayTo, CallTo, runner, tasks
  <2>2. UnansweredIsOpen'
    BY <1>14, <2>s DEF FinishAnswer, SettledInv, UnansweredIsOpen, TypeOK, CallTo, runner
  <2>3. RequestsReadOnce'
    BY <1>14, <2>s DEF FinishAnswer, SettledInv, RequestsReadOnce, Unasked, TypeOK, CallTo, runner
  <2>4. CancelledWereRead'
    BY <1>14, <2>s DEF FinishAnswer, SettledInv, CancelledWereRead, TypeOK, CallTo, runner
  <2>5. TaskFollowsOperation'
    BY <1>14, <2>s DEF FinishAnswer, SettledInv, TaskFollowsOperation, RequestsReadOnce, TypeOK, CallTo,
                       runner
  <2>6. ToldIsSettled'
    BY <1>14, <2>s DEF FinishAnswer, SettledInv, ToldIsSettled, Told, TaskFollowsOperation,
                       RequestsReadOnce, UnansweredIsOpen, TypeOK, CallTo, runner
  <2> QED BY <2>1, <2>2, <2>3, <2>4, <2>5, <2>6 DEF SettledInv
<1>15. CASE Abort(c)
  <2>1. TypeOK'
    BY <1>15 DEF Abort, SettledInv, TypeOK, CallTo, runner
  <2>2. UnansweredIsOpen'
    BY <1>15 DEF Abort, SettledInv, UnansweredIsOpen, TypeOK, CallTo, runner
  <2>3. RequestsReadOnce'
    <3>1. up' = up /\ relay' = relay /\ call' = [call EXCEPT ![c] = "aborted"] /\ call[c] # "none"
      BY <1>15 DEF Abort, CallTo, runner, SettledInv, CancelledWereRead
    <3>2. \A b \in Callbacks : call[b] = "none" => call'[b] = "none"
      BY <3>1 DEF SettledInv, TypeOK
    <3>3. \A b \in Callbacks : Unasked(b)' => Unasked(b) /\ call'[b] = "none"
      BY <3>1, <3>2 DEF SettledInv, RequestsReadOnce, Unasked
    <3> QED BY <3>1, <3>2, <3>3, SameRequests DEF SettledInv
  <2>4. CancelledWereRead'
    BY <1>15 DEF Abort, SettledInv, CancelledWereRead, TypeOK, CallTo, runner
  <2>5. TaskFollowsOperation'
    BY <1>15 DEF Abort, SettledInv, TaskFollowsOperation, RequestsReadOnce, TypeOK, CallTo, runner
  <2>6. ToldIsSettled'
    BY <1>15 DEF Abort, SettledInv, ToldIsSettled, Told, TaskFollowsOperation, RequestsReadOnce,
                 UnansweredIsOpen, TypeOK, CallTo, runner
  <2> QED BY <2>1, <2>2, <2>3, <2>4, <2>5, <2>6 DEF SettledInv
<1> QED BY <1>1, <1>2, <1>3, <1>4, <1>5, <1>6, <1>7, <1>8, <1>9, <1>10, <1>11, <1>12, <1>13, <1>14, <1>15
      DEF ControllerStep

\* The end of the bridge, of its stream and of the Controller.
LEMMA StreamStepSettled ==
  ASSUME SettledInv, StopServing \/ Close \/ ReadEnd \/ Die
  PROVE  SettledInv'
<1>1. CASE StopServing
  <2>1. TypeOK' /\ UnansweredIsOpen' /\ CancelledWereRead' /\ TaskFollowsOperation' /\ ToldIsSettled'
    BY <1>1 DEF StopServing, SettledInv, TypeOK, UnansweredIsOpen, CancelledWereRead,
                TaskFollowsOperation, ToldIsSettled, Told, tasks
  <2>2. RequestsReadOnce'
    BY <1>1, SameRequests DEF StopServing, SettledInv, RequestsReadOnce, Unasked, tasks
  <2> QED BY <2>1, <2>2 DEF SettledInv
<1>2. CASE Close
  BY <1>2 DEF Close, SettledInv, TypeOK, UnansweredIsOpen, RequestsReadOnce, Unasked, CancelledWereRead,
              TaskFollowsOperation, ToldIsSettled, Told, tasks
<1>3. CASE ReadEnd
  BY <1>3 DEF ReadEnd, SettledInv, TypeOK, UnansweredIsOpen, RequestsReadOnce, Unasked,
              CancelledWereRead, TaskFollowsOperation, ToldIsSettled, Told, runner
<1>4. CASE Die
  <2>1. TypeOK'
    <3>1. up' \in Seq([kind : {"request", "cancel"}, id : Callbacks])
      BY <1>4 DEF Die
    <3>2. op' \in [Callbacks -> {"none", "accepted", "stored", "released", "done", "lost"}]
      BY <1>4 DEF Die, SettledInv, TypeOK
    <3> QED BY <1>4, <3>1, <3>2 DEF Die, SettledInv, TypeOK, runner
  <2>2. UnansweredIsOpen'
    BY <1>4 DEF Die, SettledInv, UnansweredIsOpen, TypeOK, runner
  <2>3. RequestsReadOnce'
    BY <1>4 DEF Die, SettledInv, RequestsReadOnce, Unasked, TypeOK, runner
  <2>4. CancelledWereRead'
    BY <1>4 DEF Die, SettledInv, CancelledWereRead, TypeOK, runner
  <2>5. TaskFollowsOperation'
    BY <1>4 DEF Die, SettledInv, TaskFollowsOperation, RequestsReadOnce, TypeOK, runner
  <2>6. ToldIsSettled'
    BY <1>4 DEF Die, SettledInv, ToldIsSettled, Told, TaskFollowsOperation, RequestsReadOnce,
                UnansweredIsOpen, TypeOK, runner
  <2> QED BY <2>1, <2>2, <2>3, <2>4, <2>5, <2>6 DEF SettledInv
<1> QED BY <1>1, <1>2, <1>3, <1>4

\* Every step.
LEMMA NextSettled == SettledInv /\ [Next]_vars => SettledInv'
<1> SUFFICES ASSUME SettledInv, [Next]_vars PROVE SettledInv'
  OBVIOUS
<1>1. CASE UNCHANGED vars
  <3>1. /\ UNCHANGED <<relay, pending, answer, serving, up, down, controller>>
        /\ UNCHANGED <<registered, cancelled, call, op, mutation, writer>>
    BY <1>1 DEF vars, runner, tasks
  <3>2. TypeOK' /\ UnansweredIsOpen' /\ CancelledWereRead' /\ TaskFollowsOperation' /\ ToldIsSettled'
    BY <3>1 DEF SettledInv, TypeOK, UnansweredIsOpen, CancelledWereRead, TaskFollowsOperation,
                ToldIsSettled, Told
  <3>3. RequestsReadOnce'
    BY <3>1, SameRequests DEF SettledInv, RequestsReadOnce, Unasked
  <3> QED BY <3>2, <3>3 DEF SettledInv
<1>2. ASSUME NEW c \in Callbacks, Enter(c) \/ Leave(c) \/ RunnerStep(c) \/ ControllerStep(c)
      PROVE  SettledInv'
  BY <1>2, RunnerStepSettled, ControllerStepSettled
<1>3. CASE StopServing \/ Close \/ ReadEnd \/ Die
  BY <1>3, StreamStepSettled
<1> QED BY <1>1, <1>2, <1>3 DEF Next

\* The end of a callback is one, and an answer is the truth about its operation.
THEOREM CallbackSoundness == Spec => []CallbacksAreSettled
<1>1. Init => SettledInv
  BY InitSettled
<1>2. SettledInv /\ [Next]_vars => SettledInv'
  BY NextSettled
<1>3. SettledInv => CallbacksAreSettled
  BY DEF SettledInv, TypeOK, UnansweredIsOpen, ToldIsSettled, Told, CallbacksAreSettled,
         FirstTerminalWins, AnsweredIsSettled
<1> QED BY <1>1, <1>2, <1>3, PTL DEF Spec

-----------------------------------------------------------------------------
(* The mutation lock goes from hand to hand.                               *)

\* Whoever has the lock is the only one to have it.
LEMMA NextLocked ==
  ASSUME SettledInv, LockIsHeld, [Next]_vars
  PROVE  LockIsHeld'
<1>1. CASE UNCHANGED vars
  BY <1>1 DEF vars, SettledInv, TypeOK, TaskFollowsOperation, RequestsReadOnce, LockIsHeld, Mutates,
              RelayTo, CallTo, runner, tasks
<1>2. ASSUME NEW c \in Callbacks, Enter(c) \/ Leave(c) \/ RunnerStep(c)
      PROVE  LockIsHeld'
  BY <1>2 DEF RunnerStep, Enter, Leave, Insert, SendRequest, Hear, SendCancel, Complete,
              LockIsHeld, Mutates, tasks
<1>3. CASE StopServing \/ Close \/ ReadEnd \/ Die
  BY <1>3 DEF StopServing, Close, ReadEnd, Die, SettledInv, TypeOK, TaskFollowsOperation,
              RequestsReadOnce, LockIsHeld, Mutates, RelayTo, CallTo, runner, tasks
<1>4. ASSUME NEW c \in Callbacks, ControllerStep(c)
      PROVE  LockIsHeld'
  <2>1. CASE ReadRequest(c)
    <3>1. call[c] = "none"
      BY <2>1, ReadUp DEF Ups, ReadRequest, SettledInv, TypeOK, RequestsReadOnce
    <3> QED BY <2>1, <3>1 DEF ReadRequest, SettledInv, TypeOK, TaskFollowsOperation, RequestsReadOnce,
                              LockIsHeld, Mutates, RelayTo, CallTo, runner, tasks
  <2>2. CASE ReadCancel(c)
    BY <2>2 DEF ReadCancel, SettledInv, TypeOK, TaskFollowsOperation, RequestsReadOnce, LockIsHeld,
                Mutates, runner
  <2>3. CASE Validate(c)
    BY <2>3 DEF Validate, SettledInv, TypeOK, TaskFollowsOperation, RequestsReadOnce, LockIsHeld,
                Mutates, CallTo, runner
  <2>4. CASE Refuse(c)
    <3>1. \A b \in Callbacks : Mutates(b) => b = c
      BY <2>4 DEF Refuse, Mutates, LockIsHeld
    <3>2. \A b \in Callbacks : ~Mutates(b)'
      BY <2>4, <3>1 DEF Refuse, CallTo, Mutates, LockIsHeld, SettledInv, TypeOK
    <3> QED BY <2>4, <3>2 DEF Refuse, CallTo, LockIsHeld, Mutates, SettledInv, TypeOK
  <2>5. CASE Pin(c)
    <3>1. \A b \in Callbacks : Mutates(b) => b = c
      BY <2>5 DEF Pin, Mutates, LockIsHeld
    <3>2. \A b \in Callbacks : ~Mutates(b)'
      BY <2>5, <3>1 DEF Pin, CallTo, Mutates, LockIsHeld, SettledInv, TypeOK
    <3> QED BY <2>5, <3>2 DEF Pin, CallTo, LockIsHeld, Mutates, SettledInv, TypeOK
  <2>6. CASE Observe(c)
    BY <2>6 DEF Observe, SettledInv, TypeOK, TaskFollowsOperation, RequestsReadOnce, LockIsHeld,
                Mutates, CallTo, runner
  <2>7. CASE Accept(c)
    BY <2>7 DEF Accept, SettledInv, TypeOK, TaskFollowsOperation, RequestsReadOnce, LockIsHeld, Mutates,
                CallTo, runner
  <2>8. CASE Store(c)
    BY <2>8 DEF Store, SettledInv, TypeOK, TaskFollowsOperation, RequestsReadOnce, LockIsHeld, Mutates,
                runner
  <2>9. CASE StoreFails(c)
    <3>1. \A b \in Callbacks : Mutates(b) => b = c
      BY <2>9 DEF StoreFails, Mutates, LockIsHeld
    <3>2. \A b \in Callbacks : ~Mutates(b)'
      BY <2>9, <3>1 DEF StoreFails, Mutates, LockIsHeld, SettledInv, TypeOK
    <3> QED BY <2>9, <3>2 DEF StoreFails, CallTo, LockIsHeld, Mutates, SettledInv, TypeOK
  <2>10. CASE Publish(c)
    <3>1. \A b \in Callbacks : Mutates(b) => b = c
      BY <2>10 DEF Publish, Mutates, LockIsHeld
    <3>2. \A b \in Callbacks : ~Mutates(b)'
      BY <2>10, <3>1 DEF Publish, Mutates, LockIsHeld, SettledInv, TypeOK
    <3> QED BY <2>10, <3>2 DEF Publish, CallTo, LockIsHeld, Mutates, SettledInv, TypeOK
  <2>11. CASE EndOperation(c)
    BY <2>11 DEF EndOperation, SettledInv, TypeOK, TaskFollowsOperation, RequestsReadOnce, LockIsHeld,
                 Mutates, runner
  <2>12. CASE Join(c)
    BY <2>12 DEF Join, SettledInv, TypeOK, TaskFollowsOperation, RequestsReadOnce, LockIsHeld, Mutates,
                 CallTo, runner
  <2>13. CASE Answer(c)
    BY <2>13 DEF Answer, SettledInv, TypeOK, TaskFollowsOperation, RequestsReadOnce, LockIsHeld,
                 Mutates, CallTo, runner
  <2>14. CASE FinishAnswer(c)
    BY <2>14 DEF FinishAnswer, SettledInv, TypeOK, TaskFollowsOperation, RequestsReadOnce, LockIsHeld,
                 Mutates, CallTo, runner
  <2>15. CASE Abort(c)
    <3>1. CASE call[c] # "holding"
      BY <2>15, <3>1 DEF Abort, SettledInv, TypeOK, TaskFollowsOperation, RequestsReadOnce, LockIsHeld,
                         Mutates, CallTo, runner
    <3>2. CASE call[c] = "holding"
      <4>1. \A b \in Callbacks : Mutates(b) => b = c
        BY <3>2 DEF Mutates, LockIsHeld
      <4>2. \A b \in Callbacks : ~Mutates(b)'
        BY <2>15, <3>2, <4>1 DEF Abort, CallTo, Mutates, LockIsHeld, SettledInv, TypeOK
      <4> QED BY <2>15, <4>2 DEF Abort, CallTo, LockIsHeld, Mutates, SettledInv, TypeOK
    <3> QED BY <3>1, <3>2
  <2> QED BY <1>4, <2>1, <2>2, <2>3, <2>4, <2>5, <2>6, <2>7, <2>8, <2>9, <2>10, <2>11, <2>12, <2>13, <2>14, <2>15
      DEF ControllerStep
<1> QED BY <1>1, <1>2, <1>3, <1>4 DEF Next

\* Operations change threads one at a time.
THEOREM MutationsAreExclusive == Spec => []OneMutation
<1>1. Init => SettledInv /\ LockIsHeld
  BY InitSettled DEF Init, LockIsHeld, Mutates
<1>2. SettledInv /\ LockIsHeld /\ [Next]_vars => LockIsHeld'
  BY NextLocked
<1>3. LockIsHeld => OneMutation
  BY DEF LockIsHeld, OneMutation
<1> QED BY <1>1, <1>2, <1>3, NextSettled, PTL DEF Spec

=============================================================================
