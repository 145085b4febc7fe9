------------------------ MODULE Subscriptions_proofs ------------------------
(***************************************************************************)
(* Proofs about the subscriptions to the published views, for any number   *)
(* of clients: whatever a client has and gets leads to what is published,  *)
(* and whoever gets nothing more is told why.                              *)
(***************************************************************************)
EXTENDS Views_proofs

-----------------------------------------------------------------------------
(* The invariant.                                                          *)

\* What a replica may be: of one state, or of none.
StatesFit(kind, states) == AtMostOne(states) /\ \A s \in states : StateFits(kind, s)

MessageFits(kind, m) ==
  /\ m.message \in {"snapshot", "operation", "terminal"}
  /\ m.message = "snapshot" => StateFits(kind, m.state)
  /\ m.message = "operation" => OpFits(kind, m.op)
  /\ m.message = "terminal" => m.why \in {"deleted", "shutdown", "error"}

AllTopics ==
  {ControllerTopic} \cup {ThreadTopic(t) : t \in ThreadIds}
  \cup {CheckpointTopic(k) : k \in CheckpointIds} \cup {ProcessTopic(p) : p \in ProcessIds}

\* Whoever is served has a state, or its snapshot comes first.
Started(k) == k.replica # {} \/ (k.queue # <<>> /\ k.queue[1].message = "snapshot")

IsClient(k) ==
  k = [pc |-> k.pc, topic |-> k.topic, queue |-> k.queue, attached |-> k.attached,
       replica |-> k.replica, end |-> k.end]

\* What is on its way to a client fits its state.
QueueFits(k) ==
  /\ IsSeq(k.queue)
  /\ \A i \in DOMAIN k.queue :
       /\ MessageFits(k.topic.kind, k.queue[i])
       /\ k.queue[i].message = "snapshot" => i = 1 /\ k.replica = {}

ClientFits(k) ==
  /\ IsClient(k) /\ k.pc \in {"idle", "asked", "loaded", "open", "ended"} /\ k.topic \in AllTopics
  /\ k.attached \in BOOLEAN /\ QueueFits(k) /\ StatesFit(k.topic.kind, k.replica)
  /\ k.pc # "open" => k.queue = <<>> /\ ~k.attached
  /\ k.pc \in {"idle", "asked", "loaded"} => k.replica = {} /\ k.end = "none"
  /\ k.pc = "open" => k.end = "none"
  /\ k.attached => Started(k)
  /\ k.pc = "open" /\ ~Started(k) => k.queue = <<Terminal("error")>>
  /\ Started(k) => Replayed(k) # {}
  /\ k.end # "rejected"

\* What was deleted does not come back.
Deleted(topic) ==
  \/ topic.kind = "thread" /\ topic.id \in issued \ DOMAIN stored
  \/ topic.kind = "process" /\ ProcessThread \in issued \ DOMAIN stored
  \/ topic.kind = "checkpoint" /\ issued \ DOMAIN stored # {}

ClientServed(k) ==
  /\ k.attached => Running /\ Published(k.topic) # {} /\ Replayed(k) = Published(k.topic)
  /\ k.pc = "open" /\ ~k.attached =>
       \/ EndsWithReason(k.queue)
       \/ k.topic.kind = "process" /\ LastRun(k.topic.id) > 1
  /\ "shutdown" \in Reasons(k) => ~Running
  /\ "deleted" \in Reasons(k) => Deleted(k.topic)

Served(c) == \A k : conn[c] = k => ClientFits(k) /\ ClientServed(k)
ClientsServed == DOMAIN conn = Clients /\ \A c \in Clients : Served(c)

-----------------------------------------------------------------------------
(* What messages make of a replica.                                        *)

\* The first message is heard first.
LEMMA ReceivedFirst ==
  ASSUME NEW kind, NEW states, NEW q, IsSeq(q), q # <<>>
  PROVE  Received(kind, states, q) = Received(kind, Heard(kind, states, q[1]), Tail(q))
<1>1. /\ Len(q) \in Nat \ {0} /\ Len(Tail(q)) = Len(q) - 1 /\ IsSeq(Tail(q))
      /\ \A i \in 1..Len(q) - 1 : Tail(q)[i] = q[i + 1]
  BY Rest
<1>l. Len(q) \in Nat /\ Len(Tail(q)) \in Nat /\ 1 \in Nat /\ 1 + Len(Tail(q)) <= Len(q)
  BY <1>1
<1>2. PICK R : IsRun(R, kind, states, q, Len(q)) /\ Received(kind, states, q) = R[Len(q)]
  BY <1>l, ReceivedIs
<1> DEFINE first == Heard(kind, states, q[1])
<1>3. PICK P : IsRun(P, kind, first, Tail(q), Len(Tail(q)))
               /\ Received(kind, first, Tail(q)) = P[Len(Tail(q))]
  BY <1>l, ReceivedIs
<1>4. R[1] = first
  BY <1>1, <1>2 DEF IsRun
<1> HIDE DEF first
<1>5. 1 + Len(Tail(q)) = Len(q) /\ \A i \in 1..Len(Tail(q)) : q[1 + i] = Tail(q)[i]
  BY <1>1
<1>6. Continued(R, q, Len(q), 1, P, Tail(q), Len(Tail(q)))
  BY <1>l, <1>2, <1>3, <1>4, <1>5 DEF Continued
<1>7. \A i \in 0..Len(Tail(q)) : R[1 + i] = P[i]
  BY <1>6, RunsAgree
<1> QED BY <1>l, <1>2, <1>3, <1>5, <1>7 DEF first

\* What is heard of what fits, fits; of no state comes none but by a snapshot.
LEMMA HeardFits ==
  ASSUME NEW kind, NEW states, StatesFit(kind, states), NEW m, MessageFits(kind, m)
  PROVE  /\ StatesFit(kind, Heard(kind, states, m))
         /\ states = {} /\ m.message # "snapshot" => Heard(kind, states, m) = {}
<1>1. CASE m.message = "snapshot"
  <2>1. Heard(kind, states, m) = {m.state}
    BY <1>1 DEF Heard
  <2> QED BY <1>1, <2>1 DEF StatesFit, AtMostOne, MessageFits
<1>2. CASE m.message = "operation"
  <2>1. Heard(kind, states, m) = UNION {StateNext(kind, s, m.op) : s \in states}
    BY <1>2 DEF Heard
  <2>2. OpFits(kind, m.op)
    BY <1>2 DEF MessageFits
  <2>3. ASSUME NEW q \in Heard(kind, states, m)
        PROVE  \E s \in states : q \in StateNext(kind, s, m.op)
    BY <2>1, <2>3
  <2>4. ASSUME NEW q \in Heard(kind, states, m)
        PROVE  StateFits(kind, q)
    <3>1. PICK s \in states : q \in StateNext(kind, s, m.op)
      BY <2>3
    <3> QED BY <3>1, <2>2, OperationFits DEF StatesFit
  <2>5. ASSUME NEW q \in Heard(kind, states, m), NEW r \in Heard(kind, states, m)
        PROVE  q = r
    <3>1. PICK s \in states : q \in StateNext(kind, s, m.op)
      BY <2>3
    <3>2. PICK t \in states : r \in StateNext(kind, t, m.op)
      BY <2>3
    <3>3. s = t /\ StateFits(kind, s)
      BY DEF StatesFit, AtMostOne
    <3> QED BY <3>1, <3>2, <3>3, <2>2, OperationFits
  <2>6. states = {} => Heard(kind, states, m) = {}
    BY <2>3
  <2> QED BY <2>4, <2>5, <2>6 DEF StatesFit, AtMostOne
<1>3. CASE m.message = "terminal"
  <2>1. Heard(kind, states, m) = states
    BY <1>3 DEF Heard
  <2> QED BY <2>1
<1> QED BY <1>1, <1>2, <1>3 DEF MessageFits

\* What is received of what fits, fits; of no state comes none without a snapshot.
LEMMA ReceivedFits ==
  ASSUME NEW kind, NEW states, StatesFit(kind, states), NEW q, IsSeq(q),
         \A i \in DOMAIN q : MessageFits(kind, q[i])
  PROVE  /\ StatesFit(kind, Received(kind, states, q))
         /\ states = {} /\ (\A i \in DOMAIN q : q[i].message # "snapshot") => Received(kind, states, q) = {}
<1>1. Len(q) \in Nat /\ DOMAIN q = 1..Len(q)
  BY SeqHas
<1>2. PICK R : IsRun(R, kind, states, q, Len(q)) /\ Received(kind, states, q) = R[Len(q)]
  BY <1>1, ReceivedIs
<1> DEFINE Silent == states = {} /\ \A i \in DOMAIN q : q[i].message # "snapshot"
           Good(i) == StatesFit(kind, R[i]) /\ (Silent => R[i] = {})
           Bad == {i \in 0..Len(q) : ~Good(i)}
<1>3. R[0] = states /\ \A i \in 1..Len(q) : R[i] = Heard(kind, R[i - 1], q[i])
  BY <1>1, <1>2 DEF IsRun
<1>4. ASSUME Bad # {}
      PROVE  FALSE
  <2>0. Bad \in SUBSET Nat
    BY <1>1
  <2>1. PICK l \in Bad : l \in Nat /\ \A i \in Bad : l <= i
    BY <2>0, <1>4, LeastNatural
  <2>2. l \in 0..Len(q) /\ ~Good(l)
    BY <2>1
  <2>3. l # 0
    BY <2>2, <1>3
  <2>4. l - 1 \in 0..Len(q) /\ l - 1 \notin Bad /\ l \in 1..Len(q)
    BY <1>1, <2>1, <2>2, <2>3
  <2>5. Good(l - 1)
    BY <2>4
  <2> HIDE DEF Bad, Silent
  <2>6. StatesFit(kind, R[l - 1]) /\ MessageFits(kind, q[l])
    BY <2>4, <2>5, <1>1
  <2>7. R[l] = Heard(kind, R[l - 1], q[l])
    BY <1>3, <2>4
  <2>8. StatesFit(kind, R[l])
    BY <2>6, <2>7, HeardFits
  <2>9. Silent => R[l - 1] = {} /\ q[l].message # "snapshot"
    BY <2>4, <2>5, <1>1 DEF Silent
  <2>10. Silent => R[l] = {}
    BY <2>6, <2>7, <2>9, HeardFits
  <2> QED BY <2>2, <2>8, <2>10
<1>5. Good(Len(q))
  BY <1>1, <1>4
<1> QED BY <1>2, <1>5

-----------------------------------------------------------------------------
(* What a client becomes that hears more.                                  *)

\* The client k with more messages, still attached or not.
Grown(k, m, b) ==
  [pc |-> k.pc, topic |-> k.topic, queue |-> k.queue \o m, attached |-> b,
   replica |-> k.replica, end |-> k.end]

\* Messages that say a reason.
Says(q, why) == \E i \in DOMAIN q : q[i].message = "terminal" /\ q[i].why = why

\* The reasons a client was told, by the messages.
LEMMA ReasonsAre ==
  ASSUME NEW k, NEW why
  PROVE  why \in Reasons(k) <=> IF k.pc = "ended" THEN why = k.end ELSE Says(k.queue, why)
<1>1. CASE k.pc = "ended"
  BY <1>1 DEF Reasons
<1>2. CASE k.pc # "ended"
  <2>1. Reasons(k) = {m.why : m \in {n \in ToSet(k.queue) : n.message = "terminal"}}
    BY <1>2 DEF Reasons
  <2>2. why \in Reasons(k) <=> \E n \in ToSet(k.queue) : n.message = "terminal" /\ n.why = why
    BY <2>1
  <2>3. (\E n \in ToSet(k.queue) : n.message = "terminal" /\ n.why = why) <=> Says(k.queue, why)
    BY DEF ToSet, Says
  <2> QED BY <1>2, <2>2, <2>3
<1> QED BY <1>1, <1>2

\* Messages that may follow.
Follow(kind, m) ==
  IsSeq(m) /\ \A i \in DOMAIN m : MessageFits(kind, m[i]) /\ m[i].message # "snapshot"

\* A client that is attached and hears what its state allows.
LEMMA GrownFits ==
  ASSUME NEW k, ClientFits(k), k.attached, NEW m, NEW b \in BOOLEAN, Follow(k.topic.kind, m),
         Received(k.topic.kind, Replayed(k), m) # {}
  PROVE  /\ ClientFits(Grown(k, m, b)) /\ k.pc = "open"
         /\ Replayed(Grown(k, m, b)) = Received(k.topic.kind, Replayed(k), m)
         /\ \A why : why \in Reasons(Grown(k, m, b)) => why \in Reasons(k) \/ Says(m, why)
<1> DEFINE l == Grown(k, m, b)
<1>1. /\ l = [pc |-> k.pc, topic |-> k.topic, queue |-> k.queue \o m, attached |-> b,
              replica |-> k.replica, end |-> k.end]
  BY DEF Grown
<1>2. /\ l.pc = k.pc /\ l.topic = k.topic /\ l.queue = k.queue \o m /\ l.attached = b
      /\ l.replica = k.replica /\ l.end = k.end
  BY <1>1
<1>c. IsClient(l)
  BY <1>1 DEF IsClient
<1> HIDE DEF l
<1>3. /\ k.pc = "open" /\ k.end = "none" /\ Started(k) /\ k.topic \in AllTopics /\ QueueFits(k)
      /\ StatesFit(k.topic.kind, k.replica)
  BY DEF ClientFits
<1>4. /\ IsSeq(k.queue) /\ IsSeq(m)
  BY <1>3 DEF QueueFits, Follow
<1>5. /\ IsSeq(k.queue \o m) /\ Len(k.queue \o m) = Len(k.queue) + Len(m)
      /\ \A i \in 1..Len(k.queue) : (k.queue \o m)[i] = k.queue[i]
      /\ \A i \in 1..Len(m) : (k.queue \o m)[Len(k.queue) + i] = m[i]
  BY <1>4, Concatenated
<1>6. /\ Len(k.queue) \in Nat /\ Len(m) \in Nat /\ DOMAIN k.queue = 1..Len(k.queue) /\ DOMAIN m = 1..Len(m)
      /\ DOMAIN (k.queue \o m) = 1..(Len(k.queue) + Len(m))
  BY <1>4, <1>5, SeqHas
<1> DEFINE q == k.queue \o m
<1>7. ASSUME NEW i \in DOMAIN q
      PROVE  \/ i \in DOMAIN k.queue /\ q[i] = k.queue[i]
             \/ \E j \in DOMAIN m : q[i] = m[j]
  <2>1. CASE i <= Len(k.queue)
    BY <2>1, <1>5, <1>6
  <2>2. CASE ~(i <= Len(k.queue))
    <3>1. i - Len(k.queue) \in DOMAIN m /\ Len(k.queue) + (i - Len(k.queue)) = i
      BY <2>2, <1>6
    <3>2. q[i] = m[i - Len(k.queue)]
      BY <3>1, <1>5, <1>6
    <3> QED BY <3>1, <3>2
  <2> QED BY <2>1, <2>2
<1>8. QueueFits(l)
  <2>1. ASSUME NEW i \in DOMAIN q
        PROVE  /\ MessageFits(k.topic.kind, q[i])
               /\ q[i].message = "snapshot" => i = 1 /\ k.replica = {}
    BY <1>3, <1>7 DEF QueueFits, Follow
  <2> QED BY <2>1, <1>2, <1>5 DEF QueueFits
<1>9. Started(l)
  <2>1. CASE k.replica # {}
    BY <2>1, <1>2 DEF Started
  <2>2. CASE k.queue # <<>> /\ k.queue[1].message = "snapshot"
    <3>1. Len(k.queue) \in Nat \ {0}
      BY <2>2, <1>4, Rest
    <3>2. q[1] = k.queue[1] /\ 1 \in DOMAIN q
      BY <3>1, <1>5, <1>6
    <3>3. q # <<>>
      BY <3>2, None
    <3> QED BY <2>2, <3>2, <3>3, <1>2 DEF Started
  <2> QED BY <2>1, <2>2, <1>3 DEF Started
<1>10. Replayed(l) = Received(k.topic.kind, Replayed(k), m)
  BY <1>2, <1>4, ReceivedAfter DEF Replayed
<1>11. ClientFits(l)
  BY <1>2, <1>3, <1>8, <1>9, <1>10, <1>c DEF ClientFits
<1>12. ASSUME NEW why, why \in Reasons(l) PROVE why \in Reasons(k) \/ Says(m, why)
  <2>1. Says(q, why)
    BY <1>12, <1>2, <1>3, ReasonsAre
  <2>2. Says(k.queue, why) \/ Says(m, why)
    BY <2>1, <1>7 DEF Says
  <2> QED BY <2>2, <1>3, ReasonsAre
<1> QED BY <1>3, <1>10, <1>11, <1>12 DEF l

-----------------------------------------------------------------------------
(* What a step does to the clients that it does not serve.                 *)

\* What does not come back: the end, a deleted thread, the first run of a process.
Later ==
  /\ Running' => Running
  /\ issued \ DOMAIN stored \subseteq issued' \ DOMAIN stored'
  /\ \A p \in ProcessIds : LastRun(p) > 1 => LastRun(p)' > 1

\* The news of a topic lead from what was published to what is.
NewsFit(topic, m) ==
  /\ Follow(topic.kind, m) /\ \A i \in DOMAIN m : m[i].message # "terminal"
  /\ Published(topic) # {} =>
       Published(topic)' # {} /\ Published(topic)' = Received(topic.kind, Published(topic), m)

\* The last news of a topic, and why there will be no more.
LastNewsFit(topic, m, why) ==
  /\ Follow(topic.kind, m) /\ \A i \in DOMAIN m : m[i].message # "terminal"
  /\ Published(topic) # {} => Received(topic.kind, Published(topic), m) # {}
  /\ why \in {"deleted", "shutdown"}
  /\ why = "shutdown" => ~Running'
  /\ why = "deleted" => Deleted(topic)'

\* What a step may do to a client k, which becomes l.
IsLeft(k, l) ==
  l = k /\ (k.attached => Running' /\ Published(k.topic)' = Published(k.topic))
Hears(k, l) ==
  k.attached /\ Running' /\ \E m : NewsFit(k.topic, m) /\ l = Grown(k, m, TRUE)
IsDismissed(k, l) ==
  k.attached
  /\ \E m, why : LastNewsFit(k.topic, m, why) /\ l = Grown(k, m \o <<Terminal(why)>>, FALSE)
IsForgotten(k, l) ==
  k.attached /\ k.topic.kind = "process" /\ LastRun(k.topic.id)' > 1 /\ l = Grown(k, <<>>, FALSE)
Treated(k, l) == IsLeft(k, l) \/ Hears(k, l) \/ IsDismissed(k, l) \/ IsForgotten(k, l)

\* What was deleted stays deleted.
LEMMA DeletedStays ==
  ASSUME Later, NEW topic, Deleted(topic)
  PROVE  Deleted(topic)'
<1>1. issued \ DOMAIN stored \subseteq issued' \ DOMAIN stored'
  BY DEF Later
<1> QED BY <1>1 DEF Deleted

\* Whoever was told a reason was told the truth, and it stays true.
LEMMA ReasonsStay ==
  ASSUME Later, NEW k, ClientServed(k)
  PROVE  /\ "shutdown" \in Reasons(k) => ~Running'
         /\ "deleted" \in Reasons(k) => Deleted(k.topic)'
<1>1. "shutdown" \in Reasons(k) => ~Running'
  BY DEF Later, ClientServed
<1>2. "deleted" \in Reasons(k) => Deleted(k.topic)'
  BY DeletedStays DEF ClientServed
<1> QED BY <1>1, <1>2

\* The topics of processes are of processes that may exist.
LEMMA ProcessTopics ==
  ASSUME NEW topic \in AllTopics, topic.kind = "process"
  PROVE  topic.id \in ProcessIds /\ topic = ProcessTopic(topic.id)
  BY DEF AllTopics, ControllerTopic, ThreadTopic, CheckpointTopic, ProcessTopic

\* A client that nothing happens to is served.
LEMMA LeftIsServed ==
  ASSUME Later, NEW k, ClientFits(k), ClientServed(k), NEW l, IsLeft(k, l)
  PROVE  ClientFits(l) /\ ClientServed(l)'
<1>1. l = k /\ (l.attached => Running' /\ Published(l.topic)' = Published(l.topic))
  BY DEF IsLeft
<1>3. l.attached => Running' /\ Published(l.topic)' # {} /\ Replayed(l) = Published(l.topic)'
  BY <1>1 DEF ClientServed
<1>4. ASSUME l.pc = "open", ~l.attached
      PROVE  EndsWithReason(l.queue) \/ (l.topic.kind = "process" /\ LastRun(l.topic.id)' > 1)
  <2>1. CASE EndsWithReason(l.queue)
    BY <2>1
  <2>2. CASE l.topic.kind = "process" /\ LastRun(l.topic.id) > 1
    <3>1. l.topic.id \in ProcessIds
      BY <2>2, <1>1, ProcessTopics DEF ClientFits
    <3> QED BY <2>2, <3>1 DEF Later
  <2> QED BY <2>1, <2>2, <1>1, <1>4 DEF ClientServed
<1>5. /\ "shutdown" \in Reasons(l) => ~Running'
      /\ "deleted" \in Reasons(l) => Deleted(l.topic)'
  BY <1>1, ReasonsStay
<1>6. ClientServed(l)'
  BY <1>3, <1>4, <1>5 DEF ClientServed
<1> QED BY <1>1, <1>6

\* A client that hears the news is served.
LEMMA HearingIsServed ==
  ASSUME Later, NEW k, ClientFits(k), ClientServed(k), NEW l, Hears(k, l)
  PROVE  ClientFits(l) /\ ClientServed(l)'
<1>1. k.attached /\ Running'
  BY DEF Hears
<1>2. PICK m : NewsFit(k.topic, m) /\ l = Grown(k, m, TRUE)
  BY DEF Hears
<1>3. Published(k.topic) # {} /\ Replayed(k) = Published(k.topic)
  BY <1>1 DEF ClientServed
<1>4. /\ Follow(k.topic.kind, m) /\ \A i \in DOMAIN m : m[i].message # "terminal"
      /\ Published(k.topic)' # {} /\ Published(k.topic)' = Received(k.topic.kind, Replayed(k), m)
  BY <1>2, <1>3 DEF NewsFit
<1>5. /\ ClientFits(l) /\ Replayed(l) = Received(k.topic.kind, Replayed(k), m)
      /\ \A why : why \in Reasons(l) => why \in Reasons(k) \/ Says(m, why)
  BY <1>1, <1>2, <1>4, GrownFits
<1>6. l.attached = TRUE /\ l.topic = k.topic
  BY <1>2 DEF Grown
<1>7. \A why : why \in Reasons(l) => why \in Reasons(k)
  BY <1>4, <1>5 DEF Says
<1>8. /\ "shutdown" \in Reasons(l) => ~Running'
      /\ "deleted" \in Reasons(l) => Deleted(l.topic)'
  BY <1>6, <1>7, ReasonsStay
<1>9. l.attached => Running' /\ Published(l.topic)' # {} /\ Replayed(l) = Published(l.topic)'
  BY <1>1, <1>4, <1>5, <1>6
<1>10. ClientServed(l)'
  BY <1>6, <1>8, <1>9 DEF ClientServed
<1> QED BY <1>5, <1>10

\* A client that hears the end is served.
LEMMA DismissedIsServed ==
  ASSUME Later, NEW k, ClientFits(k), ClientServed(k), NEW l, IsDismissed(k, l)
  PROVE  ClientFits(l) /\ ClientServed(l)'
<1>1. k.attached
  BY DEF IsDismissed
<1>2. PICK m, why : LastNewsFit(k.topic, m, why) /\ l = Grown(k, m \o <<Terminal(why)>>, FALSE)
  BY DEF IsDismissed
<1>3. Published(k.topic) # {} /\ Replayed(k) = Published(k.topic)
  BY <1>1 DEF ClientServed
<1>4. /\ Follow(k.topic.kind, m) /\ \A i \in DOMAIN m : m[i].message # "terminal"
      /\ Received(k.topic.kind, Replayed(k), m) # {} /\ why \in {"deleted", "shutdown"}
      /\ (why = "shutdown" => ~Running') /\ (why = "deleted" => Deleted(k.topic)')
  BY <1>2, <1>3 DEF LastNewsFit
<1>e. PICK end : end = <<Terminal(why)>>
  OBVIOUS
<1>5. /\ IsSeq(end) /\ Len(end) = 1 /\ DOMAIN end = 1..1 /\ end[1] = Terminal(why)
  BY <1>e, Single, SeqHas
<1>6. Terminal(why).message = "terminal" /\ Terminal(why).why = why
  BY DEF Terminal
<1>7. IsSeq(m) /\ Len(m) \in Nat /\ DOMAIN m = 1..Len(m)
  BY <1>4, SeqHas DEF Follow
<1>a. PICK a : a = m \o end
  OBVIOUS
<1>8. /\ IsSeq(a) /\ Len(a) = Len(m) + 1
      /\ \A i \in 1..Len(m) : a[i] = m[i]
      /\ a[Len(m) + 1] = end[1]
  <2>1. IsSeq(m) /\ IsSeq(end)
    BY <1>5, <1>7
  <2>2. /\ IsSeq(a) /\ Len(a) = Len(m) + Len(end)
        /\ \A i \in 1..Len(m) : a[i] = m[i]
        /\ \A i \in 1..Len(end) : a[Len(m) + i] = end[i]
    BY <2>1, <1>a, Concatenated
  <2>3. 1 \in 1..Len(end) /\ Len(end) = 1
    BY <1>5
  <2> QED BY <2>2, <2>3
<1>9. a[Len(m) + 1] = Terminal(why) /\ DOMAIN a = 1..(Len(m) + 1)
  BY <1>5, <1>7, <1>8, SeqHas
<1>10. \A i \in DOMAIN a : (i \in DOMAIN m /\ a[i] = m[i]) \/ a[i] = Terminal(why)
  BY <1>7, <1>8, <1>9
<1>11. Follow(k.topic.kind, a)
  <2>1. MessageFits(k.topic.kind, Terminal(why)) /\ Terminal(why).message # "snapshot"
    BY <1>4, <1>6 DEF MessageFits
  <2> QED BY <2>1, <1>4, <1>8, <1>10 DEF Follow
<1>12. Received(k.topic.kind, Replayed(k), a) # {}
  <2>0. IsSeq(m) /\ IsSeq(end)
    BY <1>5, <1>7
  <2>1. Received(k.topic.kind, Replayed(k), a)
          = Received(k.topic.kind, Received(k.topic.kind, Replayed(k), m), end)
    BY <2>0, <1>a, ReceivedAfter
  <2>2. Received(k.topic.kind, Received(k.topic.kind, Replayed(k), m), end)
          = Heard(k.topic.kind, Received(k.topic.kind, Replayed(k), m), Terminal(why))
    BY <1>e, ReceivedOne
  <2>3. Heard(k.topic.kind, Received(k.topic.kind, Replayed(k), m), Terminal(why))
          = Received(k.topic.kind, Replayed(k), m)
    BY <1>6 DEF Heard
  <2> QED BY <2>1, <2>2, <2>3, <1>4
<1>l. l = Grown(k, a, FALSE)
  BY <1>2, <1>a, <1>e
<1>13. /\ ClientFits(l) /\ k.pc = "open"
       /\ \A w : w \in Reasons(l) => w \in Reasons(k) \/ Says(a, w)
  BY <1>1, <1>11, <1>12, <1>l, GrownFits
<1>14. l.attached = FALSE /\ l.topic = k.topic /\ l.queue = k.queue \o a
  BY <1>l DEF Grown
<1>15. EndsWithReason(l.queue)
  <2>1. IsSeq(k.queue) /\ Len(k.queue) \in Nat
    BY SeqHas DEF ClientFits, QueueFits
  <2>0. IsSeq(k.queue) /\ IsSeq(a)
    BY <2>1, <1>8
  <2>2. /\ Len(l.queue) = Len(k.queue) + Len(a) /\ IsSeq(l.queue)
        /\ \A i \in 1..Len(a) : l.queue[Len(k.queue) + i] = a[i]
    BY <2>0, <1>14, Concatenated
  <2>3. Len(a) \in 1..Len(a) /\ Len(a) = Len(m) + 1
    BY <1>7, <1>8
  <2>4. l.queue[Len(l.queue)] = Terminal(why)
    <3>1. l.queue[Len(k.queue) + Len(a)] = a[Len(a)]
      BY <2>2, <2>3
    <3> QED BY <3>1, <2>2, <2>3, <1>9
  <2>5. Len(l.queue) # 0
    <3>1. Len(k.queue) \in Nat /\ Len(m) \in Nat /\ Len(l.queue) = Len(k.queue) + (Len(m) + 1)
      BY <2>1, <2>2, <2>3, <1>7
    <3>2. \A x, y \in Nat : x + (y + 1) # 0
      OBVIOUS
    <3> QED BY <3>1, <3>2
  <2>6. l.queue # <<>>
    BY <2>5, None
  <2> QED BY <2>4, <2>6, <1>6 DEF EndsWithReason
<1>16. \A w : w \in Reasons(l) => w \in Reasons(k) \/ w = why
  BY <1>4, <1>6, <1>10, <1>13 DEF Says
<1>17. /\ "shutdown" \in Reasons(l) => ~Running'
       /\ "deleted" \in Reasons(l) => Deleted(l.topic)'
  BY <1>4, <1>14, <1>16, ReasonsStay
<1>18. ClientServed(l)'
  BY <1>14, <1>15, <1>17 DEF ClientServed
<1> QED BY <1>13, <1>18

\* A client that hears no more of a process whose id another has got.
LEMMA ForgottenIsServed ==
  ASSUME Later, NEW k, ClientFits(k), ClientServed(k), NEW l, IsForgotten(k, l)
  PROVE  ClientFits(l) /\ ClientServed(l)'
<1>1. k.attached /\ k.topic.kind = "process" /\ LastRun(k.topic.id)' > 1 /\ l = Grown(k, <<>>, FALSE)
  BY DEF IsForgotten
<1>2. Follow(k.topic.kind, <<>>)
  BY None DEF Follow
<1>3. Received(k.topic.kind, Replayed(k), <<>>) # {}
  BY <1>1, ReceivedNone DEF ClientServed
<1>4. /\ ClientFits(l)
      /\ \A why : why \in Reasons(l) => why \in Reasons(k) \/ Says(<<>>, why)
  BY <1>1, <1>2, <1>3, GrownFits
<1>5. \A why : why \in Reasons(l) => why \in Reasons(k)
  BY <1>4, None DEF Says
<1>6. l.attached = FALSE /\ l.topic = k.topic
  BY <1>1 DEF Grown
<1>7. /\ "shutdown" \in Reasons(l) => ~Running'
      /\ "deleted" \in Reasons(l) => Deleted(l.topic)'
  BY <1>5, <1>6, ReasonsStay
<1>8. l.topic.kind = "process" /\ LastRun(l.topic.id)' > 1
  BY <1>1, <1>6
<1>9. ClientServed(l)'
  BY <1>6, <1>7, <1>8 DEF ClientServed
<1> QED BY <1>4, <1>9

\* A client that is treated in one of these ways is served.
LEMMA TreatedIsServed ==
  ASSUME Later, NEW k, ClientFits(k), ClientServed(k), NEW l, Treated(k, l)
  PROVE  ClientFits(l) /\ ClientServed(l)'
  BY LeftIsServed, HearingIsServed, DismissedIsServed, ForgottenIsServed DEF Treated

\* The client c is treated in one of these ways.
IsTreated(c) == \A k, l : k = conn[c] /\ l = conn'[c] => Treated(k, l)

\* Everyone is served after a step that treats each client so, but for one whose
\* own step it is.
LEMMA EveryoneIsServed ==
  ASSUME ClientsServed, Later, DOMAIN conn' = Clients, \A c \in Clients : IsTreated(c) \/ Served(c)'
  PROVE  ClientsServed'
<1>1. ASSUME NEW c \in Clients, IsTreated(c) PROVE Served(c)'
  <2>1. PICK k : k = conn[c]
    OBVIOUS
  <2>2. ClientFits(k) /\ ClientServed(k)
    BY <2>1 DEF ClientsServed, Served
  <2>3. ASSUME NEW l, conn'[c] = l PROVE ClientFits(l) /\ ClientServed(l)'
    <3>1. Treated(k, l)
      BY <2>1, <2>3, <1>1 DEF IsTreated
    <3> QED BY <3>1, <2>2, TreatedIsServed
  <2> QED BY <2>3 DEF Served
<1>2. \A c \in Clients : Served(c)'
  BY <1>1
<1> QED BY <1>2 DEF ClientsServed

-----------------------------------------------------------------------------
(* The news of a topic.                                                    *)

\* Operations are news.
LEMMA NewsFollow ==
  ASSUME NEW kind, NEW ops, IsSeq(ops), \A i \in DOMAIN ops : OpFits(kind, ops[i])
  PROVE  Follow(kind, Operations(ops)) /\ \A i \in DOMAIN Operations(ops) : Operations(ops)[i].message # "terminal"
<1>1. /\ IsSeq(Operations(ops)) /\ DOMAIN Operations(ops) = DOMAIN ops
      /\ \A i \in DOMAIN ops : Operations(ops)[i] = Operation(ops[i])
  BY OperationsAre
<1>2. \A op : Operation(op).message = "operation" /\ Operation(op).op = op
  BY DEF Operation
<1>3. \A i \in DOMAIN ops : MessageFits(kind, Operations(ops)[i]) /\ Operations(ops)[i].message = "operation"
  BY <1>1, <1>2 DEF MessageFits
<1> QED BY <1>1, <1>3 DEF Follow

\* ... and lead to one state.
LEMMA AppliedIs ==
  ASSUME NEW kind, NEW s, StateFits(kind, s), NEW ops, IsSeq(ops),
         \A i \in DOMAIN ops : OpFits(kind, ops[i]), NEW r \in Applied(kind, s, ops)
  PROVE  Applied(kind, s, ops) = {r} /\ Received(kind, {s}, Operations(ops)) = {r}
<1>1. StatesFit(kind, {s})
  BY DEF StatesFit, AtMostOne
<1>2. IsSeq(Operations(ops)) /\ \A i \in DOMAIN Operations(ops) : MessageFits(kind, Operations(ops)[i])
  BY NewsFollow DEF Follow
<1>3. StatesFit(kind, Received(kind, {s}, Operations(ops)))
  BY <1>1, <1>2, ReceivedFits
<1>4. \A q \in Applied(kind, s, ops) : q = r
  BY <1>3 DEF Applied, StatesFit, AtMostOne
<1> QED BY <1>4 DEF Applied

\* A topic whose state is what the operations make of it.
LEMMA TopicHears ==
  ASSUME NEW topic, NEW ops, IsSeq(ops), \A i \in DOMAIN ops : OpFits(topic.kind, ops[i]),
         NEW s, StateFits(topic.kind, s), NEW r \in Applied(topic.kind, s, ops),
         Published(topic) = {s}, Published(topic)' = {r}
  PROVE  NewsFit(topic, Operations(ops))
<1>1. Follow(topic.kind, Operations(ops)) /\ \A i \in DOMAIN Operations(ops) : Operations(ops)[i].message # "terminal"
  BY NewsFollow
<1>2. Received(topic.kind, {s}, Operations(ops)) = {r}
  BY AppliedIs
<1> QED BY <1>1, <1>2 DEF NewsFit

\* A topic that stays as it is has no news.
LEMMA TopicQuiet ==
  ASSUME NEW topic, Published(topic)' = Published(topic)
  PROVE  NewsFit(topic, <<>>)
<1>1. Follow(topic.kind, <<>>) /\ \A i \in DOMAIN <<>> : <<>>[i].message # "terminal"
  BY None DEF Follow
<1> QED BY <1>1, ReceivedNone DEF NewsFit

\* What is published under the topics.
LEMMA PublishedController ==
  Published(ControllerTopic) = {controller} /\ Published(ControllerTopic)' = {controller'}
  BY DEF Published, ControllerTopic

\* What is published of a thread: its view, if it has one.
LEMMA PublishedThread ==
  ASSUME NEW t
  PROVE  /\ Published(ThreadTopic(t)) = IF t \in DOMAIN threads THEN {threads[t]} ELSE {}
         /\ Published(ThreadTopic(t))' = IF t \in DOMAIN threads' THEN {threads'[t]} ELSE {}
<1>1. ThreadTopic(t).kind = "thread" /\ ThreadTopic(t).id = t
  BY DEF ThreadTopic
<1>2. Published(ThreadTopic(t)) = {threads[u] : u \in DOMAIN threads \cap {t}}
  BY <1>1 DEF Published
<1>3. Published(ThreadTopic(t))' = {threads'[u] : u \in DOMAIN threads' \cap {t}}
  BY <1>1 DEF Published
<1> QED BY <1>2, <1>3

\* What is published of a checkpoint: its view, if it has one.
LEMMA PublishedCheckpoint ==
  ASSUME NEW t
  PROVE  /\ Published(CheckpointTopic(t)) = IF t \in DOMAIN checkpoints THEN {checkpoints[t]} ELSE {}
         /\ Published(CheckpointTopic(t))' = IF t \in DOMAIN checkpoints' THEN {checkpoints'[t]} ELSE {}
<1>1. CheckpointTopic(t).kind = "checkpoint" /\ CheckpointTopic(t).id = t
  BY DEF CheckpointTopic
<1>2. Published(CheckpointTopic(t)) = {checkpoints[u] : u \in DOMAIN checkpoints \cap {t}}
  BY <1>1 DEF Published
<1>3. Published(CheckpointTopic(t))' = {checkpoints'[u] : u \in DOMAIN checkpoints' \cap {t}}
  BY <1>1 DEF Published
<1> QED BY <1>2, <1>3

\* What is published of a process: its view, if it has one.
LEMMA PublishedProcess ==
  ASSUME NEW t
  PROVE  /\ Published(ProcessTopic(t)) = IF t \in DOMAIN processes THEN {processes[t]} ELSE {}
         /\ Published(ProcessTopic(t))' = IF t \in DOMAIN processes' THEN {processes'[t]} ELSE {}
<1>1. ProcessTopic(t).kind = "process" /\ ProcessTopic(t).id = t
  BY DEF ProcessTopic
<1>2. Published(ProcessTopic(t)) = {processes[u] : u \in DOMAIN processes \cap {t}}
  BY <1>1 DEF Published
<1>3. Published(ProcessTopic(t))' = {processes'[u] : u \in DOMAIN processes' \cap {t}}
  BY <1>1 DEF Published
<1> QED BY <1>2, <1>3

\* There are four kinds of topics.
LEMMA TopicsAre ==
  ASSUME NEW topic \in AllTopics
  PROVE  \/ topic = ControllerTopic
         \/ \E t \in ThreadIds : topic = ThreadTopic(t)
         \/ \E k \in CheckpointIds : topic = CheckpointTopic(k)
         \/ \E p \in ProcessIds : topic = ProcessTopic(p)
  BY DEF AllTopics

\* What is asked for tells its kind and its id; the kinds have no topic in common.
LEMMA TopicsDiffer ==
  ASSUME NEW t, NEW u
  PROVE  /\ ThreadTopic(t).kind = "thread" /\ ThreadTopic(t).id = t /\ (ThreadTopic(t) = ThreadTopic(u) <=> t = u)
         /\ ProcessTopic(t).kind = "process" /\ ProcessTopic(t).id = t /\ (ProcessTopic(t) = ProcessTopic(u) <=> t = u)
         /\ CheckpointTopic(t).kind = "checkpoint" /\ CheckpointTopic(t).id = t
         /\ ControllerTopic.kind = "controller"
         /\ ThreadTopic(t) # ControllerTopic /\ ProcessTopic(t) # ControllerTopic
         /\ CheckpointTopic(t) # ControllerTopic /\ ThreadTopic(t) # ProcessTopic(u)
         /\ CheckpointTopic(t) # ThreadTopic(u) /\ CheckpointTopic(t) # ProcessTopic(u)
<1> DEFINE a == ThreadTopic(t)
           b == ProcessTopic(t)
           c == CheckpointTopic(t)
<1>1. /\ a.kind = "thread" /\ a.id = t /\ b.kind = "process" /\ b.id = t
      /\ c.kind = "checkpoint" /\ c.id = t /\ ControllerTopic.kind = "controller"
      /\ ThreadTopic(u).kind = "thread" /\ ThreadTopic(u).id = u
      /\ ProcessTopic(u).kind = "process" /\ ProcessTopic(u).id = u
  BY DEF ThreadTopic, ProcessTopic, CheckpointTopic, ControllerTopic
<1>2. t = u => a = ThreadTopic(u) /\ b = ProcessTopic(u)
  OBVIOUS
<1> HIDE DEF a, b, c
<1> QED BY <1>1, <1>2 DEF a, b, c

\* A map is the same at a key.
SameAt(new, old, key) ==
  (key \in DOMAIN new <=> key \in DOMAIN old) /\ (key \in DOMAIN old => new[key] = old[key])

\* A topic whose state a step leaves alone.
LEMMA Unmoved ==
  ASSUME NEW topic \in AllTopics, topic = ControllerTopic => controller' = controller,
         \A t : topic = ThreadTopic(t) => SameAt(threads', threads, t),
         \A k : topic = CheckpointTopic(k) => SameAt(checkpoints', checkpoints, k),
         \A p : topic = ProcessTopic(p) => SameAt(processes', processes, p)
  PROVE  Published(topic)' = Published(topic)
<1>1. CASE topic = ControllerTopic
  BY <1>1, PublishedController
<1>2. CASE \E t \in ThreadIds : topic = ThreadTopic(t)
  <2>1. PICK t : topic = ThreadTopic(t)
    BY <1>2
  <2>2. SameAt(threads', threads, t)
    BY <2>1
  <2>3. Published(ThreadTopic(t))' = Published(ThreadTopic(t))
    BY <2>2, PublishedThread DEF SameAt
  <2> QED BY <2>1, <2>3
<1>3. CASE \E k \in CheckpointIds : topic = CheckpointTopic(k)
  <2>1. PICK k : topic = CheckpointTopic(k)
    BY <1>3
  <2>2. SameAt(checkpoints', checkpoints, k)
    BY <2>1
  <2>3. Published(CheckpointTopic(k))' = Published(CheckpointTopic(k))
    BY <2>2, PublishedCheckpoint DEF SameAt
  <2> QED BY <2>1, <2>3
<1>4. CASE \E p \in ProcessIds : topic = ProcessTopic(p)
  <2>1. PICK p : topic = ProcessTopic(p)
    BY <1>4
  <2>2. SameAt(processes', processes, p)
    BY <2>1
  <2>3. Published(ProcessTopic(p))' = Published(ProcessTopic(p))
    BY <2>2, PublishedProcess DEF SameAt
  <2> QED BY <2>1, <2>3
<1> QED BY <1>1, <1>2, <1>3, <1>4, TopicsAre

-----------------------------------------------------------------------------
(* How a step treats a client.                                             *)

\* The records of the clients as the steps write them.
LEMMA GrownIs ==
  ASSUME NEW k, ClientFits(k), k.attached, NEW m
  PROVE  /\ [k EXCEPT !.queue = @ \o m] = Grown(k, m, TRUE)
         /\ [k EXCEPT !.queue = @ \o m, !.attached = FALSE] = Grown(k, m, FALSE)
         /\ [k EXCEPT !.attached = FALSE] = Grown(k, <<>>, FALSE)
<1>1. IsClient(k) /\ k.attached = TRUE /\ IsSeq(k.queue)
  BY DEF ClientFits, QueueFits
<1>2. k = [pc |-> k.pc, topic |-> k.topic, queue |-> k.queue, attached |-> k.attached,
           replica |-> k.replica, end |-> k.end]
  BY <1>1 DEF IsClient
<1>3. k.queue \o <<>> = k.queue
  <2>1. PICK S : k.queue \in Seq(S)
    BY <1>1 DEF IsSeq
  <2> QED BY <2>1
<1>4. PICK q : q = k.queue \o m
  OBVIOUS
<1>5. PICK e5 : e5 = [k EXCEPT !.queue = q]
  OBVIOUS
<1>5a. e5 = [pc |-> e5.pc, topic |-> e5.topic, queue |-> e5.queue, attached |-> e5.attached,
            replica |-> e5.replica, end |-> e5.end]
  BY <1>2, <1>5
<1>5b. /\ e5.pc = k.pc /\ e5.topic = k.topic /\ e5.queue = q /\ e5.attached = TRUE
      /\ e5.replica = k.replica /\ e5.end = k.end
  BY <1>1, <1>2, <1>5
<1>6. PICK e6 : e6 = [k EXCEPT !.queue = q, !.attached = FALSE]
  OBVIOUS
<1>6a. e6 = [pc |-> e6.pc, topic |-> e6.topic, queue |-> e6.queue, attached |-> e6.attached,
            replica |-> e6.replica, end |-> e6.end]
  BY <1>2, <1>6
<1>6b. /\ e6.pc = k.pc /\ e6.topic = k.topic /\ e6.queue = q /\ e6.attached = FALSE
      /\ e6.replica = k.replica /\ e6.end = k.end
  BY <1>1, <1>2, <1>6
<1>7. PICK e7 : e7 = [k EXCEPT !.attached = FALSE]
  OBVIOUS
<1>7a. e7 = [pc |-> e7.pc, topic |-> e7.topic, queue |-> e7.queue, attached |-> e7.attached,
            replica |-> e7.replica, end |-> e7.end]
  BY <1>2, <1>7
<1>7b. /\ e7.pc = k.pc /\ e7.topic = k.topic /\ e7.queue = k.queue /\ e7.attached = FALSE
      /\ e7.replica = k.replica /\ e7.end = k.end
  BY <1>1, <1>2, <1>7
<1>8. e5 = Grown(k, m, TRUE)
  BY <1>4, <1>5a, <1>5b, Zenon DEF Grown
<1>9. e6 = Grown(k, m, FALSE)
  BY <1>4, <1>6a, <1>6b, Zenon DEF Grown
<1>10. e7 = Grown(k, <<>>, FALSE)
  BY <1>3, <1>7a, <1>7b, Zenon DEF Grown
<1> QED BY <1>4, <1>5, <1>6, <1>7, <1>8, <1>9, <1>10, Zenon

\* What is known of a client.
LEMMA KnownClient ==
  ASSUME ClientsServed, NEW c \in Clients
  PROVE  ClientFits(conn[c]) /\ ClientServed(conn[c]) /\ conn[c].topic \in AllTopics
<1>1. ClientFits(conn[c]) /\ ClientServed(conn[c])
  BY DEF ClientsServed, Served
<1> QED BY <1>1 DEF ClientFits

\* A client that gets the news, if it is attached.
LEMMA PublishTreats ==
  ASSUME ClientsServed, NEW c \in Clients, Running', NEW topic, topic = conn[c].topic, NEW m,
         conn'[c] = IF conn[c].attached THEN [conn[c] EXCEPT !.queue = @ \o m] ELSE conn[c],
         conn[c].attached => NewsFit(topic, m)
  PROVE  IsTreated(c)
<1> SUFFICES ASSUME NEW k, NEW l, k = conn[c], l = conn'[c] PROVE Treated(k, l)
  BY DEF IsTreated
<1>1. ClientFits(k) /\ k.topic = topic
  BY KnownClient
<1>2. CASE k.attached
  <2>1. l = Grown(k, m, TRUE)
    BY <1>1, <1>2, GrownIs
  <2>2. NewsFit(k.topic, m)
    BY <1>1, <1>2
  <2>3. Hears(k, l)
    BY <2>1, <2>2, <1>2 DEF Hears
  <2> QED BY <2>3 DEF Treated
<1>3. CASE ~k.attached
  BY <1>3 DEF Treated, IsLeft
<1> QED BY <1>2, <1>3

\* A client that nothing happens to.
LEMMA QuietTreats ==
  ASSUME ClientsServed, NEW c \in Clients, NEW topic, topic = conn[c].topic, conn'[c] = conn[c],
         conn[c].attached => Running' /\ Published(topic)' = Published(topic)
  PROVE  IsTreated(c)
<1> SUFFICES ASSUME NEW k, NEW l, k = conn[c], l = conn'[c] PROVE Treated(k, l)
  BY DEF IsTreated
<1>1. k.attached => Running' /\ Published(k.topic)' = Published(k.topic)
  OBVIOUS
<1> QED BY <1>1 DEF Treated, IsLeft


\* Joining lists does not depend on the order of the joins.
LEMMA Associative ==
  ASSUME NEW a, NEW b, NEW c, IsSeq(a), IsSeq(b), IsSeq(c)
  PROVE  (a \o b) \o c = a \o (b \o c)
<1>1. PICK S : a \in Seq(S) /\ b \in Seq(S) /\ c \in Seq(S)
  <2> DEFINE S == ToSet(a) \cup ToSet(b) \cup ToSet(c)
  <2>1. a \in Seq(S) /\ b \in Seq(S) /\ c \in Seq(S)
    BY DEF IsSeq
  <2> QED BY <2>1
<1> QED BY <1>1
-----------------------------------------------------------------------------
(* The operations on the views, and who hears of them.                     *)

\* What changes neither the store nor the runs takes nothing back.
LEMMA LaterIs ==
  ASSUME Running' => Running, issued' = issued, DOMAIN stored' = DOMAIN stored,
         \A p \in ProcessIds : LastRun(p)' = LastRun(p)
  PROVE  Later
  BY DEF Later

\* An operation on the view of the Controller.
LEMMA ControllerServes ==
  ASSUME ServerFits, ClientsServed, Later, NEW op, op.op \in {"added", "provider", "runner"},
         ApplyController(op)
  PROVE  ClientsServed'
<1>1. /\ Running /\ controller' \in ControllerNext(controller, op)
      /\ UNCHANGED <<threads, checkpoints, processes>>
  BY DEF ApplyController
<1>2. conn' = [c \in Clients |->
                 IF conn[c].attached
                 THEN [conn[c] EXCEPT !.queue =
                         @ \o IF conn[c].topic = ControllerTopic THEN Operations(<<op>>) ELSE <<>>]
                 ELSE conn[c]]
  BY DEF ApplyController, PublishTo, Publish
<1>3. ControllerFits(controller)
  BY DEF ServerFits
<1>4. Running'
  <2>1. controller'.lifecycle = controller.lifecycle
    BY <1>1, <1>3, AddedThread, ShownElse
  <2> QED BY <2>1, <1>1 DEF Running
<1>5. ASSUME NEW c \in Clients PROVE IsTreated(c)
  <2>1. PICK topic : topic = conn[c].topic
    OBVIOUS
  <2>2. topic \in AllTopics
    BY <2>1, KnownClient
  <2>3. PICK m : m = IF topic = ControllerTopic THEN Operations(<<op>>) ELSE <<>>
    OBVIOUS
  <2>4. conn'[c] = IF conn[c].attached THEN [conn[c] EXCEPT !.queue = @ \o m] ELSE conn[c]
    BY <2>1, <2>3, <1>2
  <2>5. NewsFit(topic, m)
    <3>1. CASE topic = ControllerTopic
      <4>1. topic.kind = "controller" /\ Published(topic) = {controller} /\ Published(topic)' = {controller'}
        BY <3>1, TopicsDiffer, PublishedController
      <4>2. StateFits(topic.kind, controller)
        BY <4>1, <1>3 DEF StateFits
      <4>3. IsSeq(<<op>>) /\ \A i \in DOMAIN <<op>> : OpFits(topic.kind, <<op>>[i])
        <5>1. IsSeq(<<op>>) /\ Len(<<op>>) = 1 /\ <<op>>[1] = op
          BY Single
        <5>2. DOMAIN <<op>> = 1..1
          BY <5>1, SeqHas
        <5>3. OpFits(topic.kind, op)
          BY <4>1 DEF OpFits, ControllerOps
        <5> QED BY <5>1, <5>2, <5>3
      <4>4. controller' \in Applied(topic.kind, controller, <<op>>)
        BY <4>1, <1>1, AppliedOne DEF StateNext
      <4>5. NewsFit(topic, Operations(<<op>>))
        BY <4>1, <4>2, <4>3, <4>4, TopicHears
      <4> QED BY <4>5, <3>1, <2>3
    <3>2. CASE topic # ControllerTopic
      <4>1. Published(topic)' = Published(topic)
        BY <3>2, <2>2, <1>1, Unmoved DEF SameAt
      <4> QED BY <4>1, <3>2, <2>3, TopicQuiet
    <3> QED BY <3>1, <3>2
  <2> QED BY <2>1, <2>4, <2>5, <1>4, PublishTreats
<1>6. DOMAIN conn' = Clients
  BY <1>2
<1> QED BY <1>5, <1>6, EveryoneIsServed

\* One operation fits where it is one of those that there are.
LEMMA OneOperation ==
  ASSUME NEW kind, NEW op, OpFits(kind, op)
  PROVE  IsSeq(<<op>>) /\ \A i \in DOMAIN <<op>> : OpFits(kind, <<op>>[i])
<1>1. IsSeq(<<op>>) /\ Len(<<op>>) = 1 /\ <<op>>[1] = op
  BY Single
<1>2. DOMAIN <<op>> = 1..1
  BY <1>1, SeqHas
<1> QED BY <1>1, <1>2

\* No operation.
LEMMA NoOperation ==
  ASSUME NEW kind
  PROVE  /\ IsSeq(<<>>) /\ (\A i \in DOMAIN <<>> : OpFits(kind, <<>>[i])) /\ Operations(<<>>) = <<>>
<1>1. IsSeq(<<>>) /\ DOMAIN <<>> = {}
  BY None
<1>2. Operations(<<>>) = <<>>
  BY <1>1 DEF Operations
<1> QED BY <1>1, <1>2

\* An operation on a thread, and its status in the list.
LEMMA ThreadServes ==
  ASSUME ServerFits, ClientsServed, Later, NEW t, NEW op, op.op \in ThreadOps, ApplyThread(t, op)
  PROVE  ClientsServed'
<1>1. Running /\ t \in DOMAIN threads /\ UNCHANGED <<checkpoints, processes>>
  BY DEF ApplyThread, Loaded
<1>2. PICK s \in ThreadNext(threads[t], op) :
        /\ threads' = [threads EXCEPT ![t] = s]
        /\ controller' \in Applied("controller", controller, StatusOf(controller, t, AgentStatus(s)))
        /\ conn' = [c \in Clients |->
                      IF conn[c].attached
                      THEN [conn[c] EXCEPT !.queue = @ \o
                              CASE conn[c].topic = ThreadTopic(t) -> Operations(<<op>>)
                                [] conn[c].topic = ControllerTopic ->
                                     Operations(StatusOf(controller, t, AgentStatus(s)))
                                [] OTHER -> <<>>]
                      ELSE conn[c]]
  BY DEF ApplyThread, StatusOf, Publish
<1>n. PICK news : news = StatusOf(controller, t, AgentStatus(s))
  OBVIOUS
<1>3. ControllerFits(controller) /\ ThreadFits(threads[t])
  BY <1>1 DEF ServerFits, ThreadsFit
<1>4. Running'
  <2>1. t \in DOMAIN controller.statuses
    BY <1>1, Agreed DEF ThreadsAgree, ListAgrees
  <2>2. ShowsStatus(controller', controller, t, AgentStatus(s))
    BY <2>1, <1>2, <1>3, StatusApplied
  <2> QED BY <2>2, <1>1 DEF Running, ShowsStatus
<1>5. IsSeq(news) /\ \A i \in DOMAIN news : OpFits("controller", news[i])
  <2>1. OpFits("controller", [op |-> "status", id |-> t, status |-> AgentStatus(s)])
    BY DEF OpFits, ControllerOps
  <2>2. CASE news = <<>>
    BY <2>2, NoOperation
  <2>3. CASE news = <<[op |-> "status", id |-> t, status |-> AgentStatus(s)]>>
    BY <2>1, <2>3, OneOperation
  <2> QED BY <2>2, <2>3, <1>n DEF StatusOf
<1>6. ASSUME NEW c \in Clients PROVE IsTreated(c)
  <2>1. PICK topic : topic = conn[c].topic
    OBVIOUS
  <2>2. topic \in AllTopics
    BY <2>1, KnownClient
  <2>3. PICK m : m = CASE topic = ThreadTopic(t) -> Operations(<<op>>)
                       [] topic = ControllerTopic -> Operations(news)
                       [] OTHER -> <<>>
    OBVIOUS
  <2>4. conn'[c] = IF conn[c].attached THEN [conn[c] EXCEPT !.queue = @ \o m] ELSE conn[c]
    BY <2>1, <2>3, <1>2, <1>n
  <2>5. NewsFit(topic, m)
    <3>1. CASE topic = ControllerTopic
      <4>1. topic.kind = "controller" /\ Published(topic) = {controller} /\ Published(topic)' = {controller'}
        BY <3>1, TopicsDiffer, PublishedController
      <4>2. StateFits(topic.kind, controller)
        BY <4>1, <1>3 DEF StateFits
      <4>3. controller' \in Applied(topic.kind, controller, news)
        BY <4>1, <1>2, <1>n
      <4>4. NewsFit(topic, Operations(news))
        BY <4>1, <4>2, <4>3, <1>5, TopicHears
      <4>5. m = Operations(news)
        BY <3>1, <2>3, TopicsDiffer
      <4> QED BY <4>4, <4>5
    <3>2. CASE topic = ThreadTopic(t)
      <4>1. topic.kind = "thread" /\ Published(topic) = {threads[t]} /\ Published(topic)' = {s}
        BY <3>2, <1>1, <1>2, TopicsDiffer, PublishedThread
      <4>2. StateFits(topic.kind, threads[t])
        BY <4>1, <1>3 DEF StateFits
      <4>3. OpFits(topic.kind, op)
        BY <4>1 DEF OpFits
      <4>4. s \in Applied(topic.kind, threads[t], <<op>>)
        BY <4>1, <1>2, AppliedOne DEF StateNext
      <4>5. IsSeq(<<op>>) /\ \A i \in DOMAIN <<op>> : OpFits(topic.kind, <<op>>[i])
        BY <4>3, OneOperation
      <4>6. NewsFit(topic, Operations(<<op>>))
        BY <4>1, <4>2, <4>4, <4>5, TopicHears
      <4>7. m = Operations(<<op>>)
        BY <3>2, <2>3, TopicsDiffer
      <4> QED BY <4>6, <4>7
    <3>3. CASE topic # ControllerTopic /\ topic # ThreadTopic(t)
      <4>1. \A u : topic = ThreadTopic(u) => SameAt(threads', threads, u)
        BY <3>3, <1>2, TopicsDiffer DEF SameAt
      <4>2. Published(topic)' = Published(topic)
        BY <4>1, <3>3, <2>2, <1>1, Unmoved DEF SameAt
      <4>3. m = <<>>
        BY <3>3, <2>3
      <4> QED BY <4>2, <4>3, TopicQuiet
    <3> QED BY <3>1, <3>2, <3>3
  <2> QED BY <2>1, <2>4, <2>5, <1>4, PublishTreats
<1>7. DOMAIN conn' = Clients
  BY <1>2
<1> QED BY <1>6, <1>7, EveryoneIsServed

\* Operations on a thread and on the list.
LEMMA BothServes ==
  ASSUME ServerFits, ClientsServed, Later, NEW t, NEW metadata, NEW ops, IsSeq(ops),
         \A i \in DOMAIN ops : OpFits("thread", ops[i]), ApplyBoth(t, metadata, ops)
  PROVE  ClientsServed'
<1>1. Running /\ t \in DOMAIN threads /\ UNCHANGED <<checkpoints, processes>>
  BY DEF ApplyBoth, Loaded
<1> DEFINE op == [op |-> "updated", thread |-> metadata]
<1>2. PICK s \in Applied("thread", threads[t], ops) :
        /\ threads' = [threads EXCEPT ![t] = s]
        /\ controller' \in ControllerNext(controller, op)
        /\ conn' = [c \in Clients |->
                      IF conn[c].attached
                      THEN [conn[c] EXCEPT !.queue = @ \o
                              CASE conn[c].topic = ControllerTopic -> Operations(<<op>>)
                                [] conn[c].topic = ThreadTopic(t) -> Operations(ops)
                                [] OTHER -> <<>>]
                      ELSE conn[c]]
  BY DEF ApplyBoth, Publish
<1>o. op.op = "updated" /\ op.thread = metadata
  OBVIOUS
<1> HIDE DEF op
<1>3. ControllerFits(controller) /\ ThreadFits(threads[t])
  BY <1>1 DEF ServerFits, ThreadsFit
<1>4. Running'
  <2>1. controller'.lifecycle = controller.lifecycle
    BY <1>2, <1>3, <1>o, UpdatedThread
  <2> QED BY <2>1, <1>1 DEF Running
<1>5. IsSeq(<<op>>) /\ \A i \in DOMAIN <<op>> : OpFits("controller", <<op>>[i])
  <2>1. OpFits("controller", op)
    BY <1>o DEF OpFits, ControllerOps
  <2> QED BY <2>1, OneOperation
<1>6. ASSUME NEW c \in Clients PROVE IsTreated(c)
  <2>1. PICK topic : topic = conn[c].topic
    OBVIOUS
  <2>2. topic \in AllTopics
    BY <2>1, KnownClient
  <2>3. PICK m : m = CASE topic = ControllerTopic -> Operations(<<op>>)
                       [] topic = ThreadTopic(t) -> Operations(ops)
                       [] OTHER -> <<>>
    OBVIOUS
  <2>4. conn'[c] = IF conn[c].attached THEN [conn[c] EXCEPT !.queue = @ \o m] ELSE conn[c]
    BY <2>1, <2>3, <1>2
  <2>5. NewsFit(topic, m)
    <3>1. CASE topic = ControllerTopic
      <4>1. topic.kind = "controller" /\ Published(topic) = {controller} /\ Published(topic)' = {controller'}
        BY <3>1, TopicsDiffer, PublishedController
      <4>2. StateFits(topic.kind, controller)
        BY <4>1, <1>3 DEF StateFits
      <4>3. controller' \in Applied(topic.kind, controller, <<op>>)
        BY <4>1, <1>2, AppliedOne DEF StateNext
      <4>4. NewsFit(topic, Operations(<<op>>))
        BY <4>1, <4>2, <4>3, <1>5, TopicHears
      <4>5. m = Operations(<<op>>)
        BY <3>1, <2>3, TopicsDiffer
      <4> QED BY <4>4, <4>5
    <3>2. CASE topic = ThreadTopic(t)
      <4>1. topic.kind = "thread" /\ Published(topic) = {threads[t]} /\ Published(topic)' = {s}
        BY <3>2, <1>1, <1>2, TopicsDiffer, PublishedThread
      <4>2. StateFits(topic.kind, threads[t])
        BY <4>1, <1>3 DEF StateFits
      <4>3. s \in Applied(topic.kind, threads[t], ops)
        BY <4>1, <1>2
      <4>4. NewsFit(topic, Operations(ops))
        BY <4>1, <4>2, <4>3, TopicHears
      <4>5. m = Operations(ops)
        BY <3>2, <2>3, TopicsDiffer
      <4> QED BY <4>4, <4>5
    <3>3. CASE topic # ControllerTopic /\ topic # ThreadTopic(t)
      <4>1. \A u : topic = ThreadTopic(u) => SameAt(threads', threads, u)
        BY <3>3, <1>2, TopicsDiffer DEF SameAt
      <4>2. Published(topic)' = Published(topic)
        BY <4>1, <3>3, <2>2, <1>1, Unmoved DEF SameAt
      <4>3. m = <<>>
        BY <3>3, <2>3
      <4> QED BY <4>2, <4>3, TopicQuiet
    <3> QED BY <3>1, <3>2, <3>3
  <2> QED BY <2>1, <2>4, <2>5, <1>4, PublishTreats
<1>7. DOMAIN conn' = Clients
  BY <1>2
<1> QED BY <1>6, <1>7, EveryoneIsServed


\* The runs there are give the last of each.
LEMMA LastRunStays ==
  ASSUME DOMAIN runs' = DOMAIN runs
  PROVE  \A p : LastRun(p)' = LastRun(p)
<1>1. \A p : NumbersOf(p)' = NumbersOf(p)
  BY DEF NumbersOf
<1> QED BY <1>1, SameNumbers

\* A step that no subscriber sees.
LEMMA QuietServes ==
  ASSUME ClientsServed, Later, conn' = conn, controller' = controller,
         \A topic \in AllTopics : Published(topic) # {} => Published(topic)' = Published(topic)
  PROVE  ClientsServed'
<1>1. Running' <=> Running
  BY DEF Running
<1>2. ASSUME NEW c \in Clients PROVE IsTreated(c)
  <2>1. PICK topic : topic = conn[c].topic
    OBVIOUS
  <2>2. topic \in AllTopics /\ (conn[c].attached => Running /\ Published(topic) # {})
    BY <2>1, KnownClient DEF ClientServed
  <2>3. conn[c].attached => Running' /\ Published(topic)' = Published(topic)
    BY <2>2, <1>1
  <2> QED BY <2>1, <2>3, QuietTreats
<1>3. DOMAIN conn' = Clients
  BY DEF ClientsServed
<1> QED BY <1>2, <1>3, EveryoneIsServed

\* What the views show stays as it is.
LEMMA SameViews ==
  ASSUME UNCHANGED views
  PROVE  controller' = controller /\ \A topic : Published(topic)' = Published(topic)
<1>1. UNCHANGED <<controller, threads, checkpoints, processes>>
  BY DEF views
<1> QED BY <1>1 DEF Published

\* The operations on the view of a process.
LEMMA ProcessNewsFit ==
  ASSUME NEW s, NEW r, NEW news, news = OutputNews(s, r) \o StatusNews(s, r)
  PROVE  IsSeq(news) /\ \A i \in DOMAIN news : OpFits("process", news[i])
<1>1. PICK a : a = OutputNews(s, r)
  OBVIOUS
<1>2. PICK b : b = StatusNews(s, r)
  OBVIOUS
<1>3. IsSeq(a) /\ \A i \in DOMAIN a : OpFits("process", a[i])
  <2>1. PICK op : /\ op.op = "output"
                  /\ a = <<>> \/ a = <<op>>
    <3> DEFINE op == [op |-> "output",
                      content |-> SubSeq(r.tail, Overlap(s.tail, r.tail) + 1, Len(r.tail)),
                      truncate |-> Len(s.tail) - Overlap(s.tail, r.tail), omitted |-> r.omitted]
    <3>1. op.op = "output"
      OBVIOUS
    <3>2. a = <<>> \/ a = <<op>>
      BY <1>1 DEF OutputNews
    <3> QED BY <3>1, <3>2
  <2>2. OpFits("process", op)
    BY <2>1 DEF OpFits
  <2> QED BY <2>1, <2>2, OneOperation, NoOperation
<1>4. IsSeq(b) /\ \A i \in DOMAIN b : OpFits("process", b[i])
  <2>1. OpFits("process", [op |-> "status", status |-> r.status])
    BY DEF OpFits
  <2>2. b = <<>> \/ b = <<[op |-> "status", status |-> r.status]>>
    BY <1>2 DEF StatusNews
  <2> QED BY <2>1, <2>2, OneOperation, NoOperation
<1>5. /\ IsSeq(a \o b) /\ Len(a \o b) = Len(a) + Len(b)
      /\ \A i \in 1..Len(a) : (a \o b)[i] = a[i]
      /\ \A i \in 1..Len(b) : (a \o b)[Len(a) + i] = b[i]
  BY <1>3, <1>4, Concatenated
<1>6. news = a \o b
  BY <1>1, <1>2
<1>7. /\ Len(a) \in Nat /\ Len(b) \in Nat /\ DOMAIN a = 1..Len(a) /\ DOMAIN b = 1..Len(b)
      /\ DOMAIN news = 1..(Len(a) + Len(b))
  BY <1>3, <1>4, <1>5, <1>6, SeqHas
<1>8. ASSUME NEW i \in DOMAIN news PROVE OpFits("process", news[i])
  <2>1. CASE i <= Len(a)
    <3>1. i \in 1..Len(a)
      BY <2>1, <1>7
    <3> QED BY <3>1, <1>3, <1>5, <1>6, <1>7
  <2>2. CASE ~(i <= Len(a))
    <3>1. i - Len(a) \in 1..Len(b) /\ Len(a) + (i - Len(a)) = i
      BY <2>2, <1>7
    <3>2. news[i] = b[i - Len(a)]
      BY <3>1, <1>5, <1>6
    <3> QED BY <3>1, <3>2, <1>4, <1>7
  <2> QED BY <2>1, <2>2
<1> QED BY <1>5, <1>6, <1>8

\* The report of a watcher.
LEMMA SynchronizeServes ==
  ASSUME ServerFits, ClientsServed, NEW p, NEW n, NEW r, Synchronize(p, n, r)
  PROVE  ClientsServed'
<1> DEFINE t == ProcessThread
           known == Running /\ p \in DOMAIN processes /\ Loaded(t)
           news == OutputNews(processes[p], r) \o StatusNews(processes[p], r)
           summary == IF StatusNews(processes[p], r) = <<>> THEN <<>>
                      ELSE <<[op |-> "process", process |-> p, status |-> r.status]>>
           results == IF known THEN Applied("process", processes[p], news) ELSE {}
<1>1. runs' = [runs EXCEPT ![<<p, n>>].watched = results # {} /\ r.status = "running"]
      /\ UNCHANGED <<stored, issued, saved, active, records, steps>>
  BY DEF Synchronize
<1>2. results = {} => UNCHANGED <<views, conn>>
  BY DEF Synchronize
<1>3. results # {} =>
        /\ \E s \in results : processes' = [processes EXCEPT ![p] = s]
        /\ \E s \in Applied("thread", threads[t], summary) : threads' = [threads EXCEPT ![t] = s]
        /\ conn' = [c \in Clients |->
                      IF conn[c].attached
                      THEN [conn[c] EXCEPT !.queue = @ \o
                              CASE conn[c].topic = ProcessTopic(p) -> Operations(news)
                                [] conn[c].topic = ThreadTopic(t) -> Operations(summary)
                                [] OTHER -> <<>>]
                      ELSE conn[c]]
        /\ UNCHANGED <<controller, checkpoints>>
  BY DEF Synchronize, Publish
<1>4. known => results = Applied("process", processes[p], news)
  OBVIOUS
<1>5. ~known => results = {}
  OBVIOUS
<1>6. IsSeq(news) /\ \A i \in DOMAIN news : OpFits("process", news[i])
  BY ProcessNewsFit
<1>7. IsSeq(summary) /\ \A i \in DOMAIN summary : OpFits("thread", summary[i])
  <2>1. OpFits("thread", [op |-> "process", process |-> p, status |-> r.status])
    BY DEF OpFits, ThreadOps
  <2> QED BY <2>1, OneOperation, NoOperation
<1> HIDE DEF results, news, summary, t
<1>8. DOMAIN runs' = DOMAIN runs
  BY <1>1
<1>9. \A q : LastRun(q)' = LastRun(q)
  BY <1>8, LastRunStays
<1>a. CASE results = {}
  <2>1. UNCHANGED views /\ conn' = conn
    BY <1>a, <1>2
  <2>2. controller' = controller /\ \A topic : Published(topic)' = Published(topic)
    BY <2>1, SameViews
  <2>3. Later
    BY <2>2, <1>1, <1>9, LaterIs DEF Running
  <2> QED BY <2>1, <2>2, <2>3, QuietServes
<1>b. CASE results # {}
  <2>1. /\ Running /\ p \in DOMAIN processes /\ t \in DOMAIN threads
        /\ results = Applied("process", processes[p], news)
    BY <1>b, <1>4, <1>5 DEF Loaded
  <2> HIDE DEF known
  <2>2. PICK s \in results : processes' = [processes EXCEPT ![p] = s]
    BY <1>b, <1>3
  <2>3. PICK w \in Applied("thread", threads[t], summary) : threads' = [threads EXCEPT ![t] = w]
    BY <1>b, <1>3
  <2>4. UNCHANGED <<controller, checkpoints>>
    BY <1>b, <1>3
  <2>5. conn' = [c \in Clients |->
                      IF conn[c].attached
                      THEN [conn[c] EXCEPT !.queue = @ \o
                              CASE conn[c].topic = ProcessTopic(p) -> Operations(news)
                                [] conn[c].topic = ThreadTopic(t) -> Operations(summary)
                                [] OTHER -> <<>>]
                      ELSE conn[c]]
    BY <1>b, <1>3
  <2>6. Running' /\ Later
    BY <2>1, <2>4, <1>1, <1>9, LaterIs DEF Running
  <2>7. ThreadFits(threads[t])
    BY <2>1 DEF ServerFits, ThreadsFit
  <2>8. ASSUME NEW c \in Clients PROVE IsTreated(c)
    <3>1. PICK topic : topic = conn[c].topic
      OBVIOUS
    <3>2. topic \in AllTopics
      BY <3>1, KnownClient
    <3>3. PICK m : m = CASE topic = ProcessTopic(p) -> Operations(news)
                         [] topic = ThreadTopic(t) -> Operations(summary)
                         [] OTHER -> <<>>
      OBVIOUS
    <3>4. conn'[c] = IF conn[c].attached THEN [conn[c] EXCEPT !.queue = @ \o m] ELSE conn[c]
      BY <3>1, <3>3, <2>5
    <3>5. NewsFit(topic, m)
      <4>1. CASE topic = ProcessTopic(p)
        <5>1. topic.kind = "process" /\ Published(topic) = {processes[p]} /\ Published(topic)' = {s}
          BY <4>1, <2>1, <2>2, TopicsDiffer, PublishedProcess
        <5>2. StateFits(topic.kind, processes[p])
          BY <5>1 DEF StateFits
        <5>3. s \in Applied(topic.kind, processes[p], news)
          BY <5>1, <2>1, <2>2
        <5>4. NewsFit(topic, Operations(news))
          BY <5>1, <5>2, <5>3, <1>6, TopicHears
        <5>5. m = Operations(news)
          BY <4>1, <3>3, TopicsDiffer
        <5> QED BY <5>4, <5>5
      <4>2. CASE topic = ThreadTopic(t)
        <5>1. topic.kind = "thread" /\ Published(topic) = {threads[t]} /\ Published(topic)' = {w}
          BY <4>2, <2>1, <2>3, TopicsDiffer, PublishedThread
        <5>2. StateFits(topic.kind, threads[t])
          BY <5>1, <2>7 DEF StateFits
        <5>3. w \in Applied(topic.kind, threads[t], summary)
          BY <5>1, <2>3
        <5>4. NewsFit(topic, Operations(summary))
          BY <5>1, <5>2, <5>3, <1>7, TopicHears
        <5>5. m = Operations(summary)
          BY <4>2, <3>3, TopicsDiffer
        <5> QED BY <5>4, <5>5
      <4>3. CASE topic # ProcessTopic(p) /\ topic # ThreadTopic(t)
        <5>1. \A u : topic = ThreadTopic(u) => SameAt(threads', threads, u)
          BY <4>3, <2>3, TopicsDiffer DEF SameAt
        <5>2. \A u : topic = ProcessTopic(u) => SameAt(processes', processes, u)
          BY <4>3, <2>2, TopicsDiffer DEF SameAt
        <5>3. \A u : SameAt(checkpoints', checkpoints, u)
          BY <2>4 DEF SameAt
        <5>4. Published(topic)' = Published(topic)
          BY <5>1, <5>2, <5>3, <3>2, <2>4, Unmoved
        <5>5. m = <<>>
          BY <4>3, <3>3
        <5> QED BY <5>4, <5>5, TopicQuiet
      <4> QED BY <4>1, <4>2, <4>3
    <3> QED BY <3>1, <3>4, <3>5, <2>6, PublishTreats
  <2>9. DOMAIN conn' = Clients
    BY <2>5
  <2> QED BY <2>6, <2>8, <2>9, EveryoneIsServed
<1> QED BY <1>a, <1>b

\* A process registered: who watched the one before it hears no more.
LEMMA RegisterServes ==
  ASSUME ServerFits, ClientsServed, NEW p \in ProcessIds, Register(p)
  PROVE  ClientsServed'
<1> DEFINE t == ProcessThread
           v == [status |-> "running", tail |-> <<>>, omitted |-> 0, watched |-> TRUE]
           w == [status |-> "running", tail |-> <<>>, omitted |-> 0]
           op == [op |-> "process", process |-> p, status |-> "running"]
<1>1. /\ Running /\ t \in DOMAIN threads /\ LastRun(p) < MaxRuns
      /\ runs' = Upsert(runs, <<p, LastRun(p) + 1>>, v) /\ processes' = Upsert(processes, p, w)
      /\ UNCHANGED <<stored, issued, controller, checkpoints>>
  BY DEF Register, Loaded
<1>2. PICK s \in ThreadNext(threads[t], op) : threads' = [threads EXCEPT ![t] = s]
  BY DEF Register
<1>3. conn' = [c \in Clients |->
                 CASE conn[c].attached /\ conn[c].topic = ThreadTopic(t) ->
                        [conn[c] EXCEPT !.queue = Append(@, Operation(op))]
                   [] conn[c].attached /\ conn[c].topic = ProcessTopic(p) ->
                        [conn[c] EXCEPT !.attached = FALSE]
                   [] OTHER -> conn[c]]
  BY DEF Register
<1>4. v \in Runs
  BY DEF Runs
<1>5. OpFits("thread", op)
  BY DEF OpFits, ThreadOps
<1> HIDE DEF v, w, op, t
<1>0. RunsFit /\ ProcessesFit /\ ThreadFits(threads[t])
  BY <1>1 DEF ServerFits, ThreadsFit
<1>6. /\ LastRun(p)' = LastRun(p) + 1 /\ LastRun(p) \in Nat
      /\ \A q \in ProcessIds : q # p => LastRun(q)' = LastRun(q)
  BY <1>0, <1>1, <1>4, RunAdded, NumbersAre
<1>7. Running' /\ Later
  <2>1. \A q \in ProcessIds : LastRun(q) > 1 => LastRun(q)' > 1
    BY <1>6
  <2> QED BY <2>1, <1>1 DEF Later, Running
<1>8. p \in DOMAIN processes => LastRun(p)' > 1
  <2>1. p \in DOMAIN processes => LastRun(p) >= 1
    BY <1>0, RunsOf
  <2>2. \A x \in Nat : x >= 1 => x + 1 > 1
    OBVIOUS
  <2> QED BY <2>1, <2>2, <1>6
<1>9. ASSUME NEW c \in Clients PROVE IsTreated(c)
  <2>1. PICK topic : topic = conn[c].topic
    OBVIOUS
  <2>2. PICK k : k = conn[c]
    OBVIOUS
  <2>3. ClientFits(k) /\ ClientServed(k) /\ topic \in AllTopics /\ k.topic = topic
    BY <2>1, <2>2, KnownClient
  <2>4. CASE k.attached /\ topic = ThreadTopic(t)
    <3>1. PICK m : m = Operations(<<op>>)
      OBVIOUS
    <3>2. m = <<Operation(op)>>
      BY <3>1 DEF Operations
    <3>3. conn'[c] = [conn[c] EXCEPT !.queue = Append(@, Operation(op))]
      <4>1. conn[c].attached /\ conn[c].topic = ThreadTopic(t)
        BY <2>1, <2>2, <2>4
      <4> DEFINE grown == [conn[c] EXCEPT !.queue = Append(@, Operation(op))]
                 left == [conn[c] EXCEPT !.attached = FALSE]
      <4>2. conn'[c] = CASE conn[c].attached /\ conn[c].topic = ThreadTopic(t) -> grown
                         [] conn[c].attached /\ conn[c].topic = ProcessTopic(p) -> left
                         [] OTHER -> conn[c]
        BY <1>3
      <4>3. ThreadTopic(t) # ProcessTopic(p)
        BY TopicsDiffer
      <4> HIDE DEF grown, left
      <4>4. conn'[c] = grown
        BY <4>1, <4>2, <4>3
      <4> QED BY <4>4 DEF grown
    <3>4. IsSeq(conn[c].queue)
      BY <2>2, <2>3 DEF ClientFits, QueueFits
    <3>5. Append(conn[c].queue, Operation(op)) = conn[c].queue \o m
      <4>1. PICK S : conn[c].queue \in Seq(S)
        BY <3>4 DEF IsSeq
      <4> QED BY <4>1, <3>2
    <3>6. conn'[c] = [conn[c] EXCEPT !.queue = @ \o m]
      BY <3>3, <3>5
    <3>7. topic.kind = "thread" /\ Published(topic) = {threads[t]} /\ Published(topic)' = {s}
      BY <2>4, <1>1, <1>2, TopicsDiffer, PublishedThread
    <3>8. StateFits(topic.kind, threads[t])
      BY <3>7, <1>0 DEF StateFits
    <3>9. s \in Applied(topic.kind, threads[t], <<op>>)
      BY <3>7, <1>2, AppliedOne DEF StateNext
    <3>10. IsSeq(<<op>>) /\ \A i \in DOMAIN <<op>> : OpFits(topic.kind, <<op>>[i])
      BY <3>7, <1>5, OneOperation
    <3>11. NewsFit(topic, m)
      BY <3>1, <3>7, <3>8, <3>9, <3>10, TopicHears
    <3>12. conn'[c] = IF conn[c].attached THEN [conn[c] EXCEPT !.queue = @ \o m] ELSE conn[c]
      BY <3>6, <2>2, <2>4
    <3> QED BY <3>11, <3>12, <2>1, <1>7, PublishTreats
  <2>5. CASE k.attached /\ topic = ProcessTopic(p)
    <3>1. topic # ThreadTopic(t) /\ topic.kind = "process" /\ topic.id = p
      BY <2>5, TopicsDiffer
    <3>2. conn'[c] = [k EXCEPT !.attached = FALSE]
      BY <1>3, <2>1, <2>2, <2>5, <3>1
    <3>3. p \in DOMAIN processes
      BY <2>3, <2>5, PublishedProcess DEF ClientServed
    <3>4. conn'[c] = Grown(k, <<>>, FALSE)
      BY <3>2, <2>3, <2>5, GrownIs
    <3>5. LastRun(k.topic.id)' > 1
      BY <3>1, <3>3, <1>8, <2>3
    <3>6. ASSUME NEW l, l = conn'[c] PROVE Treated(k, l)
      BY <3>1, <3>4, <3>5, <3>6, <2>3, <2>5 DEF Treated, IsForgotten
    <3> QED BY <3>6, <2>2 DEF IsTreated
  <2>6. CASE ~k.attached \/ (topic # ThreadTopic(t) /\ topic # ProcessTopic(p))
    <3>1. conn'[c] = conn[c]
      BY <1>3, <2>1, <2>2, <2>6
    <3>2. ASSUME k.attached PROVE Published(topic)' = Published(topic)
      <4>1. \A u : topic = ThreadTopic(u) => SameAt(threads', threads, u)
        BY <3>2, <2>6, <1>2, TopicsDiffer DEF SameAt
      <4>2. \A u : topic = ProcessTopic(u) => SameAt(processes', processes, u)
        BY <3>2, <2>6, <1>1, TopicsDiffer DEF SameAt, Upsert
      <4>3. \A u : SameAt(checkpoints', checkpoints, u)
        BY <1>1 DEF SameAt
      <4> QED BY <4>1, <4>2, <4>3, <2>3, <1>1, Unmoved
    <3> QED BY <3>1, <3>2, <2>1, <2>2, <1>7, QuietTreats
  <2> QED BY <2>4, <2>5, <2>6
<1>10. DOMAIN conn' = Clients
  BY <1>3
<1> QED BY <1>7, <1>9, <1>10, EveryoneIsServed

\* Who is dismissed is told why; the others hear the news.
Dismissed(c, gone, m, why) ==
  /\ c \in Clients
  /\ conn'[c] = CASE ~conn[c].attached -> conn[c]
                  [] conn[c].attached /\ gone ->
                       [conn[c] EXCEPT !.queue = @ \o m \o <<Terminal(why)>>, !.attached = FALSE]
                  [] OTHER -> [conn[c] EXCEPT !.queue = @ \o m]

\* A dismissed client is treated as it should be: what it still gets ends with the reason.
LEMMA DismissTreats ==
  ASSUME ClientsServed, NEW c, NEW gone \in BOOLEAN, NEW m, NEW why, NEW topic, topic = conn[c].topic,
         Dismissed(c, gone, m, why), gone /\ conn[c].attached => LastNewsFit(topic, m, why),
         ~gone /\ conn[c].attached => NewsFit(topic, m) /\ Running'
  PROVE  IsTreated(c)
<1> SUFFICES ASSUME NEW k, NEW l, k = conn[c], l = conn'[c] PROVE Treated(k, l)
  BY DEF IsTreated
<1>1. ClientFits(k) /\ k.topic = topic
  BY KnownClient DEF Dismissed
<1>2. l = CASE ~k.attached -> k
            [] k.attached /\ gone -> [k EXCEPT !.queue = @ \o m \o <<Terminal(why)>>, !.attached = FALSE]
            [] OTHER -> [k EXCEPT !.queue = @ \o m]
  BY DEF Dismissed
<1>3. CASE k.attached /\ gone
  <2>1. l = [k EXCEPT !.queue = k.queue \o m \o <<Terminal(why)>>, !.attached = FALSE]
    BY <1>2, <1>3
  <2>2. LastNewsFit(topic, m, why) /\ IsSeq(m)
    BY <1>3 DEF LastNewsFit, Follow
  <2>3. PICK end : end = <<Terminal(why)>>
    OBVIOUS
  <2>4. k.queue \o m \o end = k.queue \o (m \o end)
    <3>1. IsSeq(k.queue) /\ IsSeq(m) /\ IsSeq(end)
      BY <1>1, <2>2, <2>3, Single DEF ClientFits, QueueFits
    <3>2. PICK q : q = k.queue
      OBVIOUS
    <3>3. IsSeq(q) /\ IsSeq(m) /\ IsSeq(end)
      BY <3>1, <3>2
    <3>4. (q \o m) \o end = q \o (m \o end)
      BY <3>3, Associative
    <3> QED BY <3>2, <3>4
  <2>5. l = [k EXCEPT !.queue = @ \o (m \o end), !.attached = FALSE]
    BY <2>1, <2>3, <2>4
  <2>6. l = Grown(k, m \o end, FALSE)
    BY <2>5, <1>1, <1>3, GrownIs
  <2>7. IsDismissed(k, l)
    BY <2>2, <2>3, <2>6, <1>1, <1>3 DEF IsDismissed
  <2> QED BY <2>7 DEF Treated
<1>4. CASE k.attached /\ ~gone
  <2>1. l = [k EXCEPT !.queue = @ \o m]
    BY <1>2, <1>4
  <2>2. l = Grown(k, m, TRUE)
    BY <2>1, <1>1, <1>4, GrownIs
  <2>3. Hears(k, l)
    BY <2>2, <1>1, <1>4 DEF Hears
  <2> QED BY <2>3 DEF Treated
<1>5. CASE ~k.attached
  BY <1>2, <1>5 DEF Treated, IsLeft
<1> QED BY <1>3, <1>4, <1>5

\* A topic that ends without news.
LEMMA EndsQuietly ==
  ASSUME NEW topic, NEW why \in {"deleted", "shutdown"}, why = "shutdown" => ~Running',
         why = "deleted" => Deleted(topic)'
  PROVE  LastNewsFit(topic, <<>>, why)
<1>1. Follow(topic.kind, <<>>) /\ \A i \in DOMAIN <<>> : <<>>[i].message # "terminal"
  BY None DEF Follow
<1> QED BY <1>1, ReceivedNone DEF LastNewsFit

\* A thread deleted.
LEMMA DeleteThreadServes ==
  ASSUME ServerFits, ClientsServed, NEW t, DeleteThread(t)
  PROVE  ClientsServed'
<1> DEFINE op == [op |-> "removed", id |-> t]
<1>1. /\ Running /\ t \in DOMAIN stored
      /\ stored' = Without(stored, {t})
      /\ controller' \in ControllerNext(controller, op)
      /\ threads' = Without(threads, {t})
      /\ checkpoints' = Without(checkpoints, {k \in DOMAIN checkpoints : checkpoints[k].thread = t})
      /\ processes' = IF t = ProcessThread THEN <<>> ELSE processes
      /\ issued' = issued /\ runs' = runs
  BY DEF DeleteThread
<1>2. conn' = [c \in Clients |->
                 CASE ~conn[c].attached -> conn[c]
                   [] conn[c].attached /\ OfThread(conn[c].topic, t) ->
                        [conn[c] EXCEPT !.queue = @ \o (IF conn[c].topic = ControllerTopic
                                                        THEN Operations(<<op>>) ELSE <<>>)
                                                    \o <<Terminal("deleted")>>,
                                        !.attached = FALSE]
                   [] OTHER -> [conn[c] EXCEPT !.queue = @ \o (IF conn[c].topic = ControllerTopic
                                                               THEN Operations(<<op>>) ELSE <<>>)]]
  BY DEF DeleteThread, Dismiss
<1>o. op.op = "removed" /\ op.id = t
  OBVIOUS
<1> HIDE DEF op
<1>3. ControllerFits(controller) /\ t \in issued
  BY <1>1 DEF ServerFits, StoreFits
<1>4. controller'.lifecycle = controller.lifecycle
  BY <1>1, <1>3, <1>o, RemovedThread
<1>5. /\ DOMAIN stored' = DOMAIN stored \ {t}
      /\ DOMAIN threads' = DOMAIN threads \ {t} /\ \A u \in DOMAIN threads' : threads'[u] = threads[u]
      /\ DOMAIN checkpoints' = {k \in DOMAIN checkpoints : checkpoints[k].thread # t}
      /\ \A k \in DOMAIN checkpoints' : checkpoints'[k] = checkpoints[k]
  BY <1>1 DEF Without
<1>6. Running' /\ Later
  <2>1. \A p : LastRun(p)' = LastRun(p)
    BY <1>1, LastRunStays
  <2>2. issued \ DOMAIN stored \subseteq issued' \ DOMAIN stored'
    BY <1>1, <1>5
  <2> QED BY <2>1, <2>2, <1>1, <1>4 DEF Later, Running
<1>7. t \in issued' \ DOMAIN stored'
  BY <1>1, <1>3, <1>5
<1>8. ASSUME NEW c \in Clients PROVE IsTreated(c)
  <2>1. PICK topic : topic = conn[c].topic
    OBVIOUS
  <2>2. topic \in AllTopics
    BY <2>1, KnownClient
  <2>3. PICK m : m = IF topic = ControllerTopic THEN Operations(<<op>>) ELSE <<>>
    OBVIOUS
  <2>4. PICK gone \in BOOLEAN : gone <=> OfThread(topic, t)
    OBVIOUS
  <2>5. Dismissed(c, gone, m, "deleted")
    <3>1. conn'[c] = CASE ~conn[c].attached -> conn[c]
                       [] conn[c].attached /\ OfThread(topic, t) ->
                            [conn[c] EXCEPT !.queue = @ \o m \o <<Terminal("deleted")>>, !.attached = FALSE]
                       [] OTHER -> [conn[c] EXCEPT !.queue = @ \o m]
      BY <2>1, <2>3, <1>2
    <3> QED BY <3>1, <2>4 DEF Dismissed
  <2>6. CASE topic = ControllerTopic
    <3>1. topic.kind = "controller" /\ Published(topic) = {controller} /\ Published(topic)' = {controller'}
      BY <2>6, TopicsDiffer, PublishedController
    <3>2. StateFits(topic.kind, controller)
      BY <3>1, <1>3 DEF StateFits
    <3>3. controller' \in Applied(topic.kind, controller, <<op>>)
      BY <3>1, <1>1, AppliedOne DEF StateNext
    <3>4. OpFits(topic.kind, op)
      BY <3>1, <1>o DEF OpFits, ControllerOps
    <3>5. IsSeq(<<op>>) /\ \A i \in DOMAIN <<op>> : OpFits(topic.kind, <<op>>[i])
      BY <3>4, OneOperation
    <3>6. NewsFit(topic, m)
      <4>1. NewsFit(topic, Operations(<<op>>))
        BY <3>1, <3>2, <3>3, <3>5, TopicHears
      <4> QED BY <4>1, <2>3, <2>6
    <3>7. ~gone
      BY <3>1, <2>4 DEF OfThread
    <3> QED BY <3>6, <3>7, <2>1, <2>5, <1>6, DismissTreats
  <2>7. CASE topic # ControllerTopic
    <3>m. m = <<>>
      BY <2>3, <2>7
    <3>1. ASSUME gone PROVE Deleted(topic)'
      <4>1. OfThread(topic, t)
        BY <3>1, <2>4
      <4>2. CASE topic.kind = "thread"
        <5>1. topic.id = t
          BY <4>1, <4>2 DEF OfThread
        <5> QED BY <5>1, <4>2, <1>7 DEF Deleted
      <4>3. CASE topic.kind = "checkpoint"
        BY <4>3, <1>7 DEF Deleted
      <4>4. CASE topic.kind = "process"
        <5>1. t = ProcessThread
          BY <4>1, <4>4 DEF OfThread
        <5> QED BY <5>1, <4>4, <1>7 DEF Deleted
      <4>5. topic.kind \in {"thread", "checkpoint", "process"}
        BY <2>2, <2>7, TopicsAre, TopicsDiffer
      <4> QED BY <4>2, <4>3, <4>4, <4>5
    <3>2. ASSUME ~gone PROVE Published(topic)' = Published(topic)
      <4>0. ~OfThread(topic, t)
        BY <3>2, <2>4
      <4>1. ASSUME NEW u, topic = ThreadTopic(u) PROVE SameAt(threads', threads, u)
        <5>1. u # t
          BY <4>0, <4>1, TopicsDiffer DEF OfThread
        <5> QED BY <5>1, <1>5 DEF SameAt
      <4>2. ASSUME NEW k, topic = CheckpointTopic(k) PROVE SameAt(checkpoints', checkpoints, k)
        <5>1. ~(k \in DOMAIN checkpoints /\ checkpoints[k].thread = t)
          <6>1. topic.kind = "checkpoint" /\ topic.id = k
            BY <4>2, TopicsDiffer
          <6> QED BY <6>1, <4>0 DEF OfThread
        <5> QED BY <5>1, <1>5 DEF SameAt
      <4>3. ASSUME NEW p, topic = ProcessTopic(p) PROVE SameAt(processes', processes, p)
        <5>1. ~(p \in DOMAIN processes /\ t = ProcessThread)
          <6>1. topic.kind = "process" /\ topic.id = p
            BY <4>3, TopicsDiffer
          <6> QED BY <6>1, <4>0 DEF OfThread
        <5>2. CASE t = ProcessThread
          <6>1. processes' = <<>> /\ p \notin DOMAIN processes
            BY <5>1, <5>2, <1>1
          <6> QED BY <6>1, None DEF SameAt
        <5>3. CASE t # ProcessThread
          BY <5>3, <1>1 DEF SameAt
        <5> QED BY <5>2, <5>3
      <4> QED BY <4>1, <4>2, <4>3, <2>2, <2>7, Unmoved
    <3>3. gone => LastNewsFit(topic, m, "deleted")
      BY <3>1, <3>m, EndsQuietly
    <3>4. ~gone => NewsFit(topic, m)
      BY <3>2, <3>m, TopicQuiet
    <3> QED BY <3>3, <3>4, <2>1, <2>5, <1>6, DismissTreats
  <2> QED BY <2>6, <2>7
<1>9. DOMAIN conn' = Clients
  BY <1>2
<1> QED BY <1>6, <1>8, <1>9, EveryoneIsServed

\* The end of the Controller.
LEMMA ShutDownServes ==
  ASSUME ServerFits, ClientsServed, ShutDown
  PROVE  ClientsServed'
<1> DEFINE op == [op |-> "lifecycle", lifecycle |-> "stopping"]
<1>1. /\ Running /\ controller' = [controller EXCEPT !.lifecycle = "stopping"]
      /\ UNCHANGED <<world, steps>>
  BY DEF ShutDown
<1>2. conn' = [c \in Clients |->
                 CASE ~conn[c].attached -> conn[c]
                   [] conn[c].attached /\ TRUE ->
                        [conn[c] EXCEPT !.queue = @ \o (IF conn[c].topic = ControllerTopic
                                                        THEN Operations(<<op>>) ELSE <<>>)
                                                    \o <<Terminal("shutdown")>>,
                                        !.attached = FALSE]
                   [] OTHER -> [conn[c] EXCEPT !.queue = @ \o (IF conn[c].topic = ControllerTopic
                                                               THEN Operations(<<op>>) ELSE <<>>)]]
  BY DEF ShutDown, Dismiss
<1>o. op.op = "lifecycle" /\ op.lifecycle = "stopping"
  OBVIOUS
<1> HIDE DEF op
<1>3. ControllerFits(controller)
  BY DEF ServerFits
<1>4. ~Running'
  BY <1>1, <1>3 DEF ControllerFits, IsController, Running
<1>5. Later
  <2>1. \A p : LastRun(p)' = LastRun(p)
    BY <1>1, LastRunStays DEF world
  <2>2. issued' = issued /\ stored' = stored
    BY <1>1 DEF world
  <2> QED BY <2>1, <2>2, <1>4, LaterIs
<1>6. ASSUME NEW c \in Clients PROVE IsTreated(c)
  <2>1. PICK topic : topic = conn[c].topic
    OBVIOUS
  <2>3. PICK m : m = IF topic = ControllerTopic THEN Operations(<<op>>) ELSE <<>>
    OBVIOUS
  <2>5. Dismissed(c, TRUE, m, "shutdown")
    <3>1. conn'[c] = CASE ~conn[c].attached -> conn[c]
                       [] conn[c].attached /\ TRUE ->
                            [conn[c] EXCEPT !.queue = @ \o m \o <<Terminal("shutdown")>>, !.attached = FALSE]
                       [] OTHER -> [conn[c] EXCEPT !.queue = @ \o m]
      BY <2>1, <2>3, <1>2
    <3> QED BY <3>1 DEF Dismissed
  <2>6. LastNewsFit(topic, m, "shutdown")
    <3>1. CASE topic = ControllerTopic
      <4>1. topic.kind = "controller" /\ Published(topic) = {controller} /\ m = Operations(<<op>>)
        BY <3>1, <2>3, TopicsDiffer, PublishedController
      <4>2. OpFits(topic.kind, op)
        BY <4>1, <1>o DEF OpFits, ControllerOps
      <4>3. IsSeq(<<op>>) /\ \A i \in DOMAIN <<op>> : OpFits(topic.kind, <<op>>[i])
        BY <4>2, OneOperation
      <4>4. Follow(topic.kind, m) /\ \A i \in DOMAIN m : m[i].message # "terminal"
        BY <4>1, <4>3, NewsFollow
      <4>5. Applied(topic.kind, controller, <<op>>) = StateNext(topic.kind, controller, op)
        BY AppliedOne
      <4>6. StateNext(topic.kind, controller, op) = {[controller EXCEPT !.lifecycle = op.lifecycle]}
        BY <4>1, <1>o DEF StateNext, ControllerNext
      <4>7. Received(topic.kind, Published(topic), m) = Applied(topic.kind, controller, <<op>>)
        BY <4>1 DEF Applied
      <4>8. Received(topic.kind, Published(topic), m) # {}
        BY <4>5, <4>6, <4>7
      <4> QED BY <4>4, <4>8, <1>4 DEF LastNewsFit
    <3>2. CASE topic # ControllerTopic
      <4>1. m = <<>>
        BY <3>2, <2>3
      <4> QED BY <4>1, <1>4, EndsQuietly
    <3> QED BY <3>1, <3>2
  <2> QED BY <2>1, <2>5, <2>6, DismissTreats
<1>7. DOMAIN conn' = Clients
  BY <1>2
<1> QED BY <1>5, <1>6, <1>7, EveryoneIsServed

\* What a turn shows of itself are operations on its thread.
LEMMA ChangeOperation ==
  ASSUME NEW t, ChangeTurn(t)
  PROVE  \E op : op.op \in ThreadOps /\ ApplyThread(t, op)
<1>1. CASE \E phase \in {"running", "compacting", "cancelling"} :
             ApplyThread(t, [op |-> "phase", phase |-> phase])
  <2>1. PICK phase : ApplyThread(t, [op |-> "phase", phase |-> phase])
    BY <1>1
  <2>2. [op |-> "phase", phase |-> phase].op \in ThreadOps
    BY DEF ThreadOps, TurnOps
  <2> QED BY <2>1, <2>2
<1>2. CASE ApplyThread(t, [op |-> "retry", retry |-> 1])
  <2>1. [op |-> "retry", retry |-> 1].op \in ThreadOps
    BY DEF ThreadOps, TurnOps
  <2> QED BY <1>2, <2>1
<1>3. CASE \E kind \in {"questions", "approval"} :
             ApplyThread(t, [op |-> "requested", interaction |-> [kind |-> kind, id |-> steps]])
  <2>1. PICK kind : ApplyThread(t, [op |-> "requested", interaction |-> [kind |-> kind, id |-> steps]])
    BY <1>3
  <2>2. [op |-> "requested", interaction |-> [kind |-> kind, id |-> steps]].op \in ThreadOps
    BY DEF ThreadOps, TurnOps
  <2> QED BY <2>1, <2>2
<1>4. CASE Loaded(t) /\ \E turn \in threads[t].turn : \E p \in turn.pending :
             ApplyThread(t, [op |-> "resolved", id |-> p.id])
  <2>1. PICK id : ApplyThread(t, [op |-> "resolved", id |-> id])
    BY <1>4
  <2>2. [op |-> "resolved", id |-> id].op \in ThreadOps
    BY DEF ThreadOps, TurnOps
  <2> QED BY <2>1, <2>2
<1> QED BY <1>1, <1>2, <1>3, <1>4 DEF ChangeTurn

-----------------------------------------------------------------------------
(* The steps of the Controller.                                            *)

\* A thread created.
LEMMA CreateThreadServes ==
  ASSUME ServerFits, ClientsServed, NEW t, NEW events, CreateThread(t, events)
  PROVE  ClientsServed'
<1> DEFINE op == [op |-> "added", thread |-> [id |-> t, title |-> 0]]
<1>1. /\ Running /\ t \notin issued /\ issued' = issued \cup {t}
      /\ stored' = Upsert(stored, t, NewRow(events))
      /\ ApplyController(op) /\ runs' = runs
  BY DEF CreateThread
<1>o. op.op = "added"
  OBVIOUS
<1> HIDE DEF op
<1>2. DOMAIN stored' = DOMAIN stored \cup {t}
  BY <1>1 DEF Upsert
<1>3. issued \ DOMAIN stored \subseteq issued' \ DOMAIN stored'
  BY <1>1, <1>2
<1>4. \A p : LastRun(p)' = LastRun(p)
  BY <1>1, LastRunStays
<1>5. Later
  BY <1>1, <1>3, <1>4 DEF Later
<1> QED BY <1>1, <1>o, <1>5, ControllerServes

\* A step that takes nothing back.
LEMMA StepLater ==
  ASSUME Running, issued' = issued, DOMAIN stored' = DOMAIN stored, runs' = runs
  PROVE  Later
<1>1. \A p : LastRun(p)' = LastRun(p)
  BY LastRunStays
<1> QED BY <1>1, LaterIs

\* A thread that is loaded changes nothing that is published.
LEMMA MaterializeKeeps ==
  ASSUME NEW t, Materialize(t), UNCHANGED <<controller, checkpoints, processes>>,
         NEW topic \in AllTopics, Published(topic) # {}
  PROVE  Published(topic)' = Published(topic)
<1>1. \A u \in DOMAIN threads : u \in DOMAIN threads' /\ threads'[u] = threads[u]
  BY DEF Materialize, Upsert, Loaded
<1>2. ASSUME NEW u, topic = ThreadTopic(u) PROVE SameAt(threads', threads, u)
  <2>1. u \in DOMAIN threads
    BY <1>2, PublishedThread
  <2> QED BY <2>1, <1>1 DEF SameAt
<1>3. \A u : SameAt(checkpoints', checkpoints, u) /\ SameAt(processes', processes, u)
  BY DEF SameAt
<1> QED BY <1>2, <1>3, Unmoved

\* A thread loaded.
LEMMA MaterializeServes ==
  ASSUME ClientsServed, Running, NEW t, Materialize(t),
         UNCHANGED <<stored, issued, runs, controller, checkpoints, processes, conn>>
  PROVE  ClientsServed'
<1>1. Later
  BY StepLater
<1>2. \A topic \in AllTopics : Published(topic) # {} => Published(topic)' = Published(topic)
  BY MaterializeKeeps
<1> QED BY <1>1, <1>2, QuietServes

\* The metadata of a thread.
LEMMA EntitleServes ==
  ASSUME ServerFits, ClientsServed, NEW t, NEW title, Entitle(t, title)
  PROVE  ClientsServed'
<1> DEFINE metadata == [id |-> t, title |-> title]
           op == [op |-> "metadata", metadata |-> metadata]
<1>1. /\ stored' = [stored EXCEPT ![t].title = title, ![t].shown = title] /\ ApplyBoth(t, metadata, <<op>>)
      /\ issued' = issued /\ runs' = runs
  BY DEF Entitle
<1>2. OpFits("thread", op)
  BY DEF OpFits, ThreadOps
<1> HIDE DEF op, metadata
<1>3. Running /\ DOMAIN stored' = DOMAIN stored
  BY <1>1 DEF ApplyBoth
<1>4. Later
  BY <1>1, <1>3, StepLater
<1>5. IsSeq(<<op>>) /\ \A i \in DOMAIN <<op>> : OpFits("thread", <<op>>[i])
  BY <1>2, OneOperation
<1> QED BY <1>1, <1>4, <1>5, BothServes

\* The history of a thread.
LEMMA ReplaceHistoryServes ==
  ASSUME ServerFits, ClientsServed, NEW t, NEW k, ReplaceHistory(t, k)
  PROVE  ClientsServed'
<1>1. issued' = issued /\ runs' = runs
  BY DEF ReplaceHistory
<1>2. PICK events : /\ stored' = [stored EXCEPT ![t].events = events, ![t].unseen = {},
                                                ![t].shown = stored[t].title]
                    /\ ApplyBoth(t, Metadata(t), <<[op |-> "metadata", metadata |-> Metadata(t)],
                                                   [op |-> "replaced", events |-> events],
                                                   [op |-> "checkpoint", checkpoint |-> k]>>)
  BY DEF ReplaceHistory
<1> DEFINE a == [op |-> "metadata", metadata |-> Metadata(t)]
           b == [op |-> "replaced", events |-> events]
           c == [op |-> "checkpoint", checkpoint |-> k]
           ops == <<a, b, c>>
<1>3. ApplyBoth(t, Metadata(t), ops)
  BY <1>2
<1>4. OpFits("thread", a) /\ OpFits("thread", b) /\ OpFits("thread", c)
  BY DEF OpFits, ThreadOps
<1> HIDE DEF a, b, c
<1>5. ops \in Seq({a, b, c}) /\ Len(ops) = 3 /\ ops[1] = a /\ ops[2] = b /\ ops[3] = c
  OBVIOUS
<1> HIDE DEF ops
<1>6. IsSeq(ops) /\ DOMAIN ops = 1..3
  BY <1>5, SeqIs
<1>7. \A i \in DOMAIN ops : OpFits("thread", ops[i])
  <2>1. \A i \in DOMAIN ops : i = 1 \/ i = 2 \/ i = 3
    BY <1>6
  <2> QED BY <2>1, <1>4, <1>5
<1>8. Running /\ DOMAIN stored' = DOMAIN stored
  BY <1>2, <1>3 DEF ApplyBoth
<1>9. Later
  BY <1>1, <1>8, StepLater
<1>10. ClientsServed'
  <2>1. PICK metadata : ApplyBoth(t, metadata, ops)
    BY <1>3
  <2> QED BY <2>1, <1>6, <1>7, <1>9, BothServes
<1> QED BY <1>10

\* The steps of a turn, and a checkpoint of a thread.
LEMMA TurnsServe ==
  ASSUME ServerFits, ClientsServed, NEW t,
         \/ BeginTurn(t) \/ ShowTurn(t) \/ AbandonTurn(t) \/ AppendEvent(t) \/ ChangeTurn(t) \/ FinishTurn(t)
         \/ NameThread(t) \/ SaveUnseen(t)
         \/ \E k \in CheckpointIds : CreateCheckpoint(t, k)
  PROVE  ClientsServed'
<1>1. CASE BeginTurn(t)
  BY <1>1, MaterializeServes DEF BeginTurn
<1>2. CASE AbandonTurn(t) \/ SaveUnseen(t)
  <2>1. UNCHANGED views /\ UNCHANGED <<issued, runs, conn>> /\ DOMAIN stored' = DOMAIN stored
    BY <1>2 DEF AbandonTurn, SaveUnseen
  <2>2. controller' = controller /\ \A topic : Published(topic)' = Published(topic)
    BY <2>1, SameViews
  <2>3. \A p : LastRun(p)' = LastRun(p)
    BY <2>1, LastRunStays
  <2>4. Later
    BY <2>1, <2>2, <2>3, LaterIs DEF Running
  <2> QED BY <2>1, <2>2, <2>4, QuietServes
<1>3. ASSUME \E op : op.op \in ThreadOps /\ ApplyThread(t, op),
             issued' = issued, DOMAIN stored' = DOMAIN stored, runs' = runs
      PROVE  ClientsServed'
  <2>1. PICK op : op.op \in ThreadOps /\ ApplyThread(t, op)
    BY <1>3
  <2>2. Running
    BY <2>1 DEF ApplyThread
  <2>3. Later
    BY <1>3, <2>2, StepLater
  <2> QED BY <2>1, <2>3, ThreadServes
<1>4. CASE ShowTurn(t)
  <2>1. PICK phase : ApplyThread(t, [op |-> "started", phase |-> phase])
    BY <1>4 DEF ShowTurn
  <2>2. [op |-> "started", phase |-> phase].op \in ThreadOps
    BY DEF ThreadOps, TurnOps
  <2> QED BY <1>3, <1>4, <2>1, <2>2 DEF ShowTurn, world
<1>5. CASE AppendEvent(t)
  <2>1. PICK event : ApplyThread(t, [op |-> "event", event |-> event])
    BY <1>5 DEF AppendEvent
  <2>2. [op |-> "event", event |-> event].op \in ThreadOps
    BY DEF ThreadOps
  <2>3. issued' = issued /\ runs' = runs /\ DOMAIN stored' = DOMAIN stored
    BY <1>5 DEF AppendEvent
  <2> QED BY <1>3, <2>1, <2>2, <2>3
<1>6. CASE ChangeTurn(t)
  <2>1. PICK op : op.op \in ThreadOps /\ ApplyThread(t, op)
    BY <1>6, ChangeOperation
  <2> QED BY <1>3, <1>6, <2>1 DEF ChangeTurn, world
<1>7. CASE FinishTurn(t)
  <2>1. PICK outcome : ApplyThread(t, [op |-> "finished", outcome |-> outcome])
    BY <1>7 DEF FinishTurn
  <2>2. [op |-> "finished", outcome |-> outcome].op \in ThreadOps
    BY DEF ThreadOps, TurnOps
  <2> QED BY <1>3, <1>7, <2>1, <2>2 DEF FinishTurn
<1>8. CASE \E k \in CheckpointIds : CreateCheckpoint(t, k)
  <2>1. PICK k \in CheckpointIds : CreateCheckpoint(t, k)
    BY <1>8
  <2>2. ApplyThread(t, [op |-> "checkpoint", checkpoint |-> k])
    BY <2>1 DEF CreateCheckpoint
  <2>3. [op |-> "checkpoint", checkpoint |-> k].op \in ThreadOps
    BY DEF ThreadOps
  <2> QED BY <1>3, <2>1, <2>2, <2>3 DEF CreateCheckpoint
<1>9. CASE NameThread(t)
  BY <1>9, EntitleServes DEF NameThread
<1> QED BY <1>1, <1>2, <1>4, <1>5, <1>6, <1>7, <1>8, <1>9

\* Providers and Runners, in the view of the Controller.
LEMMA OthersServe ==
  ASSUME ServerFits, ClientsServed, StartProvider("provider") \/ EndProvider("provider")
                                    \/ LaunchRunner("runner") \/ ShowRunner("runner")
  PROVE  ClientsServed'
<1>1. UNCHANGED world
  BY DEF StartProvider, EndProvider, LaunchRunner, ShowRunner
<1>2. PICK op : op.op \in {"provider", "runner"} /\ ApplyController(op)
  <2>1. CASE StartProvider("provider")
    <3>1. PICK lifecycle :
            ApplyController([op |-> "provider", id |-> "provider", provider |-> [lifecycle |-> lifecycle]])
      BY <2>1 DEF StartProvider
    <3>2. [op |-> "provider", id |-> "provider", provider |-> [lifecycle |-> lifecycle]].op = "provider"
      OBVIOUS
    <3> QED BY <3>1, <3>2
  <2>2. CASE EndProvider("provider")
    <3>1. PICK lifecycle :
            ApplyController([op |-> "provider", id |-> "provider", provider |-> [lifecycle |-> lifecycle]])
      BY <2>2 DEF EndProvider
    <3>2. [op |-> "provider", id |-> "provider", provider |-> [lifecycle |-> lifecycle]].op = "provider"
      OBVIOUS
    <3> QED BY <3>1, <3>2
  <2>3. CASE LaunchRunner("runner")
    <3>1. ApplyController([op |-> "runner", name |-> "runner", runner |-> "launching"])
      BY <2>3 DEF LaunchRunner
    <3>2. [op |-> "runner", name |-> "runner", runner |-> "launching"].op = "runner"
      OBVIOUS
    <3> QED BY <3>1, <3>2
  <2>4. CASE ShowRunner("runner")
    <3>1. PICK lifecycle : ApplyController([op |-> "runner", name |-> "runner", runner |-> lifecycle])
      BY <2>4 DEF ShowRunner
    <3>2. [op |-> "runner", name |-> "runner", runner |-> lifecycle].op = "runner"
      OBVIOUS
    <3> QED BY <3>1, <3>2
  <2> QED BY <2>1, <2>2, <2>3, <2>4
<1>3. Running
  BY <1>2 DEF ApplyController
<1>4. Later
  BY <1>1, <1>3, StepLater DEF world
<1> QED BY <1>2, <1>4, ControllerServes

\* What happens to a process and is not shown yet.
LEMMA HiddenServes ==
  ASSUME ServerFits, ClientsServed, NEW p, StopProcess(p) \/ \E n \in 1..MaxRuns : Produce(p, n)
  PROVE  ClientsServed'
<1>1. UNCHANGED views /\ UNCHANGED <<stored, issued, conn>>
  BY DEF StopProcess, Produce
<1>2. DOMAIN runs' = DOMAIN runs
  <2>1. CASE StopProcess(p)
    BY <2>1 DEF StopProcess
  <2>2. ASSUME NEW n \in 1..MaxRuns, Produce(p, n) PROVE DOMAIN runs' = DOMAIN runs
    BY <2>2 DEF Produce
  <2> QED BY <2>1, <2>2
<1>3. controller' = controller /\ \A topic : Published(topic)' = Published(topic)
  BY <1>1, SameViews
<1>4. \A q : LastRun(q)' = LastRun(q)
  BY <1>2, LastRunStays
<1>5. Later
  BY <1>1, <1>3, <1>4, LaterIs DEF Running
<1> QED BY <1>1, <1>3, <1>5, QuietServes

\* Whatever the Controller does, the clients are served.
LEMMA ChangeServes ==
  ASSUME ServerFits, ClientsServed, Change
  PROVE  ClientsServed'
<1>1. ASSUME NEW t \in ThreadIds,
             \/ CreateThread(t, <<>>) \/ LoadThread(t) \/ UpdateMetadata(t) \/ DeleteThread(t)
             \/ BeginTurn(t) \/ ShowTurn(t) \/ AbandonTurn(t) \/ AppendEvent(t) \/ ChangeTurn(t)
             \/ FinishTurn(t) \/ NameThread(t) \/ SaveUnseen(t)
             \/ \E of \in ThreadIds : ForkThread(t, of)
             \/ \E k \in CheckpointIds : CreateCheckpoint(t, k) \/ ReplaceHistory(t, k)
      PROVE  ClientsServed'
  <2>1. CASE CreateThread(t, <<>>)
    BY <2>1, CreateThreadServes
  <2>2. CASE LoadThread(t)
    <3>1. Running /\ UNCHANGED <<stored, issued, runs, controller, checkpoints, processes, conn>>
      BY <2>2 DEF LoadThread, world
    <3> QED BY <3>1, <2>2, MaterializeServes DEF LoadThread
  <2>3. CASE UpdateMetadata(t)
    BY <2>3, EntitleServes DEF UpdateMetadata
  <2>4. CASE DeleteThread(t)
    BY <2>4, DeleteThreadServes
  <2>5. CASE \/ BeginTurn(t) \/ ShowTurn(t) \/ AbandonTurn(t) \/ AppendEvent(t) \/ ChangeTurn(t) \/ FinishTurn(t)
             \/ NameThread(t) \/ SaveUnseen(t)
    BY <2>5, TurnsServe
  <2>6. CASE \E of \in ThreadIds : ForkThread(t, of)
    <3>1. PICK events : CreateThread(t, events)
      BY <2>6 DEF ForkThread
    <3> QED BY <3>1, CreateThreadServes
  <2>7. CASE \E k \in CheckpointIds : CreateCheckpoint(t, k)
    BY <2>7, TurnsServe
  <2>8. CASE \E k \in CheckpointIds : ReplaceHistory(t, k)
    BY <2>8, ReplaceHistoryServes
  <2> QED BY <1>1, <2>1, <2>2, <2>3, <2>4, <2>5, <2>6, <2>7, <2>8
<1>2. ASSUME NEW p \in ProcessIds,
             \/ Register(p) \/ StopProcess(p)
             \/ \E n \in 1..MaxRuns : Produce(p, n) \/ Watch(p, n) \/ LoseWatch(p, n)
      PROVE  ClientsServed'
  <2>1. CASE Register(p)
    BY <2>1, RegisterServes
  <2>2. CASE StopProcess(p) \/ \E n \in 1..MaxRuns : Produce(p, n)
    BY <2>2, HiddenServes
  <2>3. ASSUME NEW n \in 1..MaxRuns, Watch(p, n) \/ LoseWatch(p, n) PROVE ClientsServed'
    <3>1. \E r : Synchronize(p, n, r)
      BY <2>3 DEF Watch, LoseWatch
    <3> QED BY <3>1, SynchronizeServes
  <2> QED BY <1>2, <2>1, <2>2, <2>3
<1>3. CASE StartProvider("provider") \/ EndProvider("provider") \/ LaunchRunner("runner") \/ ShowRunner("runner")
  BY <1>3, OthersServe
<1>4. CASE ShutDown
  BY <1>4, ShutDownServes
<1> QED BY <1>1, <1>2, <1>3, <1>4 DEF Change

-----------------------------------------------------------------------------
(* The steps of the clients.                                               *)

\* A client that became what may be, while what is published stays.
LEMMA OwnStep ==
  ASSUME ClientsServed, Later, controller' = controller,
         \A topic \in AllTopics : Published(topic) # {} => Published(topic)' = Published(topic),
         NEW c \in Clients, NEW new, conn' = [conn EXCEPT ![c] = new], ClientFits(new), ClientServed(new)
  PROVE  ClientsServed'
<1>0. DOMAIN conn = Clients
  BY DEF ClientsServed
<1>1. DOMAIN conn' = Clients /\ conn'[c] = new /\ \A d \in Clients : d # c => conn'[d] = conn[d]
  BY <1>0
<1>2. Running' <=> Running
  BY DEF Running
<1>3. ASSUME NEW d \in Clients, d # c PROVE IsTreated(d)
  <2>1. PICK topic : topic = conn[d].topic
    OBVIOUS
  <2>2. topic \in AllTopics /\ (conn[d].attached => Running /\ Published(topic) # {})
    BY <2>1, KnownClient DEF ClientServed
  <2>3. conn[d].attached => Running' /\ Published(topic)' = Published(topic)
    BY <2>2, <1>2
  <2> QED BY <2>1, <2>3, <1>1, <1>3, QuietTreats
<1>4. Served(c)'
  <2>1. new.topic \in AllTopics
    BY DEF ClientFits
  <2>2. new.attached => Running' /\ Published(new.topic)' = Published(new.topic)
    BY <2>1, <1>2 DEF ClientServed
  <2>3. IsLeft(new, new)
    BY <2>2 DEF IsLeft
  <2>4. ClientServed(new)'
    BY <2>3, LeftIsServed
  <2> QED BY <2>4, <1>1 DEF Served
<1> QED BY <1>1, <1>3, <1>4, EveryoneIsServed

\* A step of a client's alone.
LEMMA CalmStep ==
  ASSUME ClientsServed, UNCHANGED <<world, views>>,
         NEW c \in Clients, NEW new, conn' = [conn EXCEPT ![c] = new], ClientFits(new), ClientServed(new)
  PROVE  ClientsServed'
<1>1. controller' = controller /\ \A topic : Published(topic)' = Published(topic)
  BY SameViews
<1>2. stored' = stored /\ issued' = issued /\ runs' = runs
  BY DEF world
<1>3. \A p : LastRun(p)' = LastRun(p)
  BY <1>2, LastRunStays
<1>4. Later
  BY <1>1, <1>2, <1>3, LaterIs DEF Running
<1> QED BY <1>1, <1>4, OwnStep

\* A client that was sent nothing yet.
LEMMA Waiting ==
  ASSUME NEW k, IsClient(k), k.pc \in {"idle", "asked", "loaded"}, k.topic \in AllTopics, k.queue = <<>>,
         k.attached = FALSE, k.replica = {}, k.end = "none"
  PROVE  ClientFits(k) /\ ClientServed(k)
<1>1. QueueFits(k) /\ StatesFit(k.topic.kind, k.replica)
  BY None DEF QueueFits, StatesFit, AtMostOne
<1>2. ~Started(k)
  BY DEF Started
<1>3. ClientFits(k)
  BY <1>1, <1>2 DEF ClientFits
<1>4. \A why : why \notin Reasons(k)
  BY ReasonsAre, None DEF Says
<1> QED BY <1>3, <1>4 DEF ClientServed

\* A client that was refused.
LEMMA Refused ==
  ASSUME NEW k, IsClient(k), k.pc = "open", k.topic \in AllTopics, k.queue = <<Terminal("error")>>,
         k.attached = FALSE, k.replica = {}, k.end = "none"
  PROVE  ClientFits(k) /\ ClientServed(k)
<1> DEFINE m == Terminal("error")
<1>1. m.message = "terminal" /\ m.why = "error"
  BY DEF Terminal
<1>2. k.queue = <<m>>
  OBVIOUS
<1> HIDE DEF m
<1>3. IsSeq(k.queue) /\ Len(k.queue) = 1 /\ k.queue[1] = m
  BY <1>2, Single
<1>4. DOMAIN k.queue = 1..1 /\ k.queue # <<>>
  BY <1>3, SeqHas, None
<1>5. MessageFits(k.topic.kind, m)
  BY <1>1 DEF MessageFits
<1>6. QueueFits(k)
  BY <1>1, <1>3, <1>4, <1>5 DEF QueueFits
<1>7. StatesFit(k.topic.kind, k.replica)
  BY DEF StatesFit, AtMostOne
<1>8. ~Started(k)
  BY <1>1, <1>3 DEF Started
<1>9. ClientFits(k)
  BY <1>6, <1>7, <1>8 DEF ClientFits
<1>10. \A why : why \in Reasons(k) => why = "error"
  BY <1>1, <1>3, <1>4, ReasonsAre DEF Says
<1>11. EndsWithReason(k.queue)
  BY <1>1, <1>3, <1>4 DEF EndsWithReason
<1> QED BY <1>9, <1>10, <1>11 DEF ClientServed

\* A client whose subscription ended.
LEMMA Ended ==
  ASSUME NEW k, ClientFits(k), NEW l, IsClient(l), l.pc = "ended", l.topic = k.topic, l.queue = <<>>,
         l.attached = FALSE, l.replica = k.replica, l.end # "rejected",
         l.end = "shutdown" => ~Running, l.end = "deleted" => Deleted(k.topic)
  PROVE  ClientFits(l) /\ ClientServed(l)
<1>1. QueueFits(l) /\ StatesFit(l.topic.kind, l.replica) /\ l.topic \in AllTopics
  BY None DEF QueueFits, ClientFits
<1>2. Started(l) => l.replica # {}
  BY DEF Started
<1>3. Replayed(l) = l.replica
  BY ReceivedNone DEF Replayed
<1>4. ClientFits(l)
  BY <1>1, <1>2, <1>3 DEF ClientFits
<1>5. \A why : why \in Reasons(l) => why = l.end
  BY ReasonsAre
<1> QED BY <1>4, <1>5 DEF ClientServed

\* What is published is one state, and it fits.
LEMMA PublishedFits ==
  ASSUME ServerFits, NEW topic \in AllTopics, NEW s \in Published(topic)
  PROVE  Published(topic) = {s} /\ StateFits(topic.kind, s)
<1>1. CASE topic = ControllerTopic
  <2>1. Published(topic) = {controller} /\ topic.kind = "controller" /\ ControllerFits(controller)
    BY <1>1, PublishedController, TopicsDiffer DEF ServerFits
  <2> QED BY <2>1 DEF StateFits
<1>2. CASE \E t \in ThreadIds : topic = ThreadTopic(t)
  <2>1. PICK t : topic = ThreadTopic(t)
    BY <1>2
  <2>2. t \in DOMAIN threads /\ Published(topic) = {threads[t]} /\ topic.kind = "thread"
    BY <2>1, PublishedThread, TopicsDiffer
  <2>3. ThreadFits(threads[t])
    BY <2>2 DEF ServerFits, ThreadsFit
  <2> QED BY <2>2, <2>3 DEF StateFits
<1>3. CASE \E k \in CheckpointIds : topic = CheckpointTopic(k)
  <2>1. PICK k : topic = CheckpointTopic(k)
    BY <1>3
  <2>2. Published(topic) = {checkpoints[k]} /\ topic.kind = "checkpoint"
    BY <2>1, PublishedCheckpoint, TopicsDiffer
  <2> QED BY <2>2 DEF StateFits
<1>4. CASE \E p \in ProcessIds : topic = ProcessTopic(p)
  <2>1. PICK p : topic = ProcessTopic(p)
    BY <1>4
  <2>2. Published(topic) = {processes[p]} /\ topic.kind = "process"
    BY <2>1, PublishedProcess, TopicsDiffer
  <2> QED BY <2>2 DEF StateFits
<1> QED BY <1>1, <1>2, <1>3, <1>4, TopicsAre

\* A client that is sent what is published.
LEMMA Subscribed ==
  ASSUME ServerFits, NEW k, IsClient(k), k.pc = "open", k.topic \in AllTopics, NEW s \in Published(k.topic),
         k.attached = Running,
         k.queue = <<Snapshot(s)>> \o (IF Running THEN <<>> ELSE <<Terminal("shutdown")>>),
         k.replica = {}, k.end = "none"
  PROVE  ClientFits(k) /\ ClientServed(k)
<1> DEFINE m == Snapshot(s)
           n == Terminal("shutdown")
<1>1. m.message = "snapshot" /\ m.state = s /\ n.message = "terminal" /\ n.why = "shutdown"
  BY DEF Snapshot, Terminal
<1> HIDE DEF m, n
<1>2. Published(k.topic) = {s} /\ StateFits(k.topic.kind, s)
  BY PublishedFits
<1>3. MessageFits(k.topic.kind, m) /\ MessageFits(k.topic.kind, n)
  BY <1>1, <1>2 DEF MessageFits
<1>4. StatesFit(k.topic.kind, k.replica)
  BY DEF StatesFit, AtMostOne
<1>5. Received(k.topic.kind, {}, <<m>>) = {s}
  <2>1. Heard(k.topic.kind, {}, m) = {s}
    BY <1>1 DEF Heard
  <2> QED BY <2>1, ReceivedOne
<1>6. /\ IsSeq(<<m>>) /\ Len(<<m>>) = 1 /\ <<m>>[1] = m
      /\ IsSeq(<<n>>) /\ Len(<<n>>) = 1 /\ <<n>>[1] = n
  BY Single
<1>a. CASE Running
  <2>1. k.queue = <<m>> /\ k.attached = TRUE
    <3>1. k.queue = <<m>> \o <<>>
      BY <1>a DEF m
    <3> QED BY <3>1, <1>a
  <2>2. IsSeq(k.queue) /\ k.queue[1] = m /\ DOMAIN k.queue = 1..1 /\ k.queue # <<>>
    BY <2>1, <1>6, SeqHas, None
  <2>3. QueueFits(k)
    BY <2>2, <1>3 DEF QueueFits
  <2>4. Replayed(k) = {s} /\ Started(k)
    BY <2>1, <2>2, <1>1, <1>5 DEF Replayed, Started
  <2>5. ClientFits(k)
    BY <2>1, <2>3, <2>4, <1>4 DEF ClientFits
  <2>6. \A why : why \notin Reasons(k)
    <3>1. \A i \in DOMAIN k.queue : k.queue[i].message # "terminal"
      BY <2>2, <1>1
    <3>2. \A why : ~Says(k.queue, why)
      BY <3>1 DEF Says
    <3> QED BY <3>2, ReasonsAre
  <2> QED BY <2>1, <2>4, <2>5, <2>6, <1>a, <1>2 DEF ClientServed
<1>b. CASE ~Running
  <2>0. PICK a, b : a = <<m>> /\ b = <<n>>
    OBVIOUS
  <2>1. k.queue = a \o b /\ k.attached = FALSE
    BY <2>0, <1>b DEF m, n
  <2>2. IsSeq(a) /\ IsSeq(b)
    BY <2>0, <1>6
  <2>3. /\ IsSeq(a \o b) /\ Len(a \o b) = Len(a) + Len(b)
        /\ \A i \in 1..Len(a) : (a \o b)[i] = a[i]
        /\ \A i \in 1..Len(b) : (a \o b)[Len(a) + i] = b[i]
    BY <2>2, Concatenated
  <2>4. IsSeq(k.queue) /\ Len(k.queue) = 2 /\ k.queue[1] = m /\ k.queue[2] = n
    <3>1. Len(a) = 1 /\ Len(b) = 1 /\ a[1] = m /\ b[1] = n
      BY <2>0, <1>6
    <3>2. IsSeq(k.queue) /\ Len(k.queue) = 1 + 1
      BY <2>1, <2>3, <3>1
    <3>3. 1 \in 1..Len(a) /\ 1 \in 1..Len(b)
      BY <3>1
    <3>4. k.queue[1] = m /\ k.queue[1 + 1] = n
      BY <2>1, <2>3, <3>1, <3>3
    <3> QED BY <3>2, <3>4
  <2>5. DOMAIN k.queue = 1..2 /\ k.queue # <<>>
    BY <2>4, SeqHas, None
  <2>6. \A i \in DOMAIN k.queue : i = 1 \/ i = 2
    BY <2>5
  <2>7. QueueFits(k)
    BY <2>4, <2>6, <1>1, <1>3 DEF QueueFits
  <2>8. Replayed(k) = {s}
    <3>1. Received(k.topic.kind, {}, a \o b) = Received(k.topic.kind, Received(k.topic.kind, {}, a), b)
      BY <2>2, ReceivedAfter
    <3>2. Received(k.topic.kind, {s}, b) = Heard(k.topic.kind, {s}, n)
      BY <2>0, ReceivedOne
    <3>3. Heard(k.topic.kind, {s}, n) = {s}
      BY <1>1 DEF Heard
    <3> QED BY <3>1, <3>2, <3>3, <2>0, <2>1, <1>5 DEF Replayed
  <2>9. Started(k)
    BY <2>4, <2>5, <1>1 DEF Started
  <2>10. ClientFits(k)
    BY <2>1, <2>7, <2>8, <2>9, <1>4 DEF ClientFits
  <2>11. \A why : why \in Reasons(k) => why = "shutdown"
    BY <2>4, <2>6, <1>1, ReasonsAre DEF Says
  <2>12. EndsWithReason(k.queue)
    BY <2>4, <2>5, <1>1 DEF EndsWithReason
  <2> QED BY <2>1, <2>10, <2>11, <2>12, <1>b DEF ClientServed
<1> QED BY <1>a, <1>b

\* A message that is not the last is understood, and leads on.
LEMMA Understood ==
  ASSUME NEW k, ClientFits(k), ClientServed(k), k.pc = "open", k.queue # <<>>,
         k.queue[1].message # "terminal", NEW results,
         results = IF k.queue[1].message = "operation" \/ k.replica = {}
                   THEN Heard(k.topic.kind, k.replica, k.queue[1]) ELSE {}
  PROVE  /\ results # {}
         /\ \A s \in results : \A l : /\ IsClient(l) /\ l.pc = k.pc /\ l.topic = k.topic /\ l.queue = Tail(k.queue)
                                      /\ l.attached = k.attached /\ l.replica = {s} /\ l.end = k.end
                                      => ClientFits(l) /\ ClientServed(l)
<1> DEFINE kind == k.topic.kind
           rest == Tail(k.queue)
           m == k.queue[1]
<1>1. /\ QueueFits(k) /\ StatesFit(kind, k.replica) /\ k.end = "none" /\ k.topic \in AllTopics
      /\ k.attached \in BOOLEAN /\ (~Started(k) => k.queue = <<Terminal("error")>>)
      /\ (Started(k) => Replayed(k) # {})
  BY DEF ClientFits
<1>2. /\ IsSeq(k.queue)
      /\ \A i \in DOMAIN k.queue : /\ MessageFits(kind, k.queue[i])
                                   /\ k.queue[i].message = "snapshot" => i = 1 /\ k.replica = {}
  BY <1>1 DEF QueueFits
<1>3. /\ Len(k.queue) \in Nat \ {0} /\ IsSeq(rest) /\ Len(rest) = Len(k.queue) - 1
      /\ \A i \in 1..Len(k.queue) - 1 : rest[i] = k.queue[i + 1]
  BY <1>2, Rest
<1>4. DOMAIN k.queue = 1..Len(k.queue) /\ DOMAIN rest = 1..Len(k.queue) - 1
  BY <1>2, <1>3, SeqHas
<1>5. 1 \in DOMAIN k.queue /\ MessageFits(kind, m) /\ (m.message = "snapshot" => k.replica = {})
  BY <1>2, <1>3, <1>4
<1>6. \A i \in DOMAIN rest : rest[i] = k.queue[i + 1] /\ i + 1 \in DOMAIN k.queue /\ i + 1 # 1
  BY <1>3, <1>4
<1>7. \A i \in DOMAIN rest : MessageFits(kind, rest[i]) /\ rest[i].message # "snapshot"
  BY <1>2, <1>6
<1>8. m.message = "snapshot" \/ m.message = "operation"
  BY <1>5 DEF MessageFits
<1>9. results = Heard(kind, k.replica, m)
  BY <1>5, <1>8
<1>10. Replayed(k) = Received(kind, results, rest)
  <2>1. IsSeq(k.queue) /\ k.queue # <<>>
    BY <1>2
  <2>2. Received(kind, k.replica, k.queue) = Received(kind, Heard(kind, k.replica, k.queue[1]), Tail(k.queue))
    BY <2>1, ReceivedFirst
  <2> QED BY <2>2, <1>9 DEF Replayed
<1>11. StatesFit(kind, results)
  BY <1>1, <1>5, <1>9, HeardFits
<1>12. Started(k)
  <2>1. CASE k.queue = <<Terminal("error")>>
    <3>1. k.queue[1] = Terminal("error")
      BY <2>1, Single
    <3> QED BY <3>1 DEF Terminal
  <2> QED BY <2>1, <1>1
<1>13. results # {}
  <2>1. results = {} => Received(kind, results, rest) = {}
    BY <1>3, <1>7, <1>11, ReceivedFits
  <2> QED BY <2>1, <1>1, <1>10, <1>12
<1>14. ASSUME NEW s \in results, NEW l, IsClient(l), l.pc = k.pc, l.topic = k.topic, l.queue = rest,
              l.attached = k.attached, l.replica = {s}, l.end = k.end
       PROVE  ClientFits(l) /\ ClientServed(l)
  <2>1. results = {s} /\ StatesFit(kind, l.replica)
    BY <1>11, <1>14 DEF StatesFit, AtMostOne
  <2>2. Replayed(l) = Replayed(k)
    BY <2>1, <1>10, <1>14 DEF Replayed
  <2>3. QueueFits(l)
    BY <1>3, <1>7, <1>14 DEF QueueFits
  <2>4. Started(l)
    BY <1>14 DEF Started
  <2>5. ClientFits(l)
    BY <2>1, <2>2, <2>3, <2>4, <1>1, <1>12, <1>14 DEF ClientFits
  <2>6. EndsWithReason(k.queue) => EndsWithReason(rest)
    <3>1. ASSUME EndsWithReason(k.queue) PROVE EndsWithReason(rest)
      <4>1. k.queue[Len(k.queue)].message = "terminal"
        BY <3>1 DEF EndsWithReason
      <4>2. Len(k.queue) # 1
        BY <4>1
      <4>3. Len(rest) \in 1..Len(k.queue) - 1 /\ Len(rest) + 1 = Len(k.queue) /\ Len(rest) # 0
        <5>1. \A x \in Nat \ {0} : x # 1 => x - 1 \in 1..x - 1 /\ x - 1 + 1 = x /\ x - 1 # 0
          OBVIOUS
        <5> QED BY <5>1, <4>2, <1>3
      <4>4. rest[Len(rest)] = k.queue[Len(k.queue)]
        BY <4>3, <1>3
      <4>5. rest # <<>>
        BY <4>3, None
      <4> QED BY <4>1, <4>4, <4>5 DEF EndsWithReason
    <3> QED BY <3>1
  <2>7. \A why : Says(rest, why) => Says(k.queue, why)
    BY <1>6 DEF Says
  <2>8. \A why : why \in Reasons(l) => why \in Reasons(k)
    BY <2>7, <1>14, ReasonsAre
  <2> QED BY <2>2, <2>5, <2>6, <2>8, <1>14 DEF ClientServed
<1> QED BY <1>13, <1>14

\* A client before its subscription.
LEMMA Early ==
  ASSUME NEW k, ClientFits(k), k.pc \in {"idle", "asked", "loaded"}
  PROVE  /\ k = [pc |-> k.pc, topic |-> k.topic, queue |-> k.queue, attached |-> k.attached,
                 replica |-> k.replica, end |-> k.end]
         /\ k.queue = <<>> /\ k.attached = FALSE /\ k.replica = {} /\ k.end = "none" /\ k.topic \in AllTopics
<1>1. IsClient(k) /\ k.attached \in BOOLEAN /\ ~k.attached /\ k.queue = <<>>
  BY DEF ClientFits
<1> QED BY <1>1 DEF ClientFits, IsClient

\* A client asks for a topic.
LEMMA AskServes ==
  ASSUME ClientsServed, NEW c \in Clients, NEW topic \in Topics, Ask(c, topic)
  PROVE  ClientsServed'
<1>1. PICK k : k = conn[c]
  OBVIOUS
<1>2. ClientFits(k) /\ k.pc = "idle"
  BY <1>1, KnownClient DEF Ask
<1>3. topic \in AllTopics
  BY ConstantsAssumption DEF AllTopics
<1>4. PICK new : new = [k EXCEPT !.pc = "asked", !.topic = topic]
  OBVIOUS
<1>5. /\ k = [pc |-> k.pc, topic |-> k.topic, queue |-> k.queue, attached |-> k.attached,
              replica |-> k.replica, end |-> k.end]
      /\ k.queue = <<>> /\ k.attached = FALSE /\ k.replica = {} /\ k.end = "none"
  BY <1>2, Early
<1>6. /\ new = [pc |-> new.pc, topic |-> new.topic, queue |-> new.queue, attached |-> new.attached,
                replica |-> new.replica, end |-> new.end]
      /\ new.pc = "asked" /\ new.topic = topic /\ new.queue = <<>> /\ new.attached = FALSE
      /\ new.replica = {} /\ new.end = "none"
  BY <1>4, <1>5
<1>7. ClientFits(new) /\ ClientServed(new)
  BY <1>3, <1>6, Waiting DEF IsClient
<1>8. UNCHANGED <<world, views>> /\ conn' = [conn EXCEPT ![c] = new]
  BY <1>1, <1>4 DEF Ask, SetConn
<1> QED BY <1>7, <1>8, CalmStep

\* A client whose topic is ready.
LEMMA Prepared ==
  ASSUME NEW k, ClientFits(k), k.pc = "asked", NEW new, new = [k EXCEPT !.pc = "loaded"]
  PROVE  ClientFits(new) /\ ClientServed(new)
<1>1. /\ k = [pc |-> k.pc, topic |-> k.topic, queue |-> k.queue, attached |-> k.attached,
              replica |-> k.replica, end |-> k.end]
      /\ k.queue = <<>> /\ k.attached = FALSE /\ k.replica = {} /\ k.end = "none" /\ k.topic \in AllTopics
  BY Early
<1>2. /\ new = [pc |-> new.pc, topic |-> new.topic, queue |-> new.queue, attached |-> new.attached,
                replica |-> new.replica, end |-> new.end]
      /\ new.pc = "loaded" /\ new.topic = k.topic /\ new.queue = <<>> /\ new.attached = FALSE
      /\ new.replica = {} /\ new.end = "none"
  BY <1>1
<1> QED BY <1>1, <1>2, Waiting DEF IsClient

\* A client that is refused.
LEMMA RefuseServes ==
  ASSUME ClientsServed, NEW c \in Clients, conn[c].pc \in {"asked", "loaded"}, Refuse(c),
         UNCHANGED <<world, views>>
  PROVE  ClientsServed'
<1>1. PICK k : k = conn[c]
  OBVIOUS
<1>2. ClientFits(k) /\ k.pc \in {"idle", "asked", "loaded"}
  BY <1>1, KnownClient
<1>3. PICK q : q = <<Terminal("error")>>
  OBVIOUS
<1>4. PICK new : new = [k EXCEPT !.pc = "open", !.queue = q]
  OBVIOUS
<1>5. /\ k = [pc |-> k.pc, topic |-> k.topic, queue |-> k.queue, attached |-> k.attached,
              replica |-> k.replica, end |-> k.end]
      /\ k.attached = FALSE /\ k.replica = {} /\ k.end = "none" /\ k.topic \in AllTopics
  BY <1>2, Early
<1>6. /\ new = [pc |-> new.pc, topic |-> new.topic, queue |-> new.queue, attached |-> new.attached,
                replica |-> new.replica, end |-> new.end]
      /\ new.pc = "open" /\ new.topic = k.topic /\ new.queue = q /\ new.attached = FALSE
      /\ new.replica = {} /\ new.end = "none"
  BY <1>4, <1>5
<1>7. IsClient(new) /\ new.topic \in AllTopics /\ new.queue = <<Terminal("error")>>
  BY <1>3, <1>5, <1>6 DEF IsClient
<1>8. ClientFits(new) /\ ClientServed(new)
  BY <1>6, <1>7, Refused
<1>9. conn' = [conn EXCEPT ![c] = new]
  BY <1>1, <1>3, <1>4 DEF Refuse, SetConn
<1> QED BY <1>8, <1>9, CalmStep

\* What a client waits for is loaded.
LEMMA PrepareServes ==
  ASSUME ClientsServed, NEW c \in Clients, Prepare(c)
  PROVE  ClientsServed'
<1> DEFINE topic == conn[c].topic
<1>0. conn[c].pc = "asked" /\ UNCHANGED <<world, controller, processes, steps>>
  BY DEF Prepare
<1>1. UNCHANGED <<stored, issued, runs>>
  BY <1>0 DEF world
<1>2. PICK k : k = conn[c]
  OBVIOUS
<1>3. PICK new : new = [k EXCEPT !.pc = "loaded"]
  OBVIOUS
<1>4. ClientFits(new) /\ ClientServed(new)
  <2>1. ClientFits(k) /\ k.pc = "asked"
    BY <1>0, <1>2, KnownClient
  <2> QED BY <2>1, <1>3, Prepared
<1>5. CASE Running /\ Materialize(topic.id) /\ UNCHANGED checkpoints
           /\ SetConn(c, [conn[c] EXCEPT !.pc = "loaded"])
  <2>1. PICK t : Materialize(t)
    BY <1>5
  <2>2. \A other \in AllTopics : Published(other) # {} => Published(other)' = Published(other)
    BY <2>1, <1>0, <1>5, MaterializeKeeps
  <2>3. Later
    BY <1>1, <1>5, StepLater
  <2>4. conn' = [conn EXCEPT ![c] = new] /\ controller' = controller
    BY <1>0, <1>2, <1>3, <1>5 DEF SetConn
  <2> QED BY <2>2, <2>3, <2>4, <1>4, OwnStep
<1>6. CASE /\ Running /\ UNCHANGED threads
           /\ checkpoints' = (IF topic.id \in DOMAIN checkpoints THEN checkpoints
                              ELSE Upsert(checkpoints, topic.id, saved[topic.id]))
           /\ SetConn(c, [conn[c] EXCEPT !.pc = "loaded"])
  <2>1. \A u \in DOMAIN checkpoints : u \in DOMAIN checkpoints' /\ checkpoints'[u] = checkpoints[u]
    BY <1>6 DEF Upsert
  <2>2. ASSUME NEW other \in AllTopics, Published(other) # {} PROVE Published(other)' = Published(other)
    <3>1. ASSUME NEW u, other = CheckpointTopic(u) PROVE SameAt(checkpoints', checkpoints, u)
      <4>1. u \in DOMAIN checkpoints
        BY <2>2, <3>1, PublishedCheckpoint
      <4> QED BY <4>1, <2>1 DEF SameAt
    <3>2. \A u : SameAt(threads', threads, u) /\ SameAt(processes', processes, u)
      BY <1>0, <1>6 DEF SameAt
    <3> QED BY <3>1, <3>2, <1>0, Unmoved
  <2>3. Later
    BY <1>1, <1>6, StepLater
  <2>4. conn' = [conn EXCEPT ![c] = new] /\ controller' = controller
    BY <1>0, <1>2, <1>3, <1>6 DEF SetConn
  <2> QED BY <2>2, <2>3, <2>4, <1>4, OwnStep
<1>7. CASE Refuse(c) /\ UNCHANGED <<threads, checkpoints>>
  <2>1. UNCHANGED <<world, views>>
    BY <1>0, <1>7 DEF views
  <2> QED BY <2>1, <1>0, <1>7, RefuseServes
<1> QED BY <1>5, <1>6, <1>7 DEF Prepare

\* A client waits for a process.
LEMMA PrepareProcessServes ==
  ASSUME ClientsServed, NEW c \in Clients, PrepareProcess(c)
  PROVE  ClientsServed'
<1>1. conn[c].pc = "asked" /\ UNCHANGED <<world, views>>
  BY DEF PrepareProcess
<1>2. CASE Refuse(c)
  BY <1>1, <1>2, RefuseServes
<1>3. CASE SetConn(c, [conn[c] EXCEPT !.pc = "loaded"])
  <2>1. PICK k : k = conn[c]
    OBVIOUS
  <2>2. PICK new : new = [k EXCEPT !.pc = "loaded"]
    OBVIOUS
  <2>3. ClientFits(k) /\ k.pc = "asked"
    BY <1>1, <2>1, KnownClient
  <2>4. ClientFits(new) /\ ClientServed(new)
    BY <2>2, <2>3, Prepared
  <2>5. conn' = [conn EXCEPT ![c] = new]
    BY <2>1, <2>2, <1>3 DEF SetConn
  <2> QED BY <2>4, <2>5, <1>1, CalmStep
<1> QED BY <1>2, <1>3 DEF PrepareProcess

\* A client is sent what is published.
LEMMA AttachServes ==
  ASSUME ServerFits, ClientsServed, NEW c \in Clients, Attach(c)
  PROVE  ClientsServed'
<1>1. conn[c].pc \in {"asked", "loaded"} /\ UNCHANGED <<world, views>>
  BY DEF Attach
<1>2. CASE Refuse(c)
  BY <1>1, <1>2, RefuseServes
<1>3. CASE \E s \in Published(conn[c].topic) :
             SetConn(c, [conn[c] EXCEPT !.pc = "open",
               !.attached = Running,
               !.queue = <<Snapshot(s)>> \o (IF Running THEN <<>> ELSE <<Terminal("shutdown")>>)])
  <2>1. PICK k : k = conn[c]
    OBVIOUS
  <2>2. PICK s \in Published(conn[c].topic) :
             SetConn(c, [conn[c] EXCEPT !.pc = "open",
               !.attached = Running,
               !.queue = <<Snapshot(s)>> \o (IF Running THEN <<>> ELSE <<Terminal("shutdown")>>)])
    BY <1>3
  <2>3. PICK q : q = <<Snapshot(s)>> \o (IF Running THEN <<>> ELSE <<Terminal("shutdown")>>)
    OBVIOUS
  <2>4. PICK b : b = Running
    OBVIOUS
  <2>5. PICK new : new = [k EXCEPT !.pc = "open", !.attached = b, !.queue = q]
    OBVIOUS
  <2>6. ClientFits(k) /\ k.pc \in {"idle", "asked", "loaded"}
    BY <1>1, <2>1, KnownClient
  <2>7. /\ k = [pc |-> k.pc, topic |-> k.topic, queue |-> k.queue, attached |-> k.attached,
                replica |-> k.replica, end |-> k.end]
        /\ k.replica = {} /\ k.end = "none" /\ k.topic \in AllTopics
    BY <2>6, Early
  <2>8. /\ new = [pc |-> new.pc, topic |-> new.topic, queue |-> new.queue, attached |-> new.attached,
                  replica |-> new.replica, end |-> new.end]
        /\ new.pc = "open" /\ new.topic = k.topic /\ new.queue = q /\ new.attached = b
        /\ new.replica = {} /\ new.end = "none"
    BY <2>5, <2>7
  <2>9. IsClient(new) /\ new.topic \in AllTopics /\ s \in Published(new.topic)
    BY <2>1, <2>2, <2>7, <2>8 DEF IsClient
  <2>10. new.attached = Running /\ new.queue = <<Snapshot(s)>> \o (IF Running THEN <<>> ELSE <<Terminal("shutdown")>>)
    BY <2>3, <2>4, <2>8
  <2>11. ClientFits(new) /\ ClientServed(new)
    BY <2>8, <2>9, <2>10, Subscribed
  <2>12. conn' = [conn EXCEPT ![c] = new]
    BY <2>1, <2>2, <2>3, <2>4, <2>5 DEF SetConn
  <2> QED BY <2>11, <2>12, <1>1, CalmStep
<1> QED BY <1>2, <1>3 DEF Attach

\* The end of a subscription.
LEMMA EndServes ==
  ASSUME ClientsServed, UNCHANGED <<world, views>>, NEW c \in Clients, conn[c].pc = "open",
         NEW why, why # "rejected", why = "shutdown" => ~Running, why = "deleted" => Deleted(conn[c].topic),
         SetConn(c, End(c, why))
  PROVE  ClientsServed'
<1>1. PICK k : k = conn[c]
  OBVIOUS
<1>2. ClientFits(k)
  BY <1>1, KnownClient
<1>3. PICK new : new = [k EXCEPT !.pc = "ended", !.attached = FALSE, !.queue = <<>>, !.end = why]
  OBVIOUS
<1>4. k = [pc |-> k.pc, topic |-> k.topic, queue |-> k.queue, attached |-> k.attached,
           replica |-> k.replica, end |-> k.end]
  BY <1>2 DEF ClientFits, IsClient
<1>5. /\ new = [pc |-> new.pc, topic |-> new.topic, queue |-> new.queue, attached |-> new.attached,
                replica |-> new.replica, end |-> new.end]
      /\ new.pc = "ended" /\ new.topic = k.topic /\ new.queue = <<>> /\ new.attached = FALSE
      /\ new.replica = k.replica /\ new.end = why
  BY <1>3, <1>4
<1>6. IsClient(new) /\ new.end # "rejected" /\ (new.end = "shutdown" => ~Running)
      /\ (new.end = "deleted" => Deleted(k.topic))
  BY <1>1, <1>5 DEF IsClient
<1>7. ClientFits(new) /\ ClientServed(new)
  BY <1>2, <1>5, <1>6, Ended
<1>8. conn' = [conn EXCEPT ![c] = new]
  BY <1>1, <1>3 DEF SetConn, End
<1> QED BY <1>7, <1>8, CalmStep

\* A client receives a message.
LEMMA DeliverServes ==
  ASSUME ClientsServed, NEW c \in Clients, Deliver(c)
  PROVE  ClientsServed'
<1>1. conn[c].pc = "open" /\ conn[c].queue # <<>> /\ UNCHANGED <<world, views>>
  BY DEF Deliver
<1>2. PICK k : k = conn[c]
  OBVIOUS
<1>3. ClientFits(k) /\ ClientServed(k)
  BY <1>2, KnownClient
<1>4. QueueFits(k) /\ IsSeq(k.queue)
  BY <1>3 DEF ClientFits, QueueFits
<1>5. PICK m : m = k.queue[1]
  OBVIOUS
<1>6. Head(conn[c].queue) = m /\ 1 \in DOMAIN k.queue
  <2>1. Head(k.queue) = k.queue[1] /\ Len(k.queue) \in Nat \ {0}
    BY <1>1, <1>2, <1>4, Rest
  <2>2. DOMAIN k.queue = 1..Len(k.queue)
    BY <1>4, SeqHas
  <2> QED BY <2>1, <2>2, <1>2, <1>5
<1>7. PICK results : results = IF m.message = "operation" \/ k.replica = {}
                               THEN Heard(k.topic.kind, k.replica, m) ELSE {}
  OBVIOUS
<1>8. PICK new \in Receive(c, m) : SetConn(c, new)
  BY <1>6 DEF Deliver
<1>9. Receive(c, m) = IF m.message = "terminal" THEN {End(c, m.why)}
                      ELSE IF results = {} THEN {End(c, "rejected")}
                      ELSE {[k EXCEPT !.queue = Tail(@), !.replica = {s}] : s \in results}
  BY <1>2, <1>7 DEF Receive
<1>a. CASE m.message = "terminal"
  <2>0. k.pc = "open" /\ conn[c].topic = k.topic
    BY <1>1, <1>2
  <2>1. new = End(c, m.why)
    <3>1. Receive(c, m) = {End(c, m.why)}
      BY <1>9, <1>a
    <3> QED BY <3>1, <1>8
  <2>2. m.why \in {"deleted", "shutdown", "error"}
    <3>1. MessageFits(k.topic.kind, m)
      BY <1>4, <1>5, <1>6 DEF QueueFits
    <3> QED BY <3>1, <1>a DEF MessageFits
  <2>3. m.why \in Reasons(k)
    <3>1. Says(k.queue, m.why)
      BY <1>5, <1>6, <1>a DEF Says
    <3> QED BY <3>1, <2>0, ReasonsAre
  <2>4. (m.why = "shutdown" => ~Running) /\ (m.why = "deleted" => Deleted(conn[c].topic))
    BY <2>0, <2>3, <1>3 DEF ClientServed
  <2>5. PICK why : why = m.why
    OBVIOUS
  <2>6. SetConn(c, End(c, why)) /\ why # "rejected"
    BY <1>8, <2>1, <2>2, <2>5
  <2> QED BY <2>4, <2>5, <2>6, <1>1, EndServes
<1>b. CASE m.message # "terminal"
  <2>1. /\ results # {}
        /\ \A s \in results : \A l : /\ IsClient(l) /\ l.pc = k.pc /\ l.topic = k.topic /\ l.queue = Tail(k.queue)
                                     /\ l.attached = k.attached /\ l.replica = {s} /\ l.end = k.end
                                     => ClientFits(l) /\ ClientServed(l)
    <3>1. k.pc = "open" /\ k.queue # <<>> /\ k.queue[1].message # "terminal"
      BY <1>1, <1>2, <1>5, <1>b
    <3>2. results = IF k.queue[1].message = "operation" \/ k.replica = {}
                    THEN Heard(k.topic.kind, k.replica, k.queue[1]) ELSE {}
      BY <1>5, <1>7
    <3> QED BY <3>1, <3>2, <1>3, Understood
  <2>2. PICK s \in results : new = [k EXCEPT !.queue = Tail(@), !.replica = {s}]
    <3>1. Receive(c, m) = {[k EXCEPT !.queue = Tail(@), !.replica = {s}] : s \in results}
      BY <2>1, <1>9, <1>b
    <3> QED BY <3>1, <1>8
  <2>3. PICK q : q = Tail(k.queue)
    OBVIOUS
  <2>4. k = [pc |-> k.pc, topic |-> k.topic, queue |-> k.queue, attached |-> k.attached,
             replica |-> k.replica, end |-> k.end]
    BY <1>3 DEF ClientFits, IsClient
  <2>5. new = [k EXCEPT !.queue = q, !.replica = {s}]
    BY <2>2, <2>3
  <2>6. /\ new = [pc |-> new.pc, topic |-> new.topic, queue |-> new.queue, attached |-> new.attached,
                  replica |-> new.replica, end |-> new.end]
        /\ new.pc = k.pc /\ new.topic = k.topic /\ new.queue = q /\ new.attached = k.attached
        /\ new.replica = {s} /\ new.end = k.end
    BY <2>4, <2>5
  <2>7. ClientFits(new) /\ ClientServed(new)
    BY <2>1, <2>3, <2>6 DEF IsClient
  <2>8. conn' = [conn EXCEPT ![c] = new]
    BY <1>8 DEF SetConn
  <2> QED BY <2>7, <2>8, <1>1, CalmStep
<1> QED BY <1>a, <1>b

\* Whatever happens, the clients are served.
LEMMA ClientsNext ==
  ASSUME ServerFits, ClientsServed, [Next]_vars
  PROVE  ClientsServed'
<1>1. CASE UNCHANGED vars
  <2>1. UNCHANGED <<stored, issued, runs, conn>> /\ UNCHANGED views
    BY <1>1 DEF vars, world
  <2>2. controller' = controller /\ \A topic : Published(topic)' = Published(topic)
    BY <2>1, SameViews
  <2>3. \A p : LastRun(p)' = LastRun(p)
    BY <2>1, LastRunStays
  <2>4. Later
    BY <2>1, <2>2, <2>3, LaterIs DEF Running
  <2> QED BY <2>1, <2>2, <2>4, QuietServes
<1>2. CASE Change
  BY <1>2, ChangeServes
<1>3. ASSUME NEW c \in Clients, Serve(c) \/ Leave(c) \/ \E topic \in Topics : Ask(c, topic)
      PROVE  ClientsServed'
  <2>1. CASE Prepare(c)
    BY <2>1, PrepareServes
  <2>2. CASE PrepareProcess(c)
    BY <2>2, PrepareProcessServes
  <2>3. CASE Attach(c)
    BY <2>3, AttachServes
  <2>4. CASE Deliver(c)
    BY <2>4, DeliverServes
  <2>5. CASE Close(c)
    BY <2>5, EndServes DEF Close
  <2>6. CASE Leave(c)
    BY <2>6, EndServes DEF Leave
  <2>7. CASE \E topic \in Topics : Ask(c, topic)
    BY <2>7, AskServes
  <2> QED BY <1>3, <2>1, <2>2, <2>3, <2>4, <2>5, <2>6, <2>7 DEF Serve
<1> QED BY <1>1, <1>2, <1>3 DEF Next

\* At the start nobody is connected.
LEMMA ClientsStart ==
  ASSUME Init
  PROVE  ClientsServed
<1>1. conn = [c \in Clients |-> Unconnected]
  BY DEF Init
<1>2. PICK k : k = Unconnected
  OBVIOUS
<1>3. /\ k = [pc |-> "idle", topic |-> ControllerTopic, queue |-> <<>>,
              attached |-> FALSE, replica |-> {}, end |-> "none"]
  BY <1>2 DEF Unconnected
<1>4. /\ k = [pc |-> k.pc, topic |-> k.topic, queue |-> k.queue, attached |-> k.attached,
              replica |-> k.replica, end |-> k.end]
      /\ k.pc = "idle" /\ k.topic = ControllerTopic /\ k.queue = <<>> /\ k.attached = FALSE
      /\ k.replica = {} /\ k.end = "none"
  BY <1>3
<1>5. ClientFits(k) /\ ClientServed(k)
  BY <1>4, Waiting DEF IsClient, AllTopics
<1> QED BY <1>1, <1>2, <1>5 DEF ClientsServed, Served

-----------------------------------------------------------------------------
(* The theorem.                                                            *)

\* What was deleted is no longer there.
LEMMA DeletedIsGone ==
  ASSUME NEW topic \in AllTopics, Deleted(topic)
  PROVE  CASE topic.kind = "thread"     -> topic.id \notin DOMAIN stored
           [] topic.kind = "process"    -> ProcessThread \notin DOMAIN stored
           [] topic.kind = "checkpoint" -> issued # DOMAIN stored
           [] OTHER -> FALSE
  BY DEF Deleted

\* Every subscriber is shown what is published until it is told the end, and the
\* truth about it, for any number of clients, threads and processes: what a client
\* has and what is on its way lead to the state that is published, no operation is
\* rejected by a replica, a channel that gets no more news ends with the reason,
\* but for the one of a process whose view another has taken.
\* (Views::apply_*, subscribe_*, delete_threads, shutdown, insert_process,
\* serve_subscription, ThreadSubscription::receive_operation)
THEOREM SubscribersAlwaysServed == Spec => []SubscribersAreServed
<1>1. Init => ServerFits /\ ClientsServed
  BY ServerStarts, ClientsStart
<1>2. ServerFits /\ ClientsServed /\ [Next]_vars => ServerFits' /\ ClientsServed'
  BY ServerNext, ClientsNext
<1>3. ASSUME ServerFits, ClientsServed PROVE SubscribersAreServed
  <2>1. ASSUME NEW c \in Clients
        PROVE  /\ conn[c].end # "rejected"
               /\ conn[c].pc = "open" /\ conn[c].attached => Replayed(conn[c]) = Published(conn[c].topic)
               /\ conn[c].replica # {} => Replayed(conn[c]) # {}
    <3>1. ClientFits(conn[c]) /\ ClientServed(conn[c])
      BY <1>3, KnownClient
    <3> QED BY <3>1 DEF ClientFits, ClientServed, Started
  <2>2. ASSUME NEW c \in Clients, NEW topic, topic = conn[c].topic
        PROVE  /\ conn[c].attached => Published(topic) # {} /\ Running
               /\ conn[c].pc = "open" /\ ~conn[c].attached =>
                    \/ EndsWithReason(conn[c].queue)
                    \/ topic.kind = "process" /\ LastRun(topic.id) > 1
               /\ "shutdown" \in Reasons(conn[c]) => ~Running
               /\ "deleted" \in Reasons(conn[c]) => Deleted(topic)
    <3>1. ClientServed(conn[c])
      BY <1>3, KnownClient
    <3> QED BY <3>1, <2>2 DEF ClientServed
  <2>3. ASSUME NEW c \in Clients, NEW topic, topic = conn[c].topic, "deleted" \in Reasons(conn[c])
        PROVE  CASE topic.kind = "thread"     -> topic.id \notin DOMAIN stored
                 [] topic.kind = "process"    -> ProcessThread \notin DOMAIN stored
                 [] topic.kind = "checkpoint" -> issued # DOMAIN stored
                 [] OTHER -> FALSE
    <3>1. topic \in AllTopics /\ Deleted(topic)
      BY <1>3, <2>2, <2>3, KnownClient
    <3> QED BY <3>1, DeletedIsGone
  <2>4. ReplicasFollow
    BY <2>1 DEF ReplicasFollow
  <2>5. NobodyForgotten
    BY <2>2, <2>3 DEF NobodyForgotten
  <2> QED BY <2>4, <2>5 DEF SubscribersAreServed
<1> QED BY <1>1, <1>2, <1>3, PTL DEF Spec
=============================================================================
