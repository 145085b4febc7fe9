------------------------- MODULE ThreadTurn_proofs -------------------------
(***************************************************************************)
(* Proofs about one thread and its turns, for any number of turns, clients *)
(* and interactions: the saved conversation is sound, a command runs only  *)
(* when it was allowed, what is shown is true, no event is lost, and the   *)
(* registry is used as TurnLifecycle says.                                 *)
(***************************************************************************)
EXTENDS ThreadTurn, SequenceTheorems, TLAPS

-----------------------------------------------------------------------------
(* The log as it is when the statement of the turn has run.                *)

\* The turn, or a future that was dropped since, has submitted a statement.
Pending == db # <<>> /\ db[1].by \in {"turn", "nobody"}
Written == IF Pending THEN Append(store, db[1].event) ELSE store

Unanswered(log) == {n \in DOMAIN log : log[n].kind = "call" /\ ResultsOf(log, n) = {}}
CallsOf(batch) == {n \in Nat : \E k \in DOMAIN batch : batch[k].call = n}
Distinct(batch) == \A j, k \in DOMAIN batch : batch[j].call = batch[k].call => j = k

\* What the turn goes on with.
At == IF pc = "storing" THEN local.next ELSE pc

-----------------------------------------------------------------------------
(* The conversation.  Every part of LogSound holds of a prefix too: that   *)
(* is why a rewind keeps it.                                               *)

CallsNamed(log) == \A n \in DOMAIN log : log[n].kind = "call" => log[n].id = n

\* What a request may be built from: every call has its result.
Complete(log) == CallsNamed(log) /\ Unanswered(log) = {}

ResultsMatch(log) ==
  /\ \A n \in DOMAIN log : log[n].kind \in Results =>
       log[n].id \in 1..(n - 1) /\ log[log[n].id].kind = "call"
  /\ \A m, n \in DOMAIN log :
       log[m].kind \in Results /\ log[n].kind \in Results /\ log[m].id = log[n].id => m = n

ClosedBefore(log, n) ==
  \A m \in 1..(n - 1) : log[m].kind = "call" =>
    \E k \in 1..(n - 1) : log[k].kind \in Results /\ log[k].id = m
BreaksClosed(log) == \A n \in DOMAIN log : log[n].kind \in {"compaction", "cancelled"} => ClosedBefore(log, n)

IsOutcomeOf(e, turn) == e.kind \in Outcomes /\ e.id = turn
OutcomesOnce(log, turns) ==
  /\ \A n \in DOMAIN log : log[n].kind \in Outcomes => log[n].id \in 1..turns
  /\ \A m, n \in DOMAIN log :
       log[m].kind \in Outcomes /\ log[n].kind \in Outcomes /\ log[m].id = log[n].id => m = n

LogSound(log, turns) ==
  CallsNamed(log) /\ ResultsMatch(log) /\ BreaksClosed(log) /\ OutcomesOnce(log, turns)

\* What can be restored is sound: checkpoints, and a rewind under way.
SavedSound ==
  /\ LogSound(Written, turnCount)
  /\ \A log \in checkpoints : LogSound(log, turnCount)
  /\ \A n \in DOMAIN db : db[n].by = "command" =>
       /\ LogSound(db[n].target.log, turnCount)
       /\ db[n].target.upto <= Len(IF db[n].target.base = "store" THEN store ELSE db[n].target.log)

-----------------------------------------------------------------------------
(* The lock and the connection.                                            *)

Writing == pc \in {"storing", "outcomestoring"} \/ (pc = "sweepstoring" /\ local.next = "swept")

DbOwned ==
  \A n \in DOMAIN db :
    /\ db[n].by # "nobody" => n = Len(db) /\ mutation = db[n].by /\ acked[db[n].by] = 0
    /\ db[n].by \notin Clients => n = 1
    /\ db[n].by = "nobody" => pc \in {"cancelling", "sweeping"}
    /\ db[n].by \in Clients => db[n].event = Event(handler[db[n].by].answer, claimed[db[n].by].id)

AckedOwned ==
  /\ \A a \in Actors : acked[a] # 0 => mutation = a /\ db = <<>> /\ acked[a] = Len(store)
  /\ \A c \in Clients : acked[c] # 0 => store[acked[c]] = Event(handler[c].answer, claimed[c].id)

LockOwned ==
  /\ mutation = "turn" <=> Writing
  /\ mutation = "command" => ~IsActive
  /\ \A c \in Clients : mutation = c <=> handler[c].at = "storing"

HandlersClaim ==
  \A c \in Clients :
    /\ handler[c] = Idle <=> claimed[c] = NoTurn
    /\ handler[c].at = "idle" <=> claimed[c] = NoTurn
    /\ handler[c].at # "idle" => handler[c].answer \in Answers
    /\ handler[c].at \in {"deciding", "storing"} => handler[c].answer \in Decisions

-----------------------------------------------------------------------------
(* The turn and its tool calls.                                            *)

Rounds == {"streaming", "batch", "registered", "asked", "executing", "denied", "answered"}

\* Where the turn is while it moves from event to event, and where it gets
\* without an answer.
Moving == TurnRunning \ {"preparing", "storing", "registered", "asked"}
Onward == Moving \ {"executing", "denied", "answered"}

TurnRegistered ==
  /\ IsActive <=> pc # "none"
  /\ IsActive => active.turn = turnCount
  /\ pc = "storing" => local.next \in Onward
  /\ pc = "launching" \/ InTurn => local.request # "none"
  /\ local.next = "swept" => pc = "sweepstoring"
  /\ pc \in {"outcome", "outcomestoring"} => local.outcome \in Outcomes
  /\ pc \in {"none", "launching", "preparing"} => local.batch = <<>> /\ local.events = <<>>

\* The calls without a result are those the turn has yet to close or to execute.
CallsTracked ==
  /\ InTurn /\ pc # "preparing" =>
       /\ Unanswered(Written) = local.todo \cup CallsOf(local.batch)
       /\ At = "closing" \/ local.todo = {}
       /\ At \in Rounds \/ local.batch = <<>>
       /\ Distinct(local.batch)
  /\ pc = "sweepstoring" => Unanswered(Written) = local.todo
  /\ pc = "outcome" /\ local.outcome = "cancelled" => Unanswered(Written) = {}
  /\ Complete(local.events)

OutcomeOfTurn ==
  IF pc \in {"outcomestoring", "concluding", "finishing"}
    THEN \E n \in DOMAIN Written : IsOutcomeOf(Written[n], active.turn)
    ELSE IsActive => \A n \in DOMAIN Written : ~IsOutcomeOf(Written[n], active.turn)

-----------------------------------------------------------------------------
(* Interactions, and what is shown.                                        *)

IdsUsed ==
  /\ \A i \in interactions : i.id <= nextInteraction
  /\ \A i, j \in interactions : i.id = j.id => i = j
  /\ \A a \in sent : a.id <= nextInteraction /\ a.id # shown
  /\ \A c \in Clients : claimed[c] # NoTurn =>
       claimed[c].id <= nextInteraction /\ \A i \in interactions : i.id # claimed[c].id

AwaitsLatest ==
  /\ awaiting # 0 <=> pc \in {"registered", "asked"}
  /\ awaiting # 0 => awaiting = nextInteraction
  /\ pc \in {"registered", "asked", "executing", "denied", "answered"} => local.batch # <<>>
  /\ pc = "registered" => shown = 0 /\ \A a \in sent : a.id # awaiting

ShownInTurn == phase = "idle" => shown = 0

\* Every event was shown below the one that is about to be shown.
ShownInOrder ==
  \A a \in Actors \ {"command"} : acked[a] # 0 => \A v \in DOMAIN view : view[v].seq < acked[a]

\* The decision on a call is in the log after the call, and is shown.
Decided(log, shownEvents, call, id) ==
  \E n \in DOMAIN log :
    /\ call < n /\ log[n] = Event("allowed", id)
    /\ \E v \in DOMAIN shownEvents : shownEvents[v] = [seq |-> n, event |-> Event("allowed", id)]

\* So is that on the call the turn waits with, or runs.
AllowedIsDecided ==
  /\ pc = "executing" => Decided(store, view, Call.call, nextInteraction)
  /\ awaiting # 0 =>
       /\ \A a \in sent : a.id = awaiting /\ a.answer = "allowed" => Decided(store, view, Call.call, awaiting)
       /\ \A c \in Clients : claimed[c] # NoTurn /\ claimed[c].id = awaiting =>
            /\ acked[c] # 0 => Call.call < acked[c]
            /\ handler[c] = [at |-> "resolving", answer |-> "allowed"] =>
                 Decided(store, view, Call.call, awaiting)

IInv ==
  /\ TypeOK /\ SavedSound
  /\ DbOwned /\ AckedOwned /\ LockOwned /\ HandlersClaim
  /\ TurnRegistered /\ CallsTracked /\ OutcomeOfTurn
  /\ IdsUsed /\ AwaitsLatest /\ ShownInTurn /\ ShownInOrder /\ ViewIsTrue
  /\ AllowedIsDecided

-----------------------------------------------------------------------------
(* Sequences.                                                              *)

\* An element at the end of a sequence.
LEMMA Appended ==
  ASSUME NEW S, NEW s \in Seq(S), NEW e \in S
  PROVE  /\ Append(s, e) \in Seq(S) /\ Len(s) \in Nat /\ Len(Append(s, e)) = Len(s) + 1
         /\ DOMAIN s = 1..Len(s) /\ DOMAIN Append(s, e) = 1..(Len(s) + 1)
         /\ \A i \in 1..Len(s) : Append(s, e)[i] = s[i]
         /\ Append(s, e)[Len(s) + 1] = e
  OBVIOUS

\* What is left when the first element is taken.
LEMMA Popped ==
  ASSUME NEW S, NEW s \in Seq(S), s # <<>>
  PROVE  /\ Tail(s) \in Seq(S) /\ Len(s) \in Nat \ {0} /\ Len(Tail(s)) = Len(s) - 1
         /\ DOMAIN s = 1..Len(s) /\ DOMAIN Tail(s) = 1..(Len(s) - 1)
         /\ \A i \in 1..(Len(s) - 1) : Tail(s)[i] = s[i + 1]
         /\ Head(s) = s[1] /\ s[1] \in S
  OBVIOUS

\* The first elements of a sequence.
LEMMA Cut ==
  ASSUME NEW S, NEW s \in Seq(S), NEW n \in Nat, n <= Len(s)
  PROVE  /\ SubSeq(s, 1, n) \in Seq(S) /\ Len(SubSeq(s, 1, n)) = n
         /\ Len(s) \in Nat /\ DOMAIN s = 1..Len(s) /\ DOMAIN SubSeq(s, 1, n) = 1..n
         /\ \A i \in 1..n : SubSeq(s, 1, n)[i] = s[i]
  <1>1. \A i \in 1..n : i \in 1..Len(s) /\ s[i] \in S
    OBVIOUS
  <1>2. SubSeq(s, 1, n) = [i \in 1..n |-> s[i]]
    BY SubSeqProperties
  <1>3. [i \in 1..n |-> s[i]] \in Seq(S)
    BY <1>1
  <1> QED BY <1>2, <1>3, LenProperties

\* A function on 1..n is a sequence.
LEMMA Listed ==
  ASSUME NEW S, NEW n \in Nat, NEW f \in [1..n -> S]
  PROVE  f \in Seq(S) /\ Len(f) = n /\ DOMAIN f = 1..n
  OBVIOUS

-----------------------------------------------------------------------------
(* Types.                                                                  *)

\* The variables have their types at the start.
LEMMA InitTyped == Init => TypeOK
  <1>1. Init => local \in Locals
    BY DEF Init, NoLocals, Locals
  <1>2. Init => handler \in [Clients -> [at : {"idle", "deciding", "storing", "resolving"},
                                         answer : Answers \cup {"none"}]]
    BY DEF Init, Idle
  <1>3. Init => /\ store \in Seq(Events) /\ db \in Seq(Statements)
                /\ view \in Seq([seq : Nat, event : Events])
    BY DEF Init
  <1>4. Init => /\ acked \in [Actors -> Nat] /\ mutation \in Actors \cup {"free"}
                /\ claimed \in [Clients -> Interactions \cup {NoTurn}]
                /\ checkpoints \subseteq Seq(Events) /\ interactions \subseteq Interactions
                /\ sent \subseteq [id : 1..MaxInteractions, answer : Answers]
    BY DEF Init
  <1>5. Init => /\ phase \in {"idle", "running", "awaiting", "cancelling"}
                /\ pc \in {"none", "launching"} \cup TurnRunning \cup TurnEnding
                /\ active \in ActiveTurns \cup {NoTurn} /\ scenario \in Scenarios
                /\ shown \in 0..MaxInteractions /\ awaiting \in 0..MaxInteractions
                /\ nextInteraction \in 0..MaxInteractions /\ turnCount \in 0..MaxTurns
                /\ replacements \in Nat /\ crashes \in Nat
    BY ConstantsAssumption DEF Init
  <1> QED BY <1>1, <1>2, <1>3, <1>4, <1>5 DEF TypeOK

\* The call at the head of the batch.
LEMMA CallTyped ==
  ASSUME TypeOK, local.batch # <<>>
  PROVE  /\ Call \in [call : Nat, tool : Tools]
         /\ Tail(local.batch) \in Seq([call : Nat, tool : Tools])
  <1>1. local.batch \in Seq([call : Nat, tool : Tools])
    BY DEF TypeOK, Locals
  <1> QED BY <1>1, Popped DEF Call

\* An event has its type.
LEMMA EventTyped ==
  ASSUME NEW kind \in Kinds, NEW id \in Nat
  PROVE  Event(kind, id) \in Events
  BY DEF Event, Events

\* What the writer shows of its statement.
LEMMA PublishStoredTyped ==
  ASSUME TypeOK, AckedOwned, NEW a \in Actors, acked[a] # 0, PublishStored(a)
  PROVE  /\ view' \in Seq([seq : Nat, event : Events]) /\ acked[a] \in DOMAIN store
         /\ [seq |-> acked[a], event |-> store[acked[a]]] \in [seq : Nat, event : Events]
  <1>1. store \in Seq(Events) /\ acked[a] \in Nat
    BY DEF TypeOK
  <1>2. acked[a] \in DOMAIN store
    BY <1>1 DEF AckedOwned
  <1>3. store[acked[a]] \in Events
    BY <1>1, <1>2
  <1>4. [seq |-> acked[a], event |-> store[acked[a]]] \in [seq : Nat, event : Events]
    BY <1>1, <1>3
  <1> QED BY <1>2, <1>4 DEF PublishStored, TypeOK

\* The calls to close are positions.
LEMMA OpenCallsTyped ==
  ASSUME TypeOK
  PROVE  OpenCalls(store) \subseteq Nat
  <1>1. \A n \in DOMAIN store : store[n] \in Events
    BY DEF TypeOK
  <1>2. \A n \in DOMAIN store : store[n].id \in Nat
    BY <1>1 DEF Events
  <1> QED BY <1>2 DEF OpenCalls

-----------------------------------------------------------------------------
(* The steps of the turn task by what they do: save an event, move on, or  *)
(* return.  The other steps are taken one by one.                          *)

SavesText(e, loc) ==
  /\ e.kind \in {"user", "commentary", "final", "request"}
  /\ loc.todo = {} /\ local.todo = {} /\ loc.batch = local.batch
SavesCompaction(e, loc) ==
  e.kind = "compaction" /\ loc.todo = {} /\ local.todo = {} /\ loc.batch = <<>> /\ local.batch = <<>>
SavesCall(e, loc) ==
  /\ e = Event("call", Len(store) + 1) /\ loc.todo = {} /\ local.todo = {}
  /\ \E item \in Tools : loc.batch = Append(local.batch, [call |-> Len(store) + 1, tool |-> item])
ClosesCall(e, loc) ==
  /\ \E call \in local.todo : e = Event("interrupted", call) /\ loc.todo = local.todo \ {call}
  /\ loc.batch = <<>> /\ local.batch = <<>>
SavesResult(e, loc) ==
  /\ \E kind \in Results : e = Event(kind, Call.call)
  /\ loc.todo = {} /\ local.todo = {} /\ local.batch # <<>> /\ loc.batch = Tail(local.batch)

\* The event is saved, and the locals go on tracking the open calls.
SaveStep ==
  \E e \in Events, next \in Onward, loc \in Locals :
    /\ Save(e, next, loc) /\ pc \in Moving
    /\ loc.request = local.request /\ loc.events = local.events /\ loc.next = local.next
    /\ next = "closing" \/ loc.todo = {}
    /\ next \in Rounds \/ loc.batch = <<>>
    /\ \/ SavesText(e, loc) \/ SavesCompaction(e, loc) \/ SavesCall(e, loc)
       \/ ClosesCall(e, loc) \/ SavesResult(e, loc)

\* The turn goes on without a write.
MoveStep ==
  \E next \in Onward, loc \in Locals :
    /\ Goto(next, loc) /\ UNCHANGED <<published, awaiting>>
    /\ pc \in Moving \cup {"preparing"}
    /\ loc.request = local.request /\ loc.next = local.next /\ loc.batch = local.batch
    /\ next \in Rounds \/ loc.batch = <<>>
    /\ IF pc = "preparing"
         THEN db = <<>> /\ next = "closing" /\ loc.todo = OpenCalls(store) /\ loc.events = local.events
         ELSE /\ loc.todo = {} /\ local.todo = {}
              /\ \/ loc.events = local.events
                 \/ loc.events = store /\ db = <<>> /\ local.batch = <<>>

\* The turn future returns.
ReturnStep == pc \in TurnRunning \ {"storing"} /\ \E outcome \in {"completed", "failed"} : Return(outcome)

Asks ==
  /\ pc = "registered" /\ shown = 0
  /\ phase' = "awaiting" /\ shown' = awaiting /\ Goto("asked", local) /\ UNCHANGED <<view, awaiting>>

\* The locals when nothing but what is tracked of the calls matters.
LEMMA Tracked ==
  ASSUME CallsTracked, TurnRegistered, TypeOK, InTurn, pc # "preparing"
  PROVE  /\ pc \notin {"storing", "closing"} => local.todo = {}
         /\ pc \notin Rounds \cup {"storing"} => local.batch = <<>>
         /\ local.batch # <<>> /\ pc # "storing" => local.todo = {}
  BY DEF CallsTracked, At, Rounds

\* A result of the call at the head of the batch.
LEMMA SaveResultIsSaveStep ==
  ASSUME IInv, local.batch # <<>>, pc \in Rounds \ {"registered", "asked"}, NEW kind \in Results, SaveResult(kind)
  PROVE  SaveStep
  <1> DEFINE loc == [local EXCEPT !.batch = Tail(@), !.followUp = TRUE]
  <1>1. loc \in Locals
    BY CallTyped DEF IInv, TypeOK, Locals
  <1>2. Event(kind, Call.call) \in Events
    BY CallTyped, EventTyped DEF IInv, Kinds
  <1>3. local \in Locals
    BY DEF IInv, TypeOK
  <1>4. /\ loc.request = local.request /\ loc.events = local.events /\ loc.next = local.next
        /\ loc.todo = local.todo /\ loc.batch = Tail(local.batch)
    BY <1>3 DEF Locals
  <1>5. local.todo = {}
    BY Tracked DEF IInv, InTurn, TurnRunning, Rounds
  <1>6. Save(Event(kind, Call.call), "batch", loc)
    BY DEF SaveResult
  <1> HIDE DEF loc
  <1>7. SavesResult(Event(kind, Call.call), loc)
    BY <1>4, <1>5 DEF SavesResult
  <1>8. "batch" \in Onward /\ "batch" \in Rounds /\ pc \in Moving
    BY DEF Moving, Onward, TurnRunning, Rounds
  <1> QED BY <1>1, <1>2, <1>4, <1>5, <1>6, <1>7, <1>8 DEF SaveStep

\* Text is saved with the locals as they are but for flags.
LEMMA SaveTextIsSaveStep ==
  ASSUME IInv, pc \in Moving, pc # "closing",
         NEW e \in Events, e.kind \in {"user", "commentary", "final", "request"},
         NEW next \in Onward, NEW loc \in Locals, Save(e, next, loc),
         loc.request = local.request, loc.events = local.events, loc.next = local.next,
         loc.todo = local.todo, loc.batch = local.batch,
         next # "closing", next \in Rounds \/ pc \notin Rounds
  PROVE  SaveStep
  <1>1. local.todo = {} /\ (pc \notin Rounds => local.batch = <<>>)
    BY Tracked DEF IInv, InTurn, TurnRunning, Moving, Onward
  <1>2. SavesText(e, loc)
    BY <1>1 DEF SavesText
  <1> QED BY <1>1, <1>2 DEF SaveStep

\* The steps of the turn task by what they do.
LEMMA KindsOfTurnStep ==
  ASSUME IInv, TurnStep
  PROVE  \/ Launch \/ Stored \/ RegisterInteraction \/ Asks \/ ReceiveAnswer
         \/ SaveStep \/ MoveStep \/ ReturnStep
  <1> USE DEF InTurn
  <1>l. local \in Locals
    BY DEF IInv, TypeOK
  <1>t. /\ CallsTracked /\ TurnRegistered /\ TypeOK /\ AwaitsLatest
        /\ pc \in Moving \cup {"registered", "asked"} => pc \in TurnRunning /\ pc \notin {"preparing", "storing"}
    BY DEF IInv, Moving, Onward, TurnRunning
  <1>m. Onward \subseteq Moving /\ {"closing", "user", "resuming", "reading", "compacting", "summarising", "reloading",
         "requesting", "compacted"} \subseteq Onward \ Rounds
    BY DEF Moving, Onward, TurnRunning, Rounds
  <1>n. /\ {"streaming", "batch"} \subseteq Onward \cap Rounds /\ Onward \subseteq Moving
        /\ {"executing", "denied", "answered"} \subseteq Moving \cap Rounds
    BY DEF Moving, Onward, TurnRunning, Rounds
  <1>3. CASE Prepare
    <2> DEFINE loc == [local EXCEPT !.todo = OpenCalls(store)]
    <2>1. loc \in Locals
      BY OpenCallsTyped, <1>l, <1>t DEF Locals
    <2>2. /\ loc.request = local.request /\ loc.next = local.next /\ loc.batch = local.batch
          /\ loc.todo = OpenCalls(store) /\ loc.events = local.events
      BY <1>l DEF Locals
    <2>3. pc = "preparing" /\ db = <<>> /\ Goto("closing", loc) /\ UNCHANGED <<published, awaiting>>
      BY <1>3 DEF Prepare, Readable
    <2> HIDE DEF loc
    <2>4. local.batch = <<>>
      BY <1>t, <2>3 DEF TurnRegistered
    <2>5. MoveStep
      BY <1>m, <2>1, <2>2, <2>3, <2>4 DEF MoveStep
    <2> QED BY <2>5
  <1>4. CASE CloseCall
    <2>1. PICK call \in local.todo :
            Save(Event("interrupted", call), "closing", [local EXCEPT !.todo = @ \ {call}])
      BY <1>4 DEF CloseCall, FirstOf
    <2> DEFINE loc == [local EXCEPT !.todo = @ \ {call}]
    <2>2. loc \in Locals
      BY <1>l DEF Locals
    <2>3. /\ loc.request = local.request /\ loc.next = local.next /\ loc.batch = local.batch
          /\ loc.todo = local.todo \ {call} /\ loc.events = local.events
      BY <1>l DEF Locals
    <2>4. Event("interrupted", call) \in Events
      BY EventTyped, <1>l DEF Locals, Kinds, Results
    <2>5. pc = "closing" /\ local.batch = <<>>
      BY <1>4, <1>t, <1>m, Tracked DEF CloseCall, TurnRunning, Rounds
    <2>6. Save(Event("interrupted", call), "closing", loc)
      BY <2>1
    <2> HIDE DEF loc
    <2>7. ClosesCall(Event("interrupted", call), loc)
      BY <2>3, <2>5 DEF ClosesCall
    <2>8. SaveStep
      BY <1>m, <2>2, <2>3, <2>4, <2>5, <2>6, <2>7 DEF SaveStep
    <2> QED BY <2>8
  <1>5. CASE \E next \in Onward :
               /\ Goto(next, local) /\ UNCHANGED <<published, awaiting>>
               /\ pc \in Moving /\ local.todo = {}
               /\ next \in Rounds \/ local.batch = <<>>
    BY <1>5, <1>l, <1>m DEF MoveStep, Moving, Onward
  <1>6. CASE \E outcome \in {"completed", "failed"} : Return(outcome) /\ pc \in TurnRunning \ {"storing"}
    BY <1>6 DEF ReturnStep
  <1>7. CASE Prepared
    <2>1. local.request \in {"send", "continue", "compact"}
      BY <1>7, <1>l, <1>t DEF Prepared, TurnRegistered, Locals, TurnRunning
    <2>2. \E next \in {"user", "resuming", "compacting"} : Goto(next, local)
      BY <1>7, <2>1 DEF Prepared
    <2>3. pc = "closing" /\ local.batch = <<>> /\ local.todo = {}
      BY <1>7, <1>t, <1>m, Tracked DEF Prepared, TurnRunning, Rounds
    <2> QED BY <1>5, <1>7, <1>m, <2>2, <2>3 DEF Prepared, Rounds
  <1>8. CASE StreamCompletes \/ NextOperation
    <2>1. pc \in {"streaming", "executing", "denied"} /\ local.todo = {}
      BY <1>8, <1>t, <1>n, Tracked DEF StreamCompletes, NextOperation, TurnRunning
    <2> QED BY <1>5, <1>8, <1>n, <2>1 DEF StreamCompletes, NextOperation
  <1>9. CASE SaveUserMessage
    <2>1. Event("user", 0) \in Events /\ Event("user", 0).kind = "user"
      BY EventTyped DEF Kinds, Event
    <2> QED BY <1>9, <1>l, <1>m, <2>1, SaveTextIsSaveStep DEF SaveUserMessage
  <1>10. CASE Resume \/ SkipCompaction
    <2>1. /\ pc \in {"resuming", "compacting", "summarising"}
          /\ local.todo = {} /\ local.batch = <<>>
      BY <1>10, <1>t, <1>m, Tracked DEF Resume, SkipCompaction, TurnRunning, Rounds
    <2>2. \/ Return("failed")
          \/ \E next \in {"reading", "requesting"} : Goto(next, local) /\ UNCHANGED <<published, awaiting>>
      BY <1>10 DEF Resume, SkipCompaction
    <2> QED BY <1>5, <1>6, <1>m, <2>1, <2>2 DEF TurnRunning, Rounds
  <1>11. CASE ReadHistory
    <2>1. PICK next \in {"requesting", "compacting"} : Goto(next, [local EXCEPT !.events = store])
      BY <1>11 DEF ReadHistory
    <2> DEFINE loc == [local EXCEPT !.events = store]
    <2>2. loc \in Locals
      BY <1>l, <1>t DEF Locals, TypeOK
    <2>3. /\ loc.request = local.request /\ loc.next = local.next /\ loc.batch = local.batch
          /\ loc.todo = local.todo /\ loc.events = store
      BY <1>l DEF Locals
    <2>4. /\ pc \in {"reading", "reloading"} /\ db = <<>> /\ local.todo = {} /\ local.batch = <<>>
          /\ UNCHANGED <<published, awaiting>>
      BY <1>11, <1>t, <1>m, Tracked DEF ReadHistory, Readable, TurnRunning, Rounds
    <2>5. Goto(next, loc)
      BY <2>1
    <2> HIDE DEF loc
    <2>6. MoveStep
      BY <1>m, <2>2, <2>3, <2>4, <2>5 DEF MoveStep, Rounds
    <2> QED BY <2>6
  <1>12. CASE SaveCompactionRequest
    <2>1. Event("request", 0) \in Events /\ Event("request", 0).kind = "request"
      BY EventTyped DEF Kinds, Event
    <2> QED BY <1>12, <1>l, <1>m, <2>1, SaveTextIsSaveStep DEF SaveCompactionRequest
  <1>13. CASE SaveCompaction
    <2>1. Event("compaction", 0) \in Events /\ Event("compaction", 0).kind = "compaction"
      BY EventTyped DEF Kinds, Event
    <2>2. pc = "summarising" /\ local.todo = {} /\ local.batch = <<>>
      BY <1>13, <1>t, <1>m, Tracked DEF SaveCompaction, TurnRunning, Rounds
    <2>3. PICK next \in {"compacted", "reloading"} : Save(Event("compaction", 0), next, local)
      BY <1>13 DEF SaveCompaction
    <2>4. SavesCompaction(Event("compaction", 0), local)
      BY <2>1, <2>2 DEF SavesCompaction
    <2>5. SaveStep
      BY <1>l, <1>m, <2>1, <2>2, <2>3, <2>4 DEF SaveStep
    <2> QED BY <2>5
  <1>14. CASE SaveRequest
    <2> DEFINE loc == [local EXCEPT !.batch = <<>>, !.followUp = FALSE, !.final = FALSE, !.error = FALSE]
    <2>1. <<>> \in Seq([call : Nat, tool : Tools])
      OBVIOUS
    <2>2. loc \in Locals
      BY <1>l, <2>1 DEF Locals
    <2>3. /\ loc.request = local.request /\ loc.next = local.next /\ loc.batch = <<>>
          /\ loc.todo = local.todo /\ loc.events = local.events
      BY <1>l DEF Locals
    <2>4. pc = "requesting" /\ local.batch = <<>>
      BY <1>14, <1>t, <1>m, Tracked DEF SaveRequest, TurnRunning, Rounds
    <2>5. Event("request", 0) \in Events /\ Event("request", 0).kind = "request"
      BY EventTyped DEF Kinds, Event
    <2>6. Save(Event("request", 0), "streaming", loc)
      BY <1>14 DEF SaveRequest
    <2> HIDE DEF loc
    <2> QED BY <1>m, <1>n, <2>2, <2>3, <2>4, <2>5, <2>6, SaveTextIsSaveStep
  <1>15. CASE StreamItem
    <2>p. pc = "streaming" /\ local.todo = {}
      BY <1>15, <1>t, <1>n, Tracked DEF StreamItem, TurnRunning
    <2>1. PICK item \in scenario.items :
            \/ item = "commentary" /\ Save(Event(item, 0), "streaming", local)
            \/ item = "final" /\ Save(Event(item, 0), "streaming", [local EXCEPT !.final = TRUE])
            \/ /\ item \notin {"commentary", "final"}
               /\ Save(Event("call", FreshCall(store)), "streaming",
                    [local EXCEPT !.batch = Append(@, [call |-> FreshCall(store), tool |-> item])])
      BY <1>15 DEF StreamItem
    <2>2. item \in Tools \cup {"commentary", "final"}
      BY <1>t, ConstantsAssumption DEF TypeOK, Tools
    <2>3. CASE item = "commentary" /\ Save(Event(item, 0), "streaming", local)
      <3>1. Event(item, 0) \in Events /\ Event(item, 0).kind = "commentary"
        BY <2>3, EventTyped DEF Kinds, Event
      <3> QED BY <2>3, <2>p, <1>l, <1>n, <3>1, SaveTextIsSaveStep
    <2>4. CASE item = "final" /\ Save(Event(item, 0), "streaming", [local EXCEPT !.final = TRUE])
      <3> DEFINE loc == [local EXCEPT !.final = TRUE]
      <3>1. loc \in Locals
        BY <1>l DEF Locals
      <3>2. /\ loc.request = local.request /\ loc.next = local.next /\ loc.batch = local.batch
            /\ loc.todo = local.todo /\ loc.events = local.events
        BY <1>l DEF Locals
      <3>3. Event(item, 0) \in Events /\ Event(item, 0).kind = "final"
        BY <2>4, EventTyped DEF Kinds, Event
      <3>4. Save(Event(item, 0), "streaming", loc)
        BY <2>4
      <3> HIDE DEF loc
      <3> QED BY <1>n, <2>p, <3>1, <3>2, <3>3, <3>4, SaveTextIsSaveStep
    <2>5. CASE /\ item \notin {"commentary", "final"}
               /\ Save(Event("call", FreshCall(store)), "streaming",
                    [local EXCEPT !.batch = Append(@, [call |-> FreshCall(store), tool |-> item])])
      <3> DEFINE entry == [call |-> Len(store) + 1, tool |-> item]
                 loc == [local EXCEPT !.batch = Append(@, entry)]
      <3>1. Len(store) + 1 \in Nat
        BY <1>t DEF TypeOK
      <3>2. entry \in [call : Nat, tool : Tools]
        BY <3>1, <2>2, <2>5
      <3>3. Append(local.batch, entry) \in Seq([call : Nat, tool : Tools])
        BY <3>2, <1>l, Appended DEF Locals
      <3>4. loc \in Locals
        BY <3>3, <1>l DEF Locals
      <3>5. Event("call", Len(store) + 1) \in Events
        BY <3>1, EventTyped DEF Kinds
      <3>6. /\ loc.request = local.request /\ loc.next = local.next /\ loc.batch = Append(local.batch, entry)
            /\ loc.todo = local.todo /\ loc.events = local.events
        BY <1>l DEF Locals
      <3>7. Save(Event("call", Len(store) + 1), "streaming", loc)
        BY <2>5 DEF FreshCall
      <3> HIDE DEF loc
      <3>8. SavesCall(Event("call", Len(store) + 1), loc)
        BY <2>2, <2>5, <2>p, <3>6 DEF SavesCall
      <3>9. SaveStep
        BY <1>n, <2>p, <3>4, <3>5, <3>6, <3>7, <3>8 DEF SaveStep
      <3> QED BY <3>9
    <2> QED BY <2>1, <2>3, <2>4, <2>5
  <1>16. CASE StreamBreaks
    <2> DEFINE loc == [local EXCEPT !.error = TRUE]
    <2>1. loc \in Locals
      BY <1>l DEF Locals
    <2>2. /\ loc.request = local.request /\ loc.next = local.next /\ loc.batch = local.batch
          /\ loc.todo = local.todo /\ loc.events = local.events
      BY <1>l DEF Locals
    <2>3. pc = "streaming" /\ local.todo = {}
      BY <1>16, <1>t, <1>n, Tracked DEF StreamBreaks, TurnRunning
    <2>4. \/ Goto("batch", loc) /\ UNCHANGED <<published, awaiting>>
          \/ Save(Event("commentary", 0), "batch", loc)
      BY <1>16 DEF StreamBreaks
    <2> HIDE DEF loc
    <2>5. CASE Goto("batch", loc) /\ UNCHANGED <<published, awaiting>>
      <3>1. MoveStep
        BY <1>n, <2>1, <2>2, <2>3, <2>5 DEF MoveStep
      <3> QED BY <3>1
    <2>6. CASE Save(Event("commentary", 0), "batch", loc)
      <3>1. Event("commentary", 0) \in Events /\ Event("commentary", 0).kind = "commentary"
        BY EventTyped DEF Kinds, Event
      <3> QED BY <1>n, <2>1, <2>2, <2>3, <2>6, <3>1, SaveTextIsSaveStep
    <2> QED BY <2>4, <2>5, <2>6
  <1>17. CASE RunPlain
    BY <1>17, <1>n, SaveResultIsSaveStep DEF RunPlain, HasCall, Results
  <1>18. CASE RequestInteraction
    <2>1. CASE shown = 0
      BY <1>18, <2>1 DEF RequestInteraction, Asks
    <2>2. CASE shown # 0
      BY <1>6, <1>18, <2>2 DEF RequestInteraction, TurnRunning
    <2> QED BY <2>1, <2>2
  <1>19. CASE SaveAnswer \/ RunCommand
    <2>1. pc \in {"executing", "denied", "answered"} /\ local.batch # <<>>
      BY <1>19, <1>t DEF SaveAnswer, RunCommand, AwaitsLatest
    <2>2. \E kind \in Results : SaveResult(kind)
      BY <1>19 DEF SaveAnswer, RunCommand, Results
    <2> QED BY <1>n, <2>1, <2>2, SaveResultIsSaveStep
  <1>20. CASE LoseAnswer \/ Fail \/ FinishCompaction
    <2>1. pc \in {"asked", "compacting", "summarising", "requesting", "executing", "batch", "compacted"}
      BY <1>20 DEF LoseAnswer, Fail, FinishCompaction, HasCall
    <2> QED BY <1>6, <1>20, <2>1 DEF LoseAnswer, Fail, FinishCompaction, TurnRunning
  <1>21. CASE EndBatch
    <2>1. pc = "batch" /\ local.batch = <<>> /\ local.todo = {}
      BY <1>21, <1>t, <1>n, Tracked DEF EndBatch, TurnRunning
    <2>2. \/ \E outcome \in {"completed", "failed"} : Return(outcome)
          \/ Goto("reading", local) /\ UNCHANGED <<published, awaiting>>
      BY <1>21 DEF EndBatch
    <2>3. CASE \E outcome \in {"completed", "failed"} : Return(outcome)
      <3>1. pc \in TurnRunning \ {"storing"}
        BY <2>1 DEF TurnRunning
      <3> QED BY <1>6, <2>3, <3>1
    <2>4. CASE Goto("reading", local) /\ UNCHANGED <<published, awaiting>>
      <3>1. "reading" \in Onward /\ pc \in Moving
        BY <1>m, <1>n, <2>1
      <3> QED BY <1>5, <2>1, <2>4, <3>1
    <2> QED BY <2>2, <2>3, <2>4
  <1> QED BY <1>3, <1>4, <1>7, <1>8, <1>9, <1>10, <1>11, <1>12, <1>13, <1>14,
           <1>15, <1>16, <1>17, <1>18, <1>19, <1>20, <1>21 DEF TurnStep

-----------------------------------------------------------------------------
(* Types, step by step.                                                    *)

\* A statement is submitted.
LEMMA SubmitTyped ==
  ASSUME TypeOK, NEW actor \in Actors, NEW s \in Statements, Submit(actor, s)
  PROVE  db' \in Seq(Statements) /\ mutation' \in Actors \cup {"free"}
  BY DEF Submit, TypeOK

\* What the turn saves, it submits and goes on with its locals.
LEMMA SaveTyped ==
  ASSUME TypeOK, NEW e \in Events, NEW next \in TurnRunning, NEW loc \in Locals, Save(e, next, loc)
  PROVE  TypeOK'
  <1>1. [by |-> "turn", event |-> e] \in Statements
    BY DEF Statements
  <1>2. db' \in Seq(Statements) /\ mutation' \in Actors \cup {"free"}
    BY <1>1, SubmitTyped DEF Save, Actors
  <1>3. local' \in Locals
    BY DEF Save, Locals
  <1>4. pc' \in TurnRunning
    BY DEF Save, TurnRunning
  <1> QED BY <1>2, <1>3, <1>4 DEF TypeOK, Save, durable, published, registry, answering, bounds

\* A step of the turn that only moves it.
LEMMA GotoTyped ==
  ASSUME TypeOK, NEW next \in TurnRunning \cup TurnEnding, NEW loc \in Locals, Goto(next, loc),
         awaiting' \in {0, awaiting}, UNCHANGED published
  PROVE  TypeOK'
  BY ConstantsAssumption DEF TypeOK, Goto, durable, published, registry, answering, bounds

\* Each step of the turn keeps the types.  (TurnStep)
LEMMA TurnStepTyped ==
  ASSUME IInv, TurnStep
  PROVE  TypeOK'
  <1>t. TypeOK /\ AckedOwned /\ TurnRegistered /\ local \in Locals
    BY DEF IInv, TypeOK
  <1>1. CASE Launch
    <2>1. CASE phase = "idle"
      BY <1>1, <1>t, <2>1 DEF Launch, TypeOK, durable, answering, bounds, TurnRunning
    <2>2. CASE phase # "idle"
      <3>1. NoLocals \in Locals
        BY DEF NoLocals, Locals
      <3> QED BY <1>1, <1>t, <2>2, <3>1 DEF Launch, TypeOK, durable, answering, bounds
    <2> QED BY <2>1, <2>2
  <1>2. CASE Stored
    <2>1. view' \in Seq([seq : Nat, event : Events])
      BY <1>2, <1>t, PublishStoredTyped DEF Stored, Acknowledge, Actors
    <2>2. acked' \in [Actors -> Nat] /\ mutation' \in Actors \cup {"free"} /\ pc' \in TurnRunning
      BY <1>2, <1>t DEF Stored, Acknowledge, TypeOK, TurnRegistered, Moving, Onward
    <2> QED BY <1>2, <1>t, <2>1, <2>2
         DEF Stored, PublishStored, TypeOK, durable, registry, answering, bounds
  <1>3. CASE SaveStep
    BY <1>3, <1>t, SaveTyped DEF SaveStep, Moving, Onward
  <1>4. CASE MoveStep
    BY <1>4, <1>t, GotoTyped DEF MoveStep, Moving, Onward
  <1>5. CASE ReturnStep
    <2>1. PICK outcome \in {"completed", "failed"} : Return(outcome)
      BY <1>5 DEF ReturnStep
    <2>2. [local EXCEPT !.outcome = outcome] \in Locals
      BY <1>t DEF Locals, Outcomes
    <2>3. PICK next \in TurnEnding : Goto(next, [local EXCEPT !.outcome = outcome])
      BY <2>1 DEF Return, TurnEnding
    <2> QED BY <1>t, <2>1, <2>2, <2>3, GotoTyped DEF Return
  <1>6. CASE RegisterInteraction
    <2> DEFINE i == [id |-> nextInteraction + 1, tool |-> Call.tool, turn |-> active.turn]
    <2>1. active \in ActiveTurns /\ local.batch # <<>> /\ Call.tool \in {"command", "question"}
      BY <1>6, <1>t DEF RegisterInteraction, HasCall, TypeOK, IsActive
    <2>2. nextInteraction + 1 \in 1..MaxInteractions
      BY <1>6, <1>t, ConstantsAssumption DEF RegisterInteraction, TypeOK
    <2>3. i \in Interactions
      BY <2>1, <2>2 DEF Interactions, ActiveTurns, Tools
    <2> HIDE DEF i
    <2>4. interactions' = interactions \cup {i} /\ nextInteraction' = nextInteraction + 1
          /\ awaiting' = nextInteraction + 1 /\ pc' = "registered"
      BY <1>6 DEF RegisterInteraction, i
    <2> QED BY <1>6, <1>t, <2>2, <2>3, <2>4
         DEF RegisterInteraction, TypeOK, durable, published, answering, bounds, TurnRunning
  <1>7. CASE Asks
    BY <1>7, <1>t DEF Asks, TypeOK, Goto, durable, registry, answering, bounds, TurnRunning
  <1>8. CASE ReceiveAnswer
    <2>1. PICK a \in sent : Goto(CASE a.answer = "allowed" -> "executing"
                                   [] a.answer = "refused" -> "denied"
                                   [] a.answer = "answered" -> "answered", local)
      BY <1>8 DEF ReceiveAnswer
    <2>2. a.answer \in {"allowed", "refused", "answered"}
      BY <1>t DEF TypeOK, Answers, Decisions
    <2>3. PICK next \in TurnRunning : Goto(next, local)
      BY <2>1, <2>2 DEF TurnRunning
    <2> QED BY <1>8, <1>t, <2>3, GotoTyped DEF ReceiveAnswer
  <1> QED BY <1>1, <1>2, <1>3, <1>4, <1>5, <1>6, <1>7, <1>8, KindsOfTurnStep

\* Each step of the end of a turn keeps the types.  (EndStep)
LEMMA EndStepTyped ==
  ASSUME IInv, EndStep
  PROVE  TypeOK'
  <1>t. TypeOK /\ AckedOwned /\ TurnRegistered /\ local \in Locals
    BY DEF IInv, TypeOK
  <1>n. NoLocals \in Locals
    BY DEF NoLocals, Locals
  <1>1. CASE DropTurn
    <2> DEFINE drop(n) == IF db[n].by = "turn" THEN [db[n] EXCEPT !.by = "nobody"] ELSE db[n]
    <2>1. Len(db) \in Nat /\ DOMAIN db = 1..Len(db) /\ \A n \in 1..Len(db) : db[n] \in Statements
      BY <1>t DEF TypeOK
    <2>2. \A n \in 1..Len(db) : drop(n) \in Statements
      BY <2>1, ConstantsAssumption DEF Statements
    <2>3. db' = [n \in 1..Len(db) |-> drop(n)]
      BY <1>1, <2>1 DEF DropTurn
    <2> HIDE DEF drop
    <2>4. db' \in Seq(Statements)
      BY <2>1, <2>2, <2>3, Listed
    <2>5. acked' \in [Actors -> Nat] /\ mutation' \in Actors \cup {"free"}
      BY <1>1, <1>t DEF DropTurn, TypeOK
    <2>6. local' \in Locals /\ pc' \in TurnEnding /\ awaiting' \in 0..MaxInteractions
      BY <1>1, <1>n, ConstantsAssumption DEF DropTurn, TurnEnding
    <2> QED BY <1>1, <1>t, <2>4, <2>5, <2>6
         DEF DropTurn, TypeOK, durable, published, registry, answering, bounds
  <1>2. CASE BeginCleanup
    BY <1>2, <1>t DEF BeginCleanup, TypeOK, durable, answering, bounds, TurnEnding
  <1>3. CASE Sweep
    <2>1. PICK next \in TurnEnding, loc \in Locals : Goto(next, loc)
      <3>1. [local EXCEPT !.outcome = "cancelled"] \in Locals
        BY <1>t DEF Locals, Outcomes
      <3>2. [local EXCEPT !.todo = OpenCalls(store)] \in Locals
        BY <1>t, OpenCallsTyped DEF Locals
      <3> QED BY <1>3, <3>1, <3>2 DEF Sweep, TurnEnding
    <2> QED BY <1>3, <1>t, <2>1, GotoTyped DEF Sweep
  <1>4. CASE SweepCall
    <2>1. PICK call \in local.todo :
            /\ Submit("turn", [by |-> "turn", event |-> Event("interrupted", call)])
            /\ local' = [local EXCEPT !.todo = @ \ {call}, !.next = "swept"]
      BY <1>4 DEF SweepCall, FirstOf
    <2>2. [by |-> "turn", event |-> Event("interrupted", call)] \in Statements
      BY <1>t, EventTyped DEF Statements, Locals, Kinds, Results
    <2>3. db' \in Seq(Statements) /\ mutation' \in Actors \cup {"free"}
      BY <1>t, <2>1, <2>2, SubmitTyped DEF Actors
    <2>4. local' \in Locals
      BY <1>t, <2>1 DEF Locals
    <2> QED BY <1>4, <1>t, <2>3, <2>4
         DEF SweepCall, TypeOK, durable, published, registry, answering, bounds
  <1>5. CASE SweepStored
    <2>1. [NoLocals EXCEPT !.outcome = "cancelled"] \in Locals
      BY <1>n DEF Locals, Outcomes
    <2>2. [local EXCEPT !.next = "none"] \in Locals
      BY <1>t DEF Locals
    <2>3. local' \in Locals /\ pc' \in TurnEnding
      BY <1>5, <2>1, <2>2 DEF SweepStored, TurnEnding
    <2>4. acked' \in [Actors -> Nat] /\ mutation' \in Actors \cup {"free"}
      BY <1>5, <1>t DEF SweepStored, Acknowledge, TypeOK
    <2> QED BY <1>5, <1>t, <2>3, <2>4
         DEF SweepStored, TypeOK, durable, published, registry, answering, bounds
  <1>6. CASE SaveOutcome
    <2>1. local.outcome \in Outcomes /\ active.turn \in Nat
      BY <1>6, <1>t DEF SaveOutcome, TurnRegistered, TypeOK, ActiveTurns, IsActive
    <2>2. [by |-> "turn", event |-> Event(local.outcome, active.turn)] \in Statements
      BY <2>1, EventTyped DEF Statements, Kinds
    <2>3. db' \in Seq(Statements) /\ mutation' \in Actors \cup {"free"}
      BY <1>6, <1>t, <2>2, SubmitTyped DEF SaveOutcome, Actors
    <2> QED BY <1>6, <1>t, <2>3
         DEF SaveOutcome, TypeOK, durable, published, registry, answering, bounds, TurnEnding
  <1>7. CASE OutcomeStored
    <2>1. view' \in Seq([seq : Nat, event : Events])
      BY <1>7, <1>t, PublishStoredTyped DEF OutcomeStored, Acknowledge, Actors
    <2>2. acked' \in [Actors -> Nat] /\ mutation' \in Actors \cup {"free"} /\ pc' \in TurnEnding
      BY <1>7, <1>t DEF OutcomeStored, Acknowledge, TypeOK, TurnEnding
    <2> QED BY <1>7, <1>t, <2>1, <2>2
         DEF OutcomeStored, PublishStored, TypeOK, durable, registry, answering, bounds
  <1>8. CASE PublishTurnFinished
    BY <1>8, <1>t, ConstantsAssumption
    DEF PublishTurnFinished, Goto, TypeOK, durable, registry, answering, bounds, TurnEnding
  <1>9. CASE Finish
    BY <1>9, <1>t, <1>n DEF Finish, TypeOK, durable, published, answering, bounds
  <1> QED BY <1>1, <1>2, <1>3, <1>4, <1>5, <1>6, <1>7, <1>8, <1>9 DEF EndStep

\* The statement at the head of the connection's queue.
LEMMA RunTyped ==
  ASSUME IInv, RunStatement
  PROVE  /\ store' \in Seq(Events) /\ checkpoints' \subseteq Seq(Events) /\ db' \in Seq(Statements)
         /\ acked' \in [Actors -> Nat] /\ Head(db) \in Statements
         /\ Head(db).by = "command" => Head(db).target \in Targets
         /\ Head(db).by # "command" => Head(db).event \in Events
  <1>t. store \in Seq(Events) /\ checkpoints \subseteq Seq(Events) /\ db \in Seq(Statements)
        /\ acked \in [Actors -> Nat] /\ db # <<>>
    BY DEF IInv, TypeOK, RunStatement
  <1> DEFINE s == Head(db)
  <1>1. s \in Statements /\ db' \in Seq(Statements) /\ s = db[1] /\ 1 \in DOMAIN db
    BY <1>t, Popped DEF RunStatement
  <1>2. /\ s.by = "command" => s.target \in Targets
        /\ s.by # "command" => s.event \in Events
    BY <1>1, ConstantsAssumption DEF Statements
  <1>3. ASSUME s.by = "command"
        PROVE  store' \in Seq(Events) /\ checkpoints' \subseteq Seq(Events)
    <2>1. s.target.log \in Seq(Events) /\ s.target.upto \in Nat
      BY <1>2, <1>3 DEF Targets
    <2>2. PICK base \in Seq(Events) : /\ base = IF s.target.base = "store" THEN store ELSE s.target.log
                                      /\ store' = SubSeq(base, 1, s.target.upto)
      BY <1>3, <1>t, <2>1 DEF RunStatement
    <2>3. s.target.upto <= Len(base)
      BY <1>1, <1>3, <2>2 DEF IInv, SavedSound
    <2>4. store' \in Seq(Events)
      BY <2>1, <2>2, <2>3, Cut
    <2>5. checkpoints' \subseteq Seq(Events)
      BY <1>3, <1>t DEF RunStatement
    <2> QED BY <2>4, <2>5
  <1>4. ASSUME s.by # "command"
        PROVE  store' \in Seq(Events) /\ checkpoints' \subseteq Seq(Events)
    <2>1. store' = Append(store, s.event) /\ checkpoints' = checkpoints
      BY <1>4 DEF RunStatement
    <2> QED BY <1>2, <1>4, <1>t, <2>1, Appended
  <1>5. store' \in Seq(Events) /\ checkpoints' \subseteq Seq(Events)
    BY <1>3, <1>4
  <1>6. acked' \in [Actors -> Nat]
    <2>1. Len(store') \in Nat
      BY <1>5
    <2>2. acked' = IF s.by = "nobody" THEN acked ELSE [acked EXCEPT ![s.by] = Len(store')]
      BY DEF RunStatement
    <2> QED BY <1>t, <2>1, <2>2
  <1> QED BY <1>1, <1>2, <1>5, <1>6

\* The steps of the handlers keep the types.
LEMMA HandlerStepTyped ==
  ASSUME IInv, NEW c \in Clients, HandlerStep(c) \/ \E answer \in Answers : Claim(c, answer)
  PROVE  TypeOK'
  <1>t. TypeOK /\ AckedOwned /\ HandlersClaim
        /\ handler[c] \in [at : {"idle", "deciding", "storing", "resolving"}, answer : Answers \cup {"none"}]
        /\ c \in Actors
    BY DEF IInv, TypeOK, Actors
  <1>1. CASE SaveDecision(c)
    <2>1. handler[c].answer \in Decisions /\ claimed[c] \in Interactions
      BY <1>1, <1>t DEF SaveDecision, HandlersClaim, TypeOK
    <2>a. handler[c].answer \in Kinds /\ claimed[c].id \in Nat
      BY <2>1 DEF Kinds, Interactions
    <2>b. Event(handler[c].answer, claimed[c].id) \in Events
      BY <2>a, EventTyped
    <2>2. [by |-> c, event |-> Event(handler[c].answer, claimed[c].id)] \in Statements
      BY <2>b DEF Statements
    <2>3. db' \in Seq(Statements) /\ mutation' \in Actors \cup {"free"}
      BY <1>1, <1>t, <2>2, SubmitTyped DEF SaveDecision
    <2>4. handler' \in [Clients -> [at : {"idle", "deciding", "storing", "resolving"}, answer : Answers \cup {"none"}]]
      BY <1>1, <1>t DEF SaveDecision, TypeOK
    <2> QED BY <1>1, <1>t, <2>3, <2>4
         DEF SaveDecision, TypeOK, durable, published, registry, bounds
  <1>2. CASE DecisionFails(c)
    <2>1. Idle \in [at : {"idle", "deciding", "storing", "resolving"}, answer : Answers \cup {"none"}]
      BY DEF Idle
    <2> QED BY <1>2, <1>t, <2>1 DEF DecisionFails, TypeOK, durable, published, registry, bounds
  <1>3. CASE DecisionStored(c)
    <2>1. view' \in Seq([seq : Nat, event : Events])
      BY <1>3, <1>t, PublishStoredTyped DEF DecisionStored, Acknowledge
    <2>2. acked' \in [Actors -> Nat] /\ mutation' \in Actors \cup {"free"}
      BY <1>3, <1>t DEF DecisionStored, Acknowledge, TypeOK
    <2>3. handler' \in [Clients -> [at : {"idle", "deciding", "storing", "resolving"}, answer : Answers \cup {"none"}]]
      BY <1>3, <1>t DEF DecisionStored, TypeOK
    <2> QED BY <1>3, <1>t, <2>1, <2>2, <2>3
         DEF DecisionStored, PublishStored, TypeOK, durable, registry, bounds
  <1>4. CASE Resolve(c)
    <2>1. Idle \in [at : {"idle", "deciding", "storing", "resolving"}, answer : Answers \cup {"none"}]
      BY DEF Idle
    <2>2. handler[c].answer \in Answers /\ claimed[c] \in Interactions
      BY <1>4, <1>t DEF Resolve, HandlersClaim, TypeOK
    <2>3. awaiting = claimed[c].id => [id |-> awaiting, answer |-> handler[c].answer] \in
                                        [id : 1..MaxInteractions, answer : Answers]
      BY <2>2 DEF Interactions
    <2>4. sent' \subseteq [id : 1..MaxInteractions, answer : Answers]
      BY <1>4, <1>t, <2>3 DEF Resolve, TypeOK
    <2>5. phase' \in {"idle", "running", "awaiting", "cancelling"} /\ shown' \in 0..MaxInteractions
      BY <1>4, <1>t, ConstantsAssumption DEF Resolve, TypeOK
    <2>6. /\ claimed' = [claimed EXCEPT ![c] = NoTurn] /\ handler' = [handler EXCEPT ![c] = Idle]
          /\ UNCHANGED <<durable, db, acked, mutation, view, registry, pc, local, awaiting, bounds>>
      BY <1>4 DEF Resolve
    <2> QED BY <1>t, <2>1, <2>4, <2>5, <2>6 DEF TypeOK, durable, registry, bounds
  <1>5. CASE \E answer \in Answers : Claim(c, answer)
    <2>1. PICK answer \in Answers : Claim(c, answer)
      BY <1>5
    <2>2. PICK i \in interactions : interactions' = interactions \ {i} /\ claimed' = [claimed EXCEPT ![c] = i]
      BY <2>1 DEF Claim
    <2>3. handler' = [handler EXCEPT ![c] =
                        [at |-> IF answer \in Decisions THEN "deciding" ELSE "resolving", answer |-> answer]]
      BY <2>1 DEF Claim
    <2> QED BY <1>t, <2>1, <2>2, <2>3 DEF Claim, TypeOK, durable, published, bounds
  <1> QED BY <1>1, <1>2, <1>3, <1>4, <1>5 DEF HandlerStep

\* What a rewind or a restore asks for.
LEMMA ReplaceTarget ==
  ASSUME TypeOK, ReplaceHistory
  PROVE  \E target \in Targets :
           /\ Submit("command", [by |-> "command", target |-> target])
           /\ target.upto <= Len(IF target.base = "store" THEN store ELSE target.log)
           /\ target.log = <<>> \/ target.log \in checkpoints
  <1> DEFINE Uptos(t) == {HistoryEnd(t.log, n) : n \in {m \in DOMAIN t.log :
                           t.log[m].kind \in {"user", "commentary", "final"}}}
                         \cup (IF t.base = "store" THEN {} ELSE {Len(t.log)})
             Target(t, upto) == [base |-> t.base, log |-> IF t.base = "store" THEN <<>> ELSE t.log,
                                 upto |-> upto]
  <1>1. \E t \in {[base |-> "store", log |-> store]}
                  \cup {[base |-> "checkpoint", log |-> cp] : cp \in checkpoints} :
          \E upto \in Uptos(t) : Submit("command", [by |-> "command", target |-> Target(t, upto)])
    BY DEF ReplaceHistory
  <1> HIDE DEF Uptos, Target
  <1>a. PICK t \in {[base |-> "store", log |-> store]}
                     \cup {[base |-> "checkpoint", log |-> cp] : cp \in checkpoints} :
          \E upto \in Uptos(t) : Submit("command", [by |-> "command", target |-> Target(t, upto)])
    BY <1>1
  <1>2. PICK upto \in Uptos(t) : Submit("command", [by |-> "command", target |-> Target(t, upto)])
    BY <1>a
  <1>3. (t.base = "store" /\ t.log = store) \/ (t.base = "checkpoint" /\ t.log \in checkpoints)
    BY <1>a
  <1>4. t.log \in Seq(Events)
    BY <1>3 DEF TypeOK
  <1>5. DOMAIN t.log = 1..Len(t.log) /\ Len(t.log) \in Nat
    BY <1>4
  <1>6. upto \in Nat /\ upto <= Len(t.log)
    BY <1>2, <1>5 DEF HistoryEnd, Uptos
  <1> DEFINE target == Target(t, upto)
  <1>7. target \in Targets
    <2>1. <<>> \in Seq(Events)
      OBVIOUS
    <2> QED BY <1>3, <1>4, <1>6, <2>1 DEF Targets, Target
  <1>8. /\ target.upto <= Len(IF target.base = "store" THEN store ELSE target.log)
        /\ target.log = <<>> \/ target.log \in checkpoints
    BY <1>3, <1>6 DEF Target
  <1>9. Submit("command", [by |-> "command", target |-> target])
    BY <1>2
  <1> QED BY <1>7, <1>8, <1>9

\* Every step keeps the types.
LEMMA StepTyped ==
  ASSUME IInv, [Next]_vars
  PROVE  TypeOK'
  <1>t. TypeOK /\ local \in Locals
    BY DEF IInv, TypeOK
  <1>n. NoLocals \in Locals
    BY DEF NoLocals, Locals
  <1>p. Published(store) \in Seq([seq : Nat, event : Events])
    <2>1. Len(store) \in Nat /\ DOMAIN store = 1..Len(store) /\ \A n \in 1..Len(store) : store[n] \in Events
      BY <1>t DEF TypeOK
    <2>2. Published(store) \in [1..Len(store) -> [seq : Nat, event : Events]]
      BY <2>1 DEF Published
    <2> QED BY <2>1, <2>2, Listed
  <1>1. CASE RunStatement
    BY <1>1, <1>t, RunTyped DEF RunStatement, TypeOK, published, registry, answering, bounds
  <1>2. CASE \E request \in scenario.requests : StartTurn(request)
    <2>1. PICK request \in scenario.requests : StartTurn(request)
      BY <1>2
    <2>2. request \in {"send", "continue", "compact"} /\ scenario.turns \in 0..MaxTurns
      BY <1>t, ConstantsAssumption DEF TypeOK
    <2>3. [NoLocals EXCEPT !.request = request] \in Locals
      BY <1>n, <2>2 DEF Locals
    <2>4. turnCount + 1 \in 1..MaxTurns
      <3>1. turnCount < scenario.turns
        BY <2>1 DEF StartTurn
      <3>2. turnCount \in 0..MaxTurns /\ MaxTurns \in Nat
        BY <1>t, ConstantsAssumption DEF TypeOK
      <3> QED BY <2>2, <3>1, <3>2
    <2>5. [turn |-> turnCount + 1, cancelling |-> FALSE] \in ActiveTurns
      BY <2>4 DEF ActiveTurns
    <2> QED BY <1>t, <2>1, <2>3, <2>4, <2>5 DEF StartTurn, TypeOK, durable, published, answering, bounds
  <1>3. CASE Cancel
    <2>1. active \in ActiveTurns
      BY <1>3, <1>t DEF Cancel, IsActive, TypeOK
    <2>2. active' \in ActiveTurns
      BY <1>3, <2>1 DEF Cancel, ActiveTurns
    <2> QED BY <1>3, <1>t, <2>2 DEF Cancel, TypeOK, durable, published, answering, bounds
  <1>4. CASE \E c \in scenario.clients : HandlerStep(c) \/ \E answer \in Decisions \cup {"answered"} : Claim(c, answer)
    <2>1. scenario.clients \subseteq Clients
      BY <1>t, ConstantsAssumption DEF TypeOK
    <2> QED BY <1>4, <2>1, HandlerStepTyped DEF Answers
  <1>5. CASE ReplaceHistory
    <2>1. PICK target \in Targets : Submit("command", [by |-> "command", target |-> target])
      BY <1>5, <1>t, ReplaceTarget
    <2>2. [by |-> "command", target |-> target] \in Statements
      BY DEF Statements
    <2>3. db' \in Seq(Statements) /\ mutation' \in Actors \cup {"free"}
      BY <1>t, <2>1, <2>2, SubmitTyped DEF Actors
    <2>4. UNCHANGED <<store, checkpoints, acked, view, phase, shown, active, interactions, nextInteraction,
                      turnCount, pc, local, awaiting, claimed, handler, sent, scenario, crashes>>
      BY <1>5 DEF ReplaceHistory, durable, published, registry, answering
    <2>5. replacements' \in Nat
      BY <1>5, <1>t DEF ReplaceHistory, TypeOK
    <2> QED BY <1>t, <2>3, <2>4, <2>5 DEF TypeOK
  <1>6. CASE HistoryReplaced
    <2>1. acked' \in [Actors -> Nat] /\ mutation' \in Actors \cup {"free"} /\ view' \in Seq([seq : Nat, event : Events])
      BY <1>6, <1>t, <1>p DEF HistoryReplaced, TypeOK
    <2> QED BY <1>6, <1>t, <2>1 DEF HistoryReplaced, TypeOK, durable, registry, answering, bounds
  <1>7. CASE Crash
    <2>1. /\ Idle \in [at : {"idle", "deciding", "storing", "resolving"}, answer : Answers \cup {"none"}]
          /\ db' \in Seq(Statements) /\ acked' \in [Actors -> Nat]
          /\ handler' = [c \in Clients |-> Idle] /\ claimed' = [c \in Clients |-> NoTurn]
      BY <1>7 DEF Crash, Idle
    <2>2. crashes' \in Nat
      BY <1>7, <1>t DEF Crash, TypeOK
    <2> QED BY <1>7, <1>t, <1>n, <1>p, <2>1, <2>2, ConstantsAssumption DEF Crash, TypeOK, durable
  <1>8. CASE UNCHANGED vars
    BY <1>8, <1>t DEF vars, TypeOK, durable, published, registry, answering, bounds
  <1> QED BY <1>1, <1>2, <1>3, <1>4, <1>5, <1>6, <1>7, <1>8, TurnStepTyped, EndStepTyped DEF Next

-----------------------------------------------------------------------------
(* The lock: who holds it, what is on the connection, who may acknowledge. *)

LockInv == DbOwned /\ AckedOwned /\ LockOwned /\ HandlersClaim

\* The statements are numbered and come from writers.
LEMMA DbTyped ==
  ASSUME TypeOK
  PROVE  /\ Len(db) \in Nat /\ DOMAIN db = 1..Len(db) /\ (db = <<>> <=> Len(db) = 0)
         /\ \A n \in DOMAIN db : db[n] \in Statements /\ db[n].by \in Actors \cup {"nobody"}
         /\ \A c \in Clients : c \notin {"turn", "command", "nobody", "free"}
         /\ Len(store) \in Nat /\ DOMAIN store = 1..Len(store)
  <1>1. Len(db) \in Nat /\ DOMAIN db = 1..Len(db) /\ \A n \in 1..Len(db) : db[n] \in Statements
    BY DEF TypeOK
  <1>2. db = <<>> <=> Len(db) = 0
    BY EmptySeq DEF TypeOK
  <1>3. \A s \in Statements : s.by \in Actors \cup {"nobody"}
    BY DEF Statements, Actors
  <1>4. Len(store) \in Nat /\ DOMAIN store = 1..Len(store)
    BY DEF TypeOK
  <1> QED BY <1>1, <1>2, <1>3, <1>4, ConstantsAssumption

\* While nobody holds the lock there is at most the statement of a dropped turn,
\* and none when the turn is where it may write.
LEMMA FreeLock ==
  ASSUME IInv, mutation = "free"
  PROVE  /\ ~Writing /\ \A a \in Actors : acked[a] = 0
         /\ \A n \in DOMAIN db : db[n].by = "nobody" /\ n = 1
         /\ pc \notin {"cancelling", "sweeping"} => db = <<>>
         /\ \A c \in Clients : handler[c].at # "storing"
  <1>1. "free" \notin Actors /\ Clients \subseteq Actors
    BY ConstantsAssumption DEF Actors
  <1>2. ~Writing /\ \A c \in Clients : handler[c].at # "storing"
    BY <1>1, ConstantsAssumption DEF IInv, LockOwned
  <1>3. \A a \in Actors : acked[a] = 0
    BY <1>1 DEF IInv, AckedOwned
  <1>4. \A n \in DOMAIN db : db[n].by = "nobody"
    BY <1>1, DbTyped DEF IInv, DbOwned
  <1>5. \A n \in DOMAIN db : n = 1 /\ pc \in {"cancelling", "sweeping"}
    BY <1>4, ConstantsAssumption DEF IInv, DbOwned
  <1>6. pc \notin {"cancelling", "sweeping"} => db = <<>>
    BY <1>5, DbTyped DEF IInv
  <1> QED BY <1>2, <1>3, <1>4, <1>5, <1>6

\* A step that leaves the lock, the connection and the handlers alone.
LEMMA QuietLock ==
  ASSUME IInv, UNCHANGED <<store, db, acked, mutation, claimed, handler>>,
         Writing' <=> Writing, (mutation = "command" /\ IsActive') => IsActive,
         pc \in {"cancelling", "sweeping"} => (db = <<>> \/ pc' \in {"cancelling", "sweeping"})
  PROVE  LockInv'
  <1>1. DbOwned'
    BY DbTyped DEF IInv, DbOwned
  <1>2. AckedOwned'
    BY DEF IInv, AckedOwned
  <1>3. LockOwned'
    BY DEF IInv, LockOwned
  <1>4. HandlersClaim'
    BY DEF IInv, HandlersClaim
  <1> QED BY <1>1, <1>2, <1>3, <1>4 DEF LockInv

\* A statement is submitted.
LEMMA SubmitLock ==
  ASSUME IInv, NEW a \in Actors, NEW s \in Statements, Submit(a, s), s.by = a,
         UNCHANGED <<store, acked, claimed>>,
         pc \in {"cancelling", "sweeping"} => (a \in Clients /\ pc' = pc),
         Writing' <=> a = "turn", a = "command" => ~IsActive',
         \A c \in Clients : IF c = a THEN /\ s.event = Event(handler[c].answer, claimed[c].id)
                                          /\ handler[c].at = "deciding"
                                          /\ handler'[c] = [handler[c] EXCEPT !.at = "storing"]
                            ELSE handler'[c] = handler[c]
  PROVE  LockInv'
  <1>t. TypeOK /\ mutation = "free" /\ mutation' = a /\ db' = Append(db, s)
    BY DEF IInv, Submit
  <1>1. /\ DOMAIN db' = 1..(Len(db) + 1) /\ Len(db') = Len(db) + 1 /\ Len(db) \in Nat /\ DOMAIN db = 1..Len(db)
        /\ \A n \in 1..Len(db) : db'[n] = db[n]
        /\ db'[Len(db) + 1] = s
    BY <1>t, Appended DEF TypeOK
  <1>2. /\ \A n \in 1..Len(db) : db[n].by = "nobody" /\ n = 1
        /\ pc \notin {"cancelling", "sweeping"} => Len(db) = 0
        /\ \A b \in Actors : acked[b] = 0
    BY <1>1, <1>t, FreeLock, DbTyped
  <1>3. a \notin Clients => Len(db) = 0
    BY <1>2
  <1>4. \A c \in Clients : handler[c] \in [at : {"idle", "deciding", "storing", "resolving"},
                                           answer : Answers \cup {"none"}]
    BY <1>t DEF TypeOK
  <1>5. /\ a # "nobody" /\ \A c \in Clients : c \notin {"turn", "command", "nobody", "free"}
        /\ a \in Clients \/ a \in {"turn", "command"}
    BY ConstantsAssumption DEF Actors
  <1>6. \A c \in Clients : /\ c = a => handler'[c].at = "storing" /\ handler'[c].answer = handler[c].answer
                           /\ c # a => handler'[c] = handler[c]
    BY <1>4
  <1>7. DbOwned'
    <2>1. \A n \in 1..Len(db) : /\ db'[n].by = "nobody" /\ n = 1 /\ pc \in {"cancelling", "sweeping"}
      BY <1>1, <1>2
    <2>2. \A n \in 1..Len(db) :
            /\ db'[n].by # "nobody" => n = Len(db') /\ mutation' = db'[n].by /\ acked'[db'[n].by] = 0
            /\ db'[n].by \notin Clients => n = 1
            /\ db'[n].by = "nobody" => pc' \in {"cancelling", "sweeping"}
            /\ db'[n].by \in Clients => db'[n].event = Event(handler'[db'[n].by].answer, claimed'[db'[n].by].id)
      BY <2>1, <1>5
    <2>a. a \in Clients => s.event = Event(handler[a].answer, claimed[a].id)
      OBVIOUS
    <2>b. a \in Clients => s.event = Event(handler'[a].answer, claimed'[a].id)
      BY <2>a, <1>6
    <2>c. Len(db) + 1 = Len(db') /\ mutation' = a /\ acked'[a] = 0 /\ a # "nobody"
      BY <1>t, <1>1, <1>2, <1>5
    <2>3. /\ s.by # "nobody" => Len(db) + 1 = Len(db') /\ mutation' = s.by /\ acked'[s.by] = 0
          /\ s.by \notin Clients => Len(db) + 1 = 1
          /\ s.by = "nobody" => pc' \in {"cancelling", "sweeping"}
          /\ s.by \in Clients => s.event = Event(handler'[s.by].answer, claimed'[s.by].id)
      BY <1>1, <1>3, <2>b, <2>c
    <2> QED BY <1>1, <2>2, <2>3 DEF DbOwned
  <1>8. AckedOwned'
    BY <1>2, ConstantsAssumption DEF AckedOwned, Actors
  <1>9. LockOwned'
    <2>1. mutation' = "turn" <=> Writing'
      BY <1>t
    <2>2. mutation' = "command" => ~IsActive'
      BY <1>t
    <2>3. \A c \in Clients : mutation' = c <=> handler'[c].at = "storing"
      BY <1>t, <1>6, FreeLock
    <2> QED BY <2>1, <2>2, <2>3 DEF LockOwned
  <1>10. HandlersClaim'
    <2>1. \A c \in Clients : c = a => handler'[c].at = "storing" /\ handler'[c].answer \in Decisions
                                        /\ claimed[c] # NoTurn
      BY <1>6 DEF IInv, HandlersClaim
    <2>2. \A c \in Clients : c = a => handler'[c] # Idle /\ handler'[c].answer \in Answers
      BY <2>1 DEF Idle, Answers
    <2> QED BY <1>6, <2>1, <2>2 DEF IInv, HandlersClaim
  <1> QED BY <1>7, <1>8, <1>9, <1>10 DEF LockInv

\* A writer sees its statement acknowledged and unlocks.
LEMMA AcknowledgeLock ==
  ASSUME IInv, NEW a \in Actors, acked[a] # 0, acked' = [acked EXCEPT ![a] = 0], mutation' = "free",
         UNCHANGED <<store, db, claimed>>, ~Writing',
         \A c \in Clients : IF c = a THEN handler'[c] = [handler[c] EXCEPT !.at = "resolving"]
                            ELSE handler'[c] = handler[c]
  PROVE  LockInv'
  <1>t. TypeOK /\ mutation = a /\ db = <<>>
    BY DEF IInv, AckedOwned
  <1>1. DbOwned'
    BY <1>t DEF DbOwned
  <1>2. \A b \in Actors : acked'[b] = 0
    BY <1>t DEF IInv, AckedOwned, TypeOK
  <1>3. AckedOwned'
    BY <1>2 DEF AckedOwned, Actors
  <1>4. \A c \in Clients : /\ handler[c] \in [at : {"idle", "deciding", "storing", "resolving"},
                                              answer : Answers \cup {"none"}]
                           /\ handler[c].at = "storing" <=> c = a
    BY <1>t DEF IInv, TypeOK, LockOwned
  <1>5. \A c \in Clients : /\ c = a => handler'[c].at = "resolving" /\ handler'[c].answer = handler[c].answer
                           /\ c # a => handler'[c] = handler[c]
    BY <1>4
  <1>6. LockOwned'
    BY <1>4, <1>5, ConstantsAssumption DEF LockOwned
  <1>7. HandlersClaim'
    <2>1. \A c \in Clients : c = a => handler'[c].answer \in Answers /\ claimed[c] # NoTurn
      BY <1>4, <1>5 DEF IInv, HandlersClaim
    <2> QED BY <1>5, <2>1 DEF IInv, HandlersClaim, Idle
  <1> QED BY <1>1, <1>3, <1>6, <1>7 DEF LockInv

\* The connection runs a statement.  (the connection thread)
LEMMA RunLock ==
  ASSUME IInv, RunStatement
  PROVE  LockInv'
  <1> DEFINE s == Head(db)
  <1>t. TypeOK /\ db # <<>> /\ db' = Tail(db)
        /\ UNCHANGED <<mutation, pc, local, active, claimed, handler>>
    BY DEF IInv, RunStatement, registry, answering
  <1>1. /\ Len(db) \in Nat \ {0} /\ DOMAIN db = 1..Len(db)
        /\ Len(db') = Len(db) - 1 /\ DOMAIN db' = 1..(Len(db) - 1)
        /\ \A n \in 1..(Len(db) - 1) : db'[n] = db[n + 1]
        /\ s = db[1] /\ s \in Statements /\ 1 \in DOMAIN db
    BY <1>t, Popped DEF TypeOK
  <1>2. \A a \in Actors : acked[a] = 0
    BY <1>t DEF IInv, AckedOwned
  <1>3. /\ acked' = IF s.by = "nobody" THEN acked ELSE [acked EXCEPT ![s.by] = Len(store')]
        /\ s.by # "command" => store' = Append(store, s.event)
    BY DEF RunStatement
  <1>4. /\ s.by = "nobody" \/ s.by \in Actors
        /\ s.by # "command" => s.event \in Events
        /\ s.by # "nobody" => Len(db) = 1 /\ mutation = s.by
        /\ s.by \in Clients => s.event = Event(handler[s.by].answer, claimed[s.by].id)
    BY <1>1, <1>t, DbTyped, RunTyped DEF IInv, DbOwned
  <1> HIDE DEF s
  <1>5. \A a \in Actors : acked'[a] # 0 => a = s.by /\ a # "nobody" /\ acked'[a] = Len(store')
    BY <1>2, <1>3, <1>t DEF TypeOK
  <1>6. DbOwned'
    <2>1. \A n \in DOMAIN db' : /\ n + 1 \in DOMAIN db /\ db'[n] = db[n + 1] /\ n # 0 /\ n \in Nat
      BY <1>1
    <2>2. \A n \in DOMAIN db' : db'[n].by \in Clients /\ n + 1 = Len(db) /\ mutation = db'[n].by
      BY <2>1, ConstantsAssumption DEF IInv, DbOwned
    <2>3. \A n \in DOMAIN db' : s.by = "nobody"
      BY <1>1, <1>4
    <2>4. \A n \in DOMAIN db' : db'[n].event = Event(handler[db'[n].by].answer, claimed[db'[n].by].id)
      BY <2>1, <2>2 DEF IInv, DbOwned
    <2>5. \A n \in DOMAIN db' : acked'[db'[n].by] = 0
      BY <1>2, <1>3, <2>2, <2>3 DEF Actors
    <2>6. \A n \in DOMAIN db' : n = Len(db')
      BY <1>1, <2>2
    <2> QED BY <1>t, <2>2, <2>4, <2>5, <2>6, ConstantsAssumption DEF DbOwned
  <1>7. AckedOwned'
    <2>1. \A a \in Actors : acked'[a] # 0 => mutation' = a /\ acked'[a] = Len(store') /\ Len(db') = 0
      BY <1>1, <1>4, <1>5, <1>t
    <2>2. Len(db') = 0 => db' = <<>>
      BY <1>t, RunTyped, EmptySeq
    <2>3. \A c \in Clients : acked'[c] # 0 => store'[acked'[c]] = Event(handler[c].answer, claimed[c].id)
      <3>1. SUFFICES ASSUME NEW c \in Clients, acked'[c] # 0
                     PROVE  store'[acked'[c]] = Event(handler[c].answer, claimed[c].id)
        OBVIOUS
      <3>2. c = s.by /\ acked'[c] = Len(store') /\ c # "command"
        BY <3>1, <1>5, ConstantsAssumption DEF Actors
      <3>3. store' = Append(store, s.event) /\ s.event \in Events /\ s.event = Event(handler[c].answer, claimed[c].id)
        BY <3>2, <1>3, <1>4
      <3>4. Len(store') = Len(store) + 1 /\ store'[Len(store) + 1] = s.event
        BY <3>3, <1>t, Appended DEF TypeOK
      <3> QED BY <3>2, <3>3, <3>4
    <2> QED BY <1>t, <2>1, <2>2, <2>3 DEF AckedOwned, Actors
  <1>8. LockOwned'
    BY <1>t DEF IInv, LockOwned, Writing, IsActive
  <1>9. HandlersClaim'
    BY <1>t DEF IInv, HandlersClaim
  <1> QED BY <1>6, <1>7, <1>8, <1>9 DEF LockInv

\* The future is dropped: its statement is nobody's.  (handle_started_streaming)
LEMMA DropLock ==
  ASSUME IInv, DropTurn
  PROVE  LockInv'
  <1>t. TypeOK /\ pc \in TurnRunning /\ pc' = "cancelling" /\ IsActive /\ IsActive' /\ local'.next = "none"
        /\ UNCHANGED <<store, active, claimed, handler>>
    BY DEF IInv, DropTurn, durable, registry, answering, InTurn, IsCancelling, IsActive, NoLocals
  <1>1. /\ DOMAIN db' = DOMAIN db
        /\ \A n \in DOMAIN db : db'[n] = IF db[n].by = "turn" THEN [db[n] EXCEPT !.by = "nobody"] ELSE db[n]
        /\ mutation' = IF mutation = "turn" THEN "free" ELSE mutation
        /\ acked' = [acked EXCEPT !["turn"] = 0]
    BY DEF DropTurn
  <1>2. Len(db') = Len(db) /\ Len(db) \in Nat /\ DOMAIN db = 1..Len(db)
    <2>1. db' \in Seq(Statements) /\ db \in Seq(Statements)
      BY EndStepTyped, <1>t DEF TypeOK, EndStep
    <2> QED BY <1>1, <2>1
  <1>3. \A n \in DOMAIN db : /\ db[n].by = "turn" => db'[n].by = "nobody"
                             /\ db[n].by # "turn" => db'[n] = db[n]
    <2>1. \A n \in DOMAIN db : db[n] \in Statements
      BY <1>t, DbTyped
    <2>2. \A s \in Statements : [s EXCEPT !.by = "nobody"].by = "nobody"
      BY DEF Statements
    <2> QED BY <1>1, <2>1, <2>2
  <1>4. DbOwned'
    <2>1. SUFFICES ASSUME NEW n \in DOMAIN db
                   PROVE  /\ db'[n].by # "nobody" => n = Len(db') /\ mutation' = db'[n].by /\ acked'[db'[n].by] = 0
                          /\ db'[n].by \notin Clients => n = 1
                          /\ db'[n].by = "nobody" => pc' \in {"cancelling", "sweeping"}
                          /\ db'[n].by \in Clients =>
                               db'[n].event = Event(handler'[db'[n].by].answer, claimed'[db'[n].by].id)
      BY <1>1 DEF DbOwned
    <2>2. CASE db[n].by = "turn"
      BY <1>t, <1>3, <2>2, ConstantsAssumption DEF IInv, DbOwned
    <2>3. CASE db[n].by # "turn"
      <3>1. db'[n] = db[n] /\ db[n].by \in Actors \cup {"nobody"}
        BY <1>3, <1>t, <2>3, DbTyped
      <3>2. /\ db[n].by # "nobody" => n = Len(db) /\ mutation = db[n].by /\ acked[db[n].by] = 0
            /\ db[n].by \notin Clients => n = 1
            /\ db[n].by \in Clients => db[n].event = Event(handler[db[n].by].answer, claimed[db[n].by].id)
        BY DEF IInv, DbOwned
      <3>3. db[n].by # "nobody" => mutation' = db[n].by /\ acked'[db[n].by] = 0
        BY <1>1, <1>t, <2>3, <3>1, <3>2 DEF TypeOK
      <3> QED BY <1>t, <1>2, <3>1, <3>2, <3>3
    <2> QED BY <2>2, <2>3
  <1>5. AckedOwned'
    <2>1. \A a \in Actors : acked'[a] # 0 => a # "turn" /\ acked'[a] = acked[a]
      BY <1>1, <1>t DEF TypeOK
    <2>2. db = <<>> => db' = <<>>
      <3>1. db' \in Seq(Statements)
        BY EndStepTyped DEF TypeOK, EndStep
      <3> QED BY <1>2, <1>t, <3>1, DbTyped, EmptySeq
    <2> QED BY <1>1, <1>t, <2>1, <2>2 DEF IInv, AckedOwned, Actors
  <1>6. LockOwned'
    <2>1. ~Writing' /\ mutation' # "turn"
      BY <1>1, <1>t DEF Writing
    <2>2. mutation' = "command" => ~IsActive'
      BY <1>1, <1>t DEF IInv, LockOwned
    <2>3. \A c \in Clients : mutation' = c <=> handler'[c].at = "storing"
      BY <1>1, <1>t, ConstantsAssumption DEF IInv, LockOwned
    <2> QED BY <2>1, <2>2, <2>3 DEF LockOwned
  <1>7. HandlersClaim'
    BY <1>t DEF IInv, HandlersClaim
  <1> QED BY <1>4, <1>5, <1>6, <1>7 DEF LockInv

\* A handler that claims, fails or resolves holds no lock.
LEMMA HandlerLock ==
  ASSUME IInv, NEW c \in Clients, DecisionFails(c) \/ Resolve(c) \/ \E answer \in Answers : Claim(c, answer)
  PROVE  LockInv'
  <1>t. /\ TypeOK /\ handler[c].at # "storing" /\ claimed' = [claimed EXCEPT ![c] = claimed'[c]]
        /\ handler' = [handler EXCEPT ![c] = handler'[c]]
        /\ UNCHANGED <<store, db, acked, mutation, pc, local, active>>
    BY DEF IInv, TypeOK, DecisionFails, Resolve, Claim, durable, registry, Idle
  <1>1. /\ \A d \in Clients : d # c => handler'[d] = handler[d] /\ claimed'[d] = claimed[d]
    BY <1>t DEF TypeOK
  <1>2. mutation # c /\ acked[c] = 0
    BY <1>t DEF IInv, LockOwned, AckedOwned, Actors
  <1>3. /\ handler'[c] = Idle <=> claimed'[c] = NoTurn
        /\ handler'[c].at = "idle" <=> claimed'[c] = NoTurn
        /\ handler'[c].at # "idle" => handler'[c].answer \in Answers
        /\ handler'[c].at \in {"deciding", "storing"} => handler'[c].answer \in Decisions
        /\ handler'[c].at # "storing"
    <2>1. CASE DecisionFails(c) \/ Resolve(c)
      BY <1>t, <2>1 DEF DecisionFails, Resolve, TypeOK, Idle
    <2>2. CASE \E answer \in Answers : Claim(c, answer)
      <3>1. PICK answer \in Answers : Claim(c, answer)
        BY <2>2
      <3>2. claimed'[c] \in Interactions
        BY <1>t, <3>1 DEF Claim, TypeOK
      <3>3. claimed'[c] # NoTurn
        BY <3>2, NoTurnAssumption
      <3>4. handler'[c] = [at |-> IF answer \in Decisions THEN "deciding" ELSE "resolving", answer |-> answer]
        BY <1>t, <3>1 DEF Claim, TypeOK
      <3> QED BY <3>3, <3>4 DEF Idle
    <2> QED BY <2>1, <2>2
  <1>4. DbOwned'
    BY <1>t, <1>1, <1>2, DbTyped DEF IInv, DbOwned
  <1>5. AckedOwned'
    BY <1>t, <1>1, <1>2 DEF IInv, AckedOwned
  <1>6. LockOwned'
    BY <1>t, <1>1, <1>2, <1>3 DEF IInv, LockOwned, Writing, IsActive
  <1>7. HandlersClaim'
    BY <1>1, <1>3 DEF IInv, HandlersClaim
  <1> QED BY <1>4, <1>5, <1>6, <1>7 DEF LockInv

\* Every step keeps the lock.
LEMMA LockStep ==
  ASSUME IInv, [Next]_vars
  PROVE  LockInv'
  <1>t. TypeOK /\ TurnRegistered /\ LockOwned
    BY DEF IInv
  <1>1. CASE Launch
    BY <1>1, <1>t, QuietLock DEF Launch, durable, answering, Writing, IsActive, TurnRegistered
  <1>2. CASE Stored
    <2>1. ~Writing'
      BY <1>2, <1>t DEF Stored, Writing, TurnRegistered, TurnRunning, Moving, Onward
    <2>2. UNCHANGED <<store, db, claimed, handler>> /\ Acknowledge("turn")
      BY <1>2 DEF Stored, durable, answering
    <2> QED BY <2>1, <2>2, AcknowledgeLock, ConstantsAssumption DEF Acknowledge, Actors
  <1>3. CASE SaveStep
    <2>1. PICK e \in Events, next \in Onward, loc \in Locals : Save(e, next, loc) /\ pc \in Moving
      BY <1>3 DEF SaveStep
    <2>2. [by |-> "turn", event |-> e] \in Statements
      BY DEF Statements
    <2>3. /\ Submit("turn", [by |-> "turn", event |-> e]) /\ pc' = "storing" /\ "turn" \in Actors
          /\ UNCHANGED <<store, acked, claimed, handler>>
      BY <2>1 DEF Save, durable, answering, Actors
    <2> QED BY <2>1, <2>2, <2>3, SubmitLock, ConstantsAssumption DEF Writing, Moving, Onward, TurnRunning
  <1>4. CASE MoveStep
    <2>1. PICK next \in Onward, loc \in Locals : Goto(next, loc) /\ pc \in Moving \cup {"preparing"}
      BY <1>4 DEF MoveStep
    <2>2. UNCHANGED <<store, db, acked, mutation, claimed, handler, active>> /\ pc' = next
      BY <2>1 DEF Goto, durable, answering, registry
    <2> QED BY <2>1, <2>2, QuietLock DEF Writing, Moving, Onward, TurnRunning, IsActive
  <1>5. CASE ReturnStep
    <2>1. PICK next \in {"cancelling", "outcome"}, loc \in {local, [local EXCEPT !.outcome = "completed"],
                  [local EXCEPT !.outcome = "failed"]} : Goto(next, loc) /\ pc \in TurnRunning \ {"storing"}
      BY <1>5 DEF ReturnStep, Return
    <2>2. UNCHANGED <<store, db, acked, mutation, claimed, handler, active>> /\ pc' = next
      BY <2>1 DEF Goto, durable, answering, registry
    <2> QED BY <2>1, <2>2, QuietLock DEF Writing, TurnRunning, IsActive
  <1>6. CASE RegisterInteraction
    BY <1>6, QuietLock DEF RegisterInteraction, HasCall, durable, answering, Writing, IsActive
  <1>7. CASE Asks
    BY <1>7, QuietLock DEF Asks, Goto, durable, answering, registry, Writing, IsActive
  <1>8. CASE ReceiveAnswer
    <2>1. PICK a \in sent : Goto(CASE a.answer = "allowed" -> "executing"
                                   [] a.answer = "refused" -> "denied"
                                   [] a.answer = "answered" -> "answered", local)
      BY <1>8 DEF ReceiveAnswer
    <2>2. a.answer \in {"allowed", "refused", "answered"}
      BY <1>t DEF TypeOK, Answers, Decisions
    <2>3. /\ pc = "asked" /\ pc' \in {"executing", "denied", "answered"}
          /\ UNCHANGED <<store, db, acked, mutation, claimed, handler, active>>
      BY <1>8, <2>1, <2>2 DEF ReceiveAnswer, Goto, durable, answering, registry
    <2> QED BY <2>3, QuietLock DEF Writing, IsActive
  <1>9. CASE BeginCleanup
    BY <1>9, QuietLock DEF BeginCleanup, durable, answering, Writing, IsActive
  <1>10. CASE Sweep
    <2>1. /\ pc = "sweeping" /\ db = <<>> /\ pc' \in {"outcome", "sweepstoring"}
          /\ UNCHANGED <<store, db, acked, mutation, claimed, handler, active>>
      BY <1>10 DEF Sweep, Readable, Goto, durable, answering, registry
    <2>2. local'.next = local.next
      BY <1>10, <1>t DEF Sweep, Goto, TypeOK, Locals
    <2>3. local.next # "swept"
      BY <1>t, <2>1 DEF TurnRegistered
    <2> QED BY <2>1, <2>2, <2>3, QuietLock DEF Writing, IsActive
  <1>11. CASE SweepCall
    <2>1. PICK call \in local.todo :
            /\ Submit("turn", [by |-> "turn", event |-> Event("interrupted", call)])
            /\ local' = [local EXCEPT !.todo = @ \ {call}, !.next = "swept"]
      BY <1>11 DEF SweepCall, FirstOf
    <2>2. [by |-> "turn", event |-> Event("interrupted", call)] \in Statements
      BY <1>t, EventTyped DEF Statements, TypeOK, Locals, Kinds, Results
    <2>3. local'.next = "swept"
      BY <1>t, <2>1 DEF TypeOK, Locals
    <2>4. /\ pc = "sweepstoring" /\ pc' = "sweepstoring" /\ "turn" \in Actors
          /\ UNCHANGED <<store, acked, claimed, handler>>
      BY <1>11 DEF SweepCall, durable, answering, Actors
    <2> QED BY <2>1, <2>2, <2>3, <2>4, SubmitLock, ConstantsAssumption DEF Writing
  <1>12. CASE SweepStored
    <2>1. local'.next = "none" \/ pc' = "outcome"
      BY <1>12, <1>t DEF SweepStored, TypeOK, Locals
    <2>2. /\ ~Writing' /\ Acknowledge("turn") /\ UNCHANGED <<store, db, claimed, handler>>
      BY <1>12, <2>1 DEF SweepStored, durable, answering, Writing
    <2> QED BY <2>2, AcknowledgeLock, ConstantsAssumption DEF Acknowledge, Actors
  <1>13. CASE SaveOutcome
    <2>1. local.outcome \in Outcomes /\ active.turn \in Nat
      BY <1>13, <1>t DEF SaveOutcome, TurnRegistered, TypeOK, ActiveTurns, IsActive
    <2>2. [by |-> "turn", event |-> Event(local.outcome, active.turn)] \in Statements
      BY <2>1, EventTyped DEF Statements, Kinds
    <2>3. /\ pc = "outcome" /\ pc' = "outcomestoring" /\ "turn" \in Actors
          /\ Submit("turn", [by |-> "turn", event |-> Event(local.outcome, active.turn)])
          /\ UNCHANGED <<store, acked, claimed, handler>>
      BY <1>13 DEF SaveOutcome, durable, answering, Actors
    <2> QED BY <2>2, <2>3, SubmitLock, ConstantsAssumption DEF Writing
  <1>14. CASE OutcomeStored
    BY <1>14, AcknowledgeLock, ConstantsAssumption
       DEF OutcomeStored, Acknowledge, Actors, durable, answering, Writing
  <1>15. CASE PublishTurnFinished
    BY <1>15, QuietLock DEF PublishTurnFinished, Goto, durable, answering, registry, Writing, IsActive
  <1>16. CASE Finish
    BY <1>16, QuietLock DEF Finish, durable, answering, Writing, IsActive
  <1>17. CASE \E request \in scenario.requests : StartTurn(request)
    <2>1. pc = "none" /\ pc' = "launching" /\ mutation = "free"
          /\ UNCHANGED <<store, db, acked, mutation, claimed, handler>>
      BY <1>17, <1>t DEF StartTurn, TurnRegistered, durable, answering
    <2> QED BY <2>1, QuietLock DEF Writing
  <1>18. CASE Cancel
    <2>1. IsActive /\ UNCHANGED <<store, db, acked, mutation, claimed, handler, pc, local>>
      BY <1>18 DEF Cancel, durable, answering
    <2> QED BY <2>1, QuietLock DEF Writing
  <1>19. CASE \E c \in scenario.clients : HandlerStep(c) \/ \E answer \in Decisions \cup {"answered"} : Claim(c, answer)
    <2>1. PICK c \in Clients : HandlerStep(c) \/ \E answer \in Answers : Claim(c, answer)
      BY <1>19, <1>t, ConstantsAssumption DEF TypeOK, Answers
    <2>2. CASE SaveDecision(c)
      <3>1. handler[c].answer \in Kinds /\ claimed[c].id \in Nat
        <4>1. handler[c].answer \in Decisions /\ claimed[c] \in Interactions
          BY <1>t, <2>2 DEF IInv, SaveDecision, HandlersClaim, TypeOK
        <4> QED BY <4>1 DEF Kinds, Interactions
      <3>2. Event(handler[c].answer, claimed[c].id) \in Events
        BY <3>1, EventTyped
      <3>3. [by |-> c, event |-> Event(handler[c].answer, claimed[c].id)] \in Statements
        BY <3>2 DEF Statements
      <3>4. \A d \in Clients : IF d = c THEN handler'[d] = [handler[d] EXCEPT !.at = "storing"]
                               ELSE handler'[d] = handler[d]
        BY <1>t, <2>2 DEF SaveDecision, TypeOK
      <3>5. UNCHANGED <<store, acked, claimed, pc, local, active>> /\ handler[c].at = "deciding" /\ mutation = "free"
        BY <2>2 DEF SaveDecision, durable, registry, Submit
      <3>6. ~Writing' /\ c # "turn" /\ c # "command" /\ c \in Actors
        BY <3>5, FreeLock, ConstantsAssumption DEF Writing, Actors
      <3>7. Submit(c, [by |-> c, event |-> Event(handler[c].answer, claimed[c].id)])
        BY <2>2 DEF SaveDecision
      <3> DEFINE s == [by |-> c, event |-> Event(handler[c].answer, claimed[c].id)]
      <3>8. s.by = c /\ s.event = Event(handler[c].answer, claimed[c].id) /\ s \in Statements /\ Submit(c, s)
        BY <3>3, <3>7
      <3> HIDE DEF s
      <3> QED BY <3>4, <3>5, <3>6, <3>8, SubmitLock
    <2>3. CASE DecisionStored(c)
      <3>1. \A d \in Clients : IF d = c THEN handler'[d] = [handler[d] EXCEPT !.at = "resolving"]
                               ELSE handler'[d] = handler[d]
        BY <1>t, <2>3 DEF DecisionStored, TypeOK
      <3>2. UNCHANGED <<store, db, claimed, pc, local>> /\ Acknowledge(c) /\ handler[c].at = "storing"
        BY <2>3 DEF DecisionStored, durable
      <3>3. mutation = c /\ c # "turn" /\ c \in Actors
        BY <1>t, <3>2, ConstantsAssumption DEF LockOwned, Actors
      <3>4. ~Writing'
        BY <1>t, <3>2, <3>3 DEF LockOwned, Writing
      <3> QED BY <3>1, <3>2, <3>3, <3>4, AcknowledgeLock DEF Acknowledge
    <2> QED BY <2>1, <2>2, <2>3, HandlerLock DEF HandlerStep
  <1>20. CASE ReplaceHistory
    <2>1. PICK target \in Targets : Submit("command", [by |-> "command", target |-> target])
      BY <1>20, <1>t, ReplaceTarget
    <2>2. [by |-> "command", target |-> target] \in Statements /\ "command" \in Actors
      BY DEF Statements, Actors
    <2>3. UNCHANGED <<store, acked, claimed, handler, pc, local, active>> /\ ~IsActive /\ mutation = "free"
      BY <1>20, <2>1 DEF ReplaceHistory, durable, registry, answering, Submit
    <2>4. pc = "none" /\ ~IsActive' /\ ~Writing'
      BY <1>t, <2>3 DEF TurnRegistered, IsActive, Writing
    <2> QED BY <2>1, <2>2, <2>3, <2>4, SubmitLock, ConstantsAssumption
  <1>21. CASE HistoryReplaced
    <2>1. /\ mutation = "command" /\ mutation' = "free" /\ db = <<>>
          /\ UNCHANGED <<store, db, claimed, handler, pc, local, active>>
          /\ acked' = [acked EXCEPT !["command"] = 0]
      BY <1>21 DEF HistoryReplaced, durable, registry, answering
    <2>2. \A a \in Actors : acked'[a] = 0
      BY <1>t, <2>1 DEF IInv, AckedOwned, TypeOK
    <2>3. ~Writing' /\ \A c \in Clients : handler[c].at # "storing"
      BY <1>t, <2>1, ConstantsAssumption DEF LockOwned, Writing
    <2>4. DbOwned' /\ AckedOwned' /\ HandlersClaim'
      BY <2>1, <2>2 DEF IInv, DbOwned, AckedOwned, HandlersClaim, Actors
    <2>5. LockOwned'
      BY <2>1, <2>3, ConstantsAssumption DEF LockOwned
    <2> QED BY <2>4, <2>5 DEF LockInv
  <1>22. CASE Crash
    <2>1. /\ db' = <<>> /\ acked' = [a \in Actors |-> 0] /\ mutation' = "free" /\ pc' = "none" /\ active' = NoTurn
          /\ handler' = [c \in Clients |-> Idle] /\ claimed' = [c \in Clients |-> NoTurn]
      BY <1>22 DEF Crash
    <2>2. DbOwned' /\ AckedOwned' /\ HandlersClaim'
      BY <2>1 DEF DbOwned, AckedOwned, HandlersClaim, Idle, Actors
    <2>3. LockOwned'
      BY <2>1, ConstantsAssumption DEF LockOwned, Writing, IsActive, Idle
    <2> QED BY <2>2, <2>3 DEF LockInv
  <1>23. CASE UNCHANGED vars
    <2>1. UNCHANGED <<store, db, acked, mutation, claimed, handler, pc, local, active>>
      BY <1>23 DEF vars, durable, registry, answering
    <2>2. DbOwned' /\ AckedOwned' /\ HandlersClaim' /\ LockOwned'
      BY <1>t, <2>1, DbTyped DEF IInv, DbOwned, AckedOwned, HandlersClaim, LockOwned, Writing, IsActive
    <2> QED BY <2>2 DEF LockInv
  <1>24. CASE TurnStep
    BY <1>1, <1>2, <1>3, <1>4, <1>5, <1>6, <1>7, <1>8, <1>24, KindsOfTurnStep
  <1>25. CASE EndStep
    BY <1>9, <1>10, <1>11, <1>12, <1>13, <1>14, <1>15, <1>16, <1>25, DropLock DEF EndStep
  <1> QED BY <1>17, <1>18, <1>19, <1>20, <1>21, <1>22, <1>23, <1>24, <1>25, RunLock DEF Next

-----------------------------------------------------------------------------
(* The turn and its locals.                                                *)

\* The locals that a step of the turn leaves as they are.
LEMMA LocalParts ==
  ASSUME TypeOK
  PROVE  /\ \A next \in TurnRunning \cup {"none", "swept"} :
              LET l == [local EXCEPT !.next = next] IN
              /\ l.next = next /\ l.request = local.request /\ l.outcome = local.outcome
              /\ l.batch = local.batch /\ l.events = local.events /\ l.todo = local.todo
         /\ \A outcome \in Outcomes :
              LET l == [local EXCEPT !.outcome = outcome] IN
              /\ l.outcome = outcome /\ l.request = local.request /\ l.next = local.next
              /\ l.batch = local.batch /\ l.events = local.events /\ l.todo = local.todo
         /\ \A calls \in SUBSET Nat :
              LET l == [local EXCEPT !.todo = calls] IN
              /\ l.todo = calls /\ l.request = local.request /\ l.next = local.next
              /\ l.batch = local.batch /\ l.events = local.events /\ l.outcome = local.outcome
         /\ \A calls \in SUBSET Nat :
              LET l == [local EXCEPT !.todo = calls, !.next = "swept"] IN
              /\ l.todo = calls /\ l.next = "swept" /\ l.events = local.events
              /\ l.batch = local.batch /\ l.outcome = local.outcome
  BY DEF TypeOK, Locals

\* What SaveStep leaves in the locals.
LEMMA SavedLocals ==
  ASSUME NEW loc \in Locals, NEW e \in Events, NEW next \in Onward, Save(e, next, loc)
  PROVE  /\ local'.next = next /\ local'.request = loc.request /\ local'.outcome = loc.outcome
         /\ local'.batch = loc.batch /\ local'.events = loc.events /\ local'.todo = loc.todo
         /\ pc' = "storing" /\ UNCHANGED <<store, checkpoints, active, turnCount, awaiting>>
  BY DEF Save, Locals, durable, registry

\* Every step keeps what the registry and the locals say of the turn.
LEMMA TurnRegisteredStep ==
  ASSUME IInv, [Next]_vars
  PROVE  TurnRegistered'
  <1>t. TypeOK /\ TurnRegistered /\ turnCount \in Nat
    BY ConstantsAssumption DEF IInv, TypeOK
  <1>a. \A a \in ActiveTurns : a # NoTurn
    BY NoTurnAssumption
  <1>1. CASE Launch
    <2>1. CASE phase = "idle"
      BY <1>1, <1>t, <2>1 DEF Launch, TurnRegistered, InTurn, IsActive
    <2>2. CASE phase # "idle"
      BY <1>1, <1>t, <2>2 DEF Launch, TurnRegistered, InTurn, IsActive, NoLocals, TurnRunning
    <2> QED BY <2>1, <2>2
  <1>2. CASE Stored
    <2>1. UNCHANGED <<active, turnCount, local>> /\ pc = "storing" /\ pc' = local.next
      BY <1>2 DEF Stored, registry
    <2> QED BY <1>t, <2>1 DEF TurnRegistered, InTurn, IsActive, TurnRunning, Moving, Onward
  <1>3. CASE SaveStep
    <2>1. PICK e \in Events, next \in Onward, loc \in Locals :
            /\ Save(e, next, loc) /\ pc \in Moving /\ loc.request = local.request
      BY <1>3 DEF SaveStep
    <2>2. /\ pc' = "storing" /\ local'.next = next /\ local'.request = local.request
          /\ UNCHANGED <<active, turnCount>>
      BY <2>1, SavedLocals
    <2> QED BY <1>t, <2>1, <2>2 DEF TurnRegistered, InTurn, IsActive, TurnRunning, Moving, Onward
  <1>4. CASE MoveStep
    <2>1. PICK next \in Onward, loc \in Locals :
            /\ Goto(next, loc) /\ pc \in Moving \cup {"preparing"}
            /\ loc.request = local.request /\ loc.next = local.next
      BY <1>4 DEF MoveStep
    <2>2. pc' = next /\ local' = loc /\ UNCHANGED <<active, turnCount>>
      BY <2>1 DEF Goto, registry
    <2> QED BY <1>t, <2>1, <2>2 DEF TurnRegistered, InTurn, IsActive, TurnRunning, Moving, Onward
  <1>5. CASE ReturnStep
    <2>1. PICK outcome \in {"completed", "failed"} : Return(outcome) /\ pc \in TurnRunning \ {"storing"}
      BY <1>5 DEF ReturnStep
    <2>2. /\ pc' \in {"cancelling", "outcome"} /\ local' = [local EXCEPT !.outcome = outcome]
          /\ UNCHANGED <<active, turnCount>>
      BY <2>1 DEF Return, Goto, registry
    <2>3. local'.outcome \in Outcomes /\ local'.next = local.next
      BY <1>t, <2>2, LocalParts DEF Outcomes
    <2> QED BY <1>t, <2>1, <2>2, <2>3 DEF TurnRegistered, InTurn, IsActive, TurnRunning
  <1>6. CASE RegisterInteraction
    BY <1>6, <1>t DEF RegisterInteraction, HasCall, TurnRegistered, InTurn, IsActive, TurnRunning
  <1>7. CASE Asks
    BY <1>7, <1>t DEF Asks, Goto, registry, TurnRegistered, InTurn, IsActive, TurnRunning
  <1>8. CASE ReceiveAnswer
    <2>1. PICK a \in sent : Goto(CASE a.answer = "allowed" -> "executing"
                                   [] a.answer = "refused" -> "denied"
                                   [] a.answer = "answered" -> "answered", local)
      BY <1>8 DEF ReceiveAnswer
    <2>2. a.answer \in {"allowed", "refused", "answered"}
      BY <1>t DEF TypeOK, Answers, Decisions
    <2>3. /\ pc = "asked" /\ pc' \in {"executing", "denied", "answered"}
          /\ UNCHANGED <<active, turnCount, local>>
      BY <1>8, <2>1, <2>2 DEF ReceiveAnswer, Goto, registry
    <2> QED BY <1>t, <2>3 DEF TurnRegistered, InTurn, IsActive, TurnRunning
  <1>9. CASE DropTurn
    <2>1. /\ pc' = "cancelling" /\ local' = NoLocals /\ UNCHANGED <<active, turnCount>> /\ pc \in TurnRunning
      BY <1>9 DEF DropTurn, registry, InTurn
    <2> QED BY <1>t, <2>1 DEF TurnRegistered, InTurn, IsActive, NoLocals, TurnRunning
  <1>10. CASE BeginCleanup
    BY <1>10, <1>t DEF BeginCleanup, TurnRegistered, InTurn, IsActive, TurnRunning
  <1>11. CASE Sweep
    <2>1. /\ pc = "sweeping" /\ UNCHANGED <<active, turnCount>>
          /\ \/ pc' = "outcome" /\ local' = [local EXCEPT !.outcome = "cancelled"]
             \/ pc' = "sweepstoring" /\ local' = [local EXCEPT !.todo = OpenCalls(store)]
      BY <1>11 DEF Sweep, Goto, registry
    <2>a. "cancelled" \in Outcomes /\ OpenCalls(store) \in SUBSET Nat
      BY <1>t, OpenCallsTyped DEF Outcomes
    <2>b. /\ [local EXCEPT !.outcome = "cancelled"].next = local.next
          /\ [local EXCEPT !.outcome = "cancelled"].outcome = "cancelled"
          /\ [local EXCEPT !.todo = OpenCalls(store)].next = local.next
      BY <1>t, <2>a, LocalParts
    <2>2. local'.next = local.next /\ (pc' = "outcome" => local'.outcome \in Outcomes)
      BY <2>1, <2>a, <2>b
    <2> QED BY <1>t, <2>1, <2>2 DEF TurnRegistered, InTurn, IsActive, TurnRunning
  <1>12. CASE SweepCall
    <2>1. pc = "sweepstoring" /\ UNCHANGED <<pc, active, turnCount>>
      BY <1>12 DEF SweepCall, registry
    <2> QED BY <1>t, <2>1 DEF TurnRegistered, InTurn, IsActive, TurnRunning
  <1>13. CASE SweepStored
    <2>1. /\ pc = "sweepstoring" /\ UNCHANGED <<active, turnCount>>
          /\ \/ pc' = "outcome" /\ local' = [NoLocals EXCEPT !.outcome = "cancelled"]
             \/ pc' = pc
      BY <1>13 DEF SweepStored, registry
    <2>2. pc' = "outcome" => local'.outcome = "cancelled" /\ local'.next = "none"
      BY <2>1 DEF NoLocals
    <2> QED BY <1>t, <2>1, <2>2 DEF TurnRegistered, InTurn, IsActive, TurnRunning, Outcomes
  <1>14. CASE SaveOutcome
    BY <1>14, <1>t DEF SaveOutcome, registry, TurnRegistered, InTurn, IsActive, TurnRunning
  <1>15. CASE OutcomeStored
    BY <1>15, <1>t DEF OutcomeStored, registry, TurnRegistered, InTurn, IsActive, TurnRunning
  <1>16. CASE PublishTurnFinished
    BY <1>16, <1>t DEF PublishTurnFinished, Goto, registry, TurnRegistered, InTurn, IsActive, TurnRunning
  <1>17. CASE Finish
    BY <1>17, <1>t DEF Finish, TurnRegistered, InTurn, IsActive, NoLocals, TurnRunning
  <1>18. CASE \E request \in scenario.requests : StartTurn(request)
    <2>1. PICK request \in {"send", "continue", "compact"} : StartTurn(request)
      BY <1>18, <1>t, ConstantsAssumption DEF TypeOK
    <2>2. /\ pc' = "launching" /\ turnCount' = turnCount + 1
          /\ active' = [turn |-> turnCount + 1, cancelling |-> FALSE]
          /\ local' = [NoLocals EXCEPT !.request = request]
      BY <2>1 DEF StartTurn
    <2>3. active' # NoTurn
      <3>1. scenario.turns \in 0..MaxTurns
        BY <1>t, ConstantsAssumption DEF TypeOK
      <3>a. turnCount + 1 \in 1..MaxTurns
        BY <1>t, <2>1, <3>1, ConstantsAssumption DEF StartTurn
      <3>2. active' \in ActiveTurns
        BY <2>2, <3>a DEF ActiveTurns
      <3> QED BY <1>a, <3>2
    <2>4. local'.request # "none" /\ local'.next = "none" /\ local'.batch = <<>> /\ local'.events = <<>>
      BY <2>2 DEF NoLocals
    <2> QED BY <2>2, <2>3, <2>4 DEF TurnRegistered, InTurn, IsActive, TurnRunning
  <1>19. CASE Cancel
    <2>1. active \in ActiveTurns /\ active' = [active EXCEPT !.cancelling = TRUE]
          /\ UNCHANGED <<turnCount, pc, local>>
      BY <1>19, <1>t DEF Cancel, IsActive, TypeOK
    <2>2. active' \in ActiveTurns /\ active'.turn = active.turn
      BY <2>1 DEF ActiveTurns
    <2> QED BY <1>t, <1>a, <2>1, <2>2 DEF TurnRegistered, InTurn, IsActive
  <1>20. CASE Crash
    BY <1>20, <1>t DEF Crash, TurnRegistered, InTurn, IsActive, NoLocals, TurnRunning
  <1>21. CASE UNCHANGED <<active, turnCount, pc, local>>
    BY <1>21, <1>t DEF TurnRegistered, InTurn, IsActive
  <1>22. CASE TurnStep
    BY <1>1, <1>2, <1>3, <1>4, <1>5, <1>6, <1>7, <1>8, <1>22, KindsOfTurnStep
  <1>23. CASE EndStep
    BY <1>9, <1>10, <1>11, <1>12, <1>13, <1>14, <1>15, <1>16, <1>17, <1>23 DEF EndStep
  <1>24. CASE \/ \E c \in scenario.clients : HandlerStep(c) \/ \E answer \in Decisions \cup {"answered"} : Claim(c, answer)
              \/ RunStatement \/ ReplaceHistory \/ HistoryReplaced \/ UNCHANGED vars
    <2>1. UNCHANGED <<active, turnCount, pc, local>>
      BY <1>24 DEF HandlerStep, SaveDecision, DecisionFails, DecisionStored, Resolve, Claim, RunStatement,
           ReplaceHistory, HistoryReplaced, vars, registry
    <2> QED BY <1>21, <2>1
  <1> QED BY <1>18, <1>19, <1>20, <1>22, <1>23, <1>24 DEF Next

-----------------------------------------------------------------------------
(* Logs: what an event at their end, and a cut, leave sound.               *)

\* A prefix of a sound log is sound.
LEMMA PrefixSound ==
  ASSUME NEW log \in Seq(Events), NEW turns \in Nat, LogSound(log, turns), NEW t \in Seq(Events),
         Len(t) <= Len(log), \A n \in 1..Len(t) : t[n] = log[n]
  PROVE  LogSound(t, turns)
  <1>1. /\ Len(t) \in Nat /\ Len(log) \in Nat /\ DOMAIN t = 1..Len(t) /\ DOMAIN log = 1..Len(log)
        /\ \A n \in 1..Len(t) : n \in 1..Len(log) /\ \A m \in 1..(n - 1) : m \in 1..Len(t)
    OBVIOUS
  <1>2. CallsNamed(t)
    BY <1>1 DEF LogSound, CallsNamed
  <1>3. ResultsMatch(t)
    <2>1. \A n \in 1..Len(t) : t[n].kind \in Results => t[n].id \in 1..(n - 1) /\ t[t[n].id].kind = "call"
      BY <1>1 DEF LogSound, ResultsMatch
    <2>2. \A m, n \in 1..Len(t) : t[m].kind \in Results /\ t[n].kind \in Results /\ t[m].id = t[n].id => m = n
      BY <1>1 DEF LogSound, ResultsMatch
    <2> QED BY <1>1, <2>1, <2>2 DEF ResultsMatch
  <1>4. BreaksClosed(t)
    BY <1>1 DEF LogSound, BreaksClosed, ClosedBefore
  <1>5. OutcomesOnce(t, turns)
    BY <1>1 DEF LogSound, OutcomesOnce
  <1> QED BY <1>2, <1>3, <1>4, <1>5 DEF LogSound

\* A sound log is sound when more turns have been started.
LEMMA MoreTurnsSound ==
  ASSUME NEW log, NEW turns \in Nat, LogSound(log, turns)
  PROVE  LogSound(log, turns + 1)
  BY DEF LogSound, OutcomesOnce

\* What an event at the end answers and leaves open.
LEMMA AppendUnanswered ==
  ASSUME NEW log \in Seq(Events), NEW e \in Events, ResultsMatch(log)
  PROVE  /\ e.kind = "call" => Unanswered(Append(log, e)) = Unanswered(log) \cup {Len(log) + 1}
         /\ e.kind \in Results => Unanswered(Append(log, e)) = Unanswered(log) \ {e.id}
         /\ e.kind \notin Results \cup {"call"} => Unanswered(Append(log, e)) = Unanswered(log)
  <1> DEFINE t == Append(log, e)
  <1>1. /\ Len(log) \in Nat /\ DOMAIN log = 1..Len(log) /\ DOMAIN t = 1..(Len(log) + 1)
        /\ \A n \in 1..Len(log) : t[n] = log[n]
        /\ t[Len(log) + 1] = e
    BY Appended
  <1> HIDE DEF t
  <1>2. \A n \in 1..Len(log) : n \in 1..(Len(log) + 1) /\ n # Len(log) + 1
    BY <1>1
  <1>3. \A c : (ResultsOf(t, c) = {}) <=> (ResultsOf(log, c) = {} /\ ~(e.kind \in Results /\ e.id = c))
    <2>1. SUFFICES ASSUME NEW c
                   PROVE  (\E n \in DOMAIN t : t[n].kind \in Results /\ t[n].id = c) <=>
                          ((\E n \in DOMAIN log : log[n].kind \in Results /\ log[n].id = c)
                             \/ (e.kind \in Results /\ e.id = c))
      BY DEF ResultsOf
    <2> QED BY <1>1, <1>2
  <1>4. ResultsOf(log, Len(log) + 1) = {}
    BY <1>1 DEF ResultsOf, ResultsMatch
  <1>5. "call" \notin Results
    BY DEF Results
  <1>6. \A n \in DOMAIN log : n \in Unanswered(t) <=> (n \in Unanswered(log) /\ ~(e.kind \in Results /\ e.id = n))
    BY <1>1, <1>2, <1>3 DEF Unanswered
  <1>7. Len(log) + 1 \in Unanswered(t) <=> e.kind = "call"
    BY <1>1, <1>3, <1>4, <1>5 DEF Unanswered
  <1>8. Unanswered(t) \subseteq DOMAIN log \cup {Len(log) + 1} /\ Unanswered(log) \subseteq DOMAIN log
    BY <1>1 DEF Unanswered
  <1>9. Len(log) + 1 \notin DOMAIN log
    BY <1>1
  <1>10. e.kind = "call" => Unanswered(t) = Unanswered(log) \cup {Len(log) + 1}
    BY <1>5, <1>6, <1>7, <1>8
  <1>11. e.kind \in Results => Unanswered(t) = Unanswered(log) \ {e.id}
    BY <1>5, <1>6, <1>7, <1>8, <1>9
  <1>12. e.kind \notin Results \cup {"call"} => Unanswered(t) = Unanswered(log)
    BY <1>6, <1>7, <1>8, <1>9
  <1> QED BY <1>10, <1>11, <1>12 DEF t

\* What may follow a sound log.
Follows(log, e, turns) ==
  /\ e.kind = "call" => e.id = Len(log) + 1
  /\ e.kind \in Results => e.id \in Unanswered(log)
  /\ e.kind \in {"compaction", "cancelled"} => Unanswered(log) = {}
  /\ e.kind \in Outcomes => e.id \in 1..turns /\ \A n \in DOMAIN log : ~IsOutcomeOf(log[n], e.id)

\* An event that may follow a sound log keeps it sound.
LEMMA AppendSound ==
  ASSUME NEW log \in Seq(Events), NEW e \in Events, NEW turns \in Nat, LogSound(log, turns),
         Follows(log, e, turns)
  PROVE  LogSound(Append(log, e), turns)
  <1> DEFINE t == Append(log, e)
             k == Len(log) + 1
  <1>1. /\ Len(log) \in Nat /\ DOMAIN log = 1..Len(log) /\ DOMAIN t = 1..k
        /\ \A n \in 1..Len(log) : t[n] = log[n]
        /\ t[k] = e
    BY Appended
  <1> HIDE DEF t
  <1>2. \A n \in 1..k : n \in 1..Len(log) \/ n = k
    BY <1>1
  <1>3. CallsNamed(t)
    BY <1>1, <1>2 DEF LogSound, CallsNamed, Follows
  <1>4. ResultsMatch(t)
    <2>1. \A n \in 1..Len(log) : t[n].kind \in Results => t[n].id \in 1..(n - 1) /\ t[t[n].id].kind = "call"
      <3>1. SUFFICES ASSUME NEW n \in 1..Len(log), log[n].kind \in Results
                     PROVE  log[n].id \in 1..(n - 1) /\ t[log[n].id].kind = "call"
        BY <1>1
      <3>2. log[n].id \in 1..(n - 1) /\ log[log[n].id].kind = "call"
        BY <1>1, <3>1 DEF LogSound, ResultsMatch
      <3>3. log[n].id \in 1..Len(log)
        BY <1>1, <3>2
      <3> QED BY <1>1, <3>2, <3>3
    <2>2. e.kind \in Results => e.id \in 1..(k - 1) /\ t[e.id].kind = "call"
      <3>1. e.kind \in Results => e.id \in 1..Len(log) /\ log[e.id].kind = "call"
        BY <1>1 DEF Follows, Unanswered
      <3> QED BY <1>1, <3>1
    <2>3. \A m, n \in 1..Len(log) :
            t[m].kind \in Results /\ t[n].kind \in Results /\ t[m].id = t[n].id => m = n
      BY <1>1 DEF LogSound, ResultsMatch
    <2>4. \A n \in 1..Len(log) : ~(t[n].kind \in Results /\ e.kind \in Results /\ t[n].id = e.id)
      BY <1>1 DEF Follows, Unanswered, ResultsOf
    <2>5. \A n \in DOMAIN t : t[n].kind \in Results => t[n].id \in 1..(n - 1) /\ t[t[n].id].kind = "call"
      BY <1>1, <1>2, <2>1, <2>2
    <2>6. \A m, n \in DOMAIN t : t[m].kind \in Results /\ t[n].kind \in Results /\ t[m].id = t[n].id => m = n
      BY <1>1, <1>2, <2>3, <2>4
    <2> QED BY <2>5, <2>6 DEF ResultsMatch
  <1>5. BreaksClosed(t)
    <2>1. \A n \in 1..Len(log) : ClosedBefore(log, n) => ClosedBefore(t, n)
      BY <1>1 DEF ClosedBefore
    <2>2. Unanswered(log) = {} => ClosedBefore(t, k)
      <3>1. SUFFICES ASSUME Unanswered(log) = {}, NEW m \in 1..Len(log), log[m].kind = "call"
                     PROVE  \E j \in 1..Len(log) : log[j].kind \in Results /\ log[j].id = m
        BY <1>1 DEF ClosedBefore
      <3> QED BY <1>1, <3>1 DEF Unanswered, ResultsOf
    <2> QED BY <1>1, <1>2, <2>1, <2>2 DEF LogSound, BreaksClosed, Follows
  <1>6. OutcomesOnce(t, turns)
    <2>1. \A n \in DOMAIN t : t[n].kind \in Outcomes => t[n].id \in 1..turns
      BY <1>1, <1>2 DEF LogSound, OutcomesOnce, Follows
    <2>2. \A m, n \in 1..Len(log) :
            t[m].kind \in Outcomes /\ t[n].kind \in Outcomes /\ t[m].id = t[n].id => m = n
      BY <1>1 DEF LogSound, OutcomesOnce
    <2>3. \A n \in 1..Len(log) : ~(t[n].kind \in Outcomes /\ e.kind \in Outcomes /\ t[n].id = e.id)
      BY <1>1 DEF Follows, IsOutcomeOf
    <2>4. \A m, n \in DOMAIN t : t[m].kind \in Outcomes /\ t[n].kind \in Outcomes /\ t[m].id = t[n].id => m = n
      BY <1>1, <1>2, <2>2, <2>3
    <2> QED BY <2>1, <2>4 DEF OutcomesOnce
  <1> QED BY <1>3, <1>4, <1>5, <1>6 DEF LogSound, t

\* In a sound log the calls to close are the calls without a result.
LEMMA OpenCallsUnanswered ==
  ASSUME NEW log \in Seq(Events), NEW turns, LogSound(log, turns)
  PROVE  OpenCalls(log) = Unanswered(log)
  <1>1. Len(log) \in Nat /\ DOMAIN log = 1..Len(log)
    OBVIOUS
  <1>2. CallsNamed(log) /\ ResultsMatch(log) /\ BreaksClosed(log)
    BY DEF LogSound
  <1>3. OpenCalls(log) =
          {n \in DOMAIN log : log[n].kind = "call" /\
             \A k \in DOMAIN log : k > n =>
               log[k].kind # "compaction" /\ ~(log[k].kind \in Results /\ log[k].id = n)}
    BY <1>2 DEF OpenCalls, CallsNamed
  <1>4. ASSUME NEW n \in DOMAIN log, log[n].kind = "call", ResultsOf(log, n) = {}, NEW k \in DOMAIN log, k > n
        PROVE  log[k].kind # "compaction" /\ ~(log[k].kind \in Results /\ log[k].id = n)
    <2>1. ~(log[k].kind \in Results /\ log[k].id = n)
      BY <1>4 DEF ResultsOf
    <2>2. log[k].kind # "compaction"
      <3>1. SUFFICES ASSUME log[k].kind = "compaction" PROVE FALSE
        OBVIOUS
      <3>2. ClosedBefore(log, k) /\ n \in 1..(k - 1)
        BY <1>1, <1>2, <1>4, <3>1 DEF BreaksClosed
      <3>3. PICK j \in 1..(k - 1) : log[j].kind \in Results /\ log[j].id = n
        BY <1>4, <3>2 DEF ClosedBefore
      <3>4. j \in DOMAIN log
        BY <1>1, <1>4
      <3> QED BY <1>4, <3>3, <3>4 DEF ResultsOf
    <2> QED BY <2>1, <2>2
  <1>5. ASSUME NEW n \in DOMAIN log, NEW k \in DOMAIN log, log[k].kind \in Results, log[k].id = n
        PROVE  k > n
    BY <1>1, <1>2, <1>5 DEF ResultsMatch
  <1>6. \A n \in DOMAIN log : n \in Unanswered(log) => n \in OpenCalls(log)
    BY <1>3, <1>4 DEF Unanswered
  <1>7. \A n \in DOMAIN log : n \in OpenCalls(log) => n \in Unanswered(log)
    BY <1>3, <1>5 DEF Unanswered, ResultsOf
  <1>8. OpenCalls(log) \subseteq DOMAIN log /\ Unanswered(log) \subseteq DOMAIN log
    BY <1>3 DEF Unanswered
  <1> QED BY <1>6, <1>7, <1>8

-----------------------------------------------------------------------------
(* What a step does to the log as it will be written.                      *)

\* The log as it will be written is a log.
LEMMA WrittenTyped ==
  ASSUME TypeOK, DbOwned
  PROVE  /\ Written \in Seq(Events) /\ Len(store) <= Len(Written)
         /\ \A n \in 1..Len(store) : Written[n] = store[n]
         /\ db = <<>> => Written = store
         /\ Len(store) \in Nat /\ Len(Written) \in Nat
  <1>1. Pending => db[1].event \in Events
    <2>1. \A s \in Statements : s.by \in {"turn", "nobody"} => s.event \in Events
      BY DEF Statements
    <2>2. db # <<>> => 1 \in DOMAIN db
      BY DbTyped
    <2> QED BY <2>1, <2>2, DbTyped DEF Pending
  <1>2. store \in Seq(Events)
    BY DEF TypeOK
  <1>3. Pending => Append(store, db[1].event) \in Seq(Events)
                     /\ Len(Append(store, db[1].event)) = Len(store) + 1
                     /\ \A n \in 1..Len(store) : Append(store, db[1].event)[n] = store[n]
    BY <1>1, <1>2, Appended
  <1>4. Len(store) \in Nat
    BY <1>2
  <1>5. db = <<>> => ~Pending
    BY DEF Pending
  <1>6. CASE Pending
    BY <1>3, <1>4, <1>5, <1>6 DEF Written
  <1>7. CASE ~Pending
    BY <1>2, <1>4, <1>7 DEF Written
  <1> QED BY <1>6, <1>7

\* The turn submits an event: nothing is pending, and the log will end with it.
LEMMA TurnSubmits ==
  ASSUME IInv, pc \notin {"cancelling", "sweeping"}, NEW s, s.by = "turn", Submit("turn", s), store' = store
  PROVE  db = <<>> /\ Written = store /\ Written' = Append(store, s.event)
  <1>1. db = <<>> /\ TypeOK /\ DbOwned /\ db' = Append(db, s)
    BY FreeLock DEF IInv, Submit
  <1>2. Written = store
    BY <1>1, WrittenTyped
  <1>3. db' = <<s>>
    BY <1>1
  <1>4. db'[1] = s /\ db' # <<>>
    BY <1>3
  <1>5. Pending' /\ db'[1].event = s.event
    BY <1>4 DEF Pending
  <1> QED BY <1>1, <1>2, <1>5 DEF Written

\* Another actor submits a statement.
LEMMA OthersSubmit ==
  ASSUME IInv, NEW a, NEW s \in Statements, s.by \notin {"turn", "nobody"}, Submit(a, s), store' = store
  PROVE  Written' = Written
  <1>1. TypeOK /\ db \in Seq(Statements) /\ db' = Append(db, s)
    BY DEF IInv, TypeOK, Submit
  <1>2. Len(db) \in Nat /\ db' # <<>> /\ IF Len(db) = 0 THEN db'[1] = s ELSE db'[1] = db[1]
    BY <1>1, Appended
  <1>3. db = <<>> <=> Len(db) = 0
    BY <1>1, DbTyped
  <1>4. Pending' <=> Pending
    BY <1>2, <1>3 DEF Pending
  <1>5. Pending => db'[1] = db[1]
    BY <1>2, <1>3 DEF Pending
  <1> QED BY <1>4, <1>5 DEF Written

\* A decision is submitted.
LEMMA DecisionSubmitted ==
  ASSUME IInv, NEW c \in Clients, SaveDecision(c)
  PROVE  /\ Written' = Written /\ UNCHANGED <<store, checkpoints, turnCount, pc, local, active>>
         /\ \E s \in Statements : s.by = c /\ db' = Append(db, s)
  <1> DEFINE s == [by |-> c, event |-> Event(handler[c].answer, claimed[c].id)]
  <1>1. handler[c].answer \in Decisions /\ claimed[c] \in Interactions
    BY DEF IInv, SaveDecision, HandlersClaim, TypeOK
  <1>2. handler[c].answer \in Kinds /\ claimed[c].id \in Nat
    BY <1>1 DEF Kinds, Interactions
  <1>3. Event(handler[c].answer, claimed[c].id) \in Events
    BY <1>2, EventTyped
  <1>4. s \in Statements /\ s.by = c /\ Submit(c, s) /\ UNCHANGED <<store, checkpoints, turnCount, pc, local, active>>
    BY <1>3 DEF SaveDecision, Statements, durable, registry
  <1>5. c \notin {"turn", "nobody"}
    BY ConstantsAssumption
  <1> HIDE DEF s
  <1>6. Written' = Written
    BY <1>4, <1>5, OthersSubmit
  <1> QED BY <1>4, <1>6 DEF Submit

\* A rewrite is submitted.
LEMMA RewriteSubmitted ==
  ASSUME IInv, ReplaceHistory
  PROVE  /\ Written' = Written /\ ~IsActive
         /\ UNCHANGED <<store, checkpoints, turnCount, pc, local, active>>
         /\ \E target \in Targets :
              /\ target.log = <<>> \/ target.log \in checkpoints
              /\ target.upto <= Len(IF target.base = "store" THEN store ELSE target.log)
              /\ db' = Append(db, [by |-> "command", target |-> target])
  <1>t. TypeOK
    BY DEF IInv
  <1>1. PICK target \in Targets :
          /\ Submit("command", [by |-> "command", target |-> target])
          /\ target.log = <<>> \/ target.log \in checkpoints
          /\ target.upto <= Len(IF target.base = "store" THEN store ELSE target.log)
    BY <1>t, ReplaceTarget
  <1> DEFINE s == [by |-> "command", target |-> target]
  <1>2. s \in Statements /\ s.by \notin {"turn", "nobody"} /\ Submit("command", s)
        /\ UNCHANGED <<store, checkpoints, turnCount, pc, local, active>> /\ ~IsActive
    BY <1>1 DEF Statements, ReplaceHistory, durable, registry
  <1>3. Written' = Written /\ db' = Append(db, s)
    <2> HIDE DEF s
    <2> QED BY <1>2, OthersSubmit DEF Submit
  <1> QED BY <1>1, <1>2, <1>3

\* The turn is dropped: its statement still runs.
LEMMA DropWritten == ASSUME IInv, DropTurn PROVE Written' = Written
  <1>1. TypeOK /\ store' = store
        /\ db' = [n \in DOMAIN db |-> IF db[n].by = "turn" THEN [db[n] EXCEPT !.by = "nobody"] ELSE db[n]]
    BY DEF IInv, DropTurn, durable
  <1>2. DOMAIN db' = DOMAIN db /\ (db # <<>> => 1 \in DOMAIN db) /\ DOMAIN db = 1..Len(db) /\ Len(db) \in Nat
    BY <1>1, DbTyped
  <1>3. db' # <<>> <=> db # <<>>
    <2>1. DOMAIN <<>> = {}
      OBVIOUS
    <2>2. db # <<>> => db' # <<>>
      BY <1>2, <2>1
    <2>3. db = <<>> => db' = <<>>
      BY <1>1
    <2> QED BY <2>2, <2>3
  <1>4. \A s \in Statements : s.by = "turn" =>
          [s EXCEPT !.by = "nobody"].by = "nobody" /\ [s EXCEPT !.by = "nobody"].event = s.event
    BY DEF Statements
  <1>5. db # <<>> => /\ db'[1].by \in {"turn", "nobody"} <=> db[1].by \in {"turn", "nobody"}
                     /\ db[1].by \in {"turn", "nobody"} => db'[1].event = db[1].event
    BY <1>1, <1>2, <1>4, DbTyped
  <1> QED BY <1>1, <1>3, <1>5 DEF Pending, Written

\* The connection runs what a turn submitted, a decision, or a rewrite.
LEMMA RunWritten ==
  ASSUME IInv, RunStatement
  PROVE  /\ db' # <<>> => db[1].by = "nobody" /\ Len(db') = 1 /\ db'[1] = db[2] /\ 2 \in DOMAIN db
                           /\ db[2].by \in Clients
         /\ \/ /\ db[1].by \in {"turn", "nobody"} /\ Written' = Written /\ store' = Written
               /\ checkpoints' = checkpoints
            \/ /\ db[1].by \in Clients /\ Written = store /\ Written' = Append(store, db[1].event) /\ store' = Written'
               /\ checkpoints' = checkpoints /\ db[1].event.kind \in Decisions /\ db[1].event \in Events
            \/ /\ db[1].by = "command" /\ Written = store /\ checkpoints' = checkpoints \cup {store} /\ store' = Written'
               /\ LET base == IF db[1].target.base = "store" THEN store ELSE db[1].target.log IN
                  Written' = SubSeq(base, 1, db[1].target.upto)
  <1>t. TypeOK /\ DbOwned /\ HandlersClaim /\ LockOwned
    BY DEF IInv
  <1>1. /\ db \in Seq(Statements) /\ db # <<>> /\ Len(db) \in Nat \ {0} /\ DOMAIN db = 1..Len(db)
        /\ db' = Tail(db) /\ Len(db') = Len(db) - 1 /\ DOMAIN db' = 1..(Len(db) - 1)
        /\ \A i \in 1..(Len(db) - 1) : db'[i] = db[i + 1]
        /\ Head(db) = db[1] /\ db[1] \in Statements
    BY <1>t, Popped DEF TypeOK, RunStatement
  <1>2. 1 \in DOMAIN db
    BY <1>1
  <1>3. \A c \in Clients : c \notin {"turn", "command", "nobody", "free"}
    BY ConstantsAssumption
  <1>4. db[1].by \in {"turn", "nobody", "command"} \cup Clients
    BY <1>1, <1>2, DbTyped, <1>t DEF Actors
  <1>5. db[1].by # "nobody" => Len(db) = 1
    BY <1>1, <1>2, <1>t DEF DbOwned
  <1>6. db' = <<>> <=> Len(db) = 1
    <2>1. db' \in Seq(Statements)
      BY <1>1
    <2> QED BY <1>1, <2>1, EmptySeq
  <1>7. Len(db) # 1 => Len(db) = 2 /\ 2 \in DOMAIN db /\ db[2].by \in Clients
    <2>1. \A n \in 2..Len(db) : db[n].by \in Clients /\ n = Len(db)
      <3>1. SUFFICES ASSUME NEW n \in 2..Len(db) PROVE db[n].by \in Clients /\ n = Len(db)
        OBVIOUS
      <3>2. n \in DOMAIN db /\ n # 1
        BY <1>1
      <3>3. db[n].by \in Clients
        BY <3>2, <1>t DEF DbOwned
      <3> QED BY <3>2, <3>3, <1>3, <1>t DEF DbOwned
    <2>2. Len(db) # 1 => 2 \in 2..Len(db)
      BY <1>1
    <2>3. Len(db) # 1 => db[2].by \in Clients /\ 2 = Len(db)
      BY <2>1, <2>2
    <2> QED BY <1>1, <2>3
  <1>8. db' # <<>> => db[1].by = "nobody" /\ Len(db') = 1 /\ db'[1] = db[2] /\ 2 \in DOMAIN db /\ db[2].by \in Clients
    BY <1>1, <1>5, <1>6, <1>7
  <1>9. ~Pending'
    BY <1>3, <1>8 DEF Pending
  <1>10. store' = Written'
    BY <1>9 DEF Written
  <1>11. CASE db[1].by \in {"turn", "nobody"}
    <2>1. db[1].by # "command" /\ Written = Append(store, db[1].event)
      BY <1>1, <1>11 DEF Pending, Written
    <2>2. store' = Append(store, db[1].event) /\ checkpoints' = checkpoints
      BY <1>1, <2>1 DEF RunStatement
    <2> QED BY <1>8, <1>10, <1>11, <2>1, <2>2
  <1>12. CASE db[1].by \in Clients
    <2>1. db[1].by # "command" /\ Written = store
      BY <1>1, <1>3, <1>12 DEF Pending, Written
    <2>2. store' = Append(store, db[1].event) /\ checkpoints' = checkpoints
      BY <1>1, <2>1 DEF RunStatement
    <2>3. db[1].event = Event(handler[db[1].by].answer, claimed[db[1].by].id) /\ mutation = db[1].by
      BY <1>2, <1>3, <1>12, <1>t DEF DbOwned
    <2>4. handler[db[1].by].answer \in Decisions
      BY <1>12, <2>3, <1>t DEF LockOwned, HandlersClaim
    <2>5. db[1].event.kind \in Decisions
      BY <2>3, <2>4 DEF Event
    <2>6. db[1].event \in Events
      BY <1>1, <2>1 DEF Statements
    <2> QED BY <1>8, <1>10, <1>12, <2>1, <2>2, <2>5, <2>6
  <1>13. CASE db[1].by = "command"
    <2>1. Written = store
      BY <1>1, <1>13 DEF Pending, Written
    <2>2. /\ store' = SubSeq(IF db[1].target.base = "store" THEN store ELSE db[1].target.log, 1, db[1].target.upto)
          /\ checkpoints' = checkpoints \cup {store}
      BY <1>1, <1>13 DEF RunStatement
    <2> QED BY <1>8, <1>10, <1>13, <2>1, <2>2
  <1> QED BY <1>4, <1>11, <1>12, <1>13

-----------------------------------------------------------------------------
(* The log stays sound.                                                    *)

\* Steps that leave the log and the connection as they are.
QuietLog == UNCHANGED <<store, checkpoints, db>>

\* They are the steps that neither submit a statement nor run one.
LEMMA QuietSteps ==
  \/ Launch \/ Stored \/ RegisterInteraction \/ Asks \/ ReceiveAnswer \/ MoveStep \/ ReturnStep
  \/ BeginCleanup \/ Sweep \/ SweepStored \/ OutcomeStored \/ PublishTurnFinished \/ Finish \/ Cancel
  \/ HistoryReplaced \/ UNCHANGED vars
  \/ \E c \in Clients : DecisionFails(c) \/ DecisionStored(c) \/ Resolve(c)
                          \/ \E answer \in Answers : Claim(c, answer)
  => QuietLog /\ turnCount' = turnCount
  <1> USE DEF QuietLog, durable, registry, Goto
  <1>1. Launch \/ Stored \/ RegisterInteraction \/ Asks \/ ReceiveAnswer \/ BeginCleanup \/ OutcomeStored
          \/ PublishTurnFinished \/ Finish \/ Cancel \/ HistoryReplaced \/ UNCHANGED vars
        => QuietLog /\ turnCount' = turnCount
    BY DEF Launch, Stored, RegisterInteraction, Asks, ReceiveAnswer, BeginCleanup, OutcomeStored,
         PublishTurnFinished, Finish, Cancel, HistoryReplaced, vars
  <1>2. MoveStep \/ ReturnStep \/ SweepStored => QuietLog /\ turnCount' = turnCount
    BY DEF MoveStep, ReturnStep, Return, SweepStored
  <1>3. Sweep => QuietLog /\ turnCount' = turnCount
    BY DEF Sweep
  <1>4. \A c \in Clients : DecisionFails(c) \/ DecisionStored(c) \/ Resolve(c)
          \/ (\E answer \in Answers : Claim(c, answer)) => QuietLog /\ turnCount' = turnCount
    BY DEF DecisionFails, DecisionStored, Resolve, Claim
  <1> QED BY <1>1, <1>2, <1>3, <1>4

\* Every step is one of those, a write, or a step taken on its own below.
LEMMA KindsOfStep ==
  ASSUME IInv, [Next]_vars
  PROVE  \/ QuietLog /\ turnCount' = turnCount
         \/ SaveStep \/ SweepCall \/ SaveOutcome \/ DropTurn
         \/ \E c \in Clients : SaveDecision(c)
         \/ ReplaceHistory \/ RunStatement \/ Crash
         \/ \E request \in {"send", "continue", "compact"} : StartTurn(request)
  <1>1. \A c \in scenario.clients : c \in Clients
    BY ConstantsAssumption DEF IInv, TypeOK
  <1>2. \A request \in scenario.requests : request \in {"send", "continue", "compact"}
    BY ConstantsAssumption DEF IInv, TypeOK
  <1>3. CASE TurnStep
    BY <1>3, KindsOfTurnStep, QuietSteps
  <1>4. CASE EndStep
    BY <1>4, QuietSteps DEF EndStep
  <1>5. CASE \E c \in scenario.clients : HandlerStep(c) \/ \E answer \in Decisions \cup {"answered"} : Claim(c, answer)
    BY <1>1, <1>5, QuietSteps DEF HandlerStep, Answers
  <1>6. CASE \E request \in scenario.requests : StartTurn(request)
    BY <1>2, <1>6
  <1>7. CASE RunStatement \/ Cancel \/ ReplaceHistory \/ HistoryReplaced \/ Crash \/ UNCHANGED vars
    BY <1>7, QuietSteps
  <1> QED BY <1>3, <1>4, <1>5, <1>6, <1>7 DEF Next

\* What the turn saves may follow the log.
LEMMA SaveFollows ==
  ASSUME IInv, SaveStep
  PROVE  \E e \in Events, next \in Onward, loc \in Locals :
           /\ Save(e, next, loc) /\ Follows(store, e, turnCount) /\ e.kind \notin Outcomes
           /\ db = <<>> /\ Written = store /\ Written' = Append(store, e)
           /\ loc.events = local.events /\ loc.next = local.next
           /\ next = "closing" \/ loc.todo = {}
           /\ next \in Rounds \/ loc.batch = <<>>
           /\ \/ SavesText(e, loc) \/ SavesCompaction(e, loc) \/ SavesCall(e, loc)
              \/ ClosesCall(e, loc) \/ SavesResult(e, loc)
  <1>1. PICK e \in Events, next \in Onward, loc \in Locals :
          /\ Save(e, next, loc) /\ pc \in Moving
          /\ loc.events = local.events /\ loc.next = local.next
          /\ next = "closing" \/ loc.todo = {}
          /\ next \in Rounds \/ loc.batch = <<>>
          /\ \/ SavesText(e, loc) \/ SavesCompaction(e, loc) \/ SavesCall(e, loc)
             \/ ClosesCall(e, loc) \/ SavesResult(e, loc)
    BY DEF SaveStep
  <1>2. /\ pc \in TurnRunning /\ pc \notin {"preparing", "cancelling", "sweeping"} /\ TypeOK
        /\ Unanswered(Written) = local.todo \cup CallsOf(local.batch)
    BY <1>1 DEF Moving, Onward, TurnRunning, IInv, CallsTracked, InTurn
  <1>3. db = <<>> /\ Written = store /\ Written' = Append(store, e)
    <2> DEFINE s == [by |-> "turn", event |-> e]
    <2>1. s.by = "turn" /\ s.event = e /\ Submit("turn", s) /\ store' = store
      BY <1>1 DEF Save, durable
    <2> HIDE DEF s
    <2> QED BY <1>2, <2>1, TurnSubmits
  <1>4. Follows(store, e, turnCount) /\ e.kind \notin Outcomes
    <2>1. CASE SavesText(e, loc)
      BY <2>1 DEF SavesText, Follows, Results, Outcomes
    <2>2. CASE SavesCompaction(e, loc)
      <3>1. CallsOf(local.batch) = {}
        BY <2>2 DEF SavesCompaction, CallsOf
      <3> QED BY <1>2, <1>3, <2>2, <3>1 DEF SavesCompaction, Follows, Results, Outcomes
    <2>3. CASE SavesCall(e, loc)
      BY <2>3 DEF SavesCall, Event, Follows, Results, Outcomes
    <2>4. CASE ClosesCall(e, loc)
      BY <1>2, <1>3, <2>4 DEF ClosesCall, Event, Follows, Results, Outcomes
    <2>5. CASE SavesResult(e, loc)
      <3>1. PICK kind \in Results : e = Event(kind, Call.call)
        BY <2>5 DEF SavesResult
      <3>2. local.batch # <<>> /\ local.batch \in Seq([call : Nat, tool : Tools])
        BY <1>2, <2>5 DEF SavesResult, TypeOK, Locals
      <3>3. 1 \in DOMAIN local.batch /\ Call = local.batch[1] /\ Call \in [call : Nat, tool : Tools]
        <4> DEFINE S == [call : Nat, tool : Tools]
        <4>1. local.batch \in Seq(S) /\ local.batch # <<>>
          BY <3>2
        <4> HIDE DEF S
        <4>2. /\ Len(local.batch) \in Nat \ {0} /\ DOMAIN local.batch = 1..Len(local.batch)
              /\ Head(local.batch) = local.batch[1] /\ local.batch[1] \in S
          BY <4>1, Popped
        <4> QED BY <4>2 DEF Call, S
      <3>4. Call.call \in CallsOf(local.batch)
        BY <3>3 DEF CallsOf
      <3> QED BY <1>2, <1>3, <3>1, <3>4 DEF Event, Follows, Results, Outcomes
    <2> QED BY <1>1, <2>1, <2>2, <2>3, <2>4, <2>5
  <1> QED BY <1>1, <1>3, <1>4

\* What the cleanup after a cancellation saves may follow the log.
LEMMA SweepFollows ==
  ASSUME IInv, SweepCall
  PROVE  \E call \in local.todo :
           /\ Follows(store, Event("interrupted", call), turnCount) /\ Event("interrupted", call) \in Events
           /\ db = <<>> /\ Written = store /\ Written' = Append(store, Event("interrupted", call))
           /\ local' = [local EXCEPT !.todo = @ \ {call}, !.next = "swept"] /\ pc = "sweepstoring"
           /\ db' = Append(db, [by |-> "turn", event |-> Event("interrupted", call)])
           /\ UNCHANGED <<store, checkpoints, pc, active, turnCount>>
  <1>1. PICK call \in local.todo :
          /\ Submit("turn", [by |-> "turn", event |-> Event("interrupted", call)])
          /\ local' = [local EXCEPT !.todo = @ \ {call}, !.next = "swept"]
    BY DEF SweepCall, FirstOf
  <1>2. /\ pc = "sweepstoring" /\ UNCHANGED <<store, checkpoints, pc, active, turnCount>>
        /\ Unanswered(Written) = local.todo /\ call \in Nat
    BY DEF SweepCall, durable, registry, IInv, CallsTracked, TypeOK, Locals
  <1>3. db = <<>> /\ Written = store /\ Written' = Append(store, Event("interrupted", call))
    <2> DEFINE s == [by |-> "turn", event |-> Event("interrupted", call)]
    <2>1. s.by = "turn" /\ s.event = Event("interrupted", call) /\ Submit("turn", s)
      BY <1>1
    <2> HIDE DEF s
    <2> QED BY <1>2, <2>1, TurnSubmits
  <1>4. Follows(store, Event("interrupted", call), turnCount)
    BY <1>2, <1>3 DEF Event, Follows, Results, Outcomes
  <1>5. Event("interrupted", call) \in Events
    BY <1>2, EventTyped DEF Kinds, Results
  <1> QED BY <1>1, <1>2, <1>3, <1>4, <1>5 DEF Submit

\* So does the outcome of a turn.
LEMMA OutcomeFollows ==
  ASSUME IInv, SaveOutcome
  PROVE  LET e == Event(local.outcome, active.turn) IN
           /\ Follows(store, e, turnCount) /\ e \in Events /\ IsOutcomeOf(e, active.turn)
           /\ db = <<>> /\ Written = store /\ Written' = Append(store, e)
           /\ db' = Append(db, [by |-> "turn", event |-> e])
           /\ pc = "outcome" /\ pc' = "outcomestoring"
           /\ UNCHANGED <<store, checkpoints, local, active, turnCount>>
  <1> DEFINE e == Event(local.outcome, active.turn)
             s == [by |-> "turn", event |-> e]
  <1>1. /\ pc = "outcome" /\ pc' = "outcomestoring" /\ UNCHANGED <<store, checkpoints, local, active, turnCount>>
        /\ Submit("turn", s)
    BY DEF SaveOutcome, durable, registry
  <1>2. s.by = "turn" /\ s.event = e
    OBVIOUS
  <1>3. local.outcome \in Outcomes /\ active \in ActiveTurns /\ active.turn = turnCount
    BY <1>1 DEF IInv, TurnRegistered, IsActive, TypeOK
  <1>4. turnCount \in 1..turnCount /\ turnCount \in Nat
    BY <1>3, ConstantsAssumption DEF ActiveTurns
  <1>5. e.kind = local.outcome /\ e.id = active.turn
    BY DEF Event
  <1>6. e \in Events
    BY <1>3, <1>4, EventTyped DEF Kinds
  <1> HIDE DEF e, s
  <1>7. db = <<>> /\ Written = store /\ Written' = Append(store, s.event)
    BY <1>1, <1>2, TurnSubmits
  <1>8. \A n \in DOMAIN store : ~IsOutcomeOf(store[n], active.turn)
    BY <1>1, <1>3, <1>7, NoTurnAssumption DEF IInv, OutcomeOfTurn, IsActive
  <1>9. local.outcome = "cancelled" => Unanswered(store) = {}
    BY <1>1, <1>7 DEF IInv, CallsTracked
  <1>10. Follows(store, e, turnCount)
    BY <1>3, <1>4, <1>5, <1>8, <1>9 DEF Follows, Results, Outcomes
  <1> QED BY <1>1, <1>2, <1>3, <1>5, <1>6, <1>7, <1>10 DEF IsOutcomeOf, Submit, s, e

\* A rewrite under way and the checkpoints, when nothing of them changes.
LEMMA TargetsKept ==
  ASSUME IInv, turnCount' \in {turnCount, turnCount + 1},
         \A log \in checkpoints' : log \in checkpoints \/ LogSound(log, turnCount),
         \A n \in DOMAIN db' : db'[n].by = "command" => /\ n \in DOMAIN db /\ db'[n] = db[n]
                                                       /\ store' = store
  PROVE  /\ \A log \in checkpoints' : LogSound(log, turnCount')
         /\ \A n \in DOMAIN db' : db'[n].by = "command" =>
              /\ LogSound(db'[n].target.log, turnCount')
              /\ db'[n].target.upto <= Len(IF db'[n].target.base = "store" THEN store' ELSE db'[n].target.log)
  <1>1. SavedSound /\ turnCount \in Nat
    BY ConstantsAssumption DEF IInv, TypeOK
  <1>2. \A log : LogSound(log, turnCount) => LogSound(log, turnCount')
    BY <1>1, MoreTurnsSound
  <1>3. \A log \in checkpoints' : LogSound(log, turnCount')
    BY <1>1, <1>2 DEF SavedSound
  <1>4. \A n \in DOMAIN db' : db'[n].by = "command" =>
          /\ LogSound(db'[n].target.log, turnCount')
          /\ db'[n].target.upto <= Len(IF db'[n].target.base = "store" THEN store' ELSE db'[n].target.log)
    BY <1>1, <1>2 DEF SavedSound
  <1> QED BY <1>3, <1>4

\* An event at the end of a sequence of statements leaves the others.
LEMMA AppendedStatement ==
  ASSUME TypeOK, NEW s \in Statements, s.by # "command", db' = Append(db, s)
  PROVE  \A n \in DOMAIN db' : db'[n].by = "command" => n \in DOMAIN db /\ db'[n] = db[n]
  <1>1. db \in Seq(Statements)
    BY DEF TypeOK
  <1> QED BY <1>1, Appended

\* Every step keeps the log, the checkpoints and a rewrite under way sound.
LEMMA SavedSoundStep ==
  ASSUME IInv, [Next]_vars
  PROVE  SavedSound'
  <1>t. /\ TypeOK /\ SavedSound /\ DbOwned /\ LogSound(Written, turnCount)
        /\ turnCount \in Nat /\ Written \in Seq(Events) /\ store \in Seq(Events)
        /\ turnCount \in {turnCount, turnCount + 1}
    BY WrittenTyped, ConstantsAssumption DEF IInv, TypeOK, SavedSound
  <1>s. db = <<>> => LogSound(store, turnCount)
    BY <1>t, WrittenTyped
  <1>c. \A c \in Clients : c \notin {"turn", "command", "nobody"}
    BY ConstantsAssumption
  <1>1. CASE QuietLog /\ turnCount' = turnCount
    <2>1. Written' = Written
      BY <1>1 DEF QuietLog, Written, Pending
    <2> QED BY <1>1, <1>t, <2>1 DEF QuietLog, SavedSound
  <1>2. ASSUME NEW e \in Events, NEW s \in Statements, s.by # "command", db' = Append(db, s),
               Follows(Written, e, turnCount), Written' = Append(Written, e),
               UNCHANGED <<store, checkpoints, turnCount>>
        PROVE  SavedSound'
    <2>1. LogSound(Written', turnCount')
      BY <1>2, <1>t, AppendSound
    <2>2. \A n \in DOMAIN db' : db'[n].by = "command" => n \in DOMAIN db /\ db'[n] = db[n]
      BY <1>2, <1>t, AppendedStatement
    <2>3. turnCount' \in {turnCount, turnCount + 1} /\ \A log \in checkpoints' : log \in checkpoints
      BY <1>2
    <2> QED BY <1>2, <2>1, <2>2, <2>3, TargetsKept DEF SavedSound
  <1>3. CASE SaveStep
    <2>1. PICK e \in Events, next \in Onward, loc \in Locals :
            /\ Save(e, next, loc) /\ Follows(store, e, turnCount)
            /\ Written = store /\ Written' = Append(store, e)
      BY <1>3, SaveFollows
    <2>2. [by |-> "turn", event |-> e] \in Statements /\ [by |-> "turn", event |-> e].by # "command"
      BY DEF Statements
    <2>3. db' = Append(db, [by |-> "turn", event |-> e]) /\ UNCHANGED <<store, checkpoints, turnCount>>
      BY <2>1 DEF Save, Submit, durable, registry
    <2> QED BY <1>2, <2>1, <2>2, <2>3
  <1>4. CASE SweepCall
    <2>1. PICK call \in local.todo :
            /\ Follows(store, Event("interrupted", call), turnCount) /\ Event("interrupted", call) \in Events
            /\ Written = store /\ Written' = Append(store, Event("interrupted", call))
            /\ db' = Append(db, [by |-> "turn", event |-> Event("interrupted", call)])
            /\ UNCHANGED <<store, checkpoints, turnCount>>
      BY <1>4, SweepFollows
    <2> DEFINE e == Event("interrupted", call)
    <2>2. [by |-> "turn", event |-> e] \in Statements /\ [by |-> "turn", event |-> e].by # "command"
      BY <2>1 DEF Statements
    <2> QED BY <1>2, <2>1, <2>2
  <1>5. CASE SaveOutcome
    <2> DEFINE e == Event(local.outcome, active.turn)
    <2>1. /\ Follows(store, e, turnCount) /\ e \in Events
          /\ Written = store /\ Written' = Append(store, e)
          /\ db' = Append(db, [by |-> "turn", event |-> e])
          /\ UNCHANGED <<store, checkpoints, turnCount>>
      BY <1>5, OutcomeFollows
    <2> HIDE DEF e
    <2>2. [by |-> "turn", event |-> e] \in Statements /\ [by |-> "turn", event |-> e].by # "command"
      BY <2>1 DEF Statements
    <2> QED BY <1>2, <2>1, <2>2
  <1>6. CASE DropTurn
    <2>1. /\ UNCHANGED <<store, checkpoints, turnCount>> /\ Written' = Written
          /\ db' = [n \in DOMAIN db |-> IF db[n].by = "turn" THEN [db[n] EXCEPT !.by = "nobody"] ELSE db[n]]
      BY <1>6, DropWritten DEF DropTurn, durable, registry
    <2>2. \A s \in Statements : s.by = "turn" => [s EXCEPT !.by = "nobody"].by = "nobody"
      BY DEF Statements
    <2>3. \A n \in DOMAIN db' : db'[n].by = "command" => n \in DOMAIN db /\ db'[n] = db[n]
      BY <1>t, <2>1, <2>2, DbTyped
    <2>4. turnCount' \in {turnCount, turnCount + 1} /\ \A log \in checkpoints' : log \in checkpoints
      BY <1>t, <2>1
    <2> QED BY <1>t, <2>1, <2>3, <2>4, TargetsKept DEF SavedSound
  <1>7. CASE \E c \in Clients : SaveDecision(c)
    <2>1. PICK c \in Clients : SaveDecision(c)
      BY <1>7
    <2>2. Written' = Written /\ UNCHANGED <<store, checkpoints, turnCount>>
      BY <2>1, DecisionSubmitted
    <2>3. PICK s \in Statements : s.by = c /\ db' = Append(db, s)
      BY <2>1, DecisionSubmitted
    <2>4. \A n \in DOMAIN db' : db'[n].by = "command" => n \in DOMAIN db /\ db'[n] = db[n]
      BY <1>c, <1>t, <2>3, AppendedStatement
    <2>5. turnCount' \in {turnCount, turnCount + 1} /\ \A log \in checkpoints' : log \in checkpoints
      BY <1>t, <2>2
    <2> QED BY <1>t, <2>2, <2>4, <2>5, TargetsKept DEF SavedSound
  <1>8. CASE ReplaceHistory
    <2>1. Written' = Written /\ UNCHANGED <<store, checkpoints, turnCount>>
      BY <1>8, RewriteSubmitted
    <2>2. PICK target \in Targets :
            /\ target.log = <<>> \/ target.log \in checkpoints
            /\ target.upto <= Len(IF target.base = "store" THEN store ELSE target.log)
            /\ db' = Append(db, [by |-> "command", target |-> target])
      BY <1>8, RewriteSubmitted
    <2> DEFINE s == [by |-> "command", target |-> target]
    <2>3. s \in Statements /\ s.target = target /\ db' = Append(db, s)
      BY <2>2 DEF Statements
    <2> HIDE DEF s
    <2>4. LogSound(<<>>, turnCount)
      BY DEF LogSound, CallsNamed, ResultsMatch, BreaksClosed, OutcomesOnce
    <2>5. LogSound(target.log, turnCount)
      BY <1>t, <2>2, <2>4 DEF SavedSound
    <2>6. \A n \in DOMAIN db' : (n \in DOMAIN db /\ db'[n] = db[n]) \/ db'[n] = s
      BY <1>t, <2>3, Appended DEF TypeOK
    <2>7. \A n \in DOMAIN db' : db'[n].by = "command" =>
            /\ LogSound(db'[n].target.log, turnCount)
            /\ db'[n].target.upto <= Len(IF db'[n].target.base = "store" THEN store ELSE db'[n].target.log)
      BY <1>t, <2>2, <2>3, <2>5, <2>6 DEF SavedSound
    <2> QED BY <1>t, <2>1, <2>7 DEF SavedSound
  <1>9. CASE RunStatement
    <2>1. turnCount' = turnCount /\ db # <<>> /\ 1 \in DOMAIN db
      BY <1>9, <1>t, DbTyped DEF RunStatement, registry
    <2>2. \A n \in DOMAIN db' : db'[n].by # "command"
      <3>1. db' # <<>> => Len(db') = 1 /\ db'[1] = db[2] /\ db[2].by \in Clients
        BY <1>9, RunWritten
      <3>2. db' \in Seq(Statements)
        BY <1>9, <1>t, Popped DEF RunStatement, TypeOK
      <3>3. \A n \in DOMAIN db' : n = 1 /\ db' # <<>>
        BY <3>1, <3>2
      <3> QED BY <1>c, <3>1, <3>3
    <2>3. CASE Written' = Written /\ checkpoints' = checkpoints
      BY <1>t, <2>1, <2>2, <2>3 DEF SavedSound
    <2>4. CASE db[1].by \in Clients
      <3>1. /\ Written = store /\ Written' = Append(store, db[1].event)
            /\ checkpoints' = checkpoints /\ db[1].event.kind \in Decisions /\ db[1].event \in Events
        BY <1>9, <1>c, <2>4, RunWritten
      <3>2. Follows(store, db[1].event, turnCount)
        BY <3>1 DEF Follows, Decisions, Results, Outcomes
      <3>3. LogSound(Written', turnCount)
        BY <1>t, <3>1, <3>2, AppendSound
      <3> QED BY <1>t, <2>1, <2>2, <3>1, <3>3 DEF SavedSound
    <2>5. CASE db[1].by = "command"
      <3> DEFINE base == IF db[1].target.base = "store" THEN store ELSE db[1].target.log
                 upto == db[1].target.upto
      <3>1. /\ Written = store /\ checkpoints' = checkpoints \cup {store} /\ Written' = SubSeq(base, 1, upto)
        BY <1>9, <1>c, <2>5, RunWritten
      <3>2. db[1].target \in Targets
        BY <1>t, <2>1, <2>5, DbTyped, <1>c DEF Statements
      <3>3. base \in Seq(Events) /\ upto \in Nat
        BY <1>t, <3>2 DEF Targets
      <3>4. LogSound(base, turnCount) /\ upto <= Len(base)
        BY <1>t, <2>1, <2>5, <3>1 DEF SavedSound
      <3> HIDE DEF base, upto
      <3>5. LogSound(SubSeq(base, 1, upto), turnCount)
        <4> DEFINE t == SubSeq(base, 1, upto)
        <4>1. t \in Seq(Events) /\ Len(t) = upto /\ \A i \in 1..upto : t[i] = base[i]
          BY <3>3, <3>4, Cut
        <4> HIDE DEF t
        <4>2. LogSound(t, turnCount)
          BY <1>t, <3>3, <3>4, <4>1, PrefixSound
        <4> QED BY <4>2 DEF t
      <3> QED BY <1>t, <2>1, <2>2, <3>1, <3>5 DEF SavedSound
    <2> QED BY <1>9, <2>3, <2>4, <2>5, RunWritten
  <1>10. CASE Crash
    <2>1. db' = <<>> /\ UNCHANGED <<store, checkpoints, turnCount>>
      BY <1>10 DEF Crash, durable
    <2>2. Written' = store
      BY <2>1 DEF Written, Pending
    <2>3. LogSound(store, turnCount)
      BY <1>t, WrittenTyped, PrefixSound
    <2>4. DOMAIN db' = {}
      BY <2>1
    <2> QED BY <1>t, <2>1, <2>2, <2>3, <2>4 DEF SavedSound
  <1>11. CASE \E request \in {"send", "continue", "compact"} : StartTurn(request)
    <2>1. UNCHANGED <<store, db, checkpoints>> /\ turnCount' = turnCount + 1
      BY <1>11 DEF StartTurn, durable
    <2>2. Written' = Written /\ LogSound(Written, turnCount')
      BY <1>t, <2>1, MoreTurnsSound DEF Written, Pending
    <2>3. turnCount' \in {turnCount, turnCount + 1} /\ \A log \in checkpoints' : log \in checkpoints
      BY <1>t, <2>1
    <2> QED BY <2>1, <2>2, <2>3, TargetsKept DEF SavedSound
  <1> QED BY <1>1, <1>3, <1>4, <1>5, <1>6, <1>7, <1>8, <1>9, <1>10, <1>11, KindsOfStep

-----------------------------------------------------------------------------
(* The open calls are tracked.                                             *)

\* The calls of a batch that grows, and of one whose first call is answered.
LEMMA BatchAppended ==
  ASSUME NEW b \in Seq([call : Nat, tool : Tools]), NEW x \in [call : Nat, tool : Tools],
         Distinct(b), x.call \notin CallsOf(b)
  PROVE  CallsOf(Append(b, x)) = CallsOf(b) \cup {x.call} /\ Distinct(Append(b, x))
  <1> DEFINE t == Append(b, x)
  <1>1. /\ Len(b) \in Nat /\ DOMAIN b = 1..Len(b) /\ DOMAIN t = 1..(Len(b) + 1)
        /\ \A i \in 1..Len(b) : t[i] = b[i]
        /\ t[Len(b) + 1] = x /\ x.call \in Nat
    BY Appended
  <1>2. \A i \in 1..Len(b) : b[i].call \in Nat
    <2>1. \A i \in 1..Len(b) : b[i] \in [call : Nat, tool : Tools]
      BY ElementOfSeq
    <2> QED BY <2>1
  <1> HIDE DEF t
  <1>3. \A i : i \in DOMAIN t <=> (i \in DOMAIN b \/ i = Len(b) + 1)
    BY <1>1
  <1>4. \A c \in Nat : c \in CallsOf(t) <=> (c \in CallsOf(b) \/ c = x.call)
    BY <1>1, <1>3 DEF CallsOf
  <1>5. CallsOf(t) = CallsOf(b) \cup {x.call}
    <2>1. CallsOf(t) \subseteq Nat /\ CallsOf(b) \subseteq Nat
      BY DEF CallsOf
    <2> QED BY <1>1, <1>4, <2>1
  <1>6. \A j \in DOMAIN b : b[j].call # x.call
    BY <1>1, <1>2 DEF CallsOf
  <1>7. Distinct(t)
    BY <1>1, <1>3, <1>6 DEF Distinct
  <1> QED BY <1>5, <1>7 DEF t

\* The calls of a batch without its first.
LEMMA BatchPopped ==
  ASSUME NEW b \in Seq([call : Nat, tool : Tools]), b # <<>>, Distinct(b)
  PROVE  CallsOf(Tail(b)) = CallsOf(b) \ {Head(b).call} /\ Distinct(Tail(b))
  <1> DEFINE t == Tail(b)
  <1>1. /\ Len(b) \in Nat \ {0} /\ DOMAIN b = 1..Len(b) /\ DOMAIN t = 1..(Len(b) - 1)
        /\ \A i \in 1..(Len(b) - 1) : t[i] = b[i + 1]
        /\ Head(b) = b[1]
    BY Popped
  <1> HIDE DEF t
  <1>2. \A i \in DOMAIN t : i + 1 \in DOMAIN b /\ i + 1 # 1 /\ t[i] = b[i + 1]
    BY <1>1
  <1>3. \A i \in DOMAIN b : i # 1 => i - 1 \in DOMAIN t /\ t[i - 1] = b[i]
    BY <1>1
  <1>4. 1 \in DOMAIN b
    BY <1>1
  <1>5. ASSUME NEW c \in Nat PROVE c \in CallsOf(t) <=> (c \in CallsOf(b) /\ c # b[1].call)
    <2>1. (\E i \in DOMAIN t : t[i].call = c) <=> (\E i \in DOMAIN b : i # 1 /\ b[i].call = c)
      BY <1>2, <1>3
    <2>2. (\E i \in DOMAIN b : i # 1 /\ b[i].call = c) <=> ((\E i \in DOMAIN b : b[i].call = c) /\ c # b[1].call)
      BY <1>4 DEF Distinct
    <2> QED BY <2>1, <2>2 DEF CallsOf
  <1>6. CallsOf(t) = CallsOf(b) \ {Head(b).call}
    <2>1. CallsOf(t) \subseteq Nat /\ CallsOf(b) \subseteq Nat
      BY DEF CallsOf
    <2> QED BY <1>1, <1>5, <2>1
  <1>7. Distinct(t)
    <2>1. SUFFICES ASSUME NEW j \in DOMAIN t, NEW k \in DOMAIN t, t[j].call = t[k].call PROVE j = k
      BY DEF Distinct
    <2>2. j + 1 = k + 1
      BY <1>2, <2>1 DEF Distinct
    <2> QED BY <1>1, <2>2
  <1> QED BY <1>6, <1>7 DEF t

\* A save leaves to the turn the calls that it left in the log.
LEMMA SaveTracks ==
  ASSUME IInv, SaveStep
  PROVE  CallsTracked'
  <1>1. PICK e \in Events, next \in Onward, loc \in Locals :
           /\ Save(e, next, loc) /\ db = <<>> /\ Written = store /\ Written' = Append(store, e)
           /\ loc.events = local.events
           /\ next = "closing" \/ loc.todo = {}
           /\ next \in Rounds \/ loc.batch = <<>>
           /\ \/ SavesText(e, loc) \/ SavesCompaction(e, loc) \/ SavesCall(e, loc)
              \/ ClosesCall(e, loc) \/ SavesResult(e, loc)
    BY SaveFollows
  <1>2. PICK e0 \in Events, next0 \in Onward, loc0 \in Locals : Save(e0, next0, loc0) /\ pc \in Moving
    BY DEF SaveStep
  <1>t. /\ TypeOK /\ CallsTracked /\ store \in Seq(Events) /\ ResultsMatch(store)
        /\ local.batch \in Seq([call : Nat, tool : Tools])
    <2>1. LogSound(Written, turnCount) /\ TypeOK /\ CallsTracked
      BY DEF IInv, SavedSound
    <2> QED BY <1>1, <2>1 DEF TypeOK, Locals, LogSound
  <1>3. /\ Unanswered(store) = local.todo \cup CallsOf(local.batch)
        /\ Distinct(local.batch)
        /\ Complete(local.events)
    BY <1>1, <1>2, <1>t DEF CallsTracked, InTurn, Moving, Onward, TurnRunning
  <1>4. /\ local'.next = next /\ local'.batch = loc.batch /\ local'.events = local.events
        /\ local'.todo = loc.todo /\ pc' = "storing"
    BY <1>1, SavedLocals
  <1>5. CallsOf(<<>>) = {} /\ Distinct(<<>>)
    BY DEF CallsOf, Distinct
  <1>6. Unanswered(Written') = loc.todo \cup CallsOf(loc.batch) /\ Distinct(loc.batch)
    <2>1. CASE SavesText(e, loc)
      <3>1. /\ e.kind \notin Results \cup {"call"}
            /\ loc.todo = {} /\ local.todo = {} /\ loc.batch = local.batch
        BY <2>1 DEF SavesText, Results
      <3>2. Unanswered(Written') = Unanswered(store)
        BY <1>1, <1>t, <3>1, AppendUnanswered
      <3> QED BY <1>3, <3>1, <3>2
    <2>2. CASE SavesCompaction(e, loc)
      <3>1. /\ e.kind \notin Results \cup {"call"}
            /\ loc.todo = {} /\ local.todo = {} /\ loc.batch = <<>> /\ local.batch = <<>>
        BY <2>2 DEF SavesCompaction, Results
      <3>2. Unanswered(Written') = Unanswered(store)
        BY <1>1, <1>t, <3>1, AppendUnanswered
      <3> QED BY <1>3, <3>1, <3>2
    <2>3. CASE SavesCall(e, loc)
      <3>1. PICK item \in Tools : loc.batch = Append(local.batch, [call |-> Len(store) + 1, tool |-> item])
        BY <2>3 DEF SavesCall
      <3> DEFINE x == [call |-> Len(store) + 1, tool |-> item]
      <3>2. x \in [call : Nat, tool : Tools] /\ x.call = Len(store) + 1 /\ Len(store) + 1 \notin DOMAIN store
        BY <1>t
      <3>3. x.call \notin CallsOf(local.batch)
        BY <1>3, <3>2 DEF Unanswered
      <3> HIDE DEF x
      <3>4. loc.batch = Append(local.batch, x)
        BY <3>1 DEF x
      <3>5. CallsOf(loc.batch) = CallsOf(local.batch) \cup {x.call} /\ Distinct(loc.batch)
        BY <1>3, <1>t, <3>2, <3>3, <3>4, BatchAppended
      <3>6. e.kind = "call" /\ local.todo = {} /\ loc.todo = {}
        BY <2>3 DEF SavesCall, Event
      <3>7. Unanswered(Written') = Unanswered(store) \cup {Len(store) + 1}
        BY <1>1, <1>t, <3>6, AppendUnanswered
      <3> QED BY <1>3, <3>2, <3>5, <3>6, <3>7
    <2>4. CASE ClosesCall(e, loc)
      <3>1. PICK call \in local.todo : e = Event("interrupted", call) /\ loc.todo = local.todo \ {call}
        BY <2>4 DEF ClosesCall
      <3>2. loc.batch = <<>> /\ local.batch = <<>>
        BY <2>4 DEF ClosesCall
      <3>3. e.kind \in Results /\ e.id = call
        BY <3>1 DEF Event, Results
      <3>4. Unanswered(Written') = Unanswered(store) \ {call}
        BY <1>1, <1>t, <3>3, AppendUnanswered
      <3> QED BY <1>3, <1>5, <3>1, <3>2, <3>4
    <2>5. CASE SavesResult(e, loc)
      <3>1. /\ e.kind \in Results /\ e.id = Call.call /\ loc.todo = {} /\ local.todo = {}
            /\ local.batch # <<>> /\ loc.batch = Tail(local.batch)
        BY <2>5 DEF SavesResult, Event
      <3>2. Unanswered(Written') = Unanswered(store) \ {Call.call}
        BY <1>1, <1>t, <3>1, AppendUnanswered
      <3>3. CallsOf(loc.batch) = CallsOf(local.batch) \ {Call.call} /\ Distinct(loc.batch)
        BY <1>3, <1>t, <3>1, BatchPopped DEF Call
      <3> QED BY <1>3, <3>1, <3>2, <3>3
    <2> QED BY <1>1, <2>1, <2>2, <2>3, <2>4, <2>5
  <1>7. At' = next
    BY <1>4 DEF At
  <1>8. Complete(local'.events)
    BY <1>3, <1>4
  <1>9. /\ Unanswered(Written') = local'.todo \cup CallsOf(local'.batch)
        /\ At' = "closing" \/ local'.todo = {}
        /\ At' \in Rounds \/ local'.batch = <<>>
        /\ Distinct(local'.batch)
    BY <1>1, <1>4, <1>6, <1>7
  <1> QED BY <1>4, <1>8, <1>9 DEF CallsTracked

\* Every step keeps track of the open calls.
LEMMA CallsTrackedStep ==
  ASSUME IInv, [Next]_vars
  PROVE  CallsTracked'
  <1>t. /\ TypeOK /\ CallsTracked /\ TurnRegistered /\ DbOwned /\ local \in Locals
        /\ Written \in Seq(Events) /\ LogSound(Written, turnCount) /\ ResultsMatch(Written)
        /\ turnCount \in Nat
    BY WrittenTyped, ConstantsAssumption DEF IInv, TypeOK, SavedSound, LogSound
  <1>e. Complete(<<>>) /\ CallsOf(<<>>) = {} /\ Distinct(<<>>)
    BY DEF Complete, CallsNamed, Unanswered, CallsOf, Distinct
  <1>n. NoLocals.events = <<>>
    BY DEF NoLocals
  <1>1. ASSUME UNCHANGED <<pc, local>>, Unanswered(Written') = Unanswered(Written) PROVE CallsTracked'
    BY <1>1, <1>t DEF CallsTracked, InTurn, At
  <1>2. ASSUME UNCHANGED <<store, db>> PROVE Written' = Written
    BY <1>2 DEF Written, Pending
  <1>3. ASSUME pc' \notin TurnRunning \ {"preparing"}, pc' # "sweepstoring", Complete(local'.events),
               ~(pc' = "outcome" /\ local'.outcome = "cancelled")
        PROVE CallsTracked'
    BY <1>3 DEF CallsTracked, InTurn
  <1>4. CASE Launch
    <2>1. pc' \in {"preparing", "none"} /\ (local' = local \/ local' = NoLocals)
      BY <1>4 DEF Launch
    <2>2. Complete(local'.events)
      BY <1>e, <1>n, <1>t, <2>1 DEF CallsTracked
    <2> QED BY <1>3, <2>1, <2>2 DEF TurnRunning
  <1>5. CASE Stored
    <2>1. pc = "storing" /\ pc' = local.next /\ UNCHANGED <<store, db, local>>
      BY <1>5 DEF Stored, durable
    <2>2. pc' \in TurnRunning \ {"preparing", "storing"} /\ Written' = Written
      BY <1>2, <1>t, <2>1 DEF TurnRegistered, Moving, Onward
    <2> QED BY <1>t, <2>1, <2>2 DEF CallsTracked, InTurn, At, TurnRunning
  <1>6. CASE SaveStep
    BY <1>6, SaveTracks
  <1>7. ASSUME pc \in {"batch", "registered", "asked"}, UNCHANGED <<store, db, local>>,
               pc' \in {"registered", "asked", "executing", "denied", "answered"}
        PROVE  CallsTracked'
    <2>1. Written' = Written
      BY <1>2, <1>7
    <2>2. At = pc /\ At' = pc' /\ pc \in TurnRunning /\ pc # "preparing"
      BY <1>7 DEF At, TurnRunning
    <2>3. pc' \in Rounds
      BY <1>7 DEF Rounds
    <2> QED BY <1>7, <1>t, <2>1, <2>2, <2>3 DEF CallsTracked, InTurn
  <1>8. CASE RegisterInteraction
    <2>1. pc = "batch" /\ pc' = "registered" /\ UNCHANGED <<store, db, local>>
      BY <1>8 DEF RegisterInteraction, HasCall, durable
    <2> QED BY <1>7, <2>1
  <1>9. CASE Asks
    <2>1. pc = "registered" /\ pc' = "asked" /\ UNCHANGED <<store, db, local>>
      BY <1>9 DEF Asks, Goto, durable
    <2> QED BY <1>7, <2>1
  <1>10. CASE ReceiveAnswer
    <2>1. PICK a \in sent : Goto(CASE a.answer = "allowed" -> "executing"
                                   [] a.answer = "refused" -> "denied"
                                   [] a.answer = "answered" -> "answered", local)
      BY <1>10 DEF ReceiveAnswer
    <2>2. a.answer \in {"allowed", "refused", "answered"}
      BY <1>t DEF TypeOK, Answers, Decisions
    <2>3. pc = "asked" /\ pc' \in {"executing", "denied", "answered"} /\ UNCHANGED <<store, db, local>>
      BY <1>10, <2>1, <2>2 DEF ReceiveAnswer, Goto, durable
    <2> QED BY <1>7, <2>3
  <1>11. CASE MoveStep
    <2>1. PICK next \in Onward, loc \in Locals :
            /\ Goto(next, loc) /\ pc \in Moving \cup {"preparing"}
            /\ loc.batch = local.batch
            /\ next \in Rounds \/ loc.batch = <<>>
            /\ IF pc = "preparing"
                 THEN db = <<>> /\ next = "closing" /\ loc.todo = OpenCalls(store) /\ loc.events = local.events
                 ELSE /\ loc.todo = {} /\ local.todo = {}
                      /\ \/ loc.events = local.events
                         \/ loc.events = store /\ db = <<>> /\ local.batch = <<>>
      BY <1>11 DEF MoveStep
    <2>2. pc' = next /\ local' = loc /\ UNCHANGED <<store, db>>
      BY <2>1 DEF Goto, durable
    <2>3. Written' = Written /\ At' = next /\ pc' \in TurnRunning /\ pc' \notin {"preparing", "storing"}
      BY <1>2, <2>2 DEF At, Moving, Onward
    <2>4. Unanswered(Written) = loc.todo \cup CallsOf(loc.batch) /\ Complete(loc.events)
      <3>1. CASE pc = "preparing"
        <4>1. db = <<>> /\ loc.todo = OpenCalls(store) /\ loc.events = local.events /\ local.batch = <<>>
          BY <1>t, <2>1, <3>1 DEF TurnRegistered
        <4>2. Written = store
          BY <1>t, <4>1, WrittenTyped
        <4>3. OpenCalls(store) = Unanswered(Written)
          BY <1>t, <4>2, OpenCallsUnanswered
        <4> QED BY <1>e, <1>t, <2>1, <4>1, <4>3 DEF CallsTracked
      <3>2. CASE pc # "preparing"
        <4>1. /\ pc \in TurnRunning
              /\ loc.todo = {} /\ local.todo = {}
              /\ \/ loc.events = local.events
                 \/ loc.events = store /\ db = <<>> /\ local.batch = <<>>
          BY <2>1, <3>2 DEF Moving, Onward
        <4>2. Unanswered(Written) = CallsOf(local.batch) /\ Complete(local.events)
          BY <1>t, <3>2, <4>1 DEF CallsTracked, InTurn
        <4>3. loc.events = store /\ db = <<>> /\ local.batch = <<>> => Complete(loc.events)
          BY <1>e, <1>t, <4>2, WrittenTyped DEF Complete, LogSound
        <4> QED BY <2>1, <4>1, <4>2, <4>3
      <3> QED BY <3>1, <3>2
    <2>5. Distinct(loc.batch)
      <3>1. pc = "preparing" => local.batch = <<>>
        BY <1>t DEF TurnRegistered
      <3>2. pc # "preparing" => Distinct(local.batch)
        BY <1>t, <2>1 DEF CallsTracked, InTurn, Moving, Onward
      <3> QED BY <1>e, <2>1, <3>1, <3>2
    <2>6. next = "closing" \/ loc.todo = {}
      BY <2>1
    <2> QED BY <2>1, <2>2, <2>3, <2>4, <2>5, <2>6 DEF CallsTracked, Moving, Onward, TurnRunning
  <1>12. CASE ReturnStep
    <2>1. PICK outcome \in {"completed", "failed"} : Return(outcome)
      BY <1>12 DEF ReturnStep
    <2>2. pc' \in {"cancelling", "outcome"} /\ local' = [local EXCEPT !.outcome = outcome] /\ outcome \in Outcomes
      BY <2>1 DEF Return, Goto, Outcomes
    <2>3. local'.outcome # "cancelled" /\ local'.events = local.events
      BY <1>t, <2>1, <2>2, LocalParts
    <2>4. Complete(local'.events)
      BY <1>t, <2>3 DEF CallsTracked
    <2> QED BY <1>3, <2>2, <2>3, <2>4 DEF TurnRunning
  <1>13. CASE BeginCleanup
    <2>1. pc' = "sweeping" /\ local' = local
      BY <1>13 DEF BeginCleanup
    <2> QED BY <1>3, <1>t, <2>1 DEF TurnRunning, CallsTracked
  <1>14. CASE Sweep
    <2>a. UNCHANGED <<store, db>> /\ db = <<>>
      BY <1>14 DEF Sweep, Goto, durable, Readable
    <2>1. Written' = Written /\ Written = store
      BY <1>2, <1>t, <2>a, WrittenTyped
    <2>2. OpenCalls(store) = Unanswered(Written)
      BY <1>t, <2>1, OpenCallsUnanswered
    <2>3. \/ OpenCalls(store) = {} /\ pc' = "outcome" /\ local' = [local EXCEPT !.outcome = "cancelled"]
          \/ pc' = "sweepstoring" /\ local' = [local EXCEPT !.todo = OpenCalls(store)]
      BY <1>14 DEF Sweep, Goto
    <2>4. "cancelled" \in Outcomes /\ OpenCalls(store) \in SUBSET Nat
      BY <1>t, OpenCallsTyped DEF Outcomes
    <2>5. /\ [local EXCEPT !.outcome = "cancelled"].events = local.events
          /\ [local EXCEPT !.todo = OpenCalls(store)].events = local.events
          /\ [local EXCEPT !.todo = OpenCalls(store)].todo = OpenCalls(store)
      BY <1>t, <2>4, LocalParts
    <2>6. /\ Complete(local'.events) /\ pc' \notin TurnRunning
          /\ pc' = "sweepstoring" => local'.todo = OpenCalls(store)
          /\ pc' = "outcome" => OpenCalls(store) = {}
      BY <1>t, <2>3, <2>5 DEF CallsTracked, TurnRunning
    <2> QED BY <2>1, <2>2, <2>6 DEF CallsTracked, InTurn
  <1>15. CASE SweepCall
    <2>1. PICK call \in local.todo :
           /\ Written = store /\ Written' = Append(store, Event("interrupted", call))
           /\ local' = [local EXCEPT !.todo = @ \ {call}, !.next = "swept"]
           /\ pc = "sweepstoring" /\ pc' = pc /\ Event("interrupted", call) \in Events
      BY <1>15, SweepFollows
    <2>2. local.todo \ {call} \in SUBSET Nat
      BY <1>t DEF Locals
    <2>3. local'.todo = local.todo \ {call} /\ local'.events = local.events
      BY <1>t, <2>1, <2>2, LocalParts
    <2>4. Unanswered(Written') = Unanswered(Written) \ {call}
      <3>1. Event("interrupted", call).kind \in Results /\ Event("interrupted", call).id = call
        BY DEF Event, Results
      <3> QED BY <1>t, <2>1, <3>1, AppendUnanswered
    <2> QED BY <1>t, <2>1, <2>3, <2>4 DEF CallsTracked, InTurn, TurnRunning
  <1>16. CASE SweepStored
    <2>1. pc = "sweepstoring" /\ UNCHANGED <<store, db>>
          /\ IF local.todo = {}
               THEN pc' = "outcome" /\ local' = [NoLocals EXCEPT !.outcome = "cancelled"]
               ELSE UNCHANGED pc /\ local' = [local EXCEPT !.next = "none"]
      BY <1>16 DEF SweepStored, durable
    <2>2. Written' = Written /\ Unanswered(Written) = local.todo
      BY <1>2, <1>t, <2>1 DEF CallsTracked
    <2>3. /\ [NoLocals EXCEPT !.outcome = "cancelled"].events = <<>>
          /\ [local EXCEPT !.next = "none"].todo = local.todo
          /\ [local EXCEPT !.next = "none"].events = local.events
      <3>1. [NoLocals EXCEPT !.outcome = "cancelled"].events = <<>>
        BY DEF NoLocals
      <3> QED BY <1>t, <3>1, LocalParts
    <2>4. CASE local.todo = {}
      BY <1>e, <2>1, <2>2, <2>3, <2>4 DEF CallsTracked, InTurn, TurnRunning
    <2>5. CASE local.todo # {}
      BY <1>t, <2>1, <2>2, <2>3, <2>5 DEF CallsTracked, InTurn, TurnRunning
    <2> QED BY <2>4, <2>5
  <1>17. CASE SaveOutcome \/ OutcomeStored \/ PublishTurnFinished
    <2>1. pc' \in {"outcomestoring", "concluding", "finishing"} /\ local' = local
      BY <1>17 DEF SaveOutcome, OutcomeStored, PublishTurnFinished, Goto
    <2> QED BY <1>3, <1>t, <2>1 DEF TurnRunning, CallsTracked
  <1>18. CASE Finish \/ DropTurn \/ Crash
    <2>1. pc' \in {"none", "cancelling"} /\ local' = NoLocals
      BY <1>18 DEF Finish, DropTurn, Crash
    <2> QED BY <1>3, <1>e, <1>n, <2>1 DEF TurnRunning
  <1>19. CASE \E request \in scenario.requests : StartTurn(request)
    <2>1. PICK request : StartTurn(request)
      BY <1>19
    <2>2. pc' = "launching" /\ local'.events = <<>>
      BY <2>1 DEF StartTurn, NoLocals
    <2> QED BY <1>3, <1>e, <2>2 DEF TurnRunning
  <1>20. CASE Cancel \/ HistoryReplaced \/ UNCHANGED vars
    <2>1. UNCHANGED <<store, db, pc, local>>
      BY <1>20 DEF Cancel, HistoryReplaced, vars, durable
    <2> QED BY <1>1, <1>2, <2>1
  <1>21. CASE ReplaceHistory
    <2>1. Written' = Written /\ UNCHANGED <<pc, local>>
      BY <1>21, RewriteSubmitted
    <2> QED BY <1>1, <2>1
  <1>22. CASE \E c \in scenario.clients : HandlerStep(c) \/ \E answer \in Decisions \cup {"answered"} : Claim(c, answer)
    <2>1. PICK c \in Clients : HandlerStep(c) \/ \E answer \in Decisions \cup {"answered"} : Claim(c, answer)
      BY <1>22, <1>t, ConstantsAssumption DEF TypeOK
    <2>2. UNCHANGED <<pc, local>>
      BY <2>1 DEF HandlerStep, SaveDecision, DecisionFails, DecisionStored, Resolve, Claim
    <2>3. CASE SaveDecision(c)
      <3>1. Written' = Written
        BY <2>3, DecisionSubmitted
      <3> QED BY <1>1, <2>2, <3>1
    <2>4. CASE ~SaveDecision(c)
      <3>1. UNCHANGED <<store, db>>
        BY <2>1, <2>4 DEF HandlerStep, DecisionFails, DecisionStored, Resolve, Claim, durable
      <3> QED BY <1>1, <1>2, <2>2, <3>1
    <2> QED BY <2>3, <2>4
  <1>23. CASE RunStatement
    <2>1. UNCHANGED <<pc, local>>
      BY <1>23 DEF RunStatement
    <2>2. CASE Written' = Written
      BY <1>1, <2>1, <2>2
    <2>3. CASE db[1].by \in Clients
      <3>1. /\ Written = store /\ Written' = Append(store, db[1].event)
            /\ db[1].event.kind \in Decisions /\ db[1].event \in Events
        BY <1>23, <2>3, RunWritten, ConstantsAssumption
      <3>2. db[1].event.kind \notin Results \cup {"call"}
        BY <3>1 DEF Decisions, Results
      <3>3. Unanswered(Written') = Unanswered(Written)
        BY <1>t, <3>1, <3>2, AppendUnanswered
      <3> QED BY <1>1, <2>1, <3>3
    <2>4. CASE db[1].by = "command"
      <3>1. 1 \in DOMAIN db
        BY <1>23, <1>t, DbTyped DEF RunStatement
      <3>2. mutation = "command"
        BY <1>t, <2>4, <3>1 DEF DbOwned
      <3>3. pc = "none"
        BY <1>t, <3>2 DEF IInv, LockOwned, TurnRegistered
      <3> QED BY <1>3, <1>t, <2>1, <3>3 DEF TurnRunning, CallsTracked
    <2> QED BY <1>23, <2>2, <2>3, <2>4, RunWritten
  <1>24. CASE TurnStep
    BY <1>4, <1>5, <1>6, <1>8, <1>9, <1>10, <1>11, <1>12, <1>24, KindsOfTurnStep
  <1>25. CASE EndStep
    BY <1>13, <1>14, <1>15, <1>16, <1>17, <1>18, <1>25 DEF EndStep
  <1> QED BY <1>18, <1>19, <1>20, <1>21, <1>22, <1>23, <1>24, <1>25 DEF Next

-----------------------------------------------------------------------------
(* A turn has an outcome when it is about to leave the registry, not before. *)

\* An event at the end of the log is an outcome of the turn, or not.
LEMMA AppendOutcome ==
  ASSUME NEW log \in Seq(Events), NEW e \in Events, NEW turn
  PROVE  (\E n \in DOMAIN Append(log, e) : IsOutcomeOf(Append(log, e)[n], turn)) <=>
         ((\E n \in DOMAIN log : IsOutcomeOf(log[n], turn)) \/ IsOutcomeOf(e, turn))
  <1> DEFINE t == Append(log, e)
  <1>1. /\ Len(log) \in Nat /\ DOMAIN log = 1..Len(log) /\ DOMAIN t = 1..(Len(log) + 1)
        /\ \A i \in 1..Len(log) : t[i] = log[i]
        /\ t[Len(log) + 1] = e
    BY Appended
  <1> HIDE DEF t
  <1>2. \A i : i \in DOMAIN t <=> (i \in DOMAIN log \/ i = Len(log) + 1)
    BY <1>1
  <1>3. \A i \in DOMAIN log : t[i] = log[i]
    BY <1>1
  <1>4. (\E n \in DOMAIN t : IsOutcomeOf(t[n], turn)) <=>
        ((\E n \in DOMAIN log : IsOutcomeOf(log[n], turn)) \/ IsOutcomeOf(e, turn))
    BY <1>1, <1>2, <1>3
  <1> QED BY <1>4 DEF t

\* A turn has its outcome in the log from when it is submitted, not before.
LEMMA OutcomeOfTurnStep ==
  ASSUME IInv, [Next]_vars
  PROVE  OutcomeOfTurn'
  <1> DEFINE Has(log, turn) == \E n \in DOMAIN log : IsOutcomeOf(log[n], turn)
             Ended == {"outcomestoring", "concluding", "finishing"}
  <1>t. /\ TypeOK /\ OutcomeOfTurn /\ TurnRegistered /\ DbOwned /\ Written \in Seq(Events)
        /\ LogSound(Written, turnCount) /\ turnCount \in Nat
    BY WrittenTyped, ConstantsAssumption DEF IInv, TypeOK, SavedSound
  <1>1. ASSUME UNCHANGED active, pc \in Ended <=> pc' \in Ended,
               Has(Written', active.turn) <=> Has(Written, active.turn)
        PROVE  OutcomeOfTurn'
    BY <1>1, <1>t DEF OutcomeOfTurn, IsActive
  <1>2. ASSUME UNCHANGED <<store, db>> PROVE Written' = Written
    BY <1>2 DEF Written, Pending
  <1>3. ASSUME UNCHANGED <<store, db, active>>, pc \in Ended <=> pc' \in Ended PROVE OutcomeOfTurn'
    BY <1>1, <1>2, <1>3
  <1>4. ASSUME pc' \notin Ended, active' = NoTurn PROVE OutcomeOfTurn'
    BY <1>4 DEF OutcomeOfTurn, IsActive
  <1>5. ASSUME NEW e \in Events, e.kind \notin Outcomes, Written' = Append(Written, e),
               UNCHANGED active, pc \in Ended <=> pc' \in Ended
        PROVE  OutcomeOfTurn'
    <2>1. Has(Written', active.turn) <=> Has(Written, active.turn)
      BY <1>t, <1>5, AppendOutcome DEF IsOutcomeOf
    <2> QED BY <1>1, <1>5, <2>1
  <1>6. CASE Launch
    BY <1>3, <1>4, <1>6 DEF Launch, durable
  <1>7. CASE Stored
    <2>1. pc = "storing" /\ pc' = local.next /\ UNCHANGED <<store, db, active>>
      BY <1>7 DEF Stored, durable, registry
    <2>2. pc' \notin Ended
      BY <1>t, <2>1 DEF TurnRegistered, TurnRunning, Moving, Onward
    <2> QED BY <1>3, <2>1, <2>2
  <1>8. CASE SaveStep
    <2>1. PICK e \in Events, next \in Onward, loc \in Locals :
            Save(e, next, loc) /\ e.kind \notin Outcomes /\ Written = store /\ Written' = Append(store, e)
      BY <1>8, SaveFollows
    <2>2. pc' = "storing" /\ UNCHANGED active
      BY <2>1, SavedLocals
    <2>3. pc \notin Ended
      BY <1>8 DEF SaveStep, Moving, Onward, TurnRunning
    <2> QED BY <1>5, <2>1, <2>2, <2>3
  <1>9. CASE MoveStep
    BY <1>3, <1>9 DEF MoveStep, Goto, Moving, Onward, TurnRunning, durable, registry
  <1>10. CASE ReturnStep
    BY <1>3, <1>10 DEF ReturnStep, Return, Goto, TurnRunning, durable, registry
  <1>11. CASE RegisterInteraction
    BY <1>3, <1>11 DEF RegisterInteraction, HasCall, durable
  <1>12. CASE Asks
    BY <1>3, <1>12 DEF Asks, Goto, durable, registry
  <1>13. CASE ReceiveAnswer
    <2>1. PICK a \in sent : Goto(CASE a.answer = "allowed" -> "executing"
                                   [] a.answer = "refused" -> "denied"
                                   [] a.answer = "answered" -> "answered", local)
      BY <1>13 DEF ReceiveAnswer
    <2>2. a.answer \in {"allowed", "refused", "answered"}
      BY <1>t DEF TypeOK, Answers, Decisions
    <2>3. pc = "asked" /\ pc' \in {"executing", "denied", "answered"} /\ UNCHANGED <<store, db, active>>
      BY <1>13, <2>1, <2>2 DEF ReceiveAnswer, Goto, durable, registry
    <2> QED BY <1>3, <2>3
  <1>14. CASE BeginCleanup
    BY <1>3, <1>14 DEF BeginCleanup, durable
  <1>15. CASE Sweep
    BY <1>3, <1>15 DEF Sweep, Goto, durable, registry
  <1>16. CASE SweepCall
    <2>1. PICK call \in local.todo :
           /\ Written = store /\ Written' = Append(store, Event("interrupted", call))
           /\ pc = "sweepstoring" /\ pc' = pc /\ active' = active /\ Event("interrupted", call) \in Events
      BY <1>16, SweepFollows
    <2>2. Event("interrupted", call).kind \notin Outcomes
      BY DEF Event, Outcomes
    <2> QED BY <1>5, <2>1, <2>2
  <1>17. CASE SweepStored
    BY <1>3, <1>17 DEF SweepStored, durable, registry
  <1>18. CASE SaveOutcome
    <2> DEFINE e == Event(local.outcome, active.turn)
    <2>1. e \in Events /\ IsOutcomeOf(e, active.turn) /\ Written = store /\ Written' = Append(store, e)
          /\ pc' = "outcomestoring" /\ active' = active
      BY <1>18, OutcomeFollows
    <2> HIDE DEF e
    <2>2. Has(Written', active.turn)
      BY <1>t, <2>1, AppendOutcome
    <2> QED BY <2>1, <2>2 DEF OutcomeOfTurn
  <1>19. CASE OutcomeStored
    BY <1>3, <1>19 DEF OutcomeStored, durable, registry
  <1>20. CASE PublishTurnFinished
    BY <1>3, <1>20 DEF PublishTurnFinished, Goto, durable, registry
  <1>21. CASE Finish
    BY <1>4, <1>21 DEF Finish
  <1>22. CASE \E request \in scenario.requests : StartTurn(request)
    <2>1. PICK request : StartTurn(request)
      BY <1>22
    <2>2. UNCHANGED <<store, db>> /\ pc' = "launching" /\ active'.turn = turnCount + 1
      BY <2>1 DEF StartTurn, durable
    <2>3. ~Has(Written, turnCount + 1)
      BY <1>t DEF LogSound, OutcomesOnce, IsOutcomeOf
    <2> QED BY <1>2, <2>2, <2>3 DEF OutcomeOfTurn
  <1>23. CASE Cancel
    <2>1. UNCHANGED <<store, db, pc>> /\ active' = [active EXCEPT !.cancelling = TRUE] /\ active \in ActiveTurns
          /\ IsActive
      BY <1>23, <1>t DEF Cancel, IsActive, TypeOK, durable
    <2>2. active'.turn = active.turn
      BY <2>1 DEF ActiveTurns
    <2> QED BY <1>2, <1>t, <2>1, <2>2 DEF OutcomeOfTurn
  <1>24. CASE DropTurn
    <2>1. UNCHANGED active /\ pc \in TurnRunning /\ pc' = "cancelling"
      BY <1>24 DEF DropTurn, InTurn, registry
    <2> QED BY <1>1, <1>24, <2>1, DropWritten DEF TurnRunning
  <1>25. CASE HistoryReplaced \/ UNCHANGED vars
    <2>1. UNCHANGED <<store, db, active, pc>>
      BY <1>25 DEF HistoryReplaced, vars, durable, registry
    <2> QED BY <1>3, <2>1
  <1>26. CASE ReplaceHistory
    BY <1>1, <1>26, RewriteSubmitted
  <1>27. CASE \E c \in scenario.clients : HandlerStep(c) \/ \E answer \in Decisions \cup {"answered"} : Claim(c, answer)
    <2>1. PICK c \in Clients : HandlerStep(c) \/ \E answer \in Decisions \cup {"answered"} : Claim(c, answer)
      BY <1>27, <1>t, ConstantsAssumption DEF TypeOK
    <2>2. CASE SaveDecision(c)
      BY <1>1, <2>2, DecisionSubmitted
    <2>3. CASE ~SaveDecision(c)
      <3>1. UNCHANGED <<store, db, active, pc>>
        BY <2>1, <2>3 DEF HandlerStep, DecisionFails, DecisionStored, Resolve, Claim, durable, registry
      <3> QED BY <1>3, <3>1
    <2> QED BY <2>2, <2>3
  <1>28. CASE RunStatement
    <2>1. UNCHANGED <<pc, active>>
      BY <1>28 DEF RunStatement, registry
    <2>2. CASE Written' = Written
      BY <1>1, <2>1, <2>2
    <2>3. CASE db[1].by \in Clients
      <3>1. /\ Written = store /\ Written' = Append(store, db[1].event)
            /\ db[1].event.kind \in Decisions /\ db[1].event \in Events
        BY <1>28, <2>3, RunWritten, ConstantsAssumption
      <3>2. db[1].event.kind \notin Outcomes
        BY <3>1 DEF Decisions, Outcomes
      <3> QED BY <1>5, <2>1, <3>1, <3>2
    <2>4. CASE db[1].by = "command"
      <3>1. 1 \in DOMAIN db
        BY <1>28, <1>t, DbTyped DEF RunStatement
      <3>2. mutation = "command"
        BY <1>t, <2>4, <3>1 DEF DbOwned
      <3>3. pc = "none" /\ active = NoTurn
        BY <1>t, <3>2 DEF IInv, LockOwned, TurnRegistered, IsActive
      <3> QED BY <1>4, <2>1, <3>3
    <2> QED BY <1>28, <2>2, <2>3, <2>4, RunWritten
  <1>29. CASE Crash
    BY <1>4, <1>29 DEF Crash
  <1>30. CASE TurnStep
    BY <1>6, <1>7, <1>8, <1>9, <1>10, <1>11, <1>12, <1>13, <1>30, KindsOfTurnStep
  <1>31. CASE EndStep
    BY <1>14, <1>15, <1>16, <1>17, <1>18, <1>19, <1>20, <1>21, <1>24, <1>31 DEF EndStep
  <1> QED BY <1>22, <1>23, <1>25, <1>26, <1>27, <1>28, <1>29, <1>30, <1>31 DEF Next

-----------------------------------------------------------------------------
(* Interactions: what is registered, awaited, claimed, sent and shown.     *)

AskInv == IdsUsed /\ AwaitsLatest /\ ShownInTurn /\ ViewFollowsTurn

\* Where a question is put to the user, and where its answer is dealt with.
Asking == {"registered", "asked"}
Answering == {"executing", "denied", "answered"}

\* Interactions have ids from 1.
LEMMA AskTyped ==
  ASSUME TypeOK
  PROVE  /\ nextInteraction \in Nat /\ awaiting \in Nat /\ shown \in Nat
         /\ \A i \in interactions : i.id \in Nat \ {0}
         /\ \A a \in sent : a.id \in Nat \ {0}
         /\ \A c \in Clients : claimed[c] # NoTurn => claimed[c].id \in Nat \ {0}
  <1>1. 0..MaxInteractions \subseteq Nat /\ 1..MaxInteractions \subseteq Nat \ {0}
    BY ConstantsAssumption
  <1>2. nextInteraction \in Nat /\ awaiting \in Nat /\ shown \in Nat
    BY <1>1 DEF TypeOK
  <1>3. \A i \in Interactions : i.id \in Nat \ {0}
    BY <1>1 DEF Interactions
  <1>4. \A i \in interactions : i.id \in Nat \ {0}
    BY <1>3 DEF TypeOK
  <1>5. \A a \in sent : a.id \in Nat \ {0}
    BY <1>1 DEF TypeOK
  <1>6. \A c \in Clients : claimed[c] # NoTurn => claimed[c].id \in Nat \ {0}
    BY <1>3 DEF TypeOK
  <1> QED BY <1>2, <1>4, <1>5, <1>6

\* A step that leaves interactions and what is shown as they are.
LEMMA QuietAsk ==
  ASSUME IInv, UNCHANGED <<interactions, nextInteraction, awaiting, shown, sent, claimed, phase>>,
         pc \in Asking \/ pc' \in Asking => pc' = pc,
         pc' \in Asking \cup Answering => local'.batch # <<>>,
         pc \in {"none", "launching", "finishing"} <=> pc' \in {"none", "launching", "finishing"},
         InTurn' /\ ~IsCancelling' => InTurn /\ ~IsCancelling
  PROVE  AskInv'
  <1>1. IdsUsed'
    BY DEF IInv, IdsUsed
  <1>2. AwaitsLatest'
    BY DEF IInv, AwaitsLatest, Asking, Answering
  <1>3. ShownInTurn'
    BY DEF IInv, ShownInTurn
  <1>4. ViewFollowsTurn'
    BY DEF IInv, ViewIsTrue, ViewFollowsTurn, Asking
  <1> QED BY <1>1, <1>2, <1>3, <1>4 DEF AskInv

\* A step of the handlers, the connection or a command, which leaves the turn.
LEMMA QuietOthers ==
  ASSUME IInv, UNCHANGED <<interactions, nextInteraction, awaiting, shown, sent, claimed, phase, pc, local, active>>
  PROVE  AskInv'
  <1>1. pc \in Asking \cup Answering => local.batch # <<>>
    BY DEF IInv, AwaitsLatest, Asking, Answering
  <1> QED BY <1>1, QuietAsk DEF InTurn, IsCancelling, IsActive

\* The steps of the turn until it returns.
LEMMA TurnAsks ==
  ASSUME IInv, TurnStep
  PROVE  AskInv'
  <1>t. /\ TypeOK /\ IdsUsed /\ AwaitsLatest /\ ShownInTurn /\ ViewFollowsTurn /\ TurnRegistered
    BY DEF IInv, ViewIsTrue
  <1>d. pc \in {"registered", "asked"} \cup Moving \cup {"preparing", "storing"} => InTurn
    BY DEF Moving, InTurn, TurnRunning
  <1>1. CASE Launch
    <2>1. phase = "idle" /\ shown = 0
      BY <1>1, <1>t DEF Launch, ViewFollowsTurn, ShownInTurn
    <2>2. /\ pc = "launching" /\ pc' = "preparing" /\ phase' = "running"
          /\ UNCHANGED <<interactions, nextInteraction, awaiting, shown, sent, claimed>>
      BY <1>1, <2>1 DEF Launch, answering
    <2>3. IdsUsed' /\ ShownInTurn'
      BY <1>t, <2>2 DEF IdsUsed, ShownInTurn
    <2>4. AwaitsLatest'
      BY <1>t, <2>2 DEF AwaitsLatest
    <2>5. ViewFollowsTurn'
      BY <2>1, <2>2 DEF ViewFollowsTurn
    <2> QED BY <2>3, <2>4, <2>5 DEF AskInv
  <1>2. CASE Stored
    <2>1. /\ pc = "storing" /\ pc' \in Onward
          /\ UNCHANGED <<interactions, nextInteraction, awaiting, shown, sent, claimed, phase, active>>
      BY <1>2, <1>t DEF Stored, PublishStored, registry, answering, TurnRegistered
    <2> QED BY <1>d, <2>1, QuietAsk DEF Onward, Moving, TurnRunning, Asking, Answering, IsCancelling, IsActive
  <1>3. CASE SaveStep
    <2>1. /\ pc \in Moving /\ pc' = "storing"
          /\ UNCHANGED <<interactions, nextInteraction, awaiting, shown, sent, claimed, phase, active>>
      BY <1>3 DEF SaveStep, Save, published, registry, answering
    <2> QED BY <1>d, <2>1, QuietAsk DEF Moving, TurnRunning, Asking, Answering, IsCancelling, IsActive
  <1>4. CASE MoveStep
    <2>1. /\ pc \in Moving \cup {"preparing"} /\ pc' \in Onward
          /\ UNCHANGED <<interactions, nextInteraction, awaiting, shown, sent, claimed, phase, active>>
      BY <1>4 DEF MoveStep, Goto, published, registry, answering
    <2> QED BY <1>d, <2>1, QuietAsk DEF Onward, Moving, TurnRunning, Asking, Answering, IsCancelling, IsActive
  <1>5. CASE ReturnStep
    <2>1. /\ pc \in TurnRunning /\ pc' \in {"cancelling", "outcome"} /\ awaiting' = 0
          /\ UNCHANGED <<interactions, nextInteraction, shown, sent, claimed, phase>>
      BY <1>5 DEF ReturnStep, Return, Goto, published, registry, answering
    <2>2. IdsUsed' /\ ShownInTurn'
      BY <1>t, <2>1 DEF IdsUsed, ShownInTurn
    <2>3. AwaitsLatest'
      BY <2>1 DEF AwaitsLatest
    <2>4. ViewFollowsTurn'
      BY <1>t, <2>1 DEF ViewFollowsTurn, InTurn, TurnRunning
    <2> QED BY <2>2, <2>3, <2>4 DEF AskInv
  <1>6. CASE RegisterInteraction
    <2> DEFINE i == [id |-> nextInteraction + 1, tool |-> Call.tool, turn |-> active.turn]
    <2>1. /\ pc = "batch" /\ pc' = "registered" /\ awaiting' = nextInteraction + 1 /\ ~IsCancelling
          /\ nextInteraction' = nextInteraction + 1 /\ local.batch # <<>> /\ local' = local
          /\ UNCHANGED <<shown, sent, claimed, phase>>
      BY <1>6 DEF RegisterInteraction, HasCall, published, answering
    <2>2. interactions' = interactions \cup {i}
      BY <1>6 DEF RegisterInteraction
    <2>3. i.id = nextInteraction + 1
      OBVIOUS
    <2> HIDE DEF i
    <2>4. shown = 0
      BY <1>d, <1>t, <2>1, AskTyped DEF ViewFollowsTurn, AwaitsLatest, Moving, TurnRunning
    <2>5. IdsUsed'
      <3>1. \A j \in interactions' : j.id <= nextInteraction'
        BY <1>t, <2>1, <2>2, <2>3, AskTyped DEF IdsUsed
      <3>2. \A j, k \in interactions' : j.id = k.id => j = k
        BY <1>t, <2>2, <2>3, AskTyped DEF IdsUsed
      <3>3. \A a \in sent' : a.id <= nextInteraction' /\ a.id # shown'
        BY <1>t, <2>1, AskTyped DEF IdsUsed
      <3>4. \A c \in Clients : claimed'[c] # NoTurn =>
              claimed'[c].id <= nextInteraction' /\ \A j \in interactions' : j.id # claimed'[c].id
        BY <1>t, <2>1, <2>2, <2>3, AskTyped DEF IdsUsed
      <3> QED BY <3>1, <3>2, <3>3, <3>4 DEF IdsUsed
    <2>6. AwaitsLatest'
      <3>1. \A a \in sent : a.id # nextInteraction + 1
        BY <1>t, AskTyped DEF IdsUsed
      <3>2. nextInteraction + 1 # 0
        BY <1>t, AskTyped
      <3> QED BY <2>1, <2>4, <3>1, <3>2 DEF AwaitsLatest
    <2>7. ShownInTurn'
      BY <1>t, <2>1 DEF ShownInTurn
    <2>8. ViewFollowsTurn'
      BY <1>t, <2>1, <2>4 DEF ViewFollowsTurn
    <2> QED BY <2>5, <2>6, <2>7, <2>8 DEF AskInv
  <1>7. CASE Asks
    <2>1. /\ pc = "registered" /\ pc' = "asked" /\ phase' = "awaiting" /\ shown' = awaiting /\ local' = local
          /\ UNCHANGED <<interactions, nextInteraction, awaiting, sent, claimed>>
      BY <1>7 DEF Asks, Goto, registry, answering
    <2>2. IdsUsed'
      BY <1>t, <2>1 DEF IdsUsed, AwaitsLatest
    <2>3. AwaitsLatest'
      BY <1>t, <2>1 DEF AwaitsLatest
    <2>4. ViewFollowsTurn' /\ ShownInTurn'
      BY <2>1 DEF ViewFollowsTurn, ShownInTurn
    <2> QED BY <2>2, <2>3, <2>4 DEF AskInv
  <1>8. CASE ReceiveAnswer
    <2>1. PICK a \in sent :
            /\ a.id = awaiting
            /\ Goto(CASE a.answer = "allowed" -> "executing"
                      [] a.answer = "refused" -> "denied"
                      [] a.answer = "answered" -> "answered", local)
      BY <1>8 DEF ReceiveAnswer
    <2>2. a.answer \in {"allowed", "refused", "answered"}
      BY <1>t DEF TypeOK, Answers, Decisions
    <2>3. pc' \in Answering
      BY <2>1, <2>2 DEF Goto, Answering
    <2>4. /\ pc = "asked" /\ awaiting' = 0 /\ local' = local
          /\ UNCHANGED <<interactions, nextInteraction, shown, sent, claimed, phase, active>>
      BY <1>8, <2>1 DEF ReceiveAnswer, Goto, published, registry, answering
    <2>5. IdsUsed' /\ ShownInTurn'
      BY <1>t, <2>4 DEF IdsUsed, ShownInTurn
    <2>6. AwaitsLatest'
      BY <1>t, <2>3, <2>4 DEF AwaitsLatest, Answering
    <2>7. ViewFollowsTurn'
      <3>1. shown # awaiting
        BY <1>t, <2>1 DEF IdsUsed
      <3>2. shown # 0 => IsCancelling
        BY <1>d, <1>t, <2>4, <3>1 DEF ViewFollowsTurn
      <3>3. phase # "idle"
        BY <1>t, <2>4 DEF ViewFollowsTurn
      <3> QED BY <2>3, <2>4, <3>2, <3>3 DEF ViewFollowsTurn, IsCancelling, IsActive, Answering
    <2> QED BY <2>5, <2>6, <2>7 DEF AskInv
  <1> QED BY <1>1, <1>2, <1>3, <1>4, <1>5, <1>6, <1>7, <1>8, KindsOfTurnStep

\* The steps that end a turn.
LEMMA EndAsks ==
  ASSUME IInv, EndStep
  PROVE  AskInv'
  <1>t. TypeOK /\ IdsUsed /\ AwaitsLatest /\ ShownInTurn /\ ViewFollowsTurn
    BY DEF IInv, ViewIsTrue
  <1>1. CASE DropTurn
    <2>1. /\ pc \in TurnRunning /\ pc' = "cancelling" /\ awaiting' = 0
          /\ UNCHANGED <<interactions, nextInteraction, shown, sent, claimed, phase>>
      BY <1>1 DEF DropTurn, InTurn, published, registry, answering
    <2>2. IdsUsed' /\ ShownInTurn'
      BY <1>t, <2>1 DEF IdsUsed, ShownInTurn
    <2>3. AwaitsLatest'
      BY <2>1 DEF AwaitsLatest
    <2>4. ViewFollowsTurn'
      BY <1>t, <2>1 DEF ViewFollowsTurn, InTurn, TurnRunning
    <2> QED BY <2>2, <2>3, <2>4 DEF AskInv
  <1>2. CASE BeginCleanup
    <2>1. /\ pc = "cancelling" /\ pc' = "sweeping" /\ phase' = "cancelling" /\ interactions' = {}
          /\ UNCHANGED <<nextInteraction, awaiting, shown, sent, claimed>>
      BY <1>2 DEF BeginCleanup, answering
    <2>2. IdsUsed' /\ ShownInTurn' /\ AwaitsLatest'
      BY <1>t, <2>1 DEF IdsUsed, ShownInTurn, AwaitsLatest
    <2>3. ViewFollowsTurn'
      BY <2>1 DEF ViewFollowsTurn, InTurn, TurnRunning
    <2> QED BY <2>2, <2>3 DEF AskInv
  <1>3. CASE Sweep \/ SweepCall \/ SweepStored \/ SaveOutcome \/ OutcomeStored
    <2>1. /\ pc \in {"sweeping", "sweepstoring", "outcome", "outcomestoring"}
          /\ pc' \in {"sweepstoring", "outcome", "outcomestoring", "concluding"}
          /\ UNCHANGED <<interactions, nextInteraction, awaiting, shown, sent, claimed, phase>>
      <3>1. CASE Sweep
        BY <3>1 DEF Sweep, Goto, published, registry, answering
      <3>2. CASE SweepCall
        BY <3>2 DEF SweepCall, published, registry, answering
      <3>3. CASE SweepStored
        BY <3>3 DEF SweepStored, published, registry, answering
      <3>4. CASE SaveOutcome
        BY <3>4 DEF SaveOutcome, published, registry, answering
      <3>5. CASE OutcomeStored
        BY <3>5 DEF OutcomeStored, PublishStored, registry, answering
      <3> QED BY <1>3, <3>1, <3>2, <3>3, <3>4, <3>5
    <2> QED BY <2>1, QuietAsk DEF InTurn, TurnRunning, Asking, Answering
  <1>4. CASE PublishTurnFinished
    <2>1. /\ pc = "concluding" /\ pc' = "finishing" /\ phase' = "idle" /\ shown' = 0
          /\ UNCHANGED <<interactions, nextInteraction, awaiting, sent, claimed>>
      BY <1>4 DEF PublishTurnFinished, Goto, registry, answering
    <2>2. IdsUsed' /\ ShownInTurn'
      BY <1>t, <2>1, AskTyped DEF IdsUsed, ShownInTurn
    <2>3. AwaitsLatest' /\ ViewFollowsTurn'
      BY <1>t, <2>1 DEF AwaitsLatest, ViewFollowsTurn
    <2> QED BY <2>2, <2>3 DEF AskInv
  <1>5. CASE Finish
    <2>1. /\ pc = "finishing" /\ pc' = "none" /\ interactions' = {}
          /\ UNCHANGED <<nextInteraction, awaiting, shown, sent, claimed, phase>>
      BY <1>5 DEF Finish, published, answering
    <2>2. IdsUsed' /\ ShownInTurn' /\ AwaitsLatest'
      BY <1>t, <2>1 DEF IdsUsed, ShownInTurn, AwaitsLatest
    <2>3. ViewFollowsTurn'
      BY <1>t, <2>1 DEF ViewFollowsTurn, InTurn, TurnRunning
    <2> QED BY <2>2, <2>3 DEF AskInv
  <1> QED BY <1>1, <1>2, <1>3, <1>4, <1>5 DEF EndStep

\* The handlers of the answers.
LEMMA HandlerAsks ==
  ASSUME IInv, NEW c \in Clients, HandlerStep(c) \/ \E answer \in Answers : Claim(c, answer)
  PROVE  AskInv'
  <1>t. TypeOK /\ IdsUsed /\ AwaitsLatest /\ ShownInTurn /\ ViewFollowsTurn /\ HandlersClaim
    BY DEF IInv, ViewIsTrue
  <1>1. CASE SaveDecision(c) \/ DecisionStored(c)
    <2>1. UNCHANGED <<interactions, nextInteraction, awaiting, shown, sent, claimed, phase, pc, local, active>>
      BY <1>1 DEF SaveDecision, DecisionStored, PublishStored, published, registry
    <2> QED BY <2>1, QuietOthers
  <1>2. CASE DecisionFails(c)
    <2>1. /\ UNCHANGED <<interactions, nextInteraction, awaiting, shown, sent, phase, pc, local, active>>
          /\ claimed' = [claimed EXCEPT ![c] = NoTurn]
      BY <1>2 DEF DecisionFails, published, registry
    <2>2. \A d \in Clients : claimed'[d] # NoTurn => claimed'[d] = claimed[d]
      BY <1>t, <2>1 DEF TypeOK
    <2>3. IdsUsed'
      BY <1>t, <2>1, <2>2 DEF IdsUsed
    <2>4. AwaitsLatest' /\ ShownInTurn'
      BY <1>t, <2>1 DEF AwaitsLatest, ShownInTurn
    <2>5. ViewFollowsTurn'
      BY <1>t, <2>1 DEF ViewFollowsTurn, InTurn, IsCancelling, IsActive
    <2> QED BY <2>3, <2>4, <2>5 DEF AskInv
  <1>3. CASE \E answer \in Answers : Claim(c, answer)
    <2>1. PICK answer \in Answers : Claim(c, answer)
      BY <1>3
    <2>2. PICK i \in interactions : i.id = shown /\ interactions' = interactions \ {i}
                                      /\ claimed' = [claimed EXCEPT ![c] = i]
      BY <2>1 DEF Claim
    <2>3. UNCHANGED <<nextInteraction, awaiting, shown, sent, phase, pc, local, active>>
      BY <2>1 DEF Claim, published
    <2>4. \A d \in Clients : claimed'[d] = claimed[d] \/ claimed'[d] = i
      BY <1>t, <2>2 DEF TypeOK
    <2>5. IdsUsed'
      <3>1. \A j \in interactions' : j \in interactions /\ j.id # i.id
        BY <1>t, <2>2 DEF IdsUsed
      <3>2. \A d \in Clients : claimed'[d] # NoTurn =>
              claimed'[d].id <= nextInteraction /\ \A j \in interactions' : j.id # claimed'[d].id
        BY <1>t, <2>4, <3>1 DEF IdsUsed
      <3> QED BY <1>t, <2>3, <3>1, <3>2 DEF IdsUsed
    <2>6. AwaitsLatest' /\ ShownInTurn'
      BY <1>t, <2>3 DEF AwaitsLatest, ShownInTurn
    <2>7. ViewFollowsTurn'
      BY <1>t, <2>2, <2>3 DEF ViewFollowsTurn, InTurn, IsCancelling, IsActive
    <2> QED BY <2>5, <2>6, <2>7 DEF AskInv
  <1>4. CASE Resolve(c)
    <2>1. /\ UNCHANGED <<interactions, nextInteraction, awaiting, pc, local, active>>
          /\ claimed' = [claimed EXCEPT ![c] = NoTurn] /\ handler[c].at = "resolving"
      BY <1>4 DEF Resolve, registry
    <2>2. \A d \in Clients : claimed'[d] # NoTurn => claimed'[d] = claimed[d]
      BY <1>t, <2>1 DEF TypeOK
    <2>3. claimed[c] # NoTurn
      BY <1>t, <2>1 DEF HandlersClaim
    <2>4. CASE phase = "awaiting" /\ shown = claimed[c].id
      <3>1. /\ phase' = "running" /\ shown' = 0
            /\ \A a \in sent' : a \in sent \/ (a.id = awaiting /\ awaiting = claimed[c].id)
        BY <1>4, <2>4 DEF Resolve
      <3>2. IdsUsed'
        <4>1. \A a \in sent' : a.id <= nextInteraction /\ a.id # 0
          BY <1>t, <2>3, <3>1, AskTyped DEF IdsUsed
        <4> QED BY <1>t, <2>1, <2>2, <3>1, <4>1 DEF IdsUsed
      <3>3. shown # 0
        BY <1>t, <2>3, <2>4, AskTyped
      <3>4. AwaitsLatest'
        BY <1>t, <2>1, <3>1, <3>3 DEF AwaitsLatest
      <3>5. ViewFollowsTurn'
        <4>1. pc = "asked" => \A i \in interactions : i.id # awaiting
          BY <1>t, <2>3, <2>4 DEF IdsUsed, ViewFollowsTurn
        <4> QED BY <1>t, <2>1, <2>4, <3>1, <4>1 DEF ViewFollowsTurn, InTurn, IsCancelling, IsActive
      <3>6. ShownInTurn'
        BY <3>1 DEF ShownInTurn
      <3> QED BY <3>2, <3>4, <3>5, <3>6 DEF AskInv
    <2>5. CASE ~(phase = "awaiting" /\ shown = claimed[c].id)
      <3>1. UNCHANGED <<phase, shown, sent>>
        BY <1>4, <2>5 DEF Resolve
      <3>2. IdsUsed'
        BY <1>t, <2>1, <2>2, <3>1 DEF IdsUsed
      <3>3. AwaitsLatest' /\ ShownInTurn'
        BY <1>t, <2>1, <3>1 DEF AwaitsLatest, ShownInTurn
      <3>4. ViewFollowsTurn'
        BY <1>t, <2>1, <3>1 DEF ViewFollowsTurn, InTurn, IsCancelling, IsActive
      <3> QED BY <3>2, <3>3, <3>4 DEF AskInv
    <2> QED BY <2>4, <2>5
  <1> QED BY <1>1, <1>2, <1>3, <1>4 DEF HandlerStep

\* Every step keeps interactions and the shown turn as they should be.
LEMMA AskStep ==
  ASSUME IInv, [Next]_vars
  PROVE  AskInv'
  <1>t. TypeOK /\ IdsUsed /\ AwaitsLatest /\ ShownInTurn /\ ViewFollowsTurn
    BY DEF IInv, ViewIsTrue
  <1>1. CASE \E request \in scenario.requests : StartTurn(request)
    <2>1. PICK request : StartTurn(request)
      BY <1>1
    <2>2. /\ ~IsActive /\ pc' = "launching"
          /\ UNCHANGED <<interactions, nextInteraction, awaiting, shown, sent, claimed, phase>>
      BY <2>1 DEF StartTurn, published, answering
    <2>3. pc = "none"
      BY <2>2 DEF IInv, TurnRegistered
    <2> QED BY <2>2, <2>3, QuietAsk DEF InTurn, TurnRunning, Asking, Answering
  <1>2. CASE Cancel
    <2>1. /\ UNCHANGED <<interactions, nextInteraction, awaiting, shown, sent, claimed, phase, pc, local>>
          /\ active \in ActiveTurns /\ active' = [active EXCEPT !.cancelling = TRUE]
      BY <1>2, <1>t DEF Cancel, IsActive, TypeOK, published, answering
    <2>2. active' \in ActiveTurns /\ active'.cancelling = TRUE
      BY <2>1 DEF ActiveTurns
    <2>3. IsCancelling'
      BY <2>2, NoTurnAssumption DEF IsCancelling, IsActive
    <2>4. pc \in Asking \cup Answering => local.batch # <<>>
      BY <1>t DEF AwaitsLatest, Asking, Answering
    <2> QED BY <2>1, <2>3, <2>4, QuietAsk
  <1>3. CASE ReplaceHistory \/ HistoryReplaced \/ RunStatement \/ UNCHANGED vars
    <2>1. UNCHANGED <<interactions, nextInteraction, awaiting, shown, sent, claimed, phase, pc, local, active>>
      BY <1>3 DEF ReplaceHistory, HistoryReplaced, RunStatement, vars, published, registry, answering
    <2> QED BY <2>1, QuietOthers
  <1>4. CASE Crash
    <2>1. /\ phase' = "idle" /\ shown' = 0 /\ interactions' = {} /\ nextInteraction' = 0 /\ pc' = "none"
          /\ awaiting' = 0 /\ claimed' = [c \in Clients |-> NoTurn] /\ sent' = {}
      BY <1>4 DEF Crash
    <2>2. IdsUsed'
      BY <2>1 DEF IdsUsed
    <2>3. AwaitsLatest' /\ ShownInTurn' /\ ViewFollowsTurn'
      BY <2>1 DEF AwaitsLatest, ShownInTurn, ViewFollowsTurn
    <2> QED BY <2>2, <2>3 DEF AskInv
  <1>5. CASE \E c \in scenario.clients : HandlerStep(c) \/ \E answer \in Decisions \cup {"answered"} : Claim(c, answer)
    <2>1. PICK c \in Clients : HandlerStep(c) \/ \E answer \in Answers : Claim(c, answer)
      BY <1>5, <1>t, ConstantsAssumption DEF TypeOK, Answers
    <2> QED BY <2>1, HandlerAsks
  <1> QED BY <1>1, <1>2, <1>3, <1>4, <1>5, TurnAsks, EndAsks DEF Next

-----------------------------------------------------------------------------
(* The view shows the log.                                                 *)

\* What is shown is in the log, and in its order.
Mirrors(shownEvents, log) ==
  /\ \A v \in DOMAIN shownEvents :
       shownEvents[v].seq \in DOMAIN log /\ log[shownEvents[v].seq] = shownEvents[v].event
  /\ \A v, w \in DOMAIN shownEvents : v < w => shownEvents[v].seq < shownEvents[w].seq

\* Outside of a rewind the view mirrors the log.
LEMMA ViewMirrors == ViewFollowsLog <=> (mutation # "command" => Mirrors(view, store))
  BY DEF ViewFollowsLog, Mirrors

\* The log grows, its last event is shown, the log is shown as it is.
LEMMA LogGrowsShown ==
  ASSUME NEW log \in Seq(Events), NEW e \in Events, NEW v, Mirrors(v, log)
  PROVE  Mirrors(v, Append(log, e))
  <1>1. /\ DOMAIN log = 1..Len(log) /\ DOMAIN Append(log, e) = 1..(Len(log) + 1) /\ Len(log) \in Nat
        /\ \A i \in 1..Len(log) : Append(log, e)[i] = log[i]
    BY Appended
  <1>2. \A i \in DOMAIN log : i \in DOMAIN Append(log, e) /\ Append(log, e)[i] = log[i]
    BY <1>1
  <1> QED BY <1>2 DEF Mirrors

\* What is shown last is what was saved last.
LEMMA LastIsShown ==
  ASSUME NEW log \in Seq(Events), NEW v \in Seq([seq : Nat, event : Events]), Mirrors(v, log),
         NEW n \in DOMAIN log, \A i \in DOMAIN v : v[i].seq < n
  PROVE  Mirrors(Append(v, [seq |-> n, event |-> log[n]]), log)
  <1> DEFINE x == [seq |-> n, event |-> log[n]]
             t == Append(v, x)
  <1>1. x \in [seq : Nat, event : Events] /\ x.seq = n /\ x.event = log[n]
    <2>1. n \in Nat /\ log[n] \in Events
      OBVIOUS
    <2> QED BY <2>1
  <1> HIDE DEF x
  <1>2. /\ DOMAIN v = 1..Len(v) /\ DOMAIN t = 1..(Len(v) + 1) /\ Len(v) \in Nat
        /\ \A i \in 1..Len(v) : t[i] = v[i]
        /\ t[Len(v) + 1] = x
    BY <1>1, Appended
  <1> HIDE DEF t
  <1>3. \A i \in DOMAIN t : (i \in DOMAIN v /\ t[i] = v[i] /\ i < Len(v) + 1) \/ (i = Len(v) + 1 /\ t[i] = x)
    BY <1>2
  <1>4. \A i \in DOMAIN t : t[i].seq \in DOMAIN log /\ log[t[i].seq] = t[i].event
    BY <1>1, <1>3 DEF Mirrors
  <1>5. \A i, j \in DOMAIN t : i < j => t[i].seq < t[j].seq
    <2>1. \A i, j \in DOMAIN t : i < j => i \in DOMAIN v /\ t[i] = v[i]
      BY <1>2
    <2>2. \A i, j \in DOMAIN t : i < j /\ j \in DOMAIN v => t[i].seq < t[j].seq
      <3>1. \A i, j \in DOMAIN v : i < j => v[i].seq < v[j].seq
        BY DEF Mirrors
      <3>2. \A j \in DOMAIN v : j \in DOMAIN t /\ t[j] = v[j]
        BY <1>2
      <3> QED BY <2>1, <3>1, <3>2
    <2>3. \A i, j \in DOMAIN t : i < j /\ j = Len(v) + 1 => t[i].seq < t[j].seq
      BY <1>1, <1>2, <2>1
    <2> QED BY <1>3, <2>2, <2>3
  <1>6. Mirrors(t, log)
    BY <1>4, <1>5 DEF Mirrors
  <1> QED BY <1>6 DEF t, x

\* A view that is published whole mirrors the log.
LEMMA PublishedMirrors == \A log \in Seq(Events) : Mirrors(Published(log), log)
  <1> SUFFICES ASSUME NEW log \in Seq(Events) PROVE Mirrors(Published(log), log)
    OBVIOUS
  <1>1. DOMAIN Published(log) = DOMAIN log /\ \A n \in DOMAIN log : Published(log)[n].seq = n /\ Published(log)[n].event = log[n]
    BY DEF Published
  <1> QED BY <1>1 DEF Mirrors

\* What is acknowledged is in the log, at its end.
LEMMA AcknowledgedIsLast ==
  ASSUME IInv, NEW a \in Actors, acked[a] # 0
  PROVE  /\ acked[a] \in DOMAIN store /\ acked[a] = Len(store) /\ mutation = a
         /\ \A b \in Actors : b # a => acked[b] = 0
  <1>1. acked[a] = Len(store) /\ mutation = a /\ \A b \in Actors : b # a => acked[b] = 0
    BY DEF IInv, AckedOwned
  <1>2. store \in Seq(Events) /\ acked[a] \in Nat
    BY DEF IInv, TypeOK
  <1> QED BY <1>1, <1>2

\* Every step keeps the view true to the log.
LEMMA ViewStep ==
  ASSUME IInv, [Next]_vars
  PROVE  ViewFollowsLog' /\ ShownInOrder'
  <1>t. /\ TypeOK /\ store \in Seq(Events) /\ view \in Seq([seq : Nat, event : Events])
        /\ acked \in [Actors -> Nat] /\ ShownInOrder /\ AckedOwned /\ DbOwned
    BY DEF IInv, TypeOK
  <1>m. mutation # "command" => Mirrors(view, store)
    BY ViewMirrors DEF IInv, ViewIsTrue
  <1>v. ViewFollowsLog' <=> (mutation' # "command" => Mirrors(view', store'))
    BY DEF ViewFollowsLog, Mirrors
  <1>c. /\ {"turn", "command"} \cup Clients = Actors
        /\ \A c \in Clients : c \notin {"turn", "command", "nobody", "free"}
    BY ConstantsAssumption DEF Actors
  <1>1. ASSUME UNCHANGED <<store, view>>, mutation' # "command" => mutation # "command",
               \A a \in Actors : acked'[a] \in {acked[a], 0}
        PROVE  ViewFollowsLog' /\ ShownInOrder'
    <2>1. ViewFollowsLog'
      BY <1>1, <1>m, <1>v
    <2>2. ShownInOrder'
      BY <1>1, <1>t DEF ShownInOrder
    <2> QED BY <2>1, <2>2
  <1>2. ASSUME NEW a \in Actors \ {"command"}, Acknowledge(a), PublishStored(a), UNCHANGED store
        PROVE  ViewFollowsLog' /\ ShownInOrder'
    <2>1. acked[a] # 0 /\ acked' = [acked EXCEPT ![a] = 0]
          /\ view' = Append(view, [seq |-> acked[a], event |-> store[acked[a]]])
      BY <1>2 DEF Acknowledge, PublishStored
    <2>2. acked[a] \in DOMAIN store /\ mutation # "command" /\ \A b \in Actors : acked'[b] = 0
      BY <1>t, <2>1, AcknowledgedIsLast
    <2>3. \A i \in DOMAIN view : view[i].seq < acked[a]
      BY <1>t, <2>1 DEF ShownInOrder
    <2>4. Mirrors(view', store)
      BY <1>m, <1>t, <2>1, <2>2, <2>3, LastIsShown
    <2>5. ShownInOrder'
      BY <2>2 DEF ShownInOrder
    <2> QED BY <1>2, <1>v, <2>4, <2>5
  <1>3. ASSUME NEW a, NEW s, Submit(a, s), UNCHANGED <<store, view, acked>>
        PROVE  ViewFollowsLog' /\ ShownInOrder'
    <2>1. mutation = "free"
      BY <1>3 DEF Submit
    <2> QED BY <1>1, <1>3, <2>1
  <1>4. CASE TurnStep
    <2>1. CASE Stored
      BY <1>2, <1>c, <2>1 DEF Stored, durable
    <2>2. CASE SaveStep
      BY <1>3, <2>2 DEF SaveStep, Save, durable, published
    <2>3. CASE MoveStep \/ ReturnStep \/ Asks
      BY <1>1, <2>3 DEF MoveStep, ReturnStep, Return, Asks, Goto, durable, published
    <2>4. CASE Launch \/ RegisterInteraction
      BY <1>1, <2>4 DEF Launch, RegisterInteraction, durable, published
    <2>5. CASE ReceiveAnswer
      <3>1. UNCHANGED <<store, view, mutation, acked>>
        BY <2>5 DEF ReceiveAnswer, Goto, durable, published
      <3> QED BY <1>1, <3>1
    <2> QED BY <1>4, <2>1, <2>2, <2>3, <2>4, <2>5, KindsOfTurnStep
  <1>5. CASE EndStep
    <2>1. CASE DropTurn
      <3>1. UNCHANGED <<store, view>> /\ (mutation' # "command" => mutation # "command")
        BY <2>1, <1>c DEF DropTurn, durable, published
      <3>2. \A a \in Actors : acked'[a] \in {acked[a], 0}
        BY <1>t, <2>1 DEF DropTurn
      <3> QED BY <1>1, <3>1, <3>2
    <2>2. CASE BeginCleanup \/ Sweep \/ PublishTurnFinished \/ Finish
      BY <1>1, <2>2 DEF BeginCleanup, Sweep, PublishTurnFinished, Finish, Goto, durable, published
    <2>3. CASE SweepCall \/ SaveOutcome
      BY <1>3, <2>3 DEF SweepCall, SaveOutcome, durable, published
    <2>4. CASE SweepStored
      <3>1. UNCHANGED <<store, view>> /\ acked["turn"] # 0 /\ acked' = [acked EXCEPT !["turn"] = 0]
        BY <2>4 DEF SweepStored, Acknowledge, durable, published
      <3>2. mutation # "command"
        BY <1>c, <3>1, AcknowledgedIsLast
      <3>3. \A a \in Actors : acked'[a] \in {acked[a], 0}
        BY <1>t, <3>1
      <3> QED BY <1>1, <3>1, <3>2, <3>3
    <2>5. CASE OutcomeStored
      BY <1>2, <1>c, <2>5 DEF OutcomeStored, durable
    <2> QED BY <1>5, <2>1, <2>2, <2>3, <2>4, <2>5 DEF EndStep
  <1>6. CASE \E c \in scenario.clients : HandlerStep(c) \/ \E answer \in Decisions \cup {"answered"} : Claim(c, answer)
    <2>1. PICK c \in Clients : HandlerStep(c) \/ \E answer \in Decisions \cup {"answered"} : Claim(c, answer)
      BY <1>6, <1>t, ConstantsAssumption DEF TypeOK
    <2>2. CASE SaveDecision(c)
      BY <1>3, <2>2 DEF SaveDecision, durable, published
    <2>3. CASE DecisionStored(c)
      BY <1>2, <1>c, <2>3 DEF DecisionStored, durable
    <2>4. CASE DecisionFails(c) \/ Resolve(c) \/ \E answer \in Decisions \cup {"answered"} : Claim(c, answer)
      BY <1>1, <2>4 DEF DecisionFails, Resolve, Claim, durable, published
    <2> QED BY <2>1, <2>2, <2>3, <2>4 DEF HandlerStep
  <1>7. CASE RunStatement
    <2>1. UNCHANGED <<view, mutation>> /\ db # <<>>
          /\ acked' = IF db[1].by = "nobody" THEN acked ELSE [acked EXCEPT ![db[1].by] = Len(store')]
      BY <1>7, <1>t, Popped DEF RunStatement, published, TypeOK
    <2>2. \A a \in Actors : acked[a] = 0
      BY <1>t, <2>1 DEF AckedOwned
    <2>3. 1 \in DOMAIN db /\ db[1].by \in Actors \cup {"nobody"}
      BY <1>t, <2>1, DbTyped
    <2>4. CASE db[1].by = "command"
      <3>1. mutation = "command"
        BY <1>t, <2>3, <2>4 DEF DbOwned
      <3>2. \A a \in Actors \ {"command"} : acked'[a] = 0
        BY <1>t, <2>1, <2>2, <2>4
      <3> QED BY <1>v, <2>1, <3>1, <3>2 DEF ShownInOrder
    <2>5. CASE db[1].by # "command"
      <3>1. store' = Append(store, db[1].event) /\ db[1].event \in Events
        BY <1>7, <1>t, <2>1, <2>3, <2>5, Popped DEF RunStatement, TypeOK, Statements
      <3>2. ViewFollowsLog'
        BY <1>m, <1>t, <1>v, <2>1, <3>1, LogGrowsShown
      <3>3. Len(store') = Len(store) + 1 /\ Len(store) \in Nat /\ DOMAIN store = 1..Len(store)
        BY <1>t, <3>1, Appended
      <3>4. db[1].by # "nobody" => mutation # "command"
        BY <1>t, <2>3, <2>5 DEF DbOwned
      <3>5. db[1].by # "nobody" => \A i \in DOMAIN view : view[i].seq < Len(store')
        <4>1. db[1].by # "nobody" => \A i \in DOMAIN view : view[i].seq \in 1..Len(store)
          BY <1>m, <3>3, <3>4 DEF Mirrors
        <4> QED BY <3>3, <4>1
      <3>6. \A a \in Actors : acked'[a] # 0 => a = db[1].by /\ acked'[a] = Len(store') /\ a # "nobody"
        BY <1>c, <1>t, <2>1, <2>2
      <3>7. ShownInOrder'
        BY <2>1, <3>5, <3>6 DEF ShownInOrder
      <3> QED BY <3>2, <3>7
    <2> QED BY <2>4, <2>5
  <1>8. CASE \E request \in scenario.requests : StartTurn(request)
    BY <1>1, <1>8 DEF StartTurn, durable, published
  <1>9. CASE Cancel \/ UNCHANGED vars
    BY <1>1, <1>9 DEF Cancel, vars, durable, published
  <1>10. CASE ReplaceHistory
    BY <1>3, <1>10 DEF ReplaceHistory, durable, published
  <1>11. CASE HistoryReplaced
    <2>1. view' = Published(store) /\ store' = store /\ mutation = "command" /\ acked' = [acked EXCEPT !["command"] = 0]
      BY <1>11 DEF HistoryReplaced, durable
    <2>2. \A a \in Actors : acked'[a] = 0
      BY <1>t, <2>1 DEF AckedOwned
    <2> QED BY <1>t, <1>v, <2>1, <2>2, PublishedMirrors DEF ShownInOrder
  <1>12. CASE Crash
    <2>1. view' = Published(store) /\ store' = store /\ acked' = [a \in Actors |-> 0]
      BY <1>12 DEF Crash, durable
    <2>2. \A a \in Actors : acked'[a] = 0
      BY <2>1
    <2> QED BY <1>t, <1>v, <2>1, <2>2, PublishedMirrors DEF ShownInOrder
  <1> QED BY <1>4, <1>5, <1>6, <1>7, <1>8, <1>9, <1>10, <1>11, <1>12 DEF Next

-----------------------------------------------------------------------------
(* A command runs only when it was allowed.                                *)

\* A decision stays when the log and what is shown of it grow.
LEMMA StaysDecided ==
  ASSUME NEW S, NEW log \in Seq(S), NEW l, l = log \/ \E e \in S : l = Append(log, e),
         NEW X, NEW v \in Seq(X), NEW w, w = v \/ \E x \in X : w = Append(v, x),
         NEW call
  PROVE  \A id : Decided(log, v, call, id) => Decided(l, w, call, id)
  <1>1. \A n \in DOMAIN log : n \in DOMAIN l /\ l[n] = log[n]
    <2>1. ASSUME NEW e \in S, l = Append(log, e) PROVE \A n \in DOMAIN log : n \in DOMAIN l /\ l[n] = log[n]
      BY <2>1, Appended
    <2> QED BY <2>1
  <1>2. \A i \in DOMAIN v : i \in DOMAIN w /\ w[i] = v[i]
    <2>1. ASSUME NEW x \in X, w = Append(v, x) PROVE \A i \in DOMAIN v : i \in DOMAIN w /\ w[i] = v[i]
      BY <2>1, Appended
    <2> QED BY <2>1
  <1>3. SUFFICES ASSUME NEW id, Decided(log, v, call, id) PROVE Decided(l, w, call, id)
    OBVIOUS
  <1>4. PICK n \in DOMAIN log :
          /\ call < n /\ log[n] = Event("allowed", id)
          /\ \E i \in DOMAIN v : v[i] = [seq |-> n, event |-> Event("allowed", id)]
    BY <1>3 DEF Decided
  <1>5. PICK i \in DOMAIN v : v[i] = [seq |-> n, event |-> Event("allowed", id)]
    BY <1>4
  <1>6. n \in DOMAIN l /\ l[n] = Event("allowed", id)
    BY <1>1, <1>4
  <1>7. i \in DOMAIN w /\ w[i] = [seq |-> n, event |-> Event("allowed", id)]
    BY <1>2, <1>5
  <1> QED BY <1>4, <1>6, <1>7 DEF Decided

\* The call the turn waits with is in the log.
LEMMA CallIsWritten ==
  ASSUME IInv, pc \in Asking \cup {"executing"}, db = <<>> \/ Written = store
  PROVE  Call.call \in Unanswered(store) /\ Call.call \in DOMAIN store
  <1>1. TypeOK /\ DbOwned /\ CallsTracked /\ local.batch # <<>>
    BY DEF IInv, AwaitsLatest, Asking
  <1>2. Written = store
    BY <1>1, WrittenTyped
  <1>3. CallsOf(local.batch) \subseteq Unanswered(store)
    BY <1>1, <1>2 DEF CallsTracked, InTurn, TurnRunning, Asking
  <1> DEFINE S == [call : Nat, tool : Tools]
  <1>4. local.batch \in Seq(S) /\ local.batch # <<>>
    BY <1>1 DEF TypeOK, Locals
  <1>5. \A x \in S : x.call \in Nat
    OBVIOUS
  <1> HIDE DEF S
  <1>6. 1 \in DOMAIN local.batch /\ Call = local.batch[1] /\ Call \in S
    BY <1>4, Popped DEF Call
  <1>7. Call.call \in CallsOf(local.batch)
    BY <1>5, <1>6 DEF CallsOf
  <1> QED BY <1>3, <1>7 DEF Unanswered

\* While the turn asks or runs a command, no command rewrites the history.
LEMMA AskingIsActive ==
  ASSUME IInv, pc \in Asking \cup {"executing"}
  PROVE  /\ IsActive /\ mutation # "command" /\ ~Writing /\ mutation # "turn"
         /\ \A n \in DOMAIN db : db[n].by \in Clients
  <1>1. IsActive /\ ~Writing
    BY DEF IInv, TurnRegistered, Asking, Writing
  <1>2. mutation # "command" /\ mutation # "turn"
    BY <1>1 DEF IInv, LockOwned
  <1>3. \A n \in DOMAIN db : db[n].by # "nobody" /\ db[n].by \notin {"turn", "command"}
    BY <1>2 DEF IInv, DbOwned, Asking
  <1>4. \A n \in DOMAIN db : db[n].by \in Actors \cup {"nobody"}
    BY DbTyped DEF IInv
  <1> QED BY <1>1, <1>2, <1>3, <1>4 DEF Actors

\* Nothing is asked or run: the steps that leave the turn elsewhere.
LEMMA NothingAsked == ASSUME pc' # "executing", awaiting' = 0 PROVE AllowedIsDecided'
  BY DEF AllowedIsDecided

\* The steps that leave the turn, the handlers and the answers as they are.
LEMMA QuietDecided ==
  ASSUME IInv, UNCHANGED <<local, awaiting, nextInteraction, sent, claimed, handler, acked, store, view>>,
         pc' = "executing" => pc = "executing"
  PROVE  AllowedIsDecided'
  BY DEF IInv, AllowedIsDecided, Call

\* The steps of the turn.
LEMMA TurnDecides ==
  ASSUME IInv, TurnStep
  PROVE  AllowedIsDecided'
  <1>t. TypeOK /\ AwaitsLatest /\ TurnRegistered /\ IdsUsed /\ AllowedIsDecided
    BY DEF IInv
  <1>a. pc \notin Asking => awaiting = 0
    BY <1>t DEF AwaitsLatest, Asking
  <1>1. CASE Launch \/ Stored \/ SaveStep \/ MoveStep
    <2>1. pc \notin Asking /\ pc' # "executing" /\ awaiting' = awaiting
      <3>1. CASE Launch
        BY <3>1 DEF Launch, Asking
      <3>2. CASE Stored
        BY <1>t, <3>2 DEF Stored, TurnRegistered, Moving, Onward, Asking
      <3>3. CASE SaveStep
        BY <3>3 DEF SaveStep, Save, Moving, Asking
      <3>4. CASE MoveStep
        BY <3>4 DEF MoveStep, Goto, Moving, Onward, Asking
      <3> QED BY <1>1, <3>1, <3>2, <3>3, <3>4
    <2> QED BY <1>a, <2>1, NothingAsked
  <1>2. CASE ReturnStep
    BY <1>2, NothingAsked DEF ReturnStep, Return, Goto
  <1>3. CASE RegisterInteraction
    <2>1. /\ pc' = "registered" /\ awaiting' = nextInteraction + 1 /\ UNCHANGED <<sent, claimed>>
      BY <1>3 DEF RegisterInteraction, answering
    <2>2. \A a \in sent : a.id # nextInteraction + 1
      BY <1>t, AskTyped DEF IdsUsed
    <2>3. \A c \in Clients : claimed[c] # NoTurn => claimed[c].id # nextInteraction + 1
      BY <1>t, AskTyped DEF IdsUsed
    <2> QED BY <2>1, <2>2, <2>3 DEF AllowedIsDecided
  <1>4. CASE Asks
    <2>1. /\ UNCHANGED <<local, awaiting, nextInteraction, sent, claimed, handler, acked, store, view>>
          /\ pc' = "asked"
      BY <1>4 DEF Asks, Goto, durable, registry, answering
    <2> QED BY <2>1, QuietDecided
  <1>5. CASE ReceiveAnswer
    <2>1. PICK a \in sent :
            /\ a.id = awaiting
            /\ Goto(CASE a.answer = "allowed" -> "executing"
                      [] a.answer = "refused" -> "denied"
                      [] a.answer = "answered" -> "answered", local)
      BY <1>5 DEF ReceiveAnswer
    <2>2. a.answer \in {"allowed", "refused", "answered"}
      BY <1>t DEF TypeOK, Answers, Decisions
    <2>3. pc' = "executing" => a.answer = "allowed"
      BY <2>1, <2>2 DEF Goto
    <2>4. pc = "asked" /\ awaiting' = 0 /\ UNCHANGED <<local, nextInteraction, store, view>>
      BY <1>5, <2>1 DEF ReceiveAnswer, Goto, durable, published, registry
    <2>5. awaiting # 0 /\ awaiting = nextInteraction
      BY <1>t, <2>4 DEF AwaitsLatest
    <2>6. pc' = "executing" => Decided(store, view, Call.call, nextInteraction)
      BY <1>t, <2>1, <2>3, <2>5 DEF AllowedIsDecided
    <2> QED BY <2>4, <2>6 DEF AllowedIsDecided, Call
  <1> QED BY <1>1, <1>2, <1>3, <1>4, <1>5, KindsOfTurnStep

\* The handlers.
LEMMA HandlerDecides ==
  ASSUME IInv, NEW c \in Clients, HandlerStep(c) \/ \E answer \in Answers : Claim(c, answer)
  PROVE  AllowedIsDecided'
  <1>t. /\ TypeOK /\ AwaitsLatest /\ AllowedIsDecided /\ HandlersClaim /\ LockOwned /\ AckedOwned
        /\ store \in Seq(Events) /\ view \in Seq([seq : Nat, event : Events])
        /\ \A d \in Clients : handler[d] \in [at : {"idle", "deciding", "storing", "resolving"},
                                              answer : Answers \cup {"none"}]
        /\ c \in Actors
    BY DEF IInv, TypeOK, Actors
  <1>k. UNCHANGED <<pc, local, awaiting, nextInteraction, store>>
    BY DEF HandlerStep, SaveDecision, DecisionFails, DecisionStored, Resolve, Claim, durable, registry
  <1>s. UNCHANGED Call
    BY <1>k DEF Call
  \* What was decided stays so, and the other handlers are where they were.
  <1>1. ASSUME \A id : Decided(store, view, Call.call, id) => Decided(store, view', Call.call, id),
               \A a \in sent' : a \in sent \/ (a.answer = "allowed" => Decided(store, view', Call.call, awaiting)),
               \A d \in Clients \ {c} : claimed'[d] = claimed[d] /\ handler'[d] = handler[d]
                                          /\ acked'[d] \in {acked[d], 0},
               awaiting # 0 /\ claimed'[c] # NoTurn /\ claimed'[c].id = awaiting =>
                 /\ acked'[c] # 0 => Call.call < acked'[c]
                 /\ handler'[c] = [at |-> "resolving", answer |-> "allowed"] =>
                      Decided(store, view', Call.call, awaiting)
        PROVE  AllowedIsDecided'
    <2>1. pc' = "executing" => Decided(store', view', Call'.call, nextInteraction')
      BY <1>1, <1>k, <1>s, <1>t DEF AllowedIsDecided
    <2>2. awaiting # 0 => \A a \in sent' : a.id = awaiting /\ a.answer = "allowed" =>
            Decided(store, view', Call.call, awaiting)
      BY <1>1, <1>t DEF AllowedIsDecided
    <2>3. awaiting # 0 => \A d \in Clients \ {c} : claimed'[d] # NoTurn /\ claimed'[d].id = awaiting =>
            /\ acked'[d] # 0 => Call.call < acked'[d]
            /\ handler'[d] = [at |-> "resolving", answer |-> "allowed"] => Decided(store, view', Call.call, awaiting)
      BY <1>1, <1>t DEF AllowedIsDecided
    <2>4. awaiting # 0 => \A d \in Clients : claimed'[d] # NoTurn /\ claimed'[d].id = awaiting =>
            /\ acked'[d] # 0 => Call.call < acked'[d]
            /\ handler'[d] = [at |-> "resolving", answer |-> "allowed"] => Decided(store, view', Call.call, awaiting)
      BY <1>1, <2>3
    <2> QED BY <1>k, <1>s, <2>1, <2>2, <2>4 DEF AllowedIsDecided
  <1>2. CASE SaveDecision(c)
    <2>1. UNCHANGED <<view, sent, claimed, acked>> /\ handler' = [handler EXCEPT ![c].at = "storing"]
      BY <1>2 DEF SaveDecision, published
    <2>2. handler'[c].at = "storing" /\ \A d \in Clients \ {c} : handler'[d] = handler[d]
      BY <1>t, <2>1 DEF TypeOK
    <2>3. handler'[c] # [at |-> "resolving", answer |-> "allowed"]
      BY <2>2
    <2> QED BY <1>1, <1>t, <2>1, <2>2, <2>3 DEF AllowedIsDecided
  <1>3. CASE DecisionStored(c)
    <2>1. /\ acked[c] # 0 /\ acked' = [acked EXCEPT ![c] = 0] /\ UNCHANGED <<sent, claimed>>
          /\ view' = Append(view, [seq |-> acked[c], event |-> store[acked[c]]])
          /\ handler' = [handler EXCEPT ![c].at = "resolving"]
      BY <1>3 DEF DecisionStored, Acknowledge, PublishStored
    <2>2. /\ acked[c] \in DOMAIN store /\ store[acked[c]] = Event(handler[c].answer, claimed[c].id)
          /\ acked'[c] = 0 /\ \A d \in Clients \ {c} : acked'[d] \in {acked[d], 0}
      BY <1>t, <2>1, AcknowledgedIsLast DEF AckedOwned, TypeOK, Actors
    <2> DEFINE x == [seq |-> acked[c], event |-> store[acked[c]]]
    <2>3. x \in [seq : Nat, event : Events]
      <3>1. acked[c] \in Nat /\ store[acked[c]] \in Events
        BY <1>t, <2>2
      <3> QED BY <3>1
    <2>4. \A id : Decided(store, view, Call.call, id) => Decided(store, view', Call.call, id)
      <3> DEFINE X == [seq : Nat, event : Events]
      <3>1. view \in Seq(X) /\ x \in X /\ view' = Append(view, x)
        BY <1>t, <2>1, <2>3
      <3> HIDE DEF X, x
      <3>2. \E y \in X : view' = Append(view, y)
        BY <3>1
      <3> QED BY <1>t, <3>1, <3>2, StaysDecided
    <2>5. handler'[c].answer = handler[c].answer /\ \A d \in Clients \ {c} : handler'[d] = handler[d]
      BY <1>t, <2>1 DEF TypeOK
    <2>6. ASSUME awaiting # 0, claimed[c] # NoTurn, claimed[c].id = awaiting,
                 handler'[c] = [at |-> "resolving", answer |-> "allowed"]
          PROVE  Decided(store, view', Call.call, awaiting)
      <3>1. Call.call < acked[c]
        BY <1>t, <2>1, <2>6 DEF AllowedIsDecided
      <3>2. handler[c].answer = "allowed"
        BY <2>5, <2>6
      <3>3. store[acked[c]] = Event("allowed", awaiting)
        BY <2>2, <2>6, <3>2
      <3>4. \E v \in DOMAIN view' : view'[v] = x
        <4>1. Len(view) + 1 \in DOMAIN view' /\ view'[Len(view) + 1] = x
          <5> DEFINE X == [seq : Nat, event : Events]
          <5>1. view \in Seq(X) /\ x \in X
            BY <1>t, <2>3
          <5> HIDE DEF X
          <5> QED BY <2>1, <5>1, Appended
        <4> QED BY <4>1
      <3>5. x = [seq |-> acked[c], event |-> Event("allowed", awaiting)]
        BY <3>3
      <3> QED BY <2>2, <3>1, <3>3, <3>4, <3>5 DEF Decided
    <2> QED BY <1>1, <2>1, <2>2, <2>4, <2>5, <2>6
  <1>4. CASE DecisionFails(c)
    <2>1. UNCHANGED <<view, sent, acked>> /\ claimed' = [claimed EXCEPT ![c] = NoTurn]
          /\ handler' = [handler EXCEPT ![c] = Idle]
      BY <1>4 DEF DecisionFails, published
    <2>2. claimed'[c] = NoTurn /\ \A d \in Clients \ {c} : claimed'[d] = claimed[d] /\ handler'[d] = handler[d]
      BY <1>t, <2>1 DEF TypeOK
    <2> QED BY <1>1, <2>1, <2>2
  <1>5. CASE \E answer \in Answers : Claim(c, answer)
    <2>1. PICK answer \in Answers : Claim(c, answer)
      BY <1>5
    <2>2. /\ UNCHANGED <<view, sent, acked>> /\ handler[c] = Idle
          /\ handler' = [handler EXCEPT ![c] =
               [at |-> IF answer \in Decisions THEN "deciding" ELSE "resolving", answer |-> answer]]
          /\ \E i \in interactions : claimed' = [claimed EXCEPT ![c] = i]
      BY <2>1 DEF Claim, published
    <2>3. /\ \A d \in Clients \ {c} : claimed'[d] = claimed[d] /\ handler'[d] = handler[d]
          /\ handler'[c] = [at |-> IF answer \in Decisions THEN "deciding" ELSE "resolving", answer |-> answer]
      BY <1>t, <2>2 DEF TypeOK
    <2>4. handler'[c] # [at |-> "resolving", answer |-> "allowed"]
      BY <2>3 DEF Decisions
    <2>5. acked[c] = 0
      <3>1. handler[c].at = "idle"
        BY <2>2 DEF Idle
      <3> QED BY <1>t, <3>1 DEF LockOwned, AckedOwned
    <2> QED BY <1>1, <2>2, <2>3, <2>4, <2>5
  <1>6. CASE Resolve(c)
    <2>1. UNCHANGED <<view, acked>> /\ claimed' = [claimed EXCEPT ![c] = NoTurn]
          /\ handler' = [handler EXCEPT ![c] = Idle] /\ handler[c].at = "resolving"
      BY <1>6 DEF Resolve
    <2>2. claimed'[c] = NoTurn /\ \A d \in Clients \ {c} : claimed'[d] = claimed[d] /\ handler'[d] = handler[d]
      BY <1>t, <2>1 DEF TypeOK
    <2>3. claimed[c] # NoTurn
      BY <1>t, <2>1 DEF HandlersClaim
    <2>4. ASSUME NEW a \in sent', a \notin sent, a.answer = "allowed"
          PROVE  Decided(store, view, Call.call, awaiting)
      <3>1. a = [id |-> awaiting, answer |-> handler[c].answer] /\ awaiting = claimed[c].id
        BY <1>6, <2>4 DEF Resolve
      <3>2. awaiting # 0
        BY <1>t, <2>3, <3>1, AskTyped
      <3>3. handler[c].answer = "allowed"
        BY <2>4, <3>1
      <3>4. handler[c] = [at |-> "resolving", answer |-> "allowed"]
        BY <1>t, <2>1, <3>3
      <3> QED BY <1>t, <2>3, <3>1, <3>2, <3>4 DEF AllowedIsDecided
    <2>5. \A a \in sent' : a \in sent \/ (a.answer = "allowed" => Decided(store, view', Call.call, awaiting))
      BY <2>1, <2>4
    <2> QED BY <1>1, <2>1, <2>2, <2>5
  <1> QED BY <1>2, <1>3, <1>4, <1>5, <1>6 DEF HandlerStep

\* Every step keeps the decision with the call that waits or runs.
LEMMA DecidedStep ==
  ASSUME IInv, [Next]_vars
  PROVE  AllowedIsDecided'
  <1>t. /\ TypeOK /\ AwaitsLatest /\ TurnRegistered /\ AllowedIsDecided /\ DbOwned /\ AckedOwned
        /\ store \in Seq(Events) /\ view \in Seq([seq : Nat, event : Events]) /\ acked \in [Actors -> Nat]
    BY DEF IInv, TypeOK
  <1>a. pc \notin Asking => awaiting = 0
    BY <1>t DEF AwaitsLatest, Asking
  <1>1. CASE EndStep
    <2>1. awaiting' = 0 /\ pc' # "executing"
      <3>1. CASE DropTurn
        BY <3>1 DEF DropTurn
      <3>2. CASE BeginCleanup
        BY <1>a, <3>2 DEF BeginCleanup, Asking
      <3>3. CASE Sweep
        BY <1>a, <3>3 DEF Sweep, Goto, Asking
      <3>4. CASE SweepCall
        BY <1>a, <3>4 DEF SweepCall, Asking
      <3>5. CASE SweepStored
        BY <1>a, <3>5 DEF SweepStored, Asking
      <3>6. CASE SaveOutcome
        BY <1>a, <3>6 DEF SaveOutcome, Asking
      <3>7. CASE OutcomeStored
        BY <1>a, <3>7 DEF OutcomeStored, Asking
      <3>8. CASE PublishTurnFinished
        BY <1>a, <3>8 DEF PublishTurnFinished, Goto, Asking
      <3>9. CASE Finish
        BY <1>a, <3>9 DEF Finish, Asking
      <3> QED BY <1>1, <3>1, <3>2, <3>3, <3>4, <3>5, <3>6, <3>7, <3>8, <3>9 DEF EndStep
    <2> QED BY <2>1, NothingAsked
  <1>2. CASE \E request \in scenario.requests : StartTurn(request)
    <2>1. ~IsActive /\ pc' = "launching" /\ awaiting' = awaiting
      BY <1>2 DEF StartTurn
    <2>2. pc = "none"
      BY <1>t, <2>1 DEF TurnRegistered
    <2> QED BY <1>a, <2>1, <2>2, NothingAsked DEF Asking
  <1>3. CASE Cancel \/ UNCHANGED vars
    <2>1. /\ UNCHANGED <<local, awaiting, nextInteraction, sent, claimed, handler, acked, store, view>>
          /\ pc' = pc
      BY <1>3 DEF Cancel, vars, durable, published, registry, answering
    <2> QED BY <2>1, QuietDecided
  <1>4. CASE ReplaceHistory \/ HistoryReplaced
    <2>1. UNCHANGED <<pc, awaiting>> /\ (~IsActive \/ mutation = "command")
      BY <1>4 DEF ReplaceHistory, HistoryReplaced
    <2>2. pc \notin Asking \cup {"executing"}
      BY <2>1, AskingIsActive
    <2> QED BY <1>a, <2>1, <2>2, NothingAsked
  <1>5. CASE Crash
    BY <1>5, NothingAsked DEF Crash
  <1>6. CASE RunStatement
    <2>1. /\ UNCHANGED <<pc, local, awaiting, nextInteraction, sent, claimed, handler, view>> /\ db # <<>>
          /\ db[1].by # "command" => store' = Append(store, db[1].event)
          /\ acked' = IF db[1].by = "nobody" THEN acked ELSE [acked EXCEPT ![db[1].by] = Len(store')]
      BY <1>6, <1>t, Popped DEF RunStatement, published, registry, answering, TypeOK
    <2>2. CASE pc \notin Asking \cup {"executing"}
      BY <1>a, <2>1, <2>2, NothingAsked
    <2>3. CASE pc \in Asking \cup {"executing"}
      <3>1. 1 \in DOMAIN db /\ db[1].by \in Clients /\ db[1] \in Statements
        BY <1>t, <2>1, <2>3, DbTyped, AskingIsActive
      <3>2. db[1].by \notin {"turn", "nobody", "command"}
        BY <3>1, ConstantsAssumption
      <3>3. store' = Append(store, db[1].event) /\ db[1].event \in Events
        BY <2>1, <3>1, <3>2 DEF Statements
      <3>4. Written = store
        BY <3>2 DEF Written, Pending
      <3>5. Call.call \in DOMAIN store
        BY <2>3, <3>4, CallIsWritten
      <3>6. Call.call < Len(store')
        BY <1>t, <3>3, <3>5, Appended
      <3>7. \A c \in Clients : acked'[c] # 0 => Call.call < acked'[c]
        <4>1. \A a \in Actors : acked[a] = 0
          BY <1>t, <2>1 DEF AckedOwned
        <4> QED BY <1>t, <2>1, <3>6, <4>1 DEF Actors
      <3>8. \A id : Decided(store, view, Call.call, id) => Decided(store', view, Call.call, id)
        <4> DEFINE X == [seq : Nat, event : Events]
        <4>1. view \in Seq(X)
          BY <1>t
        <4> HIDE DEF X
        <4>2. \E e \in Events : store' = Append(store, e)
          BY <3>3
        <4> QED BY <1>t, <4>1, <4>2, StaysDecided
      <3>9. Call' = Call
        BY <2>1 DEF Call
      <3> QED BY <1>t, <2>1, <3>7, <3>8, <3>9 DEF AllowedIsDecided
    <2> QED BY <2>2, <2>3
  <1>7. CASE \E c \in scenario.clients : HandlerStep(c) \/ \E answer \in Decisions \cup {"answered"} : Claim(c, answer)
    <2>1. PICK c \in Clients : HandlerStep(c) \/ \E answer \in Answers : Claim(c, answer)
      BY <1>7, <1>t, ConstantsAssumption DEF TypeOK, Answers
    <2> QED BY <2>1, HandlerDecides
  <1> QED BY <1>1, <1>2, <1>3, <1>4, <1>5, <1>6, <1>7, TurnDecides DEF Next
-----------------------------------------------------------------------------
(* The invariant holds, and what it implies.                               *)

\* It holds of a thread with an empty log and no turn.
LEMMA InitInv == Init => IInv
  <1> SUFFICES ASSUME Init PROVE IInv
    OBVIOUS
  <1>1. /\ store = <<>> /\ db = <<>> /\ view = <<>> /\ checkpoints = {} /\ interactions = {} /\ sent = {}
        /\ mutation = "free" /\ active = NoTurn /\ pc = "none" /\ phase = "idle" /\ shown = 0 /\ awaiting = 0
        /\ turnCount = 0 /\ nextInteraction = 0 /\ local = NoLocals
        /\ acked = [a \in Actors |-> 0] /\ claimed = [c \in Clients |-> NoTurn]
        /\ handler = [c \in Clients |-> Idle]
    BY DEF Init
  <1>2. /\ Written = <<>> /\ DOMAIN store = {} /\ DOMAIN db = {} /\ DOMAIN view = {} /\ DOMAIN Written = {}
    BY <1>1 DEF Written, Pending
  <1>3. LogSound(Written, turnCount)
    BY <1>2 DEF LogSound, CallsNamed, ResultsMatch, BreaksClosed, OutcomesOnce
  <1>4. TypeOK
    BY InitTyped
  <1>5. SavedSound
    BY <1>1, <1>2, <1>3 DEF SavedSound
  <1>6. DbOwned /\ AckedOwned
    <2>1. \A c \in Clients : c \in Actors
      BY DEF Actors
    <2> QED BY <1>1, <1>2, <2>1 DEF DbOwned, AckedOwned
  <1>7. LockOwned
    <2>1. \A c \in Clients : handler[c].at = "idle" /\ c # "free"
      BY <1>1, ConstantsAssumption DEF Idle
    <2> QED BY <1>1, <2>1 DEF LockOwned, Writing
  <1>8. HandlersClaim
    BY <1>1 DEF HandlersClaim, Idle
  <1>9. TurnRegistered
    BY <1>1 DEF TurnRegistered, IsActive, InTurn, TurnRunning, NoLocals
  <1>10. CallsTracked
    <2>1. local.events = <<>>
      BY <1>1 DEF NoLocals
    <2>2. Complete(<<>>)
      BY DEF Complete, CallsNamed, Unanswered
    <2> QED BY <1>1, <2>1, <2>2 DEF CallsTracked, InTurn, TurnRunning
  <1>11. OutcomeOfTurn
    BY <1>1 DEF OutcomeOfTurn, IsActive
  <1>12. IdsUsed /\ AwaitsLatest /\ ShownInTurn
    BY <1>1 DEF IdsUsed, AwaitsLatest, ShownInTurn
  <1>13. ShownInOrder
    BY <1>2 DEF ShownInOrder
  <1>14. ViewIsTrue
    BY <1>1, <1>2 DEF ViewIsTrue, ViewFollowsLog, ViewFollowsTurn
  <1>15. AllowedIsDecided
    BY <1>1 DEF AllowedIsDecided
  <1> QED BY <1>4, <1>5, <1>6, <1>7, <1>8, <1>9, <1>10, <1>11, <1>12, <1>13, <1>14, <1>15 DEF IInv

\* Every step preserves it.
LEMMA NextInv == IInv /\ [Next]_vars => IInv'
  <1> SUFFICES ASSUME IInv, [Next]_vars PROVE IInv'
    OBVIOUS
  <1>1. TypeOK' /\ SavedSound'
    BY StepTyped, SavedSoundStep
  <1>2. LockInv'
    BY LockStep
  <1>3. TurnRegistered' /\ CallsTracked' /\ OutcomeOfTurn'
    BY TurnRegisteredStep, CallsTrackedStep, OutcomeOfTurnStep
  <1>4. AskInv'
    BY AskStep
  <1>5. ViewFollowsLog' /\ ShownInOrder'
    BY ViewStep
  <1>6. AllowedIsDecided'
    BY DecidedStep
  <1> QED BY <1>1, <1>2, <1>3, <1>4, <1>5, <1>6 DEF IInv, LockInv, AskInv, ViewIsTrue

\* The invariant holds in every state.
LEMMA InvariantHolds == Spec => []IInv
  <1> QED BY InitInv, NextInv, PTL DEF Spec

\* The log itself is sound, with or without the statement under way.
LEMMA StoreSound ==
  ASSUME IInv
  PROVE  LogSound(store, turnCount) /\ store \in Seq(Events) /\ turnCount \in Nat
  <1>1. /\ Written \in Seq(Events) /\ Len(store) <= Len(Written) /\ store \in Seq(Events)
        /\ \A n \in 1..Len(store) : Written[n] = store[n]
    BY WrittenTyped DEF IInv, TypeOK
  <1>2. LogSound(Written, turnCount) /\ turnCount \in Nat
    BY ConstantsAssumption DEF IInv, SavedSound, TypeOK
  <1> QED BY <1>1, <1>2, PrefixSound

\* Each result has one call before it, and is its only one.
LEMMA ResultsAreSound == IInv => OneResultPerCall
  <1> SUFFICES ASSUME IInv, NEW n \in DOMAIN store, store[n].kind \in Results
               PROVE  /\ \E m \in 1..(n - 1) : store[m] = Event("call", store[n].id)
                      /\ ResultsOf(store, store[n].id) = {n}
    BY DEF OneResultPerCall
  <1>1. CallsNamed(store) /\ ResultsMatch(store) /\ store \in Seq(Events)
    BY StoreSound DEF LogSound
  <1>2. DOMAIN store = 1..Len(store) /\ Len(store) \in Nat /\ n \in 1..Len(store)
    BY <1>1
  <1> DEFINE m == store[n].id
  <1>3. m \in 1..(n - 1) /\ store[m].kind = "call"
    BY <1>1 DEF ResultsMatch
  <1>4. m \in 1..Len(store)
    BY <1>2, <1>3
  <1>5. store[m].id = m /\ store[m] \in Events
    BY <1>1, <1>2, <1>3, <1>4 DEF CallsNamed
  <1>6. store[m] = Event("call", m)
    BY <1>3, <1>5 DEF Event, Events
  <1>7. ResultsOf(store, m) = {n}
    BY <1>1 DEF ResultsOf, ResultsMatch
  <1> QED BY <1>3, <1>6, <1>7

\* A cancellation follows the result of every call.
LEMMA CancellationsAreSound == IInv => CancellationClosesCalls
  <1> SUFFICES ASSUME IInv, NEW n \in DOMAIN store, store[n].kind = "cancelled"
               PROVE  OpenCalls(SubSeq(store, 1, n)) = {}
    BY DEF CancellationClosesCalls
  <1>1. LogSound(store, turnCount) /\ store \in Seq(Events) /\ turnCount \in Nat
    BY StoreSound
  <1>2. Len(store) \in Nat /\ n \in 1..Len(store)
    BY <1>1
  <1> DEFINE t == SubSeq(store, 1, n)
  <1>3. /\ t \in Seq(Events) /\ Len(t) = n /\ DOMAIN t = 1..n /\ \A i \in 1..n : t[i] = store[i]
    BY <1>1, <1>2, Cut
  <1> HIDE DEF t
  <1>4. LogSound(t, turnCount)
    BY <1>1, <1>2, <1>3, PrefixSound
  <1>5. ClosedBefore(t, n) /\ CallsNamed(t)
    BY <1>2, <1>3, <1>4 DEF LogSound, BreaksClosed
  <1>6. Unanswered(t) = {}
    <2>1. SUFFICES ASSUME NEW m \in 1..n, t[m].kind = "call" PROVE ResultsOf(t, m) # {}
      BY <1>3 DEF Unanswered
    <2>2. m # n
      BY <1>2, <1>3, <2>1
    <2>3. PICK k \in 1..(n - 1) : t[k].kind \in Results /\ t[k].id = m
      BY <1>2, <1>5, <2>1, <2>2 DEF ClosedBefore
    <2>4. k \in DOMAIN t
      BY <1>2, <1>3
    <2> QED BY <2>3, <2>4 DEF ResultsOf
  <1>7. OpenCalls(t) = {}
    BY <1>3, <1>4, <1>6, OpenCallsUnanswered
  <1> QED BY <1>7 DEF t

\* A request is built from a history in which every call has its result.
LEMMA RequestsAreSound == IInv => RequestsHaveAllResults
  BY DEF IInv, CallsTracked, Complete, CallsNamed, Unanswered, RequestsHaveAllResults

\* A turn has one outcome at most, and one when it is finished.
LEMMA OutcomesAreSound == IInv => OneOutcomePerTurn
  <1> SUFFICES ASSUME IInv PROVE OneOutcomePerTurn
    OBVIOUS
  <1>1. OutcomesOnce(store, turnCount)
    BY StoreSound DEF LogSound
  <1>2. ASSUME pc \in {"concluding", "finishing"}
        PROVE  \E n \in DOMAIN store : store[n].kind \in Outcomes /\ store[n].id = active.turn
    <2>1. PICK n \in DOMAIN Written : IsOutcomeOf(Written[n], active.turn)
      BY <1>2 DEF IInv, OutcomeOfTurn
    <2>2. mutation # "turn"
      BY <1>2 DEF IInv, LockOwned, Writing
    <2>3. ~Pending
      <3>1. db # <<>> => 1 \in DOMAIN db
        BY DbTyped DEF IInv
      <3> QED BY <1>2, <2>2, <3>1 DEF IInv, DbOwned, Pending
    <2> QED BY <2>1, <2>3 DEF Written, IsOutcomeOf
  <1> QED BY <1>1, <1>2 DEF OneOutcomePerTurn, OutcomesOnce

\* The conversation is sound.
LEMMA InvConversation == IInv => ConversationIsSound
  BY ResultsAreSound, RequestsAreSound, CancellationsAreSound, OutcomesAreSound DEF IInv, ConversationIsSound

\* A command that runs was allowed.
LEMMA InvAllowed == IInv => RunsOnlyIfAllowed
  <1> SUFFICES ASSUME IInv, pc = "executing"
               PROVE  \E m, n \in DOMAIN store :
                        /\ m < n /\ store[m] = Event("call", Call.call)
                        /\ store[n] = Event("allowed", nextInteraction)
                        /\ \E v \in DOMAIN view : view[v] = [seq |-> n, event |-> Event("allowed", nextInteraction)]
    BY DEF RunsOnlyIfAllowed
  <1>1. \A n \in DOMAIN db : db[n].by \in Clients
    BY AskingIsActive
  <1>2. Written = store
    <2>1. db # <<>> => 1 \in DOMAIN db
      BY DbTyped DEF IInv
    <2>2. \A c \in Clients : c \notin {"turn", "nobody"}
      BY ConstantsAssumption
    <2> QED BY <1>1, <2>1, <2>2 DEF Written, Pending
  <1>3. Call.call \in Unanswered(store) /\ Call.call \in DOMAIN store
    BY <1>2, CallIsWritten
  <1>4. store[Call.call] = Event("call", Call.call)
    <2>1. store[Call.call] \in Events /\ store[Call.call].kind = "call"
      BY <1>3 DEF IInv, TypeOK, Unanswered
    <2>2. store[Call.call].id = Call.call
      BY <1>3, <2>1, StoreSound DEF LogSound, CallsNamed
    <2> QED BY <2>1, <2>2 DEF Event, Events
  <1>5. Decided(store, view, Call.call, nextInteraction)
    BY DEF IInv, AllowedIsDecided
  <1> QED BY <1>3, <1>4, <1>5 DEF Decided

-----------------------------------------------------------------------------
(* The theorems.                                                           *)

\* The saved conversation is sound, whatever interrupts the turns that write it:
\* every call has one result after it, none is open when a turn is cancelled or
\* the model is asked, and every turn has one outcome.
\* (turn.rs, prepare_thread_for_turn and complete_registered_turn)
THEOREM ConversationSound == Spec => []ConversationIsSound
  BY InvariantHolds, InvConversation, PTL

\* A command that needs approval runs only after the user allowed this very
\* call.  (approve_and_execute against ApprovalAllow)
THEOREM AllowedBeforeRun == Spec => []RunsOnlyIfAllowed
  BY InvariantHolds, InvAllowed, PTL

\* What clients are shown of the log and of the turn is true.
\* (PublishStored, launch_turn, interaction_requested, TurnFinished)
THEOREM ViewTrue == Spec => []ViewIsTrue
  <1>1. IInv => ViewIsTrue
    BY DEF IInv
  <1> QED BY <1>1, InvariantHolds, PTL

\* Only the connection writes: an append keeps the log, a cut keeps a checkpoint.
LEMMA KeepsStep ==
  ASSUME IInv, [Next]_vars
  PROVE  IsPrefix(store, store') \/ store \in checkpoints' \/ UNCHANGED durable
  <1>1. CASE RunStatement
    <2>1. store \in Seq(Events)
      BY DEF IInv, TypeOK
    <2>2. CASE db[1].by = "command"
      <3>1. Head(db) = db[1]
        BY <1>1 DEF RunStatement
      <3> QED BY <1>1, <2>2, <3>1 DEF RunStatement
    <2>3. CASE db[1].by # "command"
      <3>1. Head(db) = db[1]
        BY <1>1 DEF RunStatement
      <3>2. store' = Append(store, db[1].event)
        BY <1>1, <2>3, <3>1 DEF RunStatement
      <3>3. /\ Len(store) \in Nat /\ Len(Append(store, db[1].event)) = Len(store) + 1
            /\ SubSeq(Append(store, db[1].event), 1, Len(store)) = SubSeq(store, 1, Len(store))
        BY <2>1
      <3> QED BY <3>2, <3>3 DEF IsPrefix
    <2> QED BY <2>2, <2>3
  <1>2. CASE SaveStep
    BY <1>2 DEF SaveStep, Save
  <1>3. CASE SweepCall \/ SaveOutcome \/ DropTurn \/ ReplaceHistory \/ Crash
    BY <1>3 DEF SweepCall, SaveOutcome, DropTurn, ReplaceHistory, Crash
  <1>4. CASE \E c \in Clients : SaveDecision(c)
    BY <1>4 DEF SaveDecision
  <1>5. CASE \E request \in {"send", "continue", "compact"} : StartTurn(request)
    BY <1>5 DEF StartTurn
  <1>6. CASE QuietLog
    BY <1>6 DEF QuietLog, durable
  <1> QED BY <1>1, <1>2, <1>3, <1>4, <1>5, <1>6, KindsOfStep

\* Only a rewind or a restore takes events out of the log, and what it takes out
\* stays in a checkpoint.  (replace_history)
THEOREM NothingIsLost == Spec => NothingLost
  <1>1. IInv /\ [Next]_vars => [IsPrefix(store, store') \/ store \in checkpoints']_durable
    BY KeepsStep
  <1> QED BY <1>1, InvariantHolds, PTL DEF Spec, NothingLost

-----------------------------------------------------------------------------
(* The refinement of TurnLifecycle.                                        *)

\* The turn task of the registry by where the turn is.
TaskIs ==
  /\ pc \in {"none", "launching", "cancelling"} => TaskOf = pc
  /\ pc = "registered" => TaskOf = "asking"
  /\ pc \in TurnRunning \ {"registered"} => TaskOf = "running"
  /\ pc \in TurnEnding \ {"cancelling"} => TaskOf = "publishing"

\* So it is, before and after a step.
LEMMA TaskMapped == TaskIs /\ TaskIs'
  BY DEF TaskIs, TaskOf, TurnRunning, TurnEnding

\* A function on one thread.
LEMMA OneThread ==
  ASSUME NEW x, NEW y
  PROVE  /\ [t \in {Thread} |-> x][Thread] = x
         /\ [[t \in {Thread} |-> x] EXCEPT ![Thread] = y] = [t \in {Thread} |-> y]
  OBVIOUS

\* A record of the registry when its turn is cancelled.
LEMMA Cancelled ==
  ASSUME NEW x, NEW y, NEW z \in BOOLEAN
  PROVE  [[turn |-> x, agentRoot |-> y, cancelling |-> z] EXCEPT !.cancelling = TRUE]
           = [turn |-> x, agentRoot |-> y, cancelling |-> TRUE]
  <1> DEFINE S == [turn : {x}, agentRoot : {y}, cancelling : BOOLEAN]
             q == [turn |-> x, agentRoot |-> y, cancelling |-> z]
             p == [q EXCEPT !.cancelling = TRUE]
  <1>1. q \in S
    OBVIOUS
  <1>2. p \in S
    BY <1>1
  <1>3. p.turn = x /\ p.agentRoot = y /\ p.cancelling = TRUE
    OBVIOUS
  <1>4. \A r \in S : r = [turn |-> r.turn, agentRoot |-> r.agentRoot, cancelling |-> r.cancelling]
    OBVIOUS
  <1> QED BY <1>2, <1>3, <1>4

\* The registry holds the thread's turn.
LEMMA ActiveMapped ==
  ASSUME TypeOK
  PROVE  /\ LifecycleActive = NoTurn <=> ~IsActive
         /\ IsActive => LifecycleActive = [turn |-> active.turn, agentRoot |-> NoTurn,
                                           cancelling |-> active.cancelling]
  <1>1. ASSUME IsActive PROVE LifecycleActive \in Lifecycle!ActiveTurn
    <2>1. active \in ActiveTurns
      BY <1>1 DEF IsActive, TypeOK
    <2> QED BY <1>1, <2>1 DEF LifecycleActive, ActiveTurns, Lifecycle!ActiveTurn, Lifecycle!TurnId
  <1> QED BY <1>1, LifecycleAssumption DEF LifecycleActive

\* An interaction is never taken for none.
LEMMA RegisteredMapped ==
  ASSUME NEW i \in Interactions
  PROVE  Registered(i) # NoTurn /\ Registered(i) \in Lifecycle!PendingInteraction
  <1>1. Registered(i) \in Lifecycle!PendingInteraction
    BY DEF Registered, Interactions, Lifecycle!PendingInteraction, Lifecycle!TurnId,
         Lifecycle!InteractionId, Lifecycle!InteractionKind
  <1> QED BY <1>1, LifecycleAssumption

\* What a client claimed.
LEMMA ClaimedMapped ==
  ASSUME TypeOK, NEW c \in Clients
  PROVE  /\ LifecycleClaimed[c] = NoTurn <=> claimed[c] = NoTurn
         /\ claimed[c] # NoTurn => LifecycleClaimed[c].id = claimed[c].id
  <1>1. claimed[c] # NoTurn => claimed[c] \in Interactions
    BY DEF TypeOK
  <1> QED BY <1>1, RegisteredMapped DEF LifecycleClaimed, Registered

\* What a step leaves, it leaves in the registry.
LEMMA KeptMapped ==
  /\ UNCHANGED active => UNCHANGED LifecycleActive
  /\ UNCHANGED claimed => UNCHANGED LifecycleClaimed
  /\ UNCHANGED interactions => UNCHANGED {Registered(i) : i \in interactions}
  /\ UNCHANGED sent => UNCHANGED {a.id : a \in sent}
  BY DEF LifecycleActive, IsActive, LifecycleClaimed, Registered

\* A step between two calls of the registry.
LEMMA Stutters ==
  ASSUME UNCHANGED <<active, interactions, nextInteraction, turnCount, awaiting, claimed, sent, TaskOf>>
  PROVE  UNCHANGED Lifecycle!vars
  BY KeptMapped DEF Lifecycle!vars, Lifecycle!registry

\* A turn that waits for an answer gets it or loses it.
LEMMA AskedSteps ==
  ASSUME TurnStep, pc = "asked"
  PROVE  ReceiveAnswer \/ LoseAnswer
  BY DEF TurnStep, Launch, Stored, Prepare, CloseCall, Prepared, SaveUserMessage, Resume, ReadHistory,
       SaveCompactionRequest, SaveCompaction, SkipCompaction, FinishCompaction, SaveRequest, StreamItem,
       StreamCompletes, StreamBreaks, RunPlain, RegisterInteraction, RequestInteraction, NextOperation,
       SaveAnswer, RunCommand, Fail, EndBatch, HasCall

\* The steps of the turn use the registry as TurnLifecycle says.
LEMMA TurnStepMaps ==
  ASSUME IInv, TurnStep
  PROVE  Lifecycle!TurnStep(Thread) \/ UNCHANGED Lifecycle!vars
  <1>t. TypeOK /\ TurnRegistered /\ AwaitsLatest /\ ViewFollowsTurn
    BY DEF IInv, ViewIsTrue
  <1>k. TaskIs /\ TaskIs'
    BY TaskMapped
  <1>m. Onward \subseteq TurnRunning \ {"registered"} /\ Moving \subseteq TurnRunning \ {"registered"}
    BY DEF Onward, Moving
  <1>1. CASE Launch
    <2>1. /\ pc = "launching" /\ pc' = "preparing"
          /\ UNCHANGED <<active, interactions, nextInteraction, turnCount, awaiting, claimed, sent>>
      BY <1>1, <1>t DEF Launch, ViewFollowsTurn, answering
    <2>2. TaskOf = "launching" /\ TaskOf' = "running"
      BY <1>k, <2>1 DEF TaskIs, TurnRunning
    <2>3. Lifecycle!Launch(Thread)
      BY <2>1, <2>2, KeptMapped, OneThread DEF Lifecycle!Launch, Lifecycle!registry
    <2> QED BY <2>3 DEF Lifecycle!TurnStep
  <1>2. CASE Stored \/ SaveStep \/ MoveStep
    <2>1. UNCHANGED <<active, interactions, nextInteraction, turnCount, awaiting, claimed, sent>>
      BY <1>2 DEF Stored, SaveStep, Save, MoveStep, Goto, registry, answering
    <2>2. pc \in TurnRunning \ {"registered"} /\ pc' \in TurnRunning \ {"registered"}
      BY <1>2, <1>t, <1>m DEF Stored, SaveStep, Save, MoveStep, Goto, TurnRegistered, TurnRunning
    <2>3. UNCHANGED TaskOf
      BY <1>k, <2>2 DEF TaskIs
    <2> QED BY <2>1, <2>3, Stutters
  <1>3. CASE RegisterInteraction
    <2> DEFINE new == [id |-> nextInteraction + 1, tool |-> Call.tool, turn |-> active.turn]
               kind == IF Call.tool = "question" THEN "questions" ELSE "approval"
    <2>1. /\ pc = "batch" /\ pc' = "registered" /\ IsActive /\ ~IsCancelling /\ nextInteraction < MaxInteractions
          /\ nextInteraction' = nextInteraction + 1 /\ interactions' = interactions \cup {new}
          /\ awaiting' = nextInteraction + 1
          /\ UNCHANGED <<active, turnCount, claimed, sent>>
      BY <1>3 DEF RegisterInteraction, HasCall, answering
    <2>2. TaskOf = "running" /\ TaskOf' = "asking" /\ awaiting = 0
      BY <1>k, <1>t, <2>1 DEF TaskIs, TurnRunning, AwaitsLatest
    <2>3. Registered(new) = [id |-> nextInteraction + 1, thread |-> Thread, turn |-> active.turn, kind |-> kind]
      BY DEF Registered
    <2>4. {Registered(i) : i \in interactions}' = {Registered(i) : i \in interactions} \cup {Registered(new)}
      BY <2>1 DEF Registered
    <2>5. LifecycleActive # NoTurn /\ LifecycleActive.turn = active.turn /\ ~LifecycleActive.cancelling
      BY <1>t, <2>1, ActiveMapped DEF IsCancelling
    <2> HIDE DEF new, kind
    <2>6. Lifecycle!RegisterInteraction(Thread, kind)
      BY <2>1, <2>2, <2>3, <2>4, <2>5, KeptMapped, OneThread
      DEF Lifecycle!RegisterInteraction, Lifecycle!IsActive, Lifecycle!IsCancelling
    <2> QED BY <2>6 DEF Lifecycle!TurnStep, Lifecycle!InteractionKind, kind
  <1>4. CASE Asks
    <2>1. /\ pc = "registered" /\ pc' = "asked"
          /\ UNCHANGED <<active, interactions, nextInteraction, turnCount, awaiting, claimed, sent>>
      BY <1>4 DEF Asks, Goto, registry, answering
    <2>2. TaskOf = "asking" /\ TaskOf' = "running"
      BY <1>k, <2>1 DEF TaskIs, TurnRunning
    <2>3. Lifecycle!Ask(Thread)
      BY <2>1, <2>2, KeptMapped, OneThread DEF Lifecycle!Ask, Lifecycle!registry
    <2> QED BY <2>3 DEF Lifecycle!TurnStep
  <1>5. CASE ReceiveAnswer
    <2>1. /\ pc = "asked" /\ awaiting' = 0 /\ \E a \in sent : a.id = awaiting
          /\ UNCHANGED <<active, interactions, nextInteraction, turnCount, claimed, sent>>
      BY <1>5 DEF ReceiveAnswer, Goto, registry, answering
    <2>2. pc' \in {"executing", "denied", "answered"}
      <3>1. PICK a \in sent : pc' = CASE a.answer = "allowed" -> "executing"
                                      [] a.answer = "refused" -> "denied"
                                      [] a.answer = "answered" -> "answered"
        BY <1>5 DEF ReceiveAnswer, Goto
      <3>2. a.answer \in Answers
        BY <1>t DEF TypeOK
      <3> QED BY <3>1, <3>2 DEF Answers, Decisions
    <2>3. TaskOf = "running" /\ TaskOf' = "running"
      BY <1>k, <2>1, <2>2 DEF TaskIs, TurnRunning
    <2>4. Lifecycle!ReceiveAnswer(Thread)
      BY <2>1, <2>3, KeptMapped, OneThread DEF Lifecycle!ReceiveAnswer, Lifecycle!registry
    <2> QED BY <2>4 DEF Lifecycle!TurnStep
  <1>6. CASE ReturnStep
    <2>1. /\ pc \in TurnRunning /\ pc' = IF IsCancelling THEN "cancelling" ELSE "outcome"
          /\ awaiting' = 0
          /\ UNCHANGED <<active, interactions, nextInteraction, turnCount, claimed, sent>>
      BY <1>6 DEF ReturnStep, Return, Goto, registry, answering
    <2>2. TaskOf' = IF IsCancelling THEN "cancelling" ELSE "publishing"
      BY <1>k, <2>1 DEF TaskIs, TurnEnding
    <2>3. Lifecycle!IsCancelling(Thread) <=> IsCancelling
      BY <1>t, ActiveMapped, OneThread DEF Lifecycle!IsCancelling, Lifecycle!IsActive, IsCancelling
    <2>4. CASE pc = "registered"
      <3>1. TaskOf = "asking"
        BY <1>k, <2>4 DEF TaskIs
      <3>2. Lifecycle!AskFails(Thread)
        BY <2>1, <2>2, <2>3, <3>1, KeptMapped, OneThread
        DEF Lifecycle!AskFails, Lifecycle!FailAwaiting, Lifecycle!registry
      <3> QED BY <3>2 DEF Lifecycle!TurnStep
    <2>5. CASE pc = "asked"
      <3>1. TaskOf = "running" /\ awaiting # 0
        BY <1>k, <1>t, <2>5 DEF TaskIs, TurnRunning, AwaitsLatest
      <3>2. LoseAnswer \/ ReceiveAnswer
        BY <2>5, AskedSteps
      <3>3. CASE LoseAnswer
        <4>1. /\ awaiting \notin {a.id : a \in sent}
              /\ \A i \in {Registered(j) : j \in interactions} : i.id # awaiting
          BY <3>3 DEF LoseAnswer, Registered
        <4>2. \A c \in Clients : LifecycleClaimed[c] # NoTurn => LifecycleClaimed[c].id # awaiting
          BY <3>3, <1>t, ClaimedMapped DEF LoseAnswer
        <4>3. Lifecycle!LoseAnswer(Thread)
          BY <2>1, <2>2, <2>3, <3>1, <4>1, <4>2, KeptMapped, OneThread
          DEF Lifecycle!LoseAnswer, Lifecycle!SenderAlive, Lifecycle!FailAwaiting, Lifecycle!registry
        <4> QED BY <4>3 DEF Lifecycle!TurnStep
      <3>4. CASE ReceiveAnswer
        <4>1. pc' \notin {"cancelling", "outcome"}
          BY <3>4, <1>t DEF ReceiveAnswer, Goto, TypeOK, Answers, Decisions
        <4> QED BY <2>1, <4>1
      <3> QED BY <3>2, <3>3, <3>4
    <2>6. CASE pc \notin {"registered", "asked"}
      <3>1. TaskOf = "running" /\ awaiting = 0
        BY <1>k, <1>t, <2>1, <2>6 DEF TaskIs, AwaitsLatest
      <3>2. Lifecycle!TurnReturns(Thread)
        BY <2>1, <2>2, <2>3, <3>1, KeptMapped, OneThread DEF Lifecycle!TurnReturns, Lifecycle!registry
      <3> QED BY <3>2 DEF Lifecycle!TurnStep
    <2> QED BY <2>4, <2>5, <2>6
  <1> QED BY <1>1, <1>2, <1>3, <1>4, <1>5, <1>6, KindsOfTurnStep

\* So do those of its end.
LEMMA EndStepMaps ==
  ASSUME IInv, EndStep
  PROVE  Lifecycle!TurnStep(Thread) \/ UNCHANGED Lifecycle!vars
  <1>t. TypeOK /\ TurnRegistered
    BY DEF IInv
  <1>k. TaskIs /\ TaskIs'
    BY TaskMapped
  <1>i. Lifecycle!InteractionsOf(Thread) = {Registered(i) : i \in interactions}
    BY DEF Lifecycle!InteractionsOf, Registered
  <1>1. CASE DropTurn
    <2>1. /\ pc \in TurnRunning /\ pc' = "cancelling" /\ IsCancelling /\ awaiting' = 0
          /\ UNCHANGED <<active, interactions, nextInteraction, turnCount, claimed, sent>>
      BY <1>1 DEF DropTurn, InTurn, registry, answering
    <2>2. TaskOf \in {"running", "asking"} /\ TaskOf' = "cancelling"
      BY <1>k, <2>1 DEF TaskIs
    <2>3. Lifecycle!IsCancelling(Thread)
      BY <1>t, <2>1, ActiveMapped, OneThread DEF Lifecycle!IsCancelling, Lifecycle!IsActive, IsCancelling
    <2>4. Lifecycle!DropTurn(Thread)
      BY <2>1, <2>2, <2>3, KeptMapped, OneThread DEF Lifecycle!DropTurn, Lifecycle!registry
    <2> QED BY <2>4 DEF Lifecycle!TurnStep
  <1>2. CASE BeginCleanup
    <2>1. /\ pc = "cancelling" /\ pc' = "sweeping" /\ interactions' = {}
          /\ UNCHANGED <<active, nextInteraction, turnCount, awaiting, claimed, sent>>
      BY <1>2 DEF BeginCleanup, answering
    <2>2. TaskOf = "cancelling" /\ TaskOf' = "publishing"
      BY <1>k, <2>1 DEF TaskIs, TurnEnding
    <2>3. {Registered(i) : i \in interactions}' = {}
      BY <2>1
    <2>4. Lifecycle!ClearInteractions(Thread)
      BY <1>i, <2>1, <2>2, <2>3, KeptMapped, OneThread DEF Lifecycle!ClearInteractions
    <2> QED BY <2>4 DEF Lifecycle!TurnStep
  <1>3. CASE Finish
    <2>1. /\ pc = "finishing" /\ pc' = "none" /\ active' = NoTurn /\ interactions' = {}
          /\ UNCHANGED <<nextInteraction, turnCount, awaiting, claimed, sent>>
      BY <1>3 DEF Finish, answering
    <2>2. TaskOf = "publishing" /\ TaskOf' = "none" /\ LifecycleActive' = NoTurn
      BY <1>k, <2>1 DEF TaskIs, TurnEnding, LifecycleActive, IsActive
    <2>3. {Registered(i) : i \in interactions}' = {}
      BY <2>1
    <2>4. Lifecycle!Finish(Thread)
      BY <1>i, <2>1, <2>2, <2>3, KeptMapped, OneThread DEF Lifecycle!Finish, Lifecycle!FinishActive
    <2> QED BY <2>4 DEF Lifecycle!TurnStep
  <1>4. CASE Sweep \/ SweepCall \/ SweepStored \/ SaveOutcome \/ OutcomeStored \/ PublishTurnFinished
    <2>1. UNCHANGED <<active, interactions, nextInteraction, turnCount, awaiting, claimed, sent>>
      BY <1>4 DEF Sweep, SweepCall, SweepStored, SaveOutcome, OutcomeStored, PublishTurnFinished, Goto,
           registry, answering
    <2>2. pc \in TurnEnding \ {"cancelling"} /\ pc' \in TurnEnding \ {"cancelling"}
      BY <1>4 DEF Sweep, SweepCall, SweepStored, SaveOutcome, OutcomeStored, PublishTurnFinished, Goto, TurnEnding
    <2>3. UNCHANGED TaskOf
      BY <1>k, <2>2 DEF TaskIs
    <2> QED BY <2>1, <2>3, Stutters
  <1> QED BY <1>1, <1>2, <1>3, <1>4 DEF EndStep

\* And the handlers of the answers.
LEMMA HandlerStepMaps ==
  ASSUME IInv, NEW c \in Clients, HandlerStep(c) \/ \E answer \in Answers : Claim(c, answer)
  PROVE  Lifecycle!ClientStep(c) \/ UNCHANGED Lifecycle!vars
  <1>t. TypeOK /\ HandlersClaim
    BY DEF IInv
  <1>d. c \in DOMAIN claimed /\ claimed \in [Clients -> Interactions \cup {NoTurn}]
    BY <1>t DEF TypeOK
  <1>k. UNCHANGED pc => UNCHANGED TaskOf
    BY DEF TaskOf
  <1>1. ASSUME claimed' = [claimed EXCEPT ![c] = NoTurn]
        PROVE  LifecycleClaimed' = [LifecycleClaimed EXCEPT ![c] = NoTurn]
    BY <1>1, <1>d DEF LifecycleClaimed
  <1>2. ASSUME claimed[c] # NoTurn, claimed' = [claimed EXCEPT ![c] = NoTurn],
               UNCHANGED <<active, interactions, nextInteraction, turnCount, awaiting, sent, pc>>
        PROVE  Lifecycle!ClientStep(c)
    <2>1. LifecycleClaimed[c] # NoTurn
      BY <1>2, <1>t, ClaimedMapped
    <2>2. Lifecycle!DropClaim(c)
      BY <1>1, <1>2, <1>k, <2>1, KeptMapped DEF Lifecycle!DropClaim, Lifecycle!registry
    <2> QED BY <2>2 DEF Lifecycle!ClientStep
  <1>3. CASE SaveDecision(c) \/ DecisionStored(c)
    <2>1. UNCHANGED <<active, interactions, nextInteraction, turnCount, awaiting, claimed, sent, pc>>
      BY <1>3 DEF SaveDecision, DecisionStored, registry
    <2> QED BY <1>k, <2>1, Stutters
  <1>4. CASE DecisionFails(c)
    BY <1>2, <1>4, <1>t DEF DecisionFails, HandlersClaim, registry
  <1>5. CASE Resolve(c)
    <2>1. claimed[c] # NoTurn
      BY <1>5, <1>t DEF Resolve, HandlersClaim
    <2>2. /\ claimed' = [claimed EXCEPT ![c] = NoTurn]
          /\ UNCHANGED <<active, interactions, nextInteraction, turnCount, awaiting, pc>>
      BY <1>5 DEF Resolve, registry
    <2>3. CASE UNCHANGED sent
      BY <1>2, <2>1, <2>2, <2>3
    <2>4. CASE ~UNCHANGED sent
      <3>1. awaiting = claimed[c].id /\ sent' = sent \cup {[id |-> awaiting, answer |-> handler[c].answer]}
        BY <1>5, <2>4 DEF Resolve
      <3>2. {a.id : a \in sent}' = {a.id : a \in sent} \cup {awaiting}
        <4> DEFINE new == [id |-> awaiting, answer |-> handler[c].answer]
        <4>1. new.id = awaiting /\ sent' = sent \cup {new}
          BY <3>1
        <4> HIDE DEF new
        <4> QED BY <4>1
      <3>3. LifecycleClaimed[c] # NoTurn /\ LifecycleClaimed[c].id = awaiting
        BY <1>t, <2>1, <3>1, ClaimedMapped
      <3>4. Lifecycle!ReceiverAlive(LifecycleClaimed[c].id)
        BY <3>3, OneThread DEF Lifecycle!ReceiverAlive
      <3>5. Lifecycle!Resolve(c)
        BY <1>1, <1>k, <2>2, <3>2, <3>3, <3>4, KeptMapped DEF Lifecycle!Resolve, Lifecycle!registry
      <3> QED BY <3>5 DEF Lifecycle!ClientStep
    <2> QED BY <2>3, <2>4
  <1>6. CASE \E answer \in Answers : Claim(c, answer)
    <2>1. PICK i \in interactions : interactions' = interactions \ {i} /\ claimed' = [claimed EXCEPT ![c] = i]
      BY <1>6 DEF Claim
    <2>2. handler[c] = Idle /\ UNCHANGED <<active, nextInteraction, turnCount, awaiting, sent, pc>>
      BY <1>6 DEF Claim
    <2>3. LifecycleClaimed[c] = NoTurn
      BY <1>t, <2>2, ClaimedMapped DEF HandlersClaim
    <2>4. i \in Interactions /\ i # NoTurn
      BY <1>t, NoTurnAssumption DEF TypeOK
    <2>5. LifecycleClaimed' = [LifecycleClaimed EXCEPT ![c] = Registered(i)]
      BY <1>d, <2>1, <2>4 DEF LifecycleClaimed
    <2>6. {Registered(j) : j \in interactions}' = {Registered(j) : j \in interactions} \ {Registered(i)}
      <3>1. \A j \in interactions : j # i => Registered(j) # Registered(i)
        <4>1. SUFFICES ASSUME NEW j \in interactions, Registered(j) = Registered(i) PROVE j = i
          OBVIOUS
        <4>2. Registered(j).id = j.id /\ Registered(i).id = i.id
          BY DEF Registered
        <4> QED BY <4>1, <4>2 DEF IInv, IdsUsed
      <3>2. {Registered(j) : j \in interactions}' = {Registered(j) : j \in interactions'}
        BY DEF Registered
      <3> QED BY <2>1, <3>1, <3>2
    <2>7. PICK kind \in Lifecycle!InteractionKind : Registered(i).kind = kind
      BY <2>4, RegisteredMapped DEF Lifecycle!PendingInteraction
    <2>8. Lifecycle!Claim(c, kind)
      BY <1>k, <2>1, <2>2, <2>3, <2>5, <2>6, <2>7, KeptMapped DEF Lifecycle!Claim
    <2> QED BY <2>8 DEF Lifecycle!ClientStep
  <1> QED BY <1>3, <1>4, <1>5, <1>6 DEF HandlerStep

\* Every step but the end of the process is a step of the registry, or none.
LEMMA StepMaps ==
  ASSUME IInv, [Next]_vars
  PROVE  Lifecycle!Next \/ crashes' # crashes \/ UNCHANGED Lifecycle!vars
  <1>t. TypeOK /\ TurnRegistered /\ turnCount \in Nat
    BY ConstantsAssumption DEF IInv, TypeOK
  <1>k. TaskIs /\ TaskIs'
    BY TaskMapped
  <1>1. CASE TurnStep \/ EndStep
    <2>1. Lifecycle!TurnStep(Thread) \/ UNCHANGED Lifecycle!vars
      BY <1>1, TurnStepMaps, EndStepMaps
    <2> QED BY <2>1 DEF Lifecycle!Next
  <1>2. CASE \E request \in scenario.requests : StartTurn(request)
    <2>1. /\ ~IsActive /\ turnCount < scenario.turns /\ turnCount' = turnCount + 1 /\ pc' = "launching"
          /\ active' = [turn |-> turnCount + 1, cancelling |-> FALSE]
          /\ UNCHANGED <<interactions, nextInteraction, awaiting, claimed, sent>>
      BY <1>2 DEF StartTurn, answering
    <2>2. turnCount < MaxTurns
      <3>1. scenario.turns \in 0..MaxTurns /\ MaxTurns \in Nat
        BY <1>t, ConstantsAssumption DEF TypeOK
      <3> QED BY <1>t, <2>1, <3>1
    <2>3. active' \in ActiveTurns
      BY <1>t, <2>1, <2>2, ConstantsAssumption DEF ActiveTurns
    <2>4. LifecycleActive' = [turn |-> turnCount + 1, agentRoot |-> NoTurn, cancelling |-> FALSE]
      BY <2>1, <2>3, NoTurnAssumption DEF LifecycleActive, IsActive
    <2>5. LifecycleActive = NoTurn /\ TaskOf' = "launching"
      BY <1>t, <1>k, <2>1, ActiveMapped DEF TaskIs
    <2>6. Lifecycle!Start(Thread)
      BY <2>1, <2>2, <2>4, <2>5, KeptMapped, OneThread
      DEF Lifecycle!Start, Lifecycle!Unused, Lifecycle!Register, Lifecycle!IsActive
    <2> QED BY <2>6 DEF Lifecycle!Next
  <1>3. CASE Cancel
    <2>1. /\ IsActive /\ active' = [active EXCEPT !.cancelling = TRUE]
          /\ UNCHANGED <<interactions, nextInteraction, turnCount, pc, awaiting, claimed, sent>>
      BY <1>3 DEF Cancel, answering
    <2>2. active \in ActiveTurns
      BY <1>t, <2>1 DEF TypeOK, IsActive
    <2>3. active' \in ActiveTurns /\ active'.turn = active.turn /\ active'.cancelling = TRUE
      BY <2>1, <2>2 DEF ActiveTurns
    <2>4. LifecycleActive # NoTurn
          /\ LifecycleActive = [turn |-> active.turn, agentRoot |-> NoTurn, cancelling |-> active.cancelling]
      BY <1>t, <2>1, ActiveMapped
    <2>5. LifecycleActive' = [LifecycleActive EXCEPT !.cancelling = TRUE]
      <3>1. active' # NoTurn
        BY <2>3, NoTurnAssumption
      <3>2. LifecycleActive' = [turn |-> active'.turn, agentRoot |-> NoTurn, cancelling |-> active'.cancelling]
        BY <3>1 DEF LifecycleActive, IsActive
      <3> QED BY <2>2, <2>3, <2>4, <3>2, Cancelled DEF ActiveTurns
    <2>6. UNCHANGED TaskOf
      BY <2>1 DEF TaskOf
    <2>7. Lifecycle!BeginCancellation({Thread})
      BY <2>1, <2>4, <2>5, <2>6, KeptMapped, OneThread DEF Lifecycle!BeginCancellation, Lifecycle!IsActive
    <2> QED BY <2>7 DEF Lifecycle!Next
  <1>4. CASE \E c \in scenario.clients : HandlerStep(c) \/ \E answer \in Decisions \cup {"answered"} : Claim(c, answer)
    <2>1. PICK c \in Clients : HandlerStep(c) \/ \E answer \in Answers : Claim(c, answer)
      BY <1>4, <1>t, ConstantsAssumption DEF TypeOK, Answers
    <2>2. Lifecycle!ClientStep(c) \/ UNCHANGED Lifecycle!vars
      BY <2>1, HandlerStepMaps
    <2> QED BY <2>2 DEF Lifecycle!Next
  <1>5. CASE RunStatement \/ ReplaceHistory \/ HistoryReplaced \/ UNCHANGED vars
    <2>1. UNCHANGED <<active, interactions, nextInteraction, turnCount, awaiting, claimed, sent, pc>>
      BY <1>5 DEF RunStatement, ReplaceHistory, HistoryReplaced, vars, registry, answering
    <2>2. UNCHANGED TaskOf
      BY <2>1 DEF TaskOf
    <2> QED BY <2>1, <2>2, Stutters
  <1>6. CASE Crash
    BY <1>6 DEF Crash, IInv, TypeOK
  <1> QED BY <1>1, <1>2, <1>3, <1>4, <1>5, <1>6 DEF Next

\* The turn, its handlers and the commands use the registry as TurnLifecycle
\* allows, for as long as the process lives.  (turn.rs and commands.rs against
\* lifecycle.rs)
THEOREM LifecycleImplemented == Spec => ImplementsLifecycle
  <1>1. Init => Lifecycle!Init
    <2> SUFFICES ASSUME Init PROVE Lifecycle!Init
      OBVIOUS
    <2>1. /\ active = NoTurn /\ interactions = {} /\ sent = {} /\ pc = "none" /\ awaiting = 0
          /\ nextInteraction = 0 /\ turnCount = 0 /\ claimed = [c \in Clients |-> NoTurn]
      BY DEF Init
    <2>2. LifecycleActive = NoTurn /\ TaskOf = "none"
      BY <2>1, TaskMapped DEF LifecycleActive, IsActive, TaskIs
    <2>3. LifecycleClaimed = [c \in Clients |-> NoTurn]
      BY <2>1 DEF LifecycleClaimed
    <2>4. {Registered(i) : i \in interactions} = {} /\ {a.id : a \in sent} = {}
      BY <2>1
    <2> QED BY <2>1, <2>2, <2>3, <2>4 DEF Lifecycle!Init
  <1>2. IInv /\ [Next]_vars => [Lifecycle!Next \/ crashes' # crashes]_(Lifecycle!vars)
    BY StepMaps
  <1> QED BY <1>1, <1>2, InvariantHolds, PTL DEF Spec, ImplementsLifecycle
=============================================================================
