------------------------ MODULE TurnLifecycle_proofs ------------------------
(***************************************************************************)
(* Proofs about the registry of turns, for any number of threads, clients, *)
(* observers, turns and interactions.                                      *)
(***************************************************************************)
EXTENDS TurnLifecycle, FiniteSetTheorems, TLAPS

-----------------------------------------------------------------------------
(* Type correctness.                                                       *)

LEMMA InitTypeOK == Init => TypeOK
<1> SUFFICES ASSUME Init PROVE TypeOK
  OBVIOUS
<1>1. task \in [ThreadId -> TaskState]
  BY DEF Init, TaskState
<1>2. awaiting \in [ThreadId -> 0..MaxInteractions] /\ nextInteraction \in 0..MaxInteractions
  BY ConstantsAssumption DEF Init
<1>3. turnCount \in 0..MaxTurns /\ observationPins \in [ThreadId -> Nat]
  BY ConstantsAssumption DEF Init
<1>4. active \in [ThreadId -> ActiveTurn \cup {NoTurn}]
  BY DEF Init
<1>5. claimed \in [Clients -> PendingInteraction \cup {NoTurn}]
  BY DEF Init
<1> QED BY <1>1, <1>2, <1>3, <1>4, <1>5 DEF Init, TypeOK

LEMMA RegisterTypeOK ==
  ASSUME TypeOK, NEW t \in ThreadId, NEW root \in ThreadId \cup {NoTurn}, Register(t, root)
  PROVE  TypeOK'
<1>1. turnCount + 1 \in TurnId
  BY ConstantsAssumption DEF Register, TypeOK, TurnId
<1>2. active' \in [ThreadId -> ActiveTurn \cup {NoTurn}]
  BY <1>1 DEF Register, TypeOK, ActiveTurn
<1>3. task' \in [ThreadId -> TaskState]
  BY DEF Register, TypeOK, TaskState
<1>4. turnCount' \in 0..MaxTurns
  BY <1>1 DEF Register, TurnId
<1> QED BY <1>2, <1>3, <1>4 DEF Register, TypeOK

LEMMA FinishActiveTypeOK ==
  ASSUME TypeOK, NEW t \in ThreadId, FinishActive(t)
  PROVE  /\ active' \in [ThreadId -> ActiveTurn \cup {NoTurn}]
         /\ interactions' \subseteq PendingInteraction
BY DEF FinishActive, TypeOK

LEMMA FailAwaitingTypeOK ==
  ASSUME TypeOK, NEW t \in ThreadId, FailAwaiting(t)
  PROVE  TypeOK'
<1>1. task' \in [ThreadId -> TaskState]
  BY DEF FailAwaiting, TypeOK, TaskState
<1>2. awaiting' \in [ThreadId -> 0..MaxInteractions]
  BY ConstantsAssumption DEF FailAwaiting, TypeOK
<1> QED BY <1>1, <1>2 DEF FailAwaiting, TypeOK, registry

LEMMA TurnStepTypeOK ==
  ASSUME TypeOK, NEW t \in ThreadId, TurnStep(t)
  PROVE  TypeOK'
<1>1. CASE Launch(t)
  BY <1>1 DEF Launch, TypeOK, TaskState, registry
<1>2. CASE LaunchFails(t)
  BY <1>2, FinishActiveTypeOK DEF LaunchFails, TypeOK, TaskState
<1>3. CASE DropTurn(t)
  BY <1>3, ConstantsAssumption DEF DropTurn, TypeOK, TaskState, registry
<1>4. CASE ClearInteractions(t)
  BY <1>4 DEF ClearInteractions, TypeOK, TaskState
<1>5. CASE TurnReturns(t)
  BY <1>5 DEF TurnReturns, TypeOK, TaskState, registry
<1>6. CASE Ask(t)
  BY <1>6 DEF Ask, TypeOK, TaskState, registry
<1>7. CASE AskFails(t)
  BY <1>7, FailAwaitingTypeOK DEF AskFails
<1>8. CASE ReceiveAnswer(t)
  BY <1>8, ConstantsAssumption DEF ReceiveAnswer, TypeOK, registry
<1>9. CASE LoseAnswer(t)
  BY <1>9, FailAwaitingTypeOK DEF LoseAnswer
<1>10. CASE Finish(t)
  BY <1>10, FinishActiveTypeOK DEF Finish, TypeOK, TaskState
<1>11. ASSUME NEW kind \in InteractionKind, RegisterInteraction(t, kind)
       PROVE  TypeOK'
  <2>1. nextInteraction + 1 \in InteractionId
    BY <1>11, ConstantsAssumption DEF RegisterInteraction, TypeOK, InteractionId
  <2>2. active[t].turn \in TurnId
    BY <1>11 DEF RegisterInteraction, IsActive, TypeOK, ActiveTurn
  <2>3. interactions' \subseteq PendingInteraction
    BY <1>11, <2>1, <2>2 DEF RegisterInteraction, TypeOK, PendingInteraction
  <2>4. awaiting' \in [ThreadId -> 0..MaxInteractions] /\ nextInteraction' \in 0..MaxInteractions
    BY <1>11, <2>1 DEF RegisterInteraction, TypeOK, InteractionId
  <2>5. task' \in [ThreadId -> TaskState]
    BY <1>11 DEF RegisterInteraction, TypeOK, TaskState
  <2> QED BY <1>11, <2>3, <2>4, <2>5 DEF RegisterInteraction, TypeOK
<1> QED
  BY <1>1, <1>2, <1>3, <1>4, <1>5, <1>6, <1>7, <1>8, <1>9, <1>10, <1>11 DEF TurnStep

LEMMA ClientStepTypeOK ==
  ASSUME TypeOK, NEW c \in Clients, ClientStep(c)
  PROVE  TypeOK'
<1>1. ASSUME NEW kind \in InteractionKind, Claim(c, kind)
      PROVE  TypeOK'
  BY <1>1 DEF Claim, TypeOK
<1>2. CASE Resolve(c)
  <2>1. claimed[c].id \in InteractionId
    BY <1>2 DEF Resolve, TypeOK, PendingInteraction
  <2> QED BY <1>2, <2>1 DEF Resolve, TypeOK, registry
<1>3. CASE DropClaim(c)
  BY <1>3 DEF DropClaim, TypeOK, registry
<1> QED BY <1>1, <1>2, <1>3 DEF ClientStep

LEMMA BeginCancellationTypeOK ==
  ASSUME TypeOK, NEW threads \in SUBSET ThreadId, BeginCancellation(threads)
  PROVE  TypeOK'
<1>1. active' \in [ThreadId -> ActiveTurn \cup {NoTurn}]
  BY DEF BeginCancellation, TypeOK, ActiveTurn, IsActive
<1> QED BY <1>1 DEF BeginCancellation, TypeOK

\* The number of positions of `targets` that name a thread.
LEMMA PositionsFinite ==
  ASSUME NEW targets \in Targets, NEW t
  PROVE  LET S == {k \in DOMAIN targets : targets[k] = t}
         IN  IsFiniteSet(S) /\ Cardinality(S) \in Nat
<1>1. PICK n \in 1..MaxTargets : targets \in [1..n -> ThreadId]
  BY DEF Targets
<1>2. IsFiniteSet(1..n)
  BY FS_Interval, ConstantsAssumption
<1>3. {k \in DOMAIN targets : targets[k] = t} \in SUBSET (1..n)
  BY <1>1
<1> QED BY <1>2, <1>3, FS_Subset, FS_CardinalityType

LEMMA PinManyTypeOK ==
  ASSUME TypeOK, NEW o \in Observers, NEW targets \in Targets, PinMany(o, targets)
  PROVE  TypeOK'
<1>1. PICK n \in 1..MaxTargets : targets \in [1..n -> ThreadId]
  BY DEF Targets
<1>2. \A k \in DOMAIN targets : k \in 1..MaxTargets /\ targets[k] \in ThreadId
  BY <1>1, ConstantsAssumption
<1>3. \A t \in ThreadId : TurnOf(t) \in TurnId \cup {NoTurn}
  BY DEF TurnOf, IsActive, TypeOK, ActiveTurn
<1>4. pins' \subseteq ObservationPin
  BY <1>2, <1>3 DEF PinMany, TypeOK, ObservationPin
<1>5. observationPins' \in [ThreadId -> Nat]
  <2>1. \A t \in ThreadId : Cardinality({k \in DOMAIN targets : targets[k] = t}) \in Nat
    BY PositionsFinite
  <2>2. \A t \in ThreadId :
          observationPins[t] + Cardinality({k \in DOMAIN targets : targets[k] = t}) \in Nat
    BY <2>1 DEF TypeOK
  <2> QED BY <2>2 DEF PinMany
<1> QED BY <1>4, <1>5 DEF PinMany, TypeOK

LEMMA ReleasePinTypeOK ==
  ASSUME TypeOK, NEW p \in pins, ReleasePin(p)
  PROVE  TypeOK'
<1>1. p.thread \in ThreadId
  BY DEF TypeOK, ObservationPin
<1>2. observationPins' \in [ThreadId -> Nat]
  BY <1>1 DEF ReleasePin, TypeOK
<1> QED BY <1>2 DEF ReleasePin, TypeOK

\* Every variable of the registry and of its holders keeps its type.
THEOREM TypeCorrect == Spec => []TypeOK
<1>1. TypeOK /\ [Next]_vars => TypeOK'
  <2> SUFFICES ASSUME TypeOK, [Next]_vars
               PROVE  TypeOK'
    OBVIOUS
  <2>1. ASSUME NEW t \in ThreadId, Start(t)
        PROVE  TypeOK'
    BY <2>1, RegisterTypeOK DEF Start
  <2>2. ASSUME NEW t \in ThreadId, TurnStep(t)
        PROVE  TypeOK'
    BY <2>2, TurnStepTypeOK
  <2>3. ASSUME NEW t \in ThreadId, NEW root \in ThreadId, StartAgent(t, root)
        PROVE  TypeOK'
    BY <2>3, RegisterTypeOK DEF StartAgent
  <2>4. ASSUME NEW threads \in SUBSET ThreadId, BeginCancellation(threads)
        PROVE  TypeOK'
    BY <2>4, BeginCancellationTypeOK
  <2>5. ASSUME NEW c \in Clients, ClientStep(c)
        PROVE  TypeOK'
    BY <2>5, ClientStepTypeOK
  <2>6. ASSUME NEW o \in Observers, NEW targets \in Targets, PinMany(o, targets)
        PROVE  TypeOK'
    BY <2>6, PinManyTypeOK
  <2>7. ASSUME NEW p \in pins, ReleasePin(p)
        PROVE  TypeOK'
    BY <2>7, ReleasePinTypeOK
  <2>8. CASE UNCHANGED vars
    BY <2>8 DEF vars, registry, TypeOK
  <2> QED BY <2>1, <2>2, <2>3, <2>4, <2>5, <2>6, <2>7, <2>8 DEF Next
<1> QED BY InitTypeOK, <1>1, PTL DEF Spec

-----------------------------------------------------------------------------
(* Interactions belong to the turn that runs.                              *)

\* The actions of TurnStep that neither start, cancel nor finish a turn and
\* register nothing.
LEMMA OwnedWhenKept ==
  ASSUME TypeOK, InteractionsOwned, active' = active, interactions' \subseteq interactions
  PROVE  InteractionsOwned'
BY DEF InteractionsOwned, IsActive

LEMMA FinishActiveOwned ==
  ASSUME TypeOK, InteractionsOwned, NEW t \in ThreadId, FinishActive(t)
  PROVE  InteractionsOwned'
<1> SUFFICES ASSUME NEW i \in interactions'
             PROVE  IsActive(i.thread)' /\ active'[i.thread].turn = i.turn
  BY DEF InteractionsOwned
<1>1. i \in interactions /\ i.thread # t
  BY DEF FinishActive, InteractionsOf
<1>2. i.thread \in ThreadId
  BY <1>1 DEF TypeOK, PendingInteraction
<1>3. active'[i.thread] = active[i.thread]
  BY <1>1, <1>2 DEF FinishActive, TypeOK
<1> QED BY <1>1, <1>3 DEF InteractionsOwned, IsActive

LEMMA RegisterOwned ==
  ASSUME TypeOK, InteractionsOwned, NEW t \in ThreadId, NEW root, ~IsActive(t), Register(t, root)
  PROVE  InteractionsOwned'
<1> SUFFICES ASSUME NEW i \in interactions'
             PROVE  IsActive(i.thread)' /\ active'[i.thread].turn = i.turn
  BY DEF InteractionsOwned
<1>1. i \in interactions
  BY DEF Register
<1>2. i.thread \in ThreadId /\ i.thread # t
  BY <1>1 DEF InteractionsOwned, TypeOK, PendingInteraction
<1>3. active'[i.thread] = active[i.thread]
  BY <1>2 DEF Register, TypeOK
<1> QED BY <1>1, <1>3 DEF InteractionsOwned, IsActive

LEMMA RegisterInteractionOwned ==
  ASSUME TypeOK, InteractionsOwned, NEW t \in ThreadId, NEW kind, RegisterInteraction(t, kind)
  PROVE  InteractionsOwned'
BY DEF RegisterInteraction, InteractionsOwned, IsActive

LEMMA BeginCancellationOwned ==
  ASSUME TypeOK, InteractionsOwned, NEW threads, BeginCancellation(threads)
  PROVE  InteractionsOwned'
<1>1. \A t \in ThreadId : IsActive(t) =>
        IsActive(t)' /\ active'[t].turn = active[t].turn
  <2> SUFFICES ASSUME NEW t \in ThreadId, IsActive(t)
               PROVE  IsActive(t)' /\ active'[t].turn = active[t].turn
    OBVIOUS
  <2>1. active[t] \in ActiveTurn
    BY DEF IsActive, TypeOK
  <2>2. active'[t] \in ActiveTurn /\ active'[t].turn = active[t].turn
    BY <2>1 DEF BeginCancellation, ActiveTurn
  <2> QED BY <2>2, NoTurnAssumption DEF IsActive
<1>2. \A i \in interactions : i.thread \in ThreadId
  BY DEF TypeOK, PendingInteraction
<1> QED BY <1>1, <1>2 DEF InteractionsOwned, BeginCancellation

LEMMA TurnStepOwned ==
  ASSUME TypeOK, InteractionsOwned, NEW t \in ThreadId, TurnStep(t)
  PROVE  InteractionsOwned'
<1>1. CASE Launch(t) \/ DropTurn(t) \/ TurnReturns(t) \/ Ask(t) \/ AskFails(t)
           \/ ReceiveAnswer(t) \/ LoseAnswer(t)
  BY <1>1, OwnedWhenKept
     DEF Launch, DropTurn, TurnReturns, Ask, AskFails, ReceiveAnswer, LoseAnswer,
         FailAwaiting, registry
<1>2. CASE ClearInteractions(t)
  BY <1>2, OwnedWhenKept DEF ClearInteractions
<1>3. CASE Finish(t) \/ LaunchFails(t)
  BY <1>3, FinishActiveOwned DEF Finish, LaunchFails
<1>4. ASSUME NEW kind \in InteractionKind, RegisterInteraction(t, kind)
      PROVE  InteractionsOwned'
  BY <1>4, RegisterInteractionOwned
<1> QED BY <1>1, <1>2, <1>3, <1>4 DEF TurnStep

\* An interaction in the registry was asked by the turn its thread runs: the
\* answer to an old turn can never be claimed while a later one runs.
THEOREM InteractionOwnership == Spec => []InteractionsOwned
<1>1. Init => InteractionsOwned
  BY DEF Init, InteractionsOwned
<1>2. TypeOK /\ InteractionsOwned /\ [Next]_vars => InteractionsOwned'
  <2> SUFFICES ASSUME TypeOK, InteractionsOwned, [Next]_vars
               PROVE  InteractionsOwned'
    OBVIOUS
  <2>1. ASSUME NEW t \in ThreadId, Start(t)
        PROVE  InteractionsOwned'
    BY <2>1, RegisterOwned DEF Start, Unused
  <2>2. ASSUME NEW t \in ThreadId, TurnStep(t)
        PROVE  InteractionsOwned'
    BY <2>2, TurnStepOwned
  <2>3. ASSUME NEW t \in ThreadId, NEW root \in ThreadId, StartAgent(t, root)
        PROVE  InteractionsOwned'
    BY <2>3, RegisterOwned DEF StartAgent, Unused
  <2>4. ASSUME NEW threads \in SUBSET ThreadId, BeginCancellation(threads)
        PROVE  InteractionsOwned'
    BY <2>4, BeginCancellationOwned
  <2>5. ASSUME NEW c \in Clients, ClientStep(c)
        PROVE  InteractionsOwned'
    BY <2>5, OwnedWhenKept DEF ClientStep, Claim, Resolve, DropClaim, registry
  <2>6. ASSUME NEW o \in Observers, NEW targets \in Targets, PinMany(o, targets)
        PROVE  InteractionsOwned'
    BY <2>6, OwnedWhenKept DEF PinMany
  <2>7. ASSUME NEW p \in pins, ReleasePin(p)
        PROVE  InteractionsOwned'
    BY <2>7, OwnedWhenKept DEF ReleasePin
  <2>8. CASE UNCHANGED vars
    BY <2>8, OwnedWhenKept DEF vars, registry
  <2> QED BY <2>1, <2>2, <2>3, <2>4, <2>5, <2>6, <2>7, <2>8 DEF Next
<1> QED BY <1>1, <1>2, TypeCorrect, PTL DEF Spec

-----------------------------------------------------------------------------
(* The sender of an interaction is in one place.                           *)

\* Ids come from the counter: what carries an id was issued before.
IdsIssued ==
  /\ \A i \in interactions : i.id <= nextInteraction
  /\ \A c \in Clients : claimed[c] # NoTurn => claimed[c].id <= nextInteraction
  /\ \A id \in sent : id <= nextInteraction

SenderInv == IdsIssued /\ OneSender

\* Senders may be dropped; none is made, moved or used.
LEMMA SendersKept ==
  ASSUME SenderInv, interactions' \subseteq interactions,
         \A c \in Clients : claimed'[c] \in {claimed[c], NoTurn},
         nextInteraction' = nextInteraction, sent' = sent
  PROVE  SenderInv'
<1>1. IdsIssued'
  BY DEF SenderInv, IdsIssued
<1>2. \A i, j \in interactions' : i.id = j.id => i = j
  BY DEF SenderInv, OneSender
<1>3. ASSUME NEW c \in Clients, claimed'[c] # NoTurn
      PROVE  /\ \A i \in interactions' : i.id # claimed'[c].id
             /\ \A d \in Clients :
                  claimed'[d] # NoTurn /\ claimed'[d].id = claimed'[c].id => c = d
  BY <1>3 DEF SenderInv, OneSender
<1>4. \A id \in sent' : ~SenderAlive(id)'
  BY DEF SenderInv, OneSender, SenderAlive
<1> QED BY <1>1, <1>2, <1>3, <1>4 DEF SenderInv, OneSender

LEMMA RegisterInteractionSenders ==
  ASSUME TypeOK, SenderInv, NEW t \in ThreadId, NEW kind, RegisterInteraction(t, kind)
  PROVE  SenderInv'
<1> DEFINE new == [id |-> nextInteraction + 1, thread |-> t, kind |-> kind,
                   turn |-> active[t].turn]
<1>1. /\ interactions' = interactions \cup {new} /\ new.id = nextInteraction + 1
      /\ nextInteraction' = nextInteraction + 1 /\ nextInteraction \in Nat
      /\ UNCHANGED <<claimed, sent>>
  BY ConstantsAssumption DEF RegisterInteraction, TypeOK
<1> HIDE DEF new
<1>2. /\ \A i \in interactions : i.id \in Nat /\ i.id < new.id
      /\ \A c \in Clients : claimed[c] # NoTurn => claimed[c].id \in Nat /\ claimed[c].id < new.id
      /\ \A id \in sent : id \in Nat /\ id < new.id
  BY <1>1, ConstantsAssumption
     DEF SenderInv, IdsIssued, TypeOK, PendingInteraction, InteractionId
<1>3. IdsIssued'
  BY <1>1, <1>2 DEF IdsIssued
<1>4. \A i, j \in interactions' : i.id = j.id => i = j
  BY <1>1, <1>2 DEF SenderInv, OneSender
<1>5. ASSUME NEW c \in Clients, claimed'[c] # NoTurn
      PROVE  /\ \A i \in interactions' : i.id # claimed'[c].id
             /\ \A d \in Clients :
                  claimed'[d] # NoTurn /\ claimed'[d].id = claimed'[c].id => c = d
  BY <1>1, <1>2, <1>5 DEF SenderInv, OneSender
<1>6. \A id \in sent' : ~SenderAlive(id)'
  BY <1>1, <1>2 DEF SenderInv, OneSender, SenderAlive
<1> QED BY <1>3, <1>4, <1>5, <1>6 DEF SenderInv, OneSender

LEMMA ClaimSenders ==
  ASSUME TypeOK, SenderInv, NEW c \in Clients, NEW kind, Claim(c, kind)
  PROVE  SenderInv'
<1>1. PICK i \in interactions : /\ interactions' = interactions \ {i}
                                /\ claimed' = [claimed EXCEPT ![c] = i]
  BY DEF Claim
<1>2. nextInteraction' = nextInteraction /\ sent' = sent
  BY DEF Claim
<1>3. /\ claimed'[c] = i
      /\ \A d \in Clients \ {c} : claimed'[d] = claimed[d]
      /\ claimed[c] = NoTurn
  BY <1>1 DEF TypeOK, Claim
<1>4. IdsIssued'
  BY <1>1, <1>2, <1>3 DEF SenderInv, IdsIssued
<1>5. \A j, k \in interactions' : j.id = k.id => j = k
  BY <1>1 DEF SenderInv, OneSender
<1>6. ASSUME NEW d \in Clients, claimed'[d] # NoTurn
      PROVE  /\ \A j \in interactions' : j.id # claimed'[d].id
             /\ \A e \in Clients :
                  claimed'[e] # NoTurn /\ claimed'[e].id = claimed'[d].id => d = e
  <2>1. CASE d = c
    BY <1>1, <1>3, <2>1 DEF SenderInv, OneSender
  <2>2. CASE d # c
    BY <1>1, <1>3, <1>6, <2>2 DEF SenderInv, OneSender
  <2> QED BY <2>1, <2>2
<1>7. \A id \in sent' : ~SenderAlive(id)'
  BY <1>1, <1>2, <1>3 DEF SenderInv, OneSender, SenderAlive
<1> QED BY <1>4, <1>5, <1>6, <1>7 DEF SenderInv, OneSender

LEMMA ResolveSenders ==
  ASSUME TypeOK, SenderInv, NEW c \in Clients, Resolve(c)
  PROVE  SenderInv'
<1>1. /\ interactions' = interactions /\ nextInteraction' = nextInteraction
      /\ sent' \subseteq sent \cup {claimed[c].id} /\ claimed[c] # NoTurn
  BY DEF Resolve, registry
<1>2. /\ claimed'[c] = NoTurn
      /\ \A d \in Clients \ {c} : claimed'[d] = claimed[d]
  BY DEF Resolve, TypeOK
<1>3. IdsIssued'
  BY <1>1, <1>2 DEF SenderInv, IdsIssued
<1>4. ASSUME NEW d \in Clients, claimed'[d] # NoTurn
      PROVE  /\ \A j \in interactions' : j.id # claimed'[d].id
             /\ \A e \in Clients :
                  claimed'[e] # NoTurn /\ claimed'[e].id = claimed'[d].id => d = e
  BY <1>1, <1>2, <1>4 DEF SenderInv, OneSender
<1>5. \A id \in sent' : ~SenderAlive(id)'
  BY <1>1, <1>2 DEF SenderInv, OneSender, SenderAlive
<1> QED BY <1>1, <1>3, <1>4, <1>5 DEF SenderInv, OneSender

LEMMA SendersInvariant == Spec => []SenderInv
<1>1. Init => SenderInv
  BY DEF Init, SenderInv, IdsIssued, OneSender, SenderAlive
<1>2. TypeOK /\ SenderInv /\ [Next]_vars => SenderInv'
  <2> SUFFICES ASSUME TypeOK, SenderInv, [Next]_vars
               PROVE  SenderInv'
    OBVIOUS
  <2>1. ASSUME NEW t \in ThreadId, NEW root, Register(t, root)
        PROVE  SenderInv'
    BY <2>1, SendersKept DEF Register
  <2>2. ASSUME NEW t \in ThreadId, TurnStep(t)
        PROVE  SenderInv'
    <3>1. ASSUME NEW kind \in InteractionKind, RegisterInteraction(t, kind)
          PROVE  SenderInv'
      BY <3>1, RegisterInteractionSenders
    <3>2. CASE ~ \E kind \in InteractionKind : RegisterInteraction(t, kind)
      <4>1. /\ interactions' \subseteq interactions
            /\ UNCHANGED <<claimed, nextInteraction, sent>>
        BY <2>2, <3>2
           DEF TurnStep, Launch, LaunchFails, DropTurn, ClearInteractions, TurnReturns, Ask,
               AskFails, FailAwaiting, ReceiveAnswer, LoseAnswer, Finish, FinishActive, registry
      <4> QED BY <4>1, SendersKept
    <3> QED BY <3>1, <3>2
  <2>3. ASSUME NEW threads \in SUBSET ThreadId, BeginCancellation(threads)
        PROVE  SenderInv'
    BY <2>3, SendersKept DEF BeginCancellation
  <2>4. ASSUME NEW c \in Clients, ClientStep(c)
        PROVE  SenderInv'
    <3>1. ASSUME DropClaim(c)
          PROVE  SenderInv'
      <4>1. \A d \in Clients : claimed'[d] \in {claimed[d], NoTurn}
        BY <3>1 DEF DropClaim, TypeOK
      <4> QED BY <3>1, <4>1, SendersKept DEF DropClaim, registry
    <3> QED BY <2>4, <3>1, ClaimSenders, ResolveSenders DEF ClientStep
  <2>5. ASSUME NEW o \in Observers, NEW targets \in Targets, PinMany(o, targets)
        PROVE  SenderInv'
    BY <2>5, SendersKept DEF PinMany
  <2>6. ASSUME NEW p \in pins, ReleasePin(p)
        PROVE  SenderInv'
    BY <2>6, SendersKept DEF ReleasePin
  <2>7. CASE UNCHANGED vars
    BY <2>7, SendersKept DEF vars, registry
  <2> QED BY <2>1, <2>2, <2>3, <2>4, <2>5, <2>6, <2>7 DEF Next, Start, StartAgent
<1> QED BY <1>1, <1>2, TypeCorrect, PTL DEF Spec

\* The sender of an interaction is in the registry or with one handler, and
\* nowhere once it was used: two clients cannot both answer.
THEOREM SingleSender == Spec => []OneSender
<1>1. SenderInv => OneSender
  BY DEF SenderInv
<1> QED BY <1>1, SendersInvariant, PTL

-----------------------------------------------------------------------------
(* Pins are counted, and an observed thread keeps its turn.                *)

PinsOf(t) == {p \in pins : p.thread = t}

\* The pins pin_many makes for the positions of one thread.
NewPins(o, targets, t) ==
  {[observer |-> o, slot |-> k, thread |-> targets[k], turn |-> TurnOf(targets[k])] :
     k \in {j \in DOMAIN targets : targets[j] = t}}

PinsInv == IsFiniteSet(pins) /\ PinsCounted

LEMMA NewPinsCounted ==
  ASSUME NEW o, NEW targets \in Targets, NEW t
  PROVE  /\ IsFiniteSet(NewPins(o, targets, t))
         /\ Cardinality(NewPins(o, targets, t)) =
              Cardinality({k \in DOMAIN targets : targets[k] = t})
<1> DEFINE S == {k \in DOMAIN targets : targets[k] = t}
           T == NewPins(o, targets, t)
           pin == [k \in S |-> [observer |-> o, slot |-> k, thread |-> targets[k],
                                turn |-> TurnOf(targets[k])]]
<1>1. pin \in [S -> T]
  BY DEF NewPins
<1>2. \A p \in T : \E k \in S : pin[k] = p
  BY DEF NewPins
<1>3. \A j, k \in S : pin[j] = pin[k] => j = k
  <2>1. \A k \in S : pin[k].slot = k
    OBVIOUS
  <2> QED BY <2>1
<1>4. IsFiniteSet(S)
  BY PositionsFinite
<1>5. pin \in Injection(S, T) /\ pin \in Surjection(S, T)
  BY <1>1, <1>2, <1>3 DEF Injection, Surjection, IsInjective
<1> HIDE DEF pin, S, T
<1>6. IsFiniteSet(T) /\ Cardinality(T) = Cardinality(S)
  BY <1>4, <1>5, FS_Surjection
<1> QED BY <1>6 DEF S, T

\* Every step leaves a thread as many pins as it counts.
LEMMA PinManyCounted ==
  ASSUME TypeOK, PinsInv, NEW o \in Observers, NEW targets \in Targets, PinMany(o, targets)
  PROVE  PinsInv'
<1>1. ASSUME NEW t \in ThreadId
      PROVE  /\ IsFiniteSet(PinsOf(t)')
             /\ Cardinality(PinsOf(t)') = observationPins'[t]
  <2>1. PinsOf(t)' = PinsOf(t) \cup NewPins(o, targets, t)
    BY DEF PinMany, PinsOf, NewPins
  <2>2. PinsOf(t) \cap NewPins(o, targets, t) = {}
    BY DEF PinMany, PinsOf, NewPins
  <2>3. IsFiniteSet(PinsOf(t)) /\ Cardinality(PinsOf(t)) = observationPins[t]
    BY FS_Subset DEF PinsInv, PinsCounted, PinsOf
  <2>4. observationPins'[t] = observationPins[t] + Cardinality(NewPins(o, targets, t))
    BY NewPinsCounted DEF PinMany
  <2>5. observationPins[t] \in Nat /\ Cardinality(NewPins(o, targets, t)) \in Nat
    BY NewPinsCounted, FS_CardinalityType DEF TypeOK
  <2>6. Cardinality({}) = 0
    BY FS_EmptySet
  <2>7. IsFiniteSet(NewPins(o, targets, t))
    BY NewPinsCounted
  <2>8. /\ IsFiniteSet(PinsOf(t) \cup NewPins(o, targets, t))
        /\ Cardinality(PinsOf(t) \cup NewPins(o, targets, t)) =
             Cardinality(PinsOf(t)) + Cardinality(NewPins(o, targets, t)) - 0
    BY <2>2, <2>3, <2>6, <2>7, FS_Union
  <2> QED BY <2>1, <2>3, <2>4, <2>5, <2>8
<1>2. PinsCounted'
  BY <1>1 DEF PinsCounted, PinsOf
<1>3. IsFiniteSet(pins')
  <2> DEFINE all == {[observer |-> o, slot |-> k, thread |-> targets[k],
                       turn |-> TurnOf(targets[k])] : k \in DOMAIN targets}
             pin == [k \in DOMAIN targets |->
                       [observer |-> o, slot |-> k, thread |-> targets[k],
                        turn |-> TurnOf(targets[k])]]
  <2>1. PICK n \in 1..MaxTargets : DOMAIN targets = 1..n
    BY DEF Targets
  <2>2. IsFiniteSet(DOMAIN targets)
    BY <2>1, ConstantsAssumption, FS_Interval
  <2>3. pin \in Surjection(DOMAIN targets, all)
    <3>1. pin \in [DOMAIN targets -> all]
      OBVIOUS
    <3>2. \A p \in all : \E k \in DOMAIN targets : pin[k] = p
      OBVIOUS
    <3> HIDE DEF pin, all
    <3> QED BY <3>1, <3>2 DEF Surjection
  <2> HIDE DEF pin
  <2>4. IsFiniteSet(all)
    BY <2>2, <2>3, FS_Surjection
  <2>5. pins' = pins \cup all
    BY DEF PinMany
  <2> HIDE DEF all
  <2> QED BY <2>4, <2>5, FS_Union DEF PinsInv
<1> QED BY <1>2, <1>3 DEF PinsInv

LEMMA ReleasePinCounted ==
  ASSUME TypeOK, PinsInv, NEW p \in pins, ReleasePin(p)
  PROVE  PinsInv'
<1>1. IsFiniteSet(pins')
  BY FS_RemoveElement DEF ReleasePin, PinsInv
<1>2. ASSUME NEW t \in ThreadId
      PROVE  Cardinality(PinsOf(t)') = observationPins'[t]
  <2>1. IsFiniteSet(PinsOf(t)) /\ Cardinality(PinsOf(t)) = observationPins[t]
    BY FS_Subset DEF PinsInv, PinsCounted, PinsOf
  <2>2. observationPins[t] \in Nat
    BY DEF TypeOK
  <2>3. CASE p.thread = t
    <3>1. PinsOf(t)' = PinsOf(t) \ {p} /\ p \in PinsOf(t)
      BY <2>3 DEF ReleasePin, PinsOf
    <3>2. Cardinality(PinsOf(t)') = Cardinality(PinsOf(t)) - 1
      BY <2>1, <3>1, FS_RemoveElement
    <3>3. observationPins[t] # 0
      BY <2>1, <3>1, FS_EmptySet
    <3>4. observationPins'[t] = observationPins[t] - 1
      BY <2>2, <2>3, <3>3 DEF ReleasePin, TypeOK
    <3> QED BY <2>1, <3>2, <3>4
  <2>4. CASE p.thread # t
    <3>1. PinsOf(t)' = PinsOf(t)
      BY <2>4 DEF ReleasePin, PinsOf
    <3>2. observationPins'[t] = observationPins[t]
      BY <2>4 DEF ReleasePin, TypeOK
    <3> QED BY <2>1, <3>1, <3>2
  <2> QED BY <2>3, <2>4
<1> QED BY <1>1, <1>2 DEF PinsInv, PinsCounted, PinsOf

LEMMA PinsInvInductive == TypeOK /\ PinsInv /\ [Next]_vars => PinsInv'
<1> SUFFICES ASSUME TypeOK, PinsInv, [Next]_vars
             PROVE  PinsInv'
  OBVIOUS
<1>1. ASSUME NEW o \in Observers, NEW targets \in Targets, PinMany(o, targets)
      PROVE  PinsInv'
  BY <1>1, PinManyCounted
<1>2. ASSUME NEW p \in pins, ReleasePin(p)
      PROVE  PinsInv'
  BY <1>2, ReleasePinCounted
<1>3. CASE UNCHANGED <<pins, observationPins>>
  BY <1>3 DEF PinsInv, PinsCounted
<1>4. ASSUME NEW t \in ThreadId, Start(t) \/ TurnStep(t)
      PROVE  UNCHANGED <<pins, observationPins>>
  BY <1>4
     DEF Start, Register, TurnStep, Launch, LaunchFails, DropTurn, ClearInteractions,
         TurnReturns, Ask, AskFails, FailAwaiting, ReceiveAnswer, LoseAnswer, Finish,
         RegisterInteraction, registry
<1>5. ASSUME NEW c \in Clients, ClientStep(c)
      PROVE  UNCHANGED <<pins, observationPins>>
  BY <1>5 DEF ClientStep, Claim, Resolve, DropClaim, registry
<1> QED BY <1>1, <1>2, <1>3, <1>4, <1>5
        DEF Next, StartAgent, Register, BeginCancellation, vars, registry

\* Each thread's count is the number of the pins alive on it, however often an
\* observer named it and in whatever order its pins are released.
THEOREM PinAccounting == Spec => []PinsCounted
<1>1. Init => PinsInv
  <2> SUFFICES ASSUME Init PROVE PinsInv
    OBVIOUS
  <2>1. pins = {} /\ \A t \in ThreadId : {p \in pins : p.thread = t} = {}
    BY DEF Init
  <2> QED BY <2>1, FS_EmptySet DEF Init, PinsInv, PinsCounted
<1>2. PinsInv => PinsCounted
  BY DEF PinsInv
<1> QED BY <1>1, <1>2, PinsInvInductive, TypeCorrect, PTL DEF Spec

\* A thread with no turn recorded by its observers has none while they watch.
LEMMA UnusedIsUnpinned ==
  ASSUME PinsInv, NEW t \in ThreadId, Unused(t)
  PROVE  \A p \in pins : p.thread # t
<1>1. IsFiniteSet(PinsOf(t)) /\ Cardinality(PinsOf(t)) = 0
  BY FS_Subset DEF PinsInv, PinsCounted, PinsOf, Unused
<1>2. PinsOf(t) = {}
  BY <1>1, FS_EmptySet
<1> QED BY <1>2 DEF PinsOf

LEMMA StableWhenKept ==
  ASSUME TypeOK, ObservedTurnsStable, pins' \subseteq pins,
         \A t \in ThreadId : TurnOf(t)' \in {TurnOf(t), NoTurn},
         TypeOK'
  PROVE  ObservedTurnsStable'
<1> SUFFICES ASSUME NEW p \in pins', IsActive(p.thread)'
             PROVE  active'[p.thread].turn = p.turn
  BY DEF ObservedTurnsStable
<1>1. p \in pins /\ p.thread \in ThreadId
  BY DEF TypeOK, ObservationPin
<1>2. TurnOf(p.thread)' = active'[p.thread].turn /\ active'[p.thread].turn # NoTurn
  BY <1>1, NoTurnAssumption DEF TurnOf, IsActive, TypeOK, ActiveTurn
<1> QED BY <1>1, <1>2 DEF ObservedTurnsStable, TurnOf

\* An `agent wait` that pinned a thread finds the turn it captured, or none,
\* until it releases the pin.
THEOREM ObservationStability == Spec => []ObservedTurnsStable
<1>1. Init => ObservedTurnsStable
  BY DEF Init, ObservedTurnsStable
<1>2. TypeOK /\ TypeOK' /\ PinsInv /\ ObservedTurnsStable /\ [Next]_vars => ObservedTurnsStable'
  <2> SUFFICES ASSUME TypeOK, TypeOK', PinsInv, ObservedTurnsStable, [Next]_vars
               PROVE  ObservedTurnsStable'
    OBVIOUS
  <2>1. ASSUME NEW t \in ThreadId, NEW root, Unused(t), Register(t, root)
        PROVE  ObservedTurnsStable'
    <3> SUFFICES ASSUME NEW p \in pins', IsActive(p.thread)'
                 PROVE  active'[p.thread].turn = p.turn
      BY DEF ObservedTurnsStable
    <3>1. p \in pins /\ p.thread \in ThreadId /\ p.thread # t
      BY <2>1, UnusedIsUnpinned DEF Register, TypeOK, ObservationPin
    <3>2. active'[p.thread] = active[p.thread]
      BY <2>1, <3>1 DEF Register, TypeOK
    <3> QED BY <3>1, <3>2 DEF ObservedTurnsStable, IsActive
  <2>2. ASSUME NEW t \in ThreadId, TurnStep(t)
        PROVE  ObservedTurnsStable'
    <3>1. pins' = pins
      BY <2>2
         DEF TurnStep, Launch, LaunchFails, DropTurn, ClearInteractions, TurnReturns, Ask,
             AskFails, FailAwaiting, ReceiveAnswer, LoseAnswer, Finish, RegisterInteraction,
             registry
    <3>2. active' = active \/ active' = [active EXCEPT ![t] = NoTurn]
      BY <2>2
         DEF TurnStep, Launch, LaunchFails, DropTurn, ClearInteractions, TurnReturns, Ask,
             AskFails, FailAwaiting, ReceiveAnswer, LoseAnswer, Finish, FinishActive,
             RegisterInteraction, registry
    <3>3. \A u \in ThreadId : TurnOf(u)' \in {TurnOf(u), NoTurn}
      BY <3>2 DEF TurnOf, IsActive, TypeOK
    <3> QED BY <3>1, <3>3, StableWhenKept
  <2>3. ASSUME NEW threads \in SUBSET ThreadId, BeginCancellation(threads)
        PROVE  ObservedTurnsStable'
    <3>1. \A t \in ThreadId : TurnOf(t)' = TurnOf(t)
      BY <2>3, NoTurnAssumption DEF BeginCancellation, TurnOf, IsActive, TypeOK, ActiveTurn
    <3> QED BY <2>3, <3>1, StableWhenKept DEF BeginCancellation
  <2>4. ASSUME NEW o \in Observers, NEW targets \in Targets, PinMany(o, targets)
        PROVE  ObservedTurnsStable'
    BY <2>4 DEF PinMany, ObservedTurnsStable, TurnOf, IsActive
  <2>5. CASE UNCHANGED active /\ pins' \subseteq pins
    BY <2>5, StableWhenKept DEF TurnOf, IsActive
  <2>6. ASSUME NEW c \in Clients, ClientStep(c)
        PROVE  UNCHANGED <<active, pins>>
    BY <2>6 DEF ClientStep, Claim, Resolve, DropClaim, registry
  <2> QED BY <2>1, <2>2, <2>3, <2>4, <2>5, <2>6
          DEF Next, Start, StartAgent, ReleasePin, vars, registry
<1>3. Init => PinsInv
  BY FS_EmptySet DEF Init, PinsInv, PinsCounted
<1>4. Spec => [](TypeOK /\ PinsInv)
  BY <1>3, PinsInvInductive, TypeCorrect, PTL DEF Spec
<1> QED BY <1>1, <1>2, <1>4, PTL DEF Spec

-----------------------------------------------------------------------------
(* Interactions live the life module Interaction states.                   *)

\* What a turn task holds agrees with where it is: only a running or asking
\* task holds a receiver, and an interaction waits for the turn of its thread.
TurnInv ==
  /\ \A t \in ThreadId : task[t] # "none" => IsActive(t)
  /\ \A t \in ThreadId : awaiting[t] # 0 => task[t] \in {"running", "asking"}
  /\ \A t \in ThreadId : awaiting[t] <= nextInteraction
  /\ \A i \in interactions, t \in ThreadId : awaiting[t] = i.id => i.thread = t

RefinementInv == TypeOK /\ SenderInv /\ TurnInv

LEMMA TurnInvKept ==
  ASSUME RefinementInv, interactions' \subseteq interactions,
         nextInteraction' = nextInteraction,
         \A t \in ThreadId : awaiting'[t] \in {awaiting[t], 0},
         \A t \in ThreadId : task'[t] # "none" => IsActive(t)',
         \A t \in ThreadId : awaiting'[t] # 0 => task'[t] \in {"running", "asking"}
  PROVE  TurnInv'
<1>1. \A t \in ThreadId : awaiting'[t] <= nextInteraction'
  BY DEF RefinementInv, TurnInv, TypeOK
<1>2. \A i \in interactions', t \in ThreadId : awaiting'[t] = i.id => i.thread = t
  <2>1. \A i \in interactions : i.id # 0
    BY DEF RefinementInv, TypeOK, PendingInteraction, InteractionId
  <2> QED BY <2>1 DEF RefinementInv, TurnInv
<1> QED BY <1>1, <1>2 DEF TurnInv

LEMMA RegisterInteractionTurnInv ==
  ASSUME RefinementInv, NEW t \in ThreadId, NEW kind, RegisterInteraction(t, kind)
  PROVE  TurnInv'
<1> DEFINE new == [id |-> nextInteraction + 1, thread |-> t, kind |-> kind,
                   turn |-> active[t].turn]
<1>1. /\ interactions' = interactions \cup {new} /\ new.id = nextInteraction + 1 /\ new.thread = t
      /\ nextInteraction' = nextInteraction + 1 /\ nextInteraction \in Nat
      /\ active' = active /\ IsActive(t)
  BY ConstantsAssumption DEF RegisterInteraction, RefinementInv, TypeOK
<1> HIDE DEF new
<1>2. /\ awaiting'[t] = nextInteraction + 1 /\ task'[t] = "asking"
      /\ \A u \in ThreadId \ {t} : awaiting'[u] = awaiting[u] /\ task'[u] = task[u]
  BY DEF RegisterInteraction, RefinementInv, TypeOK
<1>3. /\ \A i \in interactions : i.id \in Nat /\ i.id <= nextInteraction
      /\ \A u \in ThreadId : awaiting[u] \in Nat /\ awaiting[u] <= nextInteraction
  BY ConstantsAssumption DEF RefinementInv, SenderInv, IdsIssued, TurnInv, TypeOK,
     PendingInteraction, InteractionId
<1>4. \A u \in ThreadId : awaiting'[u] <= nextInteraction'
  BY <1>1, <1>2, <1>3
<1>5. \A i \in interactions', u \in ThreadId : awaiting'[u] = i.id => i.thread = u
  BY <1>1, <1>2, <1>3 DEF RefinementInv, TurnInv
<1>6. \A u \in ThreadId : awaiting'[u] # 0 => task'[u] \in {"running", "asking"}
  BY <1>2 DEF RefinementInv, TurnInv
<1>7. \A u \in ThreadId : task'[u] # "none" => IsActive(u)'
  BY <1>1, <1>2 DEF RefinementInv, TurnInv, IsActive
<1> QED BY <1>4, <1>5, <1>6, <1>7 DEF TurnInv

LEMMA TurnStepTurnInv ==
  ASSUME RefinementInv, NEW t \in ThreadId, TurnStep(t)
  PROVE  TurnInv'
<1>1. ASSUME NEW kind \in InteractionKind, RegisterInteraction(t, kind)
      PROVE  TurnInv'
  BY <1>1, RegisterInteractionTurnInv
<1>2. CASE Launch(t) \/ TurnReturns(t) \/ Ask(t)
  <2>1. \A u \in ThreadId : awaiting'[u] # 0 => task'[u] \in {"running", "asking"}
    BY <1>2 DEF Launch, TurnReturns, Ask, RefinementInv, TurnInv, TypeOK
  <2>2. \A u \in ThreadId : task'[u] # "none" => IsActive(u)'
    BY <1>2 DEF Launch, TurnReturns, Ask, RefinementInv, TurnInv, TypeOK, IsActive, registry
  <2> QED BY <1>2, <2>1, <2>2, TurnInvKept DEF Launch, TurnReturns, Ask, registry
<1>3. CASE DropTurn(t) \/ AskFails(t) \/ LoseAnswer(t) \/ ReceiveAnswer(t) \/ ClearInteractions(t)
  <2>1. \A u \in ThreadId : awaiting'[u] \in {awaiting[u], 0}
    BY <1>3 DEF DropTurn, AskFails, LoseAnswer, FailAwaiting, ReceiveAnswer, ClearInteractions,
       RefinementInv, TypeOK
  <2>2. \A u \in ThreadId : awaiting'[u] # 0 => task'[u] \in {"running", "asking"}
    BY <1>3 DEF DropTurn, AskFails, LoseAnswer, FailAwaiting, ReceiveAnswer, ClearInteractions,
       RefinementInv, TurnInv, TypeOK
  <2>3. \A u \in ThreadId : task'[u] # "none" => IsActive(u)'
    BY <1>3 DEF DropTurn, AskFails, LoseAnswer, FailAwaiting, ReceiveAnswer, ClearInteractions,
       RefinementInv, TurnInv, TypeOK, IsActive, registry
  <2> QED BY <1>3, <2>1, <2>2, <2>3, TurnInvKept
          DEF DropTurn, AskFails, LoseAnswer, FailAwaiting, ReceiveAnswer, ClearInteractions,
              registry
<1>4. CASE Finish(t) \/ LaunchFails(t)
  <2>1. \A u \in ThreadId : awaiting'[u] # 0 => task'[u] \in {"running", "asking"}
    BY <1>4 DEF Finish, LaunchFails, RefinementInv, TurnInv, TypeOK
  <2>2. \A u \in ThreadId : task'[u] # "none" => IsActive(u)'
    BY <1>4 DEF Finish, LaunchFails, FinishActive, RefinementInv, TurnInv, TypeOK, IsActive
  <2> QED BY <1>4, <2>1, <2>2, TurnInvKept DEF Finish, LaunchFails, FinishActive
<1> QED BY <1>1, <1>2, <1>3, <1>4 DEF TurnStep

LEMMA TurnInvInductive == RefinementInv /\ [Next]_vars => TurnInv'
<1> SUFFICES ASSUME RefinementInv, [Next]_vars
             PROVE  TurnInv'
  OBVIOUS
<1>1. ASSUME NEW t \in ThreadId, NEW root \in ThreadId \cup {NoTurn}, Unused(t), Register(t, root)
      PROVE  TurnInv'
  <2>1. \A u \in ThreadId : awaiting'[u] # 0 => task'[u] \in {"running", "asking"}
    BY <1>1 DEF Register, Unused, RefinementInv, TurnInv, TypeOK
  <2>2. \A u \in ThreadId : task'[u] # "none" => IsActive(u)'
    <3>1. [turn |-> turnCount + 1, agentRoot |-> root, cancelling |-> FALSE] \in ActiveTurn
      BY <1>1, ConstantsAssumption DEF Register, RefinementInv, TypeOK, ActiveTurn, TurnId
    <3> QED BY <1>1, <3>1, NoTurnAssumption
            DEF Register, RefinementInv, TurnInv, TypeOK, IsActive
  <2> QED BY <1>1, <2>1, <2>2, TurnInvKept DEF Register
<1>2. ASSUME NEW t \in ThreadId, TurnStep(t)
      PROVE  TurnInv'
  BY <1>2, TurnStepTurnInv
<1>3. ASSUME NEW threads \in SUBSET ThreadId, BeginCancellation(threads)
      PROVE  TurnInv'
  <2>1. \A u \in ThreadId : IsActive(u) => IsActive(u)'
    BY <1>3, NoTurnAssumption DEF BeginCancellation, IsActive, RefinementInv, TypeOK, ActiveTurn
  <2> QED BY <1>3, <2>1, TurnInvKept DEF BeginCancellation, RefinementInv, TurnInv
<1>4. ASSUME UNCHANGED <<task, awaiting, active, nextInteraction>>,
             interactions' \subseteq interactions
      PROVE  TurnInv'
  BY <1>4, TurnInvKept DEF RefinementInv, TurnInv, IsActive
<1>5. ASSUME NEW c \in Clients, ClientStep(c)
      PROVE  TurnInv'
  BY <1>4, <1>5 DEF ClientStep, Claim, Resolve, DropClaim, registry
<1> QED BY <1>1, <1>2, <1>3, <1>4, <1>5
        DEF Next, Start, StartAgent, PinMany, ReleasePin, vars, registry

\* Someone can still answer and someone still waits for it.
Open(id) == ReceiverAlive(id) /\ SenderAlive(id)

\* The status of an interaction, case by case.
StatusOf(id) ==
  IF id > nextInteraction THEN "unused"
  ELSE IF id \in sent THEN "answered"
  ELSE IF Open(id) THEN "open" ELSE "void"

LEMMA StatusCases ==
  ASSUME TypeOK, IdsIssued
  PROVE  InteractionStatus = [id \in InteractionId |-> StatusOf(id)]
<1>1. \A id \in InteractionId : InteractionStatus[id] = StatusOf(id)
  BY ConstantsAssumption DEF InteractionStatus, StatusOf, Open, IdsIssued, TypeOK, InteractionId
<1> QED BY <1>1 DEF InteractionStatus

LEMMA StatusCasesNext ==
  ASSUME TypeOK', IdsIssued'
  PROVE  InteractionStatus' = [id \in InteractionId |-> StatusOf(id)']
<1>1. \A id \in InteractionId : InteractionStatus'[id] = StatusOf(id)'
  BY ConstantsAssumption DEF InteractionStatus, StatusOf, Open, IdsIssued, TypeOK, InteractionId
<1> QED BY <1>1 DEF InteractionStatus

\* A step that settles at most one interaction.
LEMMA StepSettles ==
  ASSUME RefinementInv, RefinementInv', NEW only,
         nextInteraction' = nextInteraction,
         sent' = sent \/ (sent' = sent \cup {only} /\ Open(only)),
         Open(only)' => Open(only),
         \A id \in InteractionId \ {only} : Open(id)' <=> Open(id)
  PROVE  [Protocol!Next]_InteractionStatus
<1>1. InteractionStatus = [id \in InteractionId |-> StatusOf(id)]
  BY StatusCases DEF RefinementInv, SenderInv
<1>2. InteractionStatus' = [id \in InteractionId |-> StatusOf(id)']
  BY StatusCasesNext DEF RefinementInv, SenderInv
<1>3. \A id \in InteractionId \ {only} : StatusOf(id)' = StatusOf(id)
  BY DEF StatusOf
<1>4. CASE only \in InteractionId /\ StatusOf(only)' # StatusOf(only)
  <2>1. StatusOf(only) = "open" /\ StatusOf(only)' \in {"answered", "void"}
    BY <1>4 DEF StatusOf
  <2>2. InteractionStatus' = [InteractionStatus EXCEPT ![only] = StatusOf(only)']
    BY <1>1, <1>2, <1>3, <1>4
  <2>3. InteractionStatus[only] = "open"
    BY <1>1, <1>4, <2>1
  <2> QED BY <1>4, <2>1, <2>2, <2>3 DEF Protocol!Next, Protocol!Settle
<1>5. CASE ~(only \in InteractionId /\ StatusOf(only)' # StatusOf(only))
  BY <1>1, <1>2, <1>3, <1>5
<1> QED BY <1>4, <1>5

\* A step after which every interaction is as open as before.
LEMMA StepStutters ==
  ASSUME RefinementInv, RefinementInv',
         nextInteraction' = nextInteraction, sent' = sent,
         \A id \in InteractionId : Open(id)' <=> Open(id)
  PROVE  InteractionStatus' = InteractionStatus
<1>1. InteractionStatus = [id \in InteractionId |-> StatusOf(id)]
  BY StatusCases DEF RefinementInv, SenderInv
<1>2. InteractionStatus' = [id \in InteractionId |-> StatusOf(id)']
  BY StatusCasesNext DEF RefinementInv, SenderInv
<1>3. \A id \in InteractionId : StatusOf(id)' = StatusOf(id)
  BY DEF StatusOf
<1> QED BY <1>1, <1>2, <1>3

LEMMA RegisterInteractionAsks ==
  ASSUME RefinementInv, RefinementInv', NEW t \in ThreadId, NEW kind,
         RegisterInteraction(t, kind)
  PROVE  Protocol!Next
<1>0. PICK id \in Int : id = nextInteraction + 1
  BY ConstantsAssumption DEF RefinementInv, TypeOK
<1> DEFINE new == [id |-> nextInteraction + 1, thread |-> t, kind |-> kind,
                   turn |-> active[t].turn]
<1>1. /\ id = nextInteraction + 1
      /\ interactions' = interactions \cup {new} /\ new.id = id
      /\ nextInteraction' = id /\ nextInteraction \in Nat /\ id \in InteractionId
      /\ claimed' = claimed /\ sent' = sent
  BY <1>0, ConstantsAssumption DEF RegisterInteraction, RefinementInv, TypeOK, InteractionId
<1>2. /\ awaiting[t] = 0 /\ awaiting'[t] = id
      /\ \A u \in ThreadId \ {t} : awaiting'[u] = awaiting[u]
  BY <1>0 DEF RegisterInteraction, RefinementInv, TypeOK
<1> HIDE DEF new
<1>3. \A other \in InteractionId : other <= nextInteraction => (Open(other)' <=> Open(other))
  <2> SUFFICES ASSUME NEW other \in InteractionId, other <= nextInteraction
               PROVE  Open(other)' <=> Open(other)
    OBVIOUS
  <2>1. other \in Nat /\ other # 0 /\ other # id
    BY <1>1 DEF InteractionId
  <2>2. ReceiverAlive(other)' <=> ReceiverAlive(other)
    BY <1>2, <2>1 DEF ReceiverAlive
  <2>3. SenderAlive(other)' <=> SenderAlive(other)
    BY <1>1, <2>1 DEF SenderAlive
  <2> QED BY <2>2, <2>3 DEF Open
<1>4. Open(id)' /\ id \notin sent
  <2>1. ReceiverAlive(id)'
    BY <1>2 DEF ReceiverAlive
  <2>2. SenderAlive(id)'
    BY <1>1 DEF SenderAlive
  <2>3. id \notin sent
    BY <1>1 DEF RefinementInv, SenderInv, IdsIssued
  <2> QED BY <2>1, <2>2, <2>3 DEF Open
<1>5. InteractionStatus = [i \in InteractionId |-> StatusOf(i)]
  BY StatusCases DEF RefinementInv, SenderInv
<1>6. InteractionStatus' = [i \in InteractionId |-> StatusOf(i)']
  BY StatusCasesNext DEF RefinementInv, SenderInv
<1>7. StatusOf(id) = "unused" /\ StatusOf(id)' = "open"
  BY <1>1, <1>4 DEF StatusOf
<1>8. \A other \in InteractionId \ {id} : StatusOf(other)' = StatusOf(other)
  BY <1>1, <1>3 DEF StatusOf, InteractionId
<1>9. \A other \in InteractionId : other < id => StatusOf(other) # "unused"
  BY <1>1 DEF StatusOf, InteractionId
<1>10. InteractionStatus' = [InteractionStatus EXCEPT ![id] = "open"]
  BY <1>1, <1>5, <1>6, <1>7, <1>8
<1> QED BY <1>1, <1>5, <1>7, <1>9, <1>10 DEF Protocol!Next, Protocol!AskInteraction

\* The turn gives up its receiver, or has its answer.
LEMMA ReceiverLeaves ==
  ASSUME RefinementInv, RefinementInv', NEW t \in ThreadId,
         awaiting' = [awaiting EXCEPT ![t] = 0],
         UNCHANGED <<interactions, nextInteraction, claimed, sent>>
  PROVE  [Protocol!Next]_InteractionStatus
<1>1. PICK only \in 0..MaxInteractions : only = awaiting[t]
  BY DEF RefinementInv, TypeOK
<1>2. \A id : SenderAlive(id)' <=> SenderAlive(id)
  BY DEF SenderAlive
<1>3. Open(only)' => Open(only)
  BY <1>1, <1>2 DEF Open, ReceiverAlive
<1>4. \A id \in InteractionId \ {only} : ReceiverAlive(id)' <=> ReceiverAlive(id)
  BY <1>1 DEF ReceiverAlive, RefinementInv, TypeOK, InteractionId
<1> QED BY <1>2, <1>3, <1>4, StepSettles DEF Open

\* The interactions of a thread whose turn holds no receiver are removed.
LEMMA WaitersCleared ==
  ASSUME RefinementInv, RefinementInv', NEW t \in ThreadId, awaiting[t] = 0,
         interactions' = interactions \ InteractionsOf(t),
         UNCHANGED <<nextInteraction, awaiting, claimed, sent>>
  PROVE  InteractionStatus' = InteractionStatus
<1>1. ASSUME NEW id \in InteractionId
      PROVE  Open(id)' <=> Open(id)
  <2>1. ReceiverAlive(id)' <=> ReceiverAlive(id)
    BY DEF ReceiverAlive
  <2>2. SenderAlive(id)' => SenderAlive(id)
    BY DEF SenderAlive
  <2>3. ASSUME Open(id)
        PROVE  SenderAlive(id)'
    <3>1. PICK u \in ThreadId : awaiting[u] = id
      BY <2>3 DEF Open, ReceiverAlive
    <3>2. u # t
      BY <3>1 DEF InteractionId
    <3>3. \A i \in interactions : i.id = id => i \in interactions'
      BY <3>1, <3>2 DEF InteractionsOf, RefinementInv, TurnInv
    <3> QED BY <2>3, <3>3 DEF Open, SenderAlive
  <2> QED BY <2>1, <2>2, <2>3 DEF Open
<1> QED BY <1>1, StepStutters

\* What no step of this kind touches leaves every status alone.
LEMMA HoldersKept ==
  ASSUME RefinementInv, RefinementInv',
         UNCHANGED <<interactions, nextInteraction, awaiting, claimed, sent>>
  PROVE  InteractionStatus' = InteractionStatus
BY StepStutters DEF Open, ReceiverAlive, SenderAlive

LEMMA TurnStepMaps ==
  ASSUME RefinementInv, RefinementInv', NEW t \in ThreadId, TurnStep(t)
  PROVE  [Protocol!Next]_InteractionStatus
<1>1. ASSUME NEW kind \in InteractionKind, RegisterInteraction(t, kind)
      PROVE  Protocol!Next
  BY <1>1, RegisterInteractionAsks
<1>2. CASE Launch(t) \/ TurnReturns(t) \/ Ask(t)
  BY <1>2, HoldersKept DEF Launch, TurnReturns, Ask, registry
<1>3. CASE DropTurn(t) \/ AskFails(t) \/ LoseAnswer(t) \/ ReceiveAnswer(t)
  BY <1>3, ReceiverLeaves DEF DropTurn, AskFails, LoseAnswer, FailAwaiting, ReceiveAnswer, registry
<1>4. CASE Finish(t) \/ LaunchFails(t) \/ ClearInteractions(t)
  <2>1. awaiting[t] = 0
    BY <1>4 DEF Finish, LaunchFails, ClearInteractions, RefinementInv, TurnInv
  <2> QED BY <1>4, <2>1, WaitersCleared DEF Finish, LaunchFails, FinishActive, ClearInteractions
<1> QED BY <1>1, <1>2, <1>3, <1>4 DEF TurnStep

LEMMA ClaimMaps ==
  ASSUME RefinementInv, RefinementInv', NEW c \in Clients, NEW kind, Claim(c, kind)
  PROVE  InteractionStatus' = InteractionStatus
<1>1. PICK i \in interactions : /\ interactions' = interactions \ {i}
                                /\ claimed' = [claimed EXCEPT ![c] = i]
  BY DEF Claim
<1>2. /\ claimed'[c] = i /\ i # NoTurn /\ claimed[c] = NoTurn
      /\ \A d \in Clients \ {c} : claimed'[d] = claimed[d]
  BY <1>1, NoTurnAssumption DEF RefinementInv, TypeOK, Claim
<1>3. \A id : SenderAlive(id)' <=> SenderAlive(id)
  BY <1>1, <1>2 DEF SenderAlive
<1> QED BY <1>3, StepStutters DEF Claim, Open, ReceiverAlive

LEMMA ClaimLeavesMaps ==
  ASSUME RefinementInv, RefinementInv', NEW c \in Clients, Resolve(c) \/ DropClaim(c)
  PROVE  [Protocol!Next]_InteractionStatus
<1>1. PICK only \in InteractionId : only = claimed[c].id
  BY DEF Resolve, DropClaim, RefinementInv, TypeOK, PendingInteraction
<1>2. /\ UNCHANGED <<interactions, nextInteraction, awaiting>>
      /\ claimed[c] # NoTurn /\ claimed'[c] = NoTurn
      /\ \A d \in Clients \ {c} : claimed'[d] = claimed[d]
  BY DEF Resolve, DropClaim, RefinementInv, TypeOK, registry
<1>3. \A id : ReceiverAlive(id)' <=> ReceiverAlive(id)
  BY <1>2 DEF ReceiverAlive
<1>4. SenderAlive(only)
  BY <1>1, <1>2 DEF SenderAlive
<1>5. \A id \in InteractionId \ {only} : SenderAlive(id)' <=> SenderAlive(id)
  BY <1>1, <1>2 DEF SenderAlive
<1>6. sent' = sent \/ (sent' = sent \cup {only} /\ Open(only))
  BY <1>1, <1>4 DEF Resolve, DropClaim, Open
<1> QED BY <1>2, <1>3, <1>4, <1>5, <1>6, StepSettles DEF Open

\* Every approval and every question lives the life module Interaction states:
\* asked once in the order of the ids, then answered at most once or void for
\* good, whatever the threads, the clients and the cancellations do.
THEOREM InteractionRefinement == Spec => ImplementsInteraction
<1>1. Init => TurnInv
  BY DEF Init, TurnInv
<1>2. Spec => []RefinementInv
  <2>1. Spec => [](TypeOK /\ SenderInv)
    BY TypeCorrect, SendersInvariant, PTL
  <2>2. TypeOK /\ SenderInv /\ TurnInv <=> RefinementInv
    BY DEF RefinementInv
  <2> QED BY <1>1, <2>1, <2>2, TurnInvInductive, PTL DEF Spec
<1>3. Init => Protocol!Init
  <2> SUFFICES ASSUME Init PROVE Protocol!Init
    OBVIOUS
  <2>1. \A id \in InteractionId : InteractionStatus[id] = "unused"
    BY DEF Init, InteractionStatus, InteractionId
  <2>2. InteractionStatus = [id \in InteractionId |-> "unused"]
    BY <2>1 DEF InteractionStatus
  <2> QED BY <2>2 DEF Protocol!Init
<1>4. RefinementInv /\ RefinementInv' /\ [Next]_vars => [Protocol!Next]_InteractionStatus
  <2> SUFFICES ASSUME RefinementInv, RefinementInv', [Next]_vars
               PROVE  [Protocol!Next]_InteractionStatus
    OBVIOUS
  <2>1. ASSUME NEW t \in ThreadId, TurnStep(t)
        PROVE  [Protocol!Next]_InteractionStatus
    BY <2>1, TurnStepMaps
  <2>2. ASSUME NEW c \in Clients, ClientStep(c)
        PROVE  [Protocol!Next]_InteractionStatus
    BY <2>2, ClaimMaps, ClaimLeavesMaps DEF ClientStep
  <2>3. CASE UNCHANGED <<interactions, nextInteraction, awaiting, claimed, sent>>
    BY <2>3, HoldersKept
  <2> QED BY <2>1, <2>2, <2>3
          DEF Next, Start, StartAgent, Register, BeginCancellation, PinMany, ReleasePin,
              vars, registry
<1> QED BY <1>2, <1>3, <1>4, PTL DEF Spec, ImplementsInteraction, Protocol!Spec


-----------------------------------------------------------------------------
(* The invariants of the registry, as they are checked.                    *)

\* Types and pin counts hold always.  (TurnLifecycle)
THEOREM RegistrySoundness == Spec => []RegistryIsSound
<1>1. TypeOK /\ PinsCounted => RegistryIsSound
  BY DEF RegistryIsSound
<1> QED BY <1>1, TypeCorrect, PinAccounting, PTL

\* Interactions are the running turn's, and have one sender.  (claim, finish)
THEOREM InteractionSoundness == Spec => []InteractionsAreSound
<1>1. InteractionsOwned /\ OneSender => InteractionsAreSound
  BY DEF InteractionsAreSound
<1> QED BY <1>1, InteractionOwnership, SingleSender, PTL
=============================================================================
