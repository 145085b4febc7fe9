---------------------------- MODULE Interaction ----------------------------
(***************************************************************************)
(* What a user may expect of an approval or a question: it is asked once,  *)
(* and then it is answered at most once, or its turn is over and no answer *)
(* counts any more.  TurnLifecycle implements this specification.          *)
(***************************************************************************)
EXTENDS Naturals

CONSTANT InteractionId
VARIABLE status

Init == status = [id \in InteractionId |-> "unused"]

\* Ids are handed out in order (next_interaction).
AskInteraction(id) ==
  /\ status[id] = "unused"
  /\ \A other \in InteractionId : other < id => status[other] # "unused"
  /\ status' = [status EXCEPT ![id] = "open"]

\* Handlers of different interactions work side by side, a cancellation voids
\* the interaction of its turn.
Settle(id, outcome) ==
  /\ status[id] = "open"
  /\ status' = [status EXCEPT ![id] = outcome]

Next == \E id \in InteractionId :
  AskInteraction(id) \/ Settle(id, "answered") \/ Settle(id, "void")

Spec == Init /\ [][Next]_status
=============================================================================
