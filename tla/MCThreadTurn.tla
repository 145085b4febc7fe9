---------------------------- MODULE MCThreadTurn ----------------------------
\* ThreadTurn in three kinds of scenarios: two clients that race for the
\* answers of one turn; an answer that is delivered in the next turn; and
\* rewinds, restores, compactions and a crash around turns.
EXTENDS ThreadTurn

Calls(kinds, some, nturns, nrounds, nstreamed) ==
  [items |-> kinds, clients |-> some, turns |-> nturns, rounds |-> nrounds, streamed |-> nstreamed,
   requests |-> {"send"}, compactions |-> 0, replacements |-> 0, crashes |-> 0]

Racing == Calls({"final", "plain", "command", "question"}, Clients, 1, 2, 2)
OneClient == {CHOOSE c \in Clients : TRUE}
Late == {Calls({"command", "question"}, OneClient, 2, 1, 1), Calls({"command"}, OneClient, 2, 1, 2)}
Rewritten(kinds, commands, ncompactions, nreplacements, ncrashes) ==
  [Calls(kinds, {}, 2, 1, 1) EXCEPT !.requests = commands, !.compactions = ncompactions,
     !.replacements = nreplacements, !.crashes = ncrashes]

MCScenarios ==
  {Racing,
   Rewritten({"final", "plain"}, {"send", "continue", "compact"}, 1, 1, 0),
   Rewritten({"plain"}, {"send", "continue"}, 0, 1, 1),
   Rewritten({"commentary"}, {"send", "compact"}, 1, 2, 0)} \cup Late
=============================================================================
