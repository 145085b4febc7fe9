----------------------------- MODULE MCTerminal -----------------------------
\* Two threads of a user, the second of them not there at first, and an agent.
EXTENDS Terminal

MCOrder == <<"new", "main", "agent">>
MCParent == [t \in {"new", "main", "agent"} |-> IF t = "agent" THEN "main" ELSE None]
MCPrograms == <<"p1", "p2">>

Mix(some, groups, n, others, m) ==
  [threads |-> some, groups |-> groups \cup {"any"}, keys |-> n, elsewhere |-> others, steps |-> m]
MCMixes ==
  {Mix({"main"}, {"turn", "help"}, 3, {"turns", "asks", "failures"}, 4),
   Mix({"main"}, {"turn", "threads"}, 5, {"deletions", "asks"}, 2),
   Mix({"main", "agent"}, {"threads"}, 6, {"deletions", "creations", "failures"}, 3),
   Mix({"main", "agent"}, {"threads", "settings"}, 5, {"deletions", "creations"}, 2),
   Mix({"main", "new"}, {"history", "threads"}, 9, {}, 0),
   Mix({"main"}, {"history"}, 5, {"deletions", "history", "messages", "turns"}, 3),
   Mix({"main"}, {"processes"}, 5, {"deletions", "processes", "failures"}, 4),
   Mix({"main", "new"}, {"processes", "threads"}, 7, {"processes"}, 1)}
=============================================================================
