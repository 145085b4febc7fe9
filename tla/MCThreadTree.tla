---------------------------- MODULE MCThreadTree ----------------------------
\* ThreadTree: from an empty store the hierarchy alone, with histories, with
\* turns, and with both; and on a stored tree, agents that send while one of
\* them runs, that wait while clients rewind, and whose turns follow a rewind.
EXTENDS ThreadTree, TLC

Bounds(tree, t, c, n, r, asks) ==
  [tree |-> tree, threads |-> t, checkpoints |-> c, turns |-> n, requests |-> r, asks |-> asks]

Whatever == {"create", "send", "cancel", "delete", "wait", "list"}

MCScenarios ==
  {Bounds(<<>>, 4, 0, 0, 3, Whatever), Bounds(<<>>, 3, 0, 2, 1, Whatever),
   Bounds(<<>>, 3, 0, 1, 2, Whatever), Bounds(<<>>, 2, 0, 2, 2, Whatever),
   Bounds(<<>>, 3, 2, 1, 0, Whatever), Bounds(<<>>, 2, 2, 1, 1, Whatever)} \cup
  {Bounds(<<0, 1, 2>>, 3, 0, 2, 2, {"send", "delete"}),
   Bounds(<<0, 1>>, 2, 1, 2, 2, {"send", "wait"}),
   Bounds(<<0, 1>>, 2, 2, 2, 1, {"send", "wait"})}

Symmetry == Permutations(Agents)
=============================================================================
