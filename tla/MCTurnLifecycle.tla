-------------------------- MODULE MCTurnLifecycle --------------------------
\* TurnLifecycle on two threads, two clients that race for the same approval
\* and one observer that may name a thread twice.
EXTENDS TurnLifecycle, TLC

Symmetry == Permutations(ThreadId) \cup Permutations(Clients)
=============================================================================
