------------------------------ MODULE MCRunner ------------------------------
\* The processes of a Runner (RunnerProcesses) with two requests, and the
\* callbacks of the commands in them (AgentCallbacks).  The two share nothing;
\* a behaviour is of one of them.
EXTENDS RunnerProcesses, Sequences

CONSTANT Callbacks

VARIABLES part, relay, pending, answer, serving, up, down, controller,
          registered, cancelled, call, op, mutation, writer

bridgeVars == <<relay, pending, answer, serving, up, down, controller,
                registered, cancelled, call, op, mutation, writer>>

Bridge == INSTANCE AgentCallbacks

MCInit == part \in {"processes", "callbacks"} /\ Init /\ Bridge!Init

\* bound: of the processes started, one writes output or leaves it to a descendant
Busy(p) == proc[p].written > 0 \/ (~proc[p].running /\ proc[p].open)
OneIsBusy == \A p, q \in Procs : Busy(p) /\ Busy(q) => p = q

ProcessStep == part = "processes" /\ Next /\ OneIsBusy' /\ UNCHANGED <<part, bridgeVars>>
CallbackStep == part = "callbacks" /\ Bridge!Next /\ UNCHANGED <<part, vars>>

MCSpec ==
  /\ MCInit /\ [][ProcessStep \/ CallbackStep]_<<part, vars, bridgeVars>>
  /\ Fairness /\ Bridge!Fairness

\* A callback has one end, and its client is told the truth about it.
\* (complete, claim_cancel, run_callback_operation)
CallbacksAreSettled == Bridge!CallbacksAreSettled

\* Accepted operations end, and clients that asked hear.  (close)
CallbacksEnd == Bridge!CallbacksEnd
=============================================================================
