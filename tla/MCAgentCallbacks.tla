-------------------------- MODULE MCAgentCallbacks --------------------------
\* AgentCallbacks for model checking: liveness is checked in the same run as
\* safety, so the callbacks are not declared symmetric.
EXTENDS AgentCallbacks
=============================================================================
