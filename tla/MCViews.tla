------------------------------- MODULE MCViews -------------------------------
\* One client per subscription.  A client may subscribe to anything there is.
EXTENDS Views

MCTopics == {ControllerTopic} \cup {ThreadTopic(t) : t \in ThreadIds}
            \cup {CheckpointTopic(1)} \cup {ProcessTopic(p) : p \in ProcessIds}

Mix(kinds, n) == [kinds |-> kinds, steps |-> n]
MCMixes == {Mix({"create", "metadata", "history", "delete"}, 5),
            Mix({"history", "turns", "shutdown"}, 3),
            Mix({"turns", "delete"}, 4),
            Mix({"processes", "lost", "delete"}, 5),
            Mix({"processes", "turns", "shutdown"}, 3),
            Mix({"providers", "runners", "create", "shutdown"}, 3)}
=============================================================================
