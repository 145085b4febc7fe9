SPECIFICATION Spec
CONSTANT Callbacks = {1, 2}
CHECK_DEADLOCK FALSE
INVARIANTS
  LateAnswerIsDiscarded
