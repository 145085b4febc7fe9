SPECIFICATION MCSpec
CONSTANTS
  Handles = {h1}
  Tasks = {1, 2}
  Kinds = {"wait", "child", "stop", "subscribe", "patch", "spawn"}
  MaxProcs = 2
  MaxChunks = 1
  Callbacks = {1, 2}
CHECK_DEADLOCK FALSE
INVARIANTS
  
  CallbacksAreSettled
PROPERTIES
  StopEnds
  CallbacksEnd
