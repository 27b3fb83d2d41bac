SPECIFICATION FairSpec
CONSTANTS
  Kinds = {"http", "ws"}
  MaxRetries = 3
  InitialBackoff = 2
  MaxBackoff = 6
  Second = 3
  MaxDuration = 31
  RetryAfters <- MCRetryAfters
  Buffer = 2
  MaxBytes = 6
  Messages <- MCMessages
INVARIANTS
  RetriesAsAsked
  FramesOfBody
  MessagesInOrder
PROPERTIES
  PumpServes
CHECK_DEADLOCK FALSE
