SPECIFICATION FairSpec
CONSTANTS
  r1 = r1  r2 = r2  r3 = r3
  None = None
  Requests = {r1, r2}
  Sessions = {sA, sB}
  Mode = "auto"
  Kinds = {"delta", "garbled", "error", "completed"}
  MaxBuffered = 1
INVARIANTS LockCoversStream NoStrayConnection OthersFramesOnlyOfLeftCalls FramesStayInSession
PROPERTIES WaitersServed
