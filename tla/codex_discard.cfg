SPECIFICATION Spec
CONSTANTS
  r1 = r1  r2 = r2  r3 = r3  sA = sA  sB = sB
  mini = mini  full = full  u1 = u1  u2 = u2  a1 = a1
  None = None
  Requests = {r1, r2, r3}
  Sessions = {sA, sB}
  Keys <- OneKey
  Bodies <- Conversation
  Assistant = {a1}
  Modes = {"session"}
  Frames = {}
  SendsTurnState = FALSE
  MaxInFlight = 2
SYMMETRY Callers
PROPERTIES DiscardedStaysDiscarded
