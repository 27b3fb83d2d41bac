SPECIFICATION Spec
CONSTANTS
  APIs = {"messages", "chat", "responses", "converse"}
  Endpoints = {"messages", "chat", "responses"}
  Chains <- ChainKinds
  MaxItems = 3
  MaxPieces = 2
  Tokens <- TokenCounts
  MaxBytes = 2
INVARIANTS
  CollectedWhole
  StreamedAsBody
  
  
