SPECIFICATION Spec
CONSTANTS
  Clients <- MCClients
  Answers <- MCAnswers
  MaxTurns = 2
INVARIANTS
  ConversationKept
  ResultsFollowCalls
  
  ThinkingFits
  PlainMetadataOfRoute
