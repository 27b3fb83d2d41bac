SPECIFICATION Spec
CONSTANTS
  Offerings <- MCOfferings
  Qualified <- MCQualified
  RuntimeIds <- MCRuntimeIds
  Detections <- MCDetections
  DefaultModels <- MCDefaultModels
  Options <- MCOptions
  Written <- MCWritten
  Requests <- MCRequests
INVARIANTS
  
  IntentServed
  DynamicServes
  
CHECK_DEADLOCK FALSE
