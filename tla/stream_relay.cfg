SPECIFICATION FairSpec
CONSTANTS
  Chains <- LongChains
  Deliveries <- Deliver
INVARIANTS DeliveredInOrder NoFailureSwallowed
PROPERTIES EveryoneReturns
