SPECIFICATION ConsumerLoopSpec
CONSTANTS
  p1 = p1
  p2 = p2
  c1 = c1
  c2 = c2
  Producers <- TwoProducers
  Consumers <- OneConsumer
  Capacity = 1
  PolicyChoices <- OnlyBlocking
  Untimed <- TwoProducers
  Cancellable <- FirstConsumer
  MaxOffers = 5
PROPERTIES
  CloseReleasesWaiters
  DrainCompletes
