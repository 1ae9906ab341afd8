SPECIFICATION Spec
CONSTANTS
  p1 = p1
  p2 = p2
  c1 = c1
  c2 = c2
  Producers <- OneProducer
  Consumers <- OneConsumer
  Capacity = 2
  PolicyChoices <- OnlyBlocking
  Untimed <- NoThreads
  Cancellable <- NoThreads
  MaxOffers = 4
INVARIANTS
  AbortUpgradesDrain
