SPECIFICATION Spec
CONSTANTS
  p1 = p1
  p2 = p2
  c1 = c1
  c2 = c2
  Producers <- TwoProducers
  Consumers <- TwoConsumers
  Capacity = 2
  PolicyChoices <- AllPolicies
  Untimed <- FirstConsumer
  Cancellable <- OneOfEach
  MaxOffers = 5
INVARIANTS
  QueueInv
  NoStrandedWaiter
PROPERTIES
  ImplementsChannel
