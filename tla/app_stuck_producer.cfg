SPECIFICATION Spec
CONSTANTS
  Capacity <- SmallQueues
  Setups <- StuckSetup
INVARIANTS
  CancelledProducerWakes
