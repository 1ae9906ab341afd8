SPECIFICATION Spec
CONSTANTS
  Second = 10
  Retry = 2
  MaxTime = 12
  Setups <- Configurations
INVARIANTS
  TypeOK
  EveryResultIsDrawn
  HangIsBlamed
  HealthyIsNotReported
