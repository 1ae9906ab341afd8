SPECIFICATION Spec
CONSTANTS
  Capacity <- SmallQueues
  Setups <- AllSetups
INVARIANTS
  TypeOK
  NoPacketMissesRouter
  DevicesOutliveUsers
  DrainDelivers
  StoppedIsQuiet
  OutcomeIsHonest
PROPERTIES
  ImplementsLifecycle
