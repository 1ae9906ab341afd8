SPECIFICATION FairSpec
CONSTANTS
  Capacity <- SmallQueues
  Setups <- LiveSetups
PROPERTIES
  StopCompletes
  FatalEndsRun
