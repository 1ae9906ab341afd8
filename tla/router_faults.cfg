SPECIFICATION Spec
CONSTANTS
  video = video
  audio = audio
  NumSinks = 2
  Capacity <- UnevenQueues
  Configs <- AllConfigs
  Encoders <- BothEncoders
  MaxPackets <- TwoAndOne
  Breakable <- BothSinks
  Modes <- BothModes
INVARIANTS
  RouterInv
  LosslessDelivery
  DrainIsComplete
  RecoveredIsRunning
PROPERTIES
  QueuesAreChannels
