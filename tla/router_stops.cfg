SPECIFICATION FairSpec
CONSTANTS
  video = video
  audio = audio
  NumSinks = 2
  Capacity <- SmallQueues
  Configs <- OneConfig
  Encoders <- OneEncoder
  MaxPackets <- ThreePackets
  Breakable <- BothSinks
  Modes <- BothModes
PROPERTIES
  CallsReturn
  BreakIsRaised
