SPECIFICATION Spec
CONSTANTS
  video = video
  audio = audio
  NumSinks = 2
  Capacity <- SmallQueues
  Configs <- OneConfig
  Encoders <- OneEncoder
  MaxPackets <- TwoPackets
  Breakable <- BothSinks
  Modes <- OnlyDrain
INVARIANTS
  BrokenRequiredSkipsFlush
