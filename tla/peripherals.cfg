SPECIFICATION AnySpec
CONSTANTS
  Interval = 2
  MaxRuns = 3
  MaxPackets = 2
  Block = 2
  Ring = 3
  Timeout = 3
  Capacity = 2
  Frame = 3
  Delay = 1
  XrunEvery = 2
  LastBlock = 4
  MaxTime = 7
  Requested = 3
  VideoDelay = 2
  MaxFrames = 5
INVARIANTS
  PartsTypeOK
  PublishedIsWhole
  SessionsAreReleased
  EncodedPtsIsCapturePts
  ContinuityErrorHasCause
  AudioIsWhole
  BuffersAreConserved
  PacketsCarryTheirFrame
  DrainDeliversFrames
  ResourcesAreReleased
PROPERTIES
  RecordingIsKept
  FramesAreInOrder
  ReconnectsAreSpaced
  Reconnects
