\* One request through a stack of two layers; four frames through a channel of one.
SPECIFICATION FairSpec
CONSTANTS
  Layers = 2
  MaxFrames = 4
  Capacity = 1
  FlushAt = 2
  Timeouts = TRUE
  SingleMode = FALSE
  Http1 = TRUE
INVARIANTS AfterMirrorsBefore
PROPERTIES StreamPromise FrameDelivered SenderReleased StreamEndsAtShutdown
CHECK_DEADLOCK FALSE
