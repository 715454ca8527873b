SPECIFICATION FairSpec
CONSTANTS
  Request <- Served
  FrameKind <- AnyFrame
  BlockKind <- AnyBlock
  BlockSize = 2
  MaxFrames = 3
  MaxBlocks = 3
INVARIANTS TypeOK NothingDropped NoHalfPair
PROPERTIES PipeSpec Settles
CHECK_DEADLOCK FALSE
