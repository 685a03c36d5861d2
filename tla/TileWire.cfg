SPECIFICATION WireSpec
CONSTANTS
  MaxMerge = 2
  MergeGap = 1
  Frames <- MCFrames
  WebpLen <- MCWebpLen
  MaxPacketSize = 8000
  MaxPacked = 3
INVARIANT MergeIsExact PacketsAreFull PageReadsBatch
CHECK_DEADLOCK FALSE
