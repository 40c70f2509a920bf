SPECIFICATION MCFairSpec
CONSTANTS
  Frames <- MCFrames
  Posts <- MCPosts
  Logins <- MCLogins
  MaxDepth = 2
  MaxSent = 4
  MaxPosts = 1
INVARIANTS WireTypeOK WholeFramesTaken LoginAsSent HeardAsSaid
PROPERTIES FramesInOrder FramesArrive
CHECK_DEADLOCK FALSE
