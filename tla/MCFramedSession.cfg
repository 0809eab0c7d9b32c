SPECIFICATION FairSpec
CONSTANTS
  s1 = s1
  s2 = s2
  r1 = r1
  r2 = r2
  None = None
  Sessions = {s1}
  Registrars = {r1, r2}
  Frames <- MixedFrames
  MaxFrames = 4
  MaxPosted = 0
INVARIANTS
  TypeOK
  FramesInOrder
  RunsAsLoggedIn
  MalformedRunsNothing
PROPERTIES
  EveryFrameAnswered
CHECK_DEADLOCK FALSE
