SPECIFICATION Spec
CONSTANTS
  s1 = s1
  s2 = s2
  r1 = r1
  r2 = r2
  None = None
  Sessions = {s1, s2}
  Registrars = {r1, r2}
  Frames <- PollFrames
  MaxFrames = 5
  MaxPosted = 2
PROPERTIES
  NoMessageLostUnread
SYMMETRY SessionSymmetry
CHECK_DEADLOCK FALSE
