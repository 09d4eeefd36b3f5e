SPECIFICATION Spec
CONSTANTS
  A = A
  B = B
  P = P
  Q = Q
  FrameLetters = {A, B}
  ChannelLetters = {P, Q}
  FrameNames <- LetteredFrames
  ChannelNames <- LetteredChannels
  Kinds <- OneFile
  Dims = {2}
  Depths = {0, 2}
  MAX_ROWS = 2
SYMMETRY Exchanges
INVARIANTS
  TypeOK
  NoWildPointer
  RowsInCurves
  TopAndBottom
PROPERTIES
  ImplementsLayout
CHECK_DEADLOCK FALSE
