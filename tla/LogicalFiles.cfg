SPECIFICATION Spec
CONSTANTS
  A = A
  B = B
  C = C
  P = P
  Q = Q
  FrameLetters = {A, B, C}
  ChannelLetters = {P, Q}
  FrameNames <- LetteredFrames
  ChannelNames <- LetteredChannels
  Kinds <- ManyFiles
  Dims = {2}
  Depths = {2}
  MAX_ROWS = 1
SYMMETRY Exchanges
INVARIANTS
  CatalogIsTheFile
  RowsInCurves
  FilesClosed
  WildOnlyIfEarly
CHECK_DEADLOCK FALSE
