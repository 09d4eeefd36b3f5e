SPECIFICATION FairSpec
CONSTANTS
  Peers = {1, 2}
  Files <- AllFiles
  Ranges <- AllRanges
  Scripts <- AllScripts
  MAX_TEMPLT_OBJS = 2
  WrongCode = WrongCode
  Text = Text
  Texts <- AllTexts
INVARIANTS
  TypeOK
  ObjectsInOrder
  ObjectsUnderTheirSet
  EndsOnlyFor
  OwnArgs
PROPERTIES
  AnsweredWithItsWells
  EveryCallEnds
CHECK_DEADLOCK FALSE
