SPECIFICATION Spec
CONSTANTS
  Files <- CutTrailingFiles
  MAX_LRS = 24
  MAX_ITEM = 6
  LRS_HEADER_LEN = 4
  DLIS_BUFF_SIZE = 120
  DLIS_BUFF_NUM = 2
  UNPARSED_SIZE = 6
  SUL_LEN = 4
  VR_HEADER_LEN = 4
  TAPE_LEN = 3
  MAX_TEMPLT_OBJS = 2
  Chunks = {2, 4}
INVARIANTS
  TrailingAsAnnounced
CHECK_DEADLOCK FALSE
