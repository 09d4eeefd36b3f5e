SPECIFICATION Spec
CONSTANTS
  Files <- EodFiles
  MAX_LRS = 24
  MAX_ITEM = 6
  LRS_HEADER_LEN = 4
  DLIS_BUFF_SIZE = 40
  DLIS_BUFF_NUM = 2
  UNPARSED_SIZE = 6
  SUL_LEN = 4
  VR_HEADER_LEN = 4
  TAPE_LEN = 3
  MAX_TEMPLT_OBJS = 2
  Chunks = {1, 2, 3, 4}
INVARIANTS
  CopiesAlwaysFit
CHECK_DEADLOCK FALSE
