SPECIFICATION Spec
CONSTANTS
  Files <- CutComponentFiles
  MAX_LRS = 16
  MAX_ITEM = 6
  LRS_HEADER_LEN = 4
  DLIS_BUFF_SIZE = 36
  DLIS_BUFF_NUM = 2
  UNPARSED_SIZE = 6
  SUL_LEN = 4
  VR_HEADER_LEN = 4
  TAPE_LEN = 3
  MAX_TEMPLT_OBJS = 2
  Chunks = {1, 5}
INVARIANTS
  AsideStartsAnItem
CHECK_DEADLOCK FALSE
