SPECIFICATION Spec
CONSTANTS
  HEADER_SIZE = 2
  HEADER_SIZE_V2 = 4
  BIN_INFO_SIZE = 3
  BIN_INFO_SIZE_V2 = 4
  NAME_SIZE_V2 = 2
  NAME_SIZE = 3
  ByteOf <- MCByteOf
  MAX_PARTITIONS = 2
  NUL = "0"
  KnownCodes = {0, 1}
  MaxSize = 14
  MaxCnt = 3
  Files <- MCFiles
INVARIANTS ParseTypeOK AcceptsTheFormat AccessorsAreTotal
