SPECIFICATION RTSpec
CONSTANTS
  HEADER_SIZE = 2
  BIN_INFO_SIZE = 3
  HEADER_SIZE_V2 = 4
  BIN_INFO_SIZE_V2 = 4
  NAME_SIZE_V2 = 2
  PAYLOAD_SEPARATOR = 2
  NAME_SIZE = 4
  MAX_PARTITIONS = 1
  U16 = 16
  U32 = 25
  Chars = {"a", "b", "0"}
  NUL = "0"
  TypeCodes = {0, 1, 9}
  KnownCodes = {0, 1}
  ByteOf <- MCByteOf
  Stray = {0, 6}
  MaxParts = 2
  Inputs <- MCInputs
INVARIANTS ParsesCleanly
