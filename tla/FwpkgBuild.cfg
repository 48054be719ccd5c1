SPECIFICATION Spec
CONSTANTS
  HEADER_SIZE = 2
  BIN_INFO_SIZE = 3
  PAYLOAD_SEPARATOR = 2
  NAME_SIZE = 3
  U16 = 3
  U32 = 24
  Chars = {"a", "b", "c", "0"}
  TypeCodes = {0, 1, 9}
  MaxParts = 3
  Inputs <- MCInputs
INVARIANTS TypeOK DescriptorsLocatePayloads PayloadsDisjoint DeclaredLength
