SPECIFICATION Spec
CONSTANTS
  Names = {a, b}
  NoFile = NoFile
  Inputs <- MCInputs
  Chips = {"Ws63", "Bs21"}
  app_partition_addr <- MCAppPartitionAddr
  AppAddrs = {NoAddr, 4}
  AppNames = {"app", "fw", "long"}
  AppLikeNames = {"app", "my-app"}
  LongNames = {"long"}
  MaxCommands = 3
  MaxCrashes = 1
  BODY_VADDR = 4
  IMAGE_HEADER_LEN = 2
  U32 = 32
  NoAddr = NoAddr
  NoBin = NoBin
  NoHeader = NoHeader
  NoDigest = NoDigest
  NoSection = NoSection
  HeaderByte = HeaderByte
  Erased = Erased
  a = a
  b = b
SYMMETRY FileSymmetry
INVARIANTS ToolTypeOK KeepsTheApp PackagesPlaceTheirApp MadeImagesAreSelfContained
  SettledImagesStay LibraryMakesTheSameImage OnlyTheOutputChanges
