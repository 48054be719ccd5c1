SPECIFICATION Spec
CONSTANTS
  Chips = {"Ws63", "Bs21"}
  app_partition_addr <- MCAppPartitionAddr
  BODY_VADDR = 4
  IMAGE_HEADER_LEN = 1
  SectorSize = 2
  FlashEnd = 14
  U32 = 16
  MaxLosses = 2
  AppAddrs = {NoAddr, 4, 15}
  NoAddr = NoAddr
  AppNames = {"app", "ota"}
  NoBin = NoBin
  NoHeader = NoHeader
  NoDigest = NoDigest
  HeaderByte = HeaderByte
  NoSection = NoSection
  Erased = Erased
  Leftover = Leftover
  Garbage = Garbage
  OldImage <- MCOldImage
  Inputs <- MCInputs
INVARIANTS FlashTypeOK FlashedImageBoots NoStaleByte ProgramsErasedFlash ExecutedRangesNest
  HeaderedElfAtItsAddress PackagedAppIsPlanned
PROPERTIES KeepsTheUpdatePromise UpdateCompletes
