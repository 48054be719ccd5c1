SPECIFICATION Spec
CONSTANTS
  BODY_VADDR = 3
  IMAGE_HEADER_LEN = 2
  Erased = Erased
  NoSection = NoSection
  MaxSegments = 3
  FileSize = 6
  Elfs <- MCElfs
INVARIANTS BodyIsFlashContent
