SPECIFICATION Spec
CONSTANTS
  Jobs = {1, 2}
  Tries = 6
  MaxDelay = 8
  MaxFaults = 2
INVARIANTS PublishTypeOK RedForAReason
PROPERTIES KeepsTheReleasePromise ReleaseCompletes
