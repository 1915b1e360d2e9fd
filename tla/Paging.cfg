CONSTANTS
  NumProcesses = 2
  PAGEABLE_PAGES = 5
  Revisits = FALSE
  MaxValue = 2
  NULL = NULL
SPECIFICATION Spec
INVARIANTS FramesOwned TlbAgrees
PROPERTIES PinnedStay ImplementsPrivateMemory
