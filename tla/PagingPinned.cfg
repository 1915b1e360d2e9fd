CONSTANTS
  NumProcesses = 2
  PAGEABLE_PAGES = 5
  Revisits = TRUE
  MaxValue = 2
  NULL = NULL
SPECIFICATION Spec
PROPERTY PinnedStay
