SPECIFICATION Spec
CONSTANTS
  Objects <- McObjects
  Size <- McSize
  Kind <- McKind
  Word <- McWord
  MaxWidth <- McMaxWidth
  DefaultWidth <- McDefaultWidth
  Memory <- McMemory
  Copies <- McCopies
  RegBits <- McRegBits
  Scenarios <- McScenarios
CHECK_DEADLOCK FALSE
PROPERTIES WritesThePath ReadsThePath NoLeftovers CopiesAgree
