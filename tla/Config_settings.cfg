SPECIFICATION Spec
CONSTANTS
  m1 = m1
  m2 = m2
  int = int
  str = str
  Components <- McComponents
  Types = {int, str}
  Fields = {"f"}
  Settings <- McSettings
  Monitors = {m1, m2}
  Watch <- McWatch
  MaxSets = 3
  MaxKills = 1
INVARIANTS GetIsLatest WaiterHasLast
CHECK_DEADLOCK FALSE
