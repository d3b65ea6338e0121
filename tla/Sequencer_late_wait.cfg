SPECIFICATION Spec
CONSTANTS
  s1 = s1
  s2 = s2
  s3 = s3
  t1 = t1
  t2 = t2
  t3 = t3
  Sequences = {s1, s2}
  Threads = {t1, t2}
  Owner <- OneThreadOfTwo
  Parent <- FlatParent
  Priority <- SamePriority
  MaxLocks <- NoLocks
  NoSequence = NoSequence
  NoItem = NoItem
  Arbitration = "FIFO"
  MaybeIrrelevant = {}
  Interference = {}
  DriverCalls = {"get_next_item"}
  SequenceCalls = {"wait_for_item_done"}
PROPERTIES
  WakeUpKept
CHECK_DEADLOCK FALSE
