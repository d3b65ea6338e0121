SPECIFICATION Spec
CONSTANTS
  s1 = s1
  s2 = s2
  s3 = s3
  t1 = t1
  t2 = t2
  t3 = t3
  Sequences = {s1, s2}
  Threads = {t1, t2, t3}
  Owner <- TwoAndOne
  Parent <- FlatParent
  Priority <- S2First
  MaxLocks <- S1Nests
  NoSequence = NoSequence
  NoItem = NoItem
  Arbitration = "STRICT_FIFO"
  MaybeIrrelevant = {s1, s2}
  Interference = {"kill_sequence", "stop_sequences", "kill_granted"}
  DriverCalls = {"get_next_item", "try_next_item"}
  SequenceCalls = {"lock", "grab", "lock_request", "wait_for_item_done"}
INVARIANTS
  WaitingIsQueued
  NoLostArbitration
PROPERTIES
  ImplementsExchange
  PriorityRespected
  StopKillsAll
CHECK_DEADLOCK FALSE
