SPECIFICATION Spec
CONSTANTS
  s1 = s1
  s2 = s2
  s3 = s3
  t1 = t1
  t2 = t2
  t3 = t3
  Sequences = {s1, s2, s3}
  Threads = {t1, t2, t3}
  Owner <- OneThreadEach
  Parent <- FamilyParent
  Priority <- SamePriority
  MaxLocks <- StrangersLock
  NoSequence = NoSequence
  NoItem = NoItem
  Arbitration = "RANDOM"
  MaybeIrrelevant = {}
  Interference = {"kill_sequence", "kill_thread", "kill_granted"}
  DriverCalls = {"get", "peek"}
  SequenceCalls = {"lock", "grab", "lock_request", "wait_for_item_done"}
INVARIANTS
  HandshakeInv
  HandshakeNeverFatal
  OneItemInFlight
  ItemDoneNotLost
  NothingLeftBehind
PROPERTIES
  GrantRespectsLocks
CHECK_DEADLOCK FALSE
