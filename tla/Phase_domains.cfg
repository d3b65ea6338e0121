SPECIFICATION FairSpec
CONSTANTS
  Nodes <- TwoNodes
  Kind <- TwoKind
  m_successors <- TwoSuccessors
  m_predecessors <- TwoPredecessors
  m_sync <- TwoSync
  JumpPairs <- DomainJumps
  MaxJumps = 1
  max_ready_to_end_iter = 1
INVARIANTS
  ExecutedOnce
  PredecessorsDone
  TasksKilled
PROPERTIES
  ObjectionHolds
  DecidesInAgreement
  AllDone
CHECK_DEADLOCK FALSE
