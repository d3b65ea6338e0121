SPECIFICATION Spec
CONSTANTS
  Nodes <- TwoNodes
  Kind <- TwoKind
  m_successors <- TwoSuccessors
  m_predecessors <- TwoPredecessors
  m_sync <- TwoSync
  JumpPairs <- DomainJumps
  MaxJumps = 1
  max_ready_to_end_iter = 1
PROPERTIES
  NoObjectionIgnored
CHECK_DEADLOCK FALSE
