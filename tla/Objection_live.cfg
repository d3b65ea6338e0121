SPECIFICATION FairSpec
CONSTANTS
  top = top
  env = env
  agent1 = agent1
  agent2 = agent2
  Objects = {top, env, agent1}
  Top = top
  Parent <- TreeParent
  NoObject = NoObject
  Counts = {1}
  MaxOwed = 2
  MaxForks = 4
  Controls = {"clear", "set_propagate_mode", "raise_in_all_dropped"}
INVARIANTS
  TotalsAreSums
PROPERTIES
  ImplementsPromise
  WaiterReleased
CHECK_DEADLOCK FALSE
