SPECIFICATION Spec
CONSTANTS
  top = top
  env = env
  agent1 = agent1
  agent2 = agent2
  Objects = {top, env, agent1, agent2}
  Top = top
  Parent <- TreeParent
  NoObject = NoObject
  Counts = {1, 2}
  MaxOwed = 2
  MaxForks = 4
  Controls = {}
INVARIANTS
  TotalsAreSums
  DrainsQuietly
  AllDroppedIsLast
  NoFatal
