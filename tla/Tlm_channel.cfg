SPECIFICATION FairSpec
CONSTANTS
  c1 = c1
  c2 = c2
  c3 = c3
  Callers = {c1, c2, c3}
  slave = slave
  scoreboard = scoreboard
  MaxCalls <- McMaxCalls
  MaxKills = 2
INVARIANTS ResponsesInOrder CanGetIsSafe
PROPERTIES FlushOrError TransportReturns
