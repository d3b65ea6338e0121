SPECIFICATION FairSpec
CONSTANTS
  p1 = p1
  p2 = p2
  p3 = p3
  p4 = p4
  Processes = {p1, p2, p3, p4}
  Controls = {"reset", "silent reset", "set_auto_reset", "set_threshold", "kill"}
  MaxKills = 2
INVARIANTS CountsAgree CountIsExact
PROPERTIES EverybodyPasses
