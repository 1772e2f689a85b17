SPECIFICATION LinkSpec
CONSTANTS
  move1 = move1
  move12 = move12
  ping1 = ping1
  net12 = net12
  net2 = net2
  Calls = {move1, move12}
  Command <- MCCommand
  Kinds <- MCKinds
  SoleKinds = {"move"}
  Targets <- MCTargets
  Cuts <- MCCuts
  Serial = {move1, move12}
  Line = Line
  Faults = {}
INVARIANTS
  AdaptersFailClosed
