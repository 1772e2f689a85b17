SPECIFICATION LinkSpec
CONSTANTS
  move1 = move1
  move12 = move12
  ping1 = ping1
  net12 = net12
  net2 = net2
  Calls = {move1, move12, ping1, net12, net2}
  Serial = {move1, move12, ping1}
  Command <- MCCommand
  Kinds <- MCKinds
  SoleKinds = {}
  Targets <- MCTargets
  Cuts <- MCCuts
  Line = Line
  Faults = {"silent", "refuse", "cut", "offline"}
INVARIANTS
  LinkTypeOK
  ReportedIsAsked
  AnswersAreNotShared
PROPERTIES
  ImplementsDeviceCalls
\* every call is made once
CHECK_DEADLOCK FALSE
