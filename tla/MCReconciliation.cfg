SPECIFICATION ReconSpec
CONSTANTS
  op1 = op1
  op2 = op2
  scan1 = scan1
  scan2 = scan2
  NoScan = NoScan
  Nothing = Nothing
  Stopped = {op1, op2}
  HasItem = {op1}
  HasSession = {op2}
  Left <- MCLeft
  Scans = {scan1, scan2}
SYMMETRY Symmetry
INVARIANTS
  ReconTypeOK
  VerdictsHaveEvidence
  VerdictsAreWhole
  ScanLeavesNothingUnfinished
  CandidatesCanBeMarked
  HistoryStaysLegal
  EntitiesAreComplete
  AdviceIsOfOneMoment
PROPERTIES
  ImplementsCaseBook
