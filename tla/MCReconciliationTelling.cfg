SPECIFICATION ReconSpec
CONSTANTS
  op1 = op1
  op2 = op2
  scan1 = scan1
  scan2 = scan2
  NoScan = NoScan
  Nothing = Nothing
  Stopped = {op1}
  HasItem = {op1}
  HasSession = {}
  Left <- MCLeft
  Scans = {scan1}
INVARIANT CasesTellWhereItStopped
