SPECIFICATION FairScanSpec
CONSTANTS
  r1 = r1
  r2 = r2
  s1 = s1
  s2 = s2
  bolt = bolt
  k1 = k1
  k2 = k2
  scan1 = scan1
  scan2 = scan2
  NoWriter = NoWriter
  Outside = Outside
  NoSlot = NoSlot
  NoSession = NoSession
  NoScan = NoScan
  Requests = {r1, r2}
  Workload <- MCWorkload
  Slots <- MCSlots
  Items <- MCItems
  Position <- MCPosition
  Bindings <- MCBindings
  InitialBalance <- MCInitialBalance
  Sessions = {k1, k2}
  InitialSession <- MCInitialSession
  Faults = {"move", "unlock", "late_move", "commit", "crash"}
  Scans = {scan1}
INVARIANTS
  ScanTypeOK
  CasesAreForUncertain
  MissedSlotsHaveACause
PROPERTIES
  ImplementsOperations
  ImplementsCaseBook
  EveryRequestAnswered
  WriterReleases
