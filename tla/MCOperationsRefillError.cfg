SPECIFICATION Spec
CONSTANTS
  r1 = r1
  r2 = r2
  r3 = r3
  s1 = s1
  s2 = s2
  bolt = bolt
  k1 = k1
  k2 = k2
  k3 = k3
  k4 = k4
  NoWriter = NoWriter
  Outside = Outside
  NoSlot = NoSlot
  NoSession = NoSession
  Requests = {r1}
  Workload <- RefillWorkload
  Slots <- MCSlots
  Items <- MCItems
  Position <- MCPosition
  Bindings <- MCBindings
  InitialBalance <- MCInitialBalance
  Sessions = {k1, k2, k3, k4}
  InitialSession <- MCInitialSession
  Faults = {"move"}
SYMMETRY Symmetry
INVARIANTS
  HardwareErrorIsRecorded
