SPECIFICATION FairServiceSpec
CONSTANTS
  r1 = r1
  s1 = s1
  s2 = s2
  bolt = bolt
  k1 = k1
  k2 = k2
  k3 = k3
  enter1 = enter1
  exit1 = exit1
  test1 = test1
  lock1 = lock1
  NoWriter = NoWriter
  Outside = Outside
  NoSlot = NoSlot
  NoSession = NoSession
  Requests = {r1}
  Workload <- MCWorkload
  Slots <- MCSlots
  Items <- MCItems
  Position <- MCPosition
  Bindings <- MCBindings
  InitialBalance <- MCInitialBalance
  Sessions = {k1, k2, k3}
  InitialSession <- MCInitialSession
  Faults = {"move", "commit", "crash"}
  ServiceCalls = {enter1, exit1, test1, lock1}
  ServiceCommand <- MCServiceCommand
INVARIANTS
  ServiceTypeOK
  EventsExplainSessions
  TracesAreAccountedFor
  PulsesAreExplained
PROPERTIES
  EndedSessionsStayEnded
  ServiceCallsEnd
