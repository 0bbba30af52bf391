SPECIFICATION Spec
CONSTANTS
  s1 = s1
  s2 = s2
  w1 = w1
  w2 = w2
  Sessions <- TwoSessions
  Workers <- TwoWorkers
  Main = Main
  None = None
  Faults <- AllFaults
  SendCap = 1
  MaxIssue = 3
  MaxChats = 1
SYMMETRY Interchangeable
INVARIANT TypeOK
INVARIANT RefCountExact
INVARIANT OneReceiveInFlight
INVARIANT FreeListExact
INVARIANT FreeSessionClean
INVARIANT BroadcastTargetsHeld
INVARIANT AssertsNeverFail
