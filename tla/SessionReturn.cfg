SPECIFICATION FairSpec
CONSTANTS
  s1 = s1
  s2 = s2
  w1 = w1
  w2 = w2
  Sessions <- OneSession
  Workers <- TwoWorkers
  Main = Main
  None = None
  Faults <- NoFaults
  SendCap = 2
  MaxIssue = 2
  MaxChats = 2
INVARIANT OneSendInFlight
INVARIANT FlushScheduled
PROPERTY DisconnectReturnsSession
