SPECIFICATION Spec
CONSTANTS
  s1 = s1
  s2 = s2
  w1 = w1
  w2 = w2
  c1 = c1
  c2 = c2
  p1 = p1
  p2 = p2
  Sessions <- OneSession
  Workers <- TwoWorkers
  Players <- OnePlayer
  Positions = {0, 1}
  Contexts <- TwoContexts
  Origin = 0
  None = None
  HeartBeat = 1
  LoginDelay = 1
  MaxIssue = 2
  MaxPackets = 2
  MaxTime = 2
INVARIANT AssertsNeverFail
