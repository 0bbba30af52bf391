SPECIFICATION Spec
CONSTANTS
  s1 = s1
  s2 = s2
  w1 = w1
  w2 = w2
  c1 = c1
  c2 = c2
  p1 = p1
  p2 = p2
  Sessions <- OneSession
  Workers <- TwoWorkers
  Players <- TwoPlayers
  Positions = {0, 1}
  Contexts <- TwoContexts
  Origin = 0
  None = None
  HeartBeat = 1
  LoginDelay = 1
  MaxIssue = 2
  MaxPackets = 3
  MaxTime = 1
SYMMETRY Interchangeable
INVARIANT TypeOK
INVARIANT RefCountExact
INVARIANT AnswersReachAsker
INVARIANT PlayerIsAsked
INVARIANT ToldWhatIsStored
INVARIANT TimerTopIsRun
CONSTRAINT BeforeStale
CONSTRAINT PacketsOrReuse
