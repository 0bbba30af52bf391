SPECIFICATION Spec
CONSTANTS
  Threads = {t1, t2}
  Blocks = {b1, b2, b3, b4}
  Sizes <- EdgeSizes
  None = None
INVARIANT AssertsNeverFail
INVARIANT BlocksComeHome
INVARIANT CountExact
PROPERTY HandsOutOnce
SYMMETRY Symmetry
