SPECIFICATION Spec
CONSTANTS
  Threads = {t1, t2, t3}
  Monitors = {m1, m2}
  NoThread = NoThread
  NoMonitor = NoMonitor
  CountMod = 3
  MaxDepth = 3
SYMMETRY Symmetry
INVARIANTS
  MutualExclusion
  DepthIsTracked
  OnlyOutsidersFail
PROPERTIES
  OnlyHolderWrites
  ImplementsJavaLock
