CONSTANTS
  Obj = {1, 2, 3}
  Heaps <- AllHeaps
  Bitmaps <- TwoHeaps
  Walk <- WalkOfBitmaps
  WordBits = 1
  BufSize = 2
  EndOfMemory = 9
SPECIFICATION Spec
INVARIANT StrongMarkIsExact
INVARIANT ScannedOnce
INVARIANT ClearedTogether
INVARIANT FinalizesTheUnreachable
INVARIANT SurvivorsAreWhole
