CONSTANTS
  Obj = {1, 2, 3}
  Heaps <- PlainHeaps
  Bitmaps <- ThreeHeaps
  Walk <- WalkOfBitmaps
  WordBits = 1
  BufSize = 2
  EndOfMemory = 9
SPECIFICATION Spec
INVARIANT StrongMarkIsExact
