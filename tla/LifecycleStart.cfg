SPECIFICATION Spec
CONSTANTS
  Main = main
  c1 = c1
  c2 = c2
  n1 = n1
  Children = {c1, c2}
  Natives = {n1}
  Daemons = {c2}
  NoThread = NoThread
  WordBits = 3
  MaxThreadId = 3
  AttachFails = TRUE
SYMMETRY Symmetry
INVARIANTS ListIsRight ParentFindsChild StartIsSignalled
PROPERTIES ExitWaitsForAll
CHECK_DEADLOCK FALSE
