CONSTANTS
  Worker = worker
  Main = main
  Mutators = {m1}
  References = {r1}
  Finalizables = {f1}
  NoThread = NoThread
  NoObject = NoObject
CHECK_DEADLOCK FALSE
SPECIFICATION FairSpec
INVARIANT WatchdogSeesMethod
INVARIANT IdleMeansDone
PROPERTY QueueDrains
PROPERTY CallsReturn
