SPECIFICATION FairSpec
CONSTANTS
  Threads = {t1, t2}
  Monitors = {m1, sleepMon}
  SleepMonitor = sleepMon
  NoThread = NoThread
  NoMonitor = NoMonitor
  MaxDepth = 1
  Timed = {t1}
  Throwing = {TRUE, FALSE}
  GivesUp = FALSE
  Sleeps = {t1}
  Interrupts = {t2}
  Queries = TRUE
PROPERTIES
  TimedWaitEnds
  InterruptEndsWait
