SPECIFICATION Spec
CONSTANTS
  Threads = {t1, t2, t3, t4}
  Monitors = {m1, sleepMon}
  SleepMonitor = sleepMon
  NoThread = NoThread
  NoMonitor = NoMonitor
  MaxDepth = 1
  Timed = {}
  Throwing = {TRUE, FALSE}
  GivesUp = FALSE
  Sleeps = {}
  Interrupts = {t1, t2, t3, t4}
  Queries = FALSE
SYMMETRY Symmetry
INVARIANTS
  NoLostWakeup
  InterruptReachesSleeper
  MonitorAssertions
  NotifyFindsSleeper
