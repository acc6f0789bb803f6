SPECIFICATION FairSpec
CONSTANTS
  Mutators = {m1, m2, m3}
  Outsiders = {}
  m1 = m1
  m2 = m2
  m3 = m3
  Debugger = jdwp
  Catcher = catcher
  NoThread = NoThread
  Programs <- CollectOnly
  MaxCount = 1
INVARIANT StopTheWorld
PROPERTY CollectionEnds
