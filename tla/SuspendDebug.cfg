SPECIFICATION Spec
CONSTANTS
  Mutators = {m1, m2}
  Outsiders = {m2}
  m1 = m1
  m2 = m2
  Debugger = jdwp
  Catcher = catcher
  NoThread = NoThread
  Programs <- StopAndDebug
  MaxCount = 2
SYMMETRY Symmetry
INVARIANTS NoLostResume BooksBalance CountAssertions DebuggerCanResume

