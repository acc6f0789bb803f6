CONSTANTS
  Base = Base
  Derived = Derived
  Loop = Loop
  NoThread = NoThread
  Thread = {t1, t2}
  Name = {Base, Derived, Loop}
  LinkDeps <- Hierarchy
  Uses <- UsesOfBase
  LinkFails = {Derived}
  VerifyFails = {Derived}
  ClinitFails = {Base}
  Preverified = {Base}
  VerifyModes = {"none", "all"}
  MaxClass = 4
  MaxCalls = 1
SPECIFICATION FairSpec
INVARIANT OneDefinition
INVARIANT InitOnceSuperFirst
INVARIANT FoundIsInitialised
PROPERTY FinalStatus
PROPERTY EveryCallReturns
