CONSTANTS
  Leaf = Leaf
  Base = Base
  Other = Other
  Thread = {t1, t2, t3}
  Ptr = {Leaf, Base, Other}
  Low <- LowWords
  Pair <- Pairs
  Calc <- Answers
  VersionSpan = 4
SPECIFICATION Spec
SYMMETRY Symmetry
INVARIANT RightAnswer
INVARIANT OneWriter
