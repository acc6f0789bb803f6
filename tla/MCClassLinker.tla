--------------------------- MODULE MCClassLinker ----------------------------
(* Instances of ClassLinker: a superclass, a subclass, and a class that    *)
(* names itself as its superclass.                                         *)
EXTENDS ClassLinker

CONSTANTS Base, Derived, Loop

\* Linking Derived resolves Base; linking Loop resolves itself.
Hierarchy ==
  [n \in Name |-> CASE n = Derived -> <<Base>>
                   [] n = Loop -> <<Loop>>
                   [] OTHER -> <<>>]

\* The code of Derived refers to Base, and that of Base to Base itself.
UsesOfBase ==
  [n \in Name |-> IF n \in {Base, Derived} THEN <<Base>> ELSE <<>>]
=============================================================================
