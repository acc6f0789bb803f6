--------------------------- MODULE MCAtomicCache ----------------------------
(* An instance of AtomicCache: an instance class that extends one of two   *)
(* others, and lookups with different answers that share an entry.         *)
EXTENDS AtomicCache, TLC

CONSTANTS Leaf, Base, Other

LowWords == (Leaf :> 4) @@ (Base :> 8) @@ (Other :> 12)
Pairs == {<<Leaf, Base>>, <<Leaf, Other>>, <<Other, Base>>}
Answers == [p \in Pairs |-> IF p = <<Leaf, Base>> THEN 1 ELSE 0]

Symmetry == Permutations(Thread)
=============================================================================
