----------------------------- MODULE MCThinLock -----------------------------
(***************************************************************************)
(* ThinLock for TLC: threads and monitors are model values, and the count  *)
(* of a thin lock has room for CountMod entries.                           *)
(***************************************************************************)
EXTENDS ThinLock, TLC

Symmetry == Permutations(Threads) \union Permutations(Monitors)
=============================================================================
