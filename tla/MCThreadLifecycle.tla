-------------------------- MODULE MCThreadLifecycle -------------------------
(***************************************************************************)
(* Instances of ThreadLifecycle for TLC.                                   *)
(***************************************************************************)
EXTENDS ThreadLifecycle, TLC

\* Daemons are told apart from other threads, nothing else is.
Symmetry ==
  Permutations(Children \ Daemons) \cup Permutations(Natives \ Daemons)
=============================================================================
