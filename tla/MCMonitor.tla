----------------------------- MODULE MCMonitor ------------------------------
(***************************************************************************)
(* Monitor for TLC.                                                        *)
(***************************************************************************)
EXTENDS Monitor, TLC

Symmetry == Permutations(Threads)
=============================================================================
