--------------------------- MODULE MCThreadSuspend --------------------------
(***************************************************************************)
(* Instances of ThreadSuspend for TLC.                                     *)
(***************************************************************************)
EXTENDS ThreadSuspend, TLC

\* Garbage collections only; everything else that stops threads, but for the
\* debugger's commands, with collections by mutators or by the signal catcher,
\* and with a debugger that stays or one that disconnects; the debugger's
\* commands, with threads that come and go, or with stack traces.
CollectOnly == {{"gc"}}
StopAndDebug ==
  {{"gc", "trace", "dump", "event", "native"},
   {"gc", "trace", "event", "disconnect", "native"},
   {"hprof", "trace", "event"},
   {"hprof", "dump", "event", "disconnect"},
   {"command", "event", "disconnect", "attach"},
   {"command", "event", "trace"}}

\* The mutators attached from the start, and those that attach later, are
\* interchangeable.
Symmetry ==
  Permutations(Mutators \ Outsiders) \cup Permutations(Outsiders)
=============================================================================
