----------------------------- MODULE AtomicCache ----------------------------
(***************************************************************************)
(* The cache of instanceof answers (vm/AtomicCache.h, vm/AtomicCache.c,    *)
(* used by dvmInstanceofNonTrivial in vm/oo/TypeCheck.c): readers take no  *)
(* lock and compare a version before and after; a writer owns the entry    *)
(* through a flag in the version word.                                     *)
(*                                                                         *)
(* A lookup touches one entry, chosen by the hash of its keys, so one      *)
(* entry and the lookups that hash to it are the whole cache.  Each read   *)
(* or write of a field is a step, in program order.                        *)
(*                                                                         *)
(* ATOMIC_CACHE_LOOKUP casts keys and version to 32 bits.  Low is the cast *)
(* of a class pointer; VersionSpan is 2^32.                                *)
(***************************************************************************)
EXTENDS Integers

CONSTANTS
  Thread,
  Ptr,          \* class pointers
  Low,          \* the low word of each pointer
  Pair,         \* the <<instance, clazz>> pairs that hash to the entry
  Calc,         \* isInstanceof of each pair
  VersionSpan   \* one more than the largest version that fits 32 bits

\* dvmInstanceof settles instance = clazz before it comes here.
ASSUME CacheAssumption ==
  /\ Low \in [Ptr -> Nat]
  /\ Pair \subseteq Ptr \X Ptr
  /\ \A p \in Pair : p[1] # p[2]
  /\ Calc \in [Pair -> 0 .. 1]
  /\ VersionSpan \in Nat /\ VersionSpan % 2 = 0 /\ VersionSpan > 0

\* The casts lose nothing that tells two classes of the heap apart.
ASSUME LowIsInjective == \A p, q \in Ptr : Low[p] = Low[q] => p = q

VARIABLES
  key1, key2, value,  \* the fields of the AtomicCacheEntry
  version,            \* its version field, without
  locked,             \* the ATOMIC_LOCK_FLAG bit
  pc,                 \* where each thread is
  arg,                \* the pair it asks about
  firstVersion,       \* its copy of the version, and
  result              \* of the value

entry == <<key1, key2, value, version, locked>>
local == <<arg, firstVersion, result>>
vars == <<entry, pc, local>>

At(t, here) == pc[t] = here
Goto(t, there) == pc' = [pc EXCEPT ![t] = there]

-----------------------------------------------------------------------------
(* ATOMIC_CACHE_LOOKUP                                                     *)

\* Pick the entry and read its version into a u4, which has no room for the
\* flag.
Start(t) ==
  /\ At(t, "idle") \/ At(t, "done")
  /\ \E p \in Pair : arg' = [arg EXCEPT ![t] = p]
  /\ firstVersion' = [firstVersion EXCEPT ![t] = version % VersionSpan]
  /\ Goto(t, "readKey1")
  /\ UNCHANGED <<entry, result>>

ReadKey1(t) ==
  /\ At(t, "readKey1")
  /\ Goto(t, IF key1 = Low[arg[t][1]] THEN "readKey2" ELSE "update")
  /\ UNCHANGED <<entry, local>>

ReadKey2(t) ==
  /\ At(t, "readKey2")
  /\ Goto(t, IF key2 = Low[arg[t][2]] THEN "readValue" ELSE "update")
  /\ UNCHANGED <<entry, local>>

ReadValue(t) ==
  /\ At(t, "readValue")
  /\ result' = [result EXCEPT ![t] = value]
  /\ Goto(t, "check")
  /\ UNCHANGED <<entry, arg, firstVersion>>

\* Mutant: the version is not compared with the first one.
StableUnchecked(t) == firstVersion[t] % 2 = 0 /\ ~locked

\* The second read of the version is of all 64 bits.
Stable(t) ==
  /\ firstVersion[t] % 2 = 0
  /\ ~locked
  /\ firstVersion[t] = version

\* A clash with a writer: "just do the regular computation".
Check(t) ==
  /\ At(t, "check")
  /\ result' = [result EXCEPT ![t] = IF Stable(t) THEN @ ELSE Calc[arg[t]]]
  /\ Goto(t, "done")
  /\ UNCHANGED <<entry, arg, firstVersion>>

-----------------------------------------------------------------------------
(* A miss computes the value and calls dvmUpdateAtomicCache.               *)

\* Mutant: the swap does not mind the flag.
TryLockAnyway(t) ==
  /\ At(t, "update")
  /\ result' = [result EXCEPT ![t] = Calc[arg[t]]]
  /\ IF version = firstVersion[t]
     THEN locked' = TRUE /\ Goto(t, "increment")
     ELSE Goto(t, "done") /\ UNCHANGED locked
  /\ UNCHANGED <<key1, key2, value, version, arg, firstVersion>>

\* The compare-and-swap from firstVersion to firstVersion with the flag; the
\* test of the flag in firstVersion before it cannot succeed.
TryLock(t) ==
  /\ At(t, "update")
  /\ result' = [result EXCEPT ![t] = Calc[arg[t]]]
  /\ IF ~locked /\ version = firstVersion[t]
     THEN locked' = TRUE /\ Goto(t, "increment")
     ELSE Goto(t, "done") /\ UNCHANGED locked
  /\ UNCHANGED <<key1, key2, value, version, arg, firstVersion>>

Increment(t) ==
  /\ At(t, "increment")
  /\ version' = version + 1
  /\ Goto(t, "writeKey1")
  /\ UNCHANGED <<key1, key2, value, locked, local>>

WriteKey1(t) ==
  /\ At(t, "writeKey1")
  /\ key1' = Low[arg[t][1]]
  /\ Goto(t, "writeKey2")
  /\ UNCHANGED <<key2, value, version, locked, local>>

WriteKey2(t) ==
  /\ At(t, "writeKey2")
  /\ key2' = Low[arg[t][2]]
  /\ Goto(t, "writeValue")
  /\ UNCHANGED <<key1, value, version, locked, local>>

WriteValue(t) ==
  /\ At(t, "writeValue")
  /\ value' = result[t]
  /\ Goto(t, "incrementAgain")
  /\ UNCHANGED <<key1, key2, version, locked, local>>

IncrementAgain(t) ==
  /\ At(t, "incrementAgain")
  /\ version' = version + 1
  /\ Goto(t, "unlock")
  /\ UNCHANGED <<key1, key2, value, locked, local>>

\* The compare-and-swap that clears the flag; if it fails, dvmAbort.
Unlock(t) ==
  /\ At(t, "unlock")
  /\ IF locked /\ version = firstVersion[t] + 2
     THEN locked' = FALSE /\ Goto(t, "done")
     ELSE Goto(t, "abort") /\ UNCHANGED locked
  /\ UNCHANGED <<key1, key2, value, version, local>>

-----------------------------------------------------------------------------
\* dvmAllocAtomicCache: calloc.
Init ==
  /\ key1 = 0 /\ key2 = 0 /\ value = 0 /\ version = 0 /\ locked = FALSE
  /\ pc = [t \in Thread |-> "idle"]
  /\ arg \in [Thread -> Pair]
  /\ firstVersion = [t \in Thread |-> 0]
  /\ result = [t \in Thread |-> 0]

Lookup(t) ==
  \/ Start(t) \/ ReadKey1(t) \/ ReadKey2(t) \/ ReadValue(t) \/ Check(t)
Update(t) ==
  \/ TryLock(t) \/ Increment(t) \/ WriteKey1(t) \/ WriteKey2(t)
  \/ WriteValue(t) \/ IncrementAgain(t) \/ Unlock(t)
Next == \E t \in Thread : Lookup(t) \/ Update(t)

Spec == Init /\ [][Next]_vars

-----------------------------------------------------------------------------
(* Properties.                                                             *)

Reading == {"readKey1", "readKey2", "readValue", "check"}
Changing == {"writeKey1", "writeKey2", "writeValue", "incrementAgain"}
Owning == Changing \cup {"increment", "unlock"}

\* The state is of the expected shape.
TypeOK ==
  /\ key1 \in Nat /\ key2 \in Nat /\ value \in 0 .. 1
  /\ version \in Nat /\ locked \in BOOLEAN
  /\ pc \in [Thread -> Reading \cup Owning \cup
                          {"idle", "update", "done", "abort"}]
  /\ arg \in [Thread -> Pair]
  /\ firstVersion \in [Thread -> Nat]
  /\ result \in [Thread -> 0 .. 1]

\* Whatever the updates in between, ATOMIC_CACHE_LOOKUP gives the answer that
\* isInstanceof computes, from the cache or not.
RightAnswer ==
  \A t \in Thread : At(t, "done") => result[t] = Calc[arg[t]]

\* dvmUpdateAtomicCache keeps other writers out: at most one thread is past
\* its first compare-and-swap; it found an even version ("must be even-valued
\* on entry"); and the second one never fails ("if this fails the world is
\* broken").
OneWriter ==
  /\ \A t, u \in Thread : pc[t] \in Owning /\ pc[u] \in Owning => t = u
  /\ \A t \in Thread : pc[t] \in Owning => firstVersion[t] % 2 = 0
  /\ \A t \in Thread : pc[t] # "abort"
=============================================================================
