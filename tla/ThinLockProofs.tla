--------------------------- MODULE ThinLockProofs ---------------------------
(***************************************************************************)
(* Proofs about ThinLock, for any number of threads and monitors, any      *)
(* width of the recursion count and any depth of nesting it can hold.      *)
(***************************************************************************)
EXTENDS ThinLock, TLAPS

-----------------------------------------------------------------------------
(* The inductive invariant                                                 *)

Locking ==
  {"l_own", "l_bump", "l_kind", "l_spin", "l_look", "l_cas", "l_fatten",
   "l_fat", "m_block", "m_own"}

\* The lock word is free, thin or fat, and a fat word names a listed monitor.
WordInv ==
  /\ IsFat(lock) => lock.mon \in monitorList /\ lock.tid = NoThread
  /\ lock.tid = NoThread => lock.count = 0

\* An owner holds the mutex, of the object's monitor or of the one it is about
\* to publish; without an owner there is no count; fresh monitors are unused.
MonInv ==
  \A m \in Monitors :
    /\ owner[m] # NoThread =>
         /\ mutex[m] = owner[m]
         /\ m = lock.mon \/ (pc[owner[m]] = "w_publish" /\ mon[owner[m]] = m)
    /\ owner[m] = NoThread => lockCount[m] = 0
    /\ m \notin monitorList => mutex[m] = NoThread

\* The steps between a load of the thin word and its store hold the thin lock.
ThinPart(t) ==
  /\ pc[t] \in {"l_bump", "u_free", "u_drop", "w_fatten", "w_publish",
                "l_fatten"} => lock.tid = t
  /\ pc[t] \in {"l_bump", "u_drop", "w_fatten", "w_publish"} =>
       temp[t] = lock.count
  /\ pc[t] = "u_free" => lock.count = 0
  /\ pc[t] \in {"u_kind", "u_thin", "u_drop"} /\ lock.tid = t =>
       lock.count > 0

\* Where a thread works on the monitor, and where it has its mutex.
FatPart(t) ==
  /\ pc[t] \in {"l_fat", "u_fat", "w_check"} => IsFat(lock)
  /\ pc[t] \in {"m_block", "m_own", "u_mutex", "w_loop", "w_sleep", "w_done"}
       => IsFat(lock) /\ mon[t] = lock.mon
  /\ pc[t] \in {"m_own", "u_mutex", "w_loop", "w_done"} =>
       mutex[mon[t]] = t /\ owner[mon[t]] = NoThread
  /\ pc[t] = "w_sleep" => owner[mon[t]] # t
  /\ pc[t] = "w_publish" =>
       /\ mon[t] \in monitorList
       /\ mutex[mon[t]] = t
       /\ owner[mon[t]] = t
       /\ lockCount[mon[t]] = temp[t]

\* The list of locked objects agrees with the lock, or with what a waiting
\* thread has saved.
TrackedPart(t) ==
  /\ lock.tid = t =>
       tracked[t] = IF pc[t] = "l_fatten" THEN 0 ELSE lock.count + 1
  /\ pc[t] = "l_fatten" => lock.count = 0
  /\ IsFat(lock) /\ owner[lock.mon] = t => tracked[t] = lockCount[lock.mon] + 1
  /\ Inside(t) => HoldsLock(t)
  /\ pc[t] \in {"w_loop", "w_sleep", "w_done"} => tracked[t] = temp[t] + 1
  /\ pc[t] = "u_mutex" => tracked[t] = 1
  /\ pc[t] \in Locking => tracked[t] < MaxDepth

\* Why a call that throws comes from a thread that does not hold the lock.
FailPart(t) ==
  /\ pc[t] = "u_thin" => ~(IsFat(lock) /\ owner[lock.mon] = t)
  /\ pc[t] \in {"w_thin", "w_check"} /\ tracked[t] > 0 /\ IsFat(lock) =>
       mon[t] = lock.mon
  /\ exception[t] => pc[t] = "idle" /\ tracked[t] = 0

ThreadInv(t) == ThinPart(t) /\ FatPart(t) /\ TrackedPart(t) /\ FailPart(t)

LockInv ==
  /\ TypeOK
  /\ WordInv
  /\ MonInv
  /\ \A t \in Threads : ThreadInv(t)

-----------------------------------------------------------------------------
\* The 16-bit count does not wrap below its modulus.
LEMMA ModSmall ==
  ASSUME NEW n \in Nat, n < CountMod
  PROVE  n % CountMod = n
  BY ConstantsAssumption

\* Nothing is locked, listed or in progress at the start.
LEMMA InitLockInv == Init => LockInv
<1> SUFFICES ASSUME Init
             PROVE  LockInv
  OBVIOUS
<1> USE ConstantsAssumption DEF Init, Free, IsFat
<1>1. TypeOK
  BY DEF TypeOK, Labels
<1>2. WordInv /\ MonInv
  BY DEF WordInv, MonInv
<1>3. ASSUME NEW t \in Threads
      PROVE  ThreadInv(t)
  BY DEF ThreadInv, ThinPart, FatPart, TrackedPart, FailPart, Inside,
         HoldsLock, Locking
<1> QED
  BY <1>1, <1>2, <1>3 DEF LockInv

-----------------------------------------------------------------------------
(* Every step preserves each part of the invariant.                        *)

\* A step keeps the variables in their types.
LEMMA TypeStep ==
  ASSUME MaxDepth <= CountMod, LockInv,
         NEW t \in Threads, Step(t)
  PROVE  TypeOK'
<1> USE ConstantsAssumption DEF LockInv, At, Goto, Free, Thin, Fat, IsFat,
     lockVars, monVars, TypeOK, Labels
<1>1. CASE LockObject(t)
  BY <1>1 DEF LockObject, Clear, AddToMonitorList
<1>2. CASE LockOwn(t)
  BY <1>2 DEF LockOwn
<1>3. CASE LockBump(t)
  BY <1>3, ModSmall DEF LockBump, AddToMonitorList
<1>4. CASE LockKind(t)
  BY <1>4 DEF LockKind, ChangeStatus
<1>5. CASE LockSpin(t)
  BY <1>5 DEF LockSpin
<1>6. CASE LockLook(t)
  BY <1>6 DEF LockLook, ChangeStatus
<1>7. CASE LockCas(t)
  BY <1>7 DEF LockCas, ChangeStatus
<1>8. CASE LockFatten(t)
  BY <1>8 DEF LockFatten
<1>9. CASE LockMonitor(t)
  BY <1>9 DEF LockMonitor, AddToMonitorList, ChangeStatus
<1>10. CASE LockMutex(t)
  <2>1. mon[t] \in Monitors
    BY <1>10 DEF LockMutex, ChangeStatus, WordInv, ThreadInv, FatPart
  <2> QED
    BY <1>10, <2>1 DEF LockMutex, ChangeStatus
<1>11. CASE LockSetOwner(t)
  <2>1. mon[t] \in Monitors
    BY <1>11 DEF LockSetOwner, AddToMonitorList, WordInv, ThreadInv, FatPart
  <2> QED
    BY <1>11, <2>1 DEF LockSetOwner, AddToMonitorList
<1>12. CASE UnlockObject(t)
  BY <1>12 DEF UnlockObject, Clear
<1>13. CASE UnlockFree(t)
  BY <1>13 DEF UnlockFree, RemoveFromMonitorList
<1>14. CASE UnlockKind(t)
  BY <1>14 DEF UnlockKind
<1>15. CASE UnlockThin(t)
  <2>1. exception' \in [Threads -> BOOLEAN]
    BY <1>15, Zenon DEF UnlockThin, Throw
  <2>2. TypeOK'
    BY <1>15, <2>1 DEF UnlockThin, Throw
  <2> QED
    BY <2>2
<1>16. CASE UnlockDrop(t)
  BY <1>16, ModSmall DEF UnlockDrop, RemoveFromMonitorList
<1>17. CASE UnlockMonitor(t)
  <2>1. exception' \in [Threads -> BOOLEAN]
    BY <1>17, Zenon DEF UnlockMonitor, Throw, RemoveFromMonitorList
  <2>2. lock.mon \in Monitors
    BY <1>17 DEF UnlockMonitor, Throw, RemoveFromMonitorList, WordInv,
       ThreadInv, FatPart
  <2>3. /\ owner' \in [Monitors -> Threads \union {NoThread}]
        /\ lockCount' \in [Monitors -> Nat]
    BY <1>17, <2>2 DEF UnlockMonitor, Throw, RemoveFromMonitorList
  <2>4. /\ pc' \in [Threads -> Labels]
        /\ mon' \in [Threads -> Monitors \union {NoMonitor}]
        /\ tracked' \in [Threads -> Nat]
    BY <1>17, <2>2 DEF UnlockMonitor, Throw, RemoveFromMonitorList
  <2> QED
    BY <1>17, <2>1, <2>3, <2>4 DEF UnlockMonitor
<1>18. CASE UnlockMutex(t)
  <2>1. mon[t] \in Monitors
    BY <1>18 DEF UnlockMutex, RemoveFromMonitorList, WordInv, ThreadInv,
       FatPart
  <2> QED
    BY <1>18, <2>1 DEF UnlockMutex, RemoveFromMonitorList
<1>19. CASE ObjectWait(t)
  BY <1>19 DEF ObjectWait, Clear
<1>20. CASE WaitThin(t)
  <2>1. exception' \in [Threads -> BOOLEAN]
    BY <1>20, Zenon DEF WaitThin, Throw
  <2>2. TypeOK'
    BY <1>20, <2>1 DEF WaitThin, Throw
  <2> QED
    BY <2>2
<1>21. CASE WaitFatten(t)
  BY <1>21 DEF WaitFatten, OwnNewMonitor
<1>22. CASE WaitPublish(t)
  BY <1>22 DEF WaitPublish
<1>23. CASE WaitCheck(t)
  <2>1. exception' \in [Threads -> BOOLEAN]
    BY <1>23, Zenon DEF WaitCheck, Throw, OwnsMon, Relinquish, ChangeStatus
  <2>2. TypeOK'
    BY <1>23, <2>1 DEF WaitCheck, Throw, OwnsMon, Relinquish, ChangeStatus
  <2> QED
    BY <2>2
<1>24. CASE WaitLoop(t)
  BY <1>24 DEF WaitLoop
<1>25. CASE WaitWake(t)
  <2>1. mon[t] \in Monitors
    BY <1>25 DEF WaitWake, WordInv, ThreadInv, FatPart
  <2> QED
    BY <1>25, <2>1 DEF WaitWake
<1>26. CASE WaitDone(t)
  <2>1. mon[t] \in Monitors
    BY <1>26 DEF WaitDone, ChangeStatus, WordInv, ThreadInv, FatPart
  <2> QED
    BY <1>26, <2>1 DEF WaitDone, ChangeStatus
<1> HIDE DEF LockInv, At, Goto, Free, Thin, Fat, IsFat, lockVars, monVars,
     TypeOK, Labels
<1> QED
  BY <1>1, <1>2, <1>3, <1>4, <1>5, <1>6, <1>7, <1>8, <1>9,
     <1>10, <1>11, <1>12, <1>13, <1>14, <1>15, <1>16, <1>17, <1>18, <1>19,
     <1>20, <1>21, <1>22, <1>23, <1>24, <1>25, <1>26 DEF Step

\* A step leaves a free, thin or fat lock word.
LEMMA WordStep ==
  ASSUME MaxDepth <= CountMod, LockInv,
         NEW t \in Threads, Step(t)
  PROVE  WordInv'
<1> USE ConstantsAssumption DEF LockInv, At, Goto, Free, Thin, Fat, IsFat,
     lockVars, monVars, TypeOK, WordInv, MonInv, ThreadInv, ThinPart,
     FatPart
<1>1. CASE LockObject(t)
  BY <1>1 DEF LockObject, Clear, AddToMonitorList
<1>2. CASE LockOwn(t)
  BY <1>2 DEF LockOwn
<1>3. CASE LockBump(t)
  BY <1>3, ModSmall DEF LockBump, AddToMonitorList
<1>4. CASE LockKind(t)
  BY <1>4 DEF LockKind, ChangeStatus
<1>5. CASE LockSpin(t)
  BY <1>5 DEF LockSpin
<1>6. CASE LockLook(t)
  BY <1>6 DEF LockLook, ChangeStatus
<1>7. CASE LockCas(t)
  BY <1>7 DEF LockCas, ChangeStatus
<1>8. CASE LockFatten(t)
  BY <1>8 DEF LockFatten
<1>9. CASE LockMonitor(t)
  BY <1>9 DEF LockMonitor, AddToMonitorList, ChangeStatus
<1>10. CASE LockMutex(t)
  BY <1>10 DEF LockMutex, ChangeStatus
<1>11. CASE LockSetOwner(t)
  BY <1>11 DEF LockSetOwner, AddToMonitorList
<1>12. CASE UnlockObject(t)
  BY <1>12 DEF UnlockObject, Clear
<1>13. CASE UnlockFree(t)
  BY <1>13 DEF UnlockFree, RemoveFromMonitorList
<1>14. CASE UnlockKind(t)
  BY <1>14 DEF UnlockKind
<1>15. CASE UnlockThin(t)
  BY <1>15 DEF UnlockThin, Throw
<1>16. CASE UnlockDrop(t)
  BY <1>16, ModSmall DEF UnlockDrop, RemoveFromMonitorList
<1>17. CASE UnlockMonitor(t)
  BY <1>17 DEF UnlockMonitor, Throw, RemoveFromMonitorList
<1>18. CASE UnlockMutex(t)
  BY <1>18 DEF UnlockMutex, RemoveFromMonitorList
<1>19. CASE ObjectWait(t)
  BY <1>19 DEF ObjectWait, Clear
<1>20. CASE WaitThin(t)
  BY <1>20 DEF WaitThin, Throw
<1>21. CASE WaitFatten(t)
  BY <1>21 DEF WaitFatten, OwnNewMonitor
<1>22. CASE WaitPublish(t)
  BY <1>22 DEF WaitPublish
<1>23. CASE WaitCheck(t)
  BY <1>23 DEF WaitCheck, Throw, OwnsMon, Relinquish, ChangeStatus
<1>24. CASE WaitLoop(t)
  BY <1>24 DEF WaitLoop
<1>25. CASE WaitWake(t)
  BY <1>25 DEF WaitWake
<1>26. CASE WaitDone(t)
  BY <1>26 DEF WaitDone, ChangeStatus
<1> HIDE DEF LockInv, At, Goto, Free, Thin, Fat, IsFat, lockVars, monVars,
     TypeOK, WordInv, MonInv, ThreadInv, ThinPart, FatPart
<1> QED
  BY <1>1, <1>2, <1>3, <1>4, <1>5, <1>6, <1>7, <1>8, <1>9,
     <1>10, <1>11, <1>12, <1>13, <1>14, <1>15, <1>16, <1>17, <1>18, <1>19,
     <1>20, <1>21, <1>22, <1>23, <1>24, <1>25, <1>26 DEF Step

\* A step leaves the monitors consistent: only the thread with the mutex
\* changes the owner.
LEMMA MonStep ==
  ASSUME MaxDepth <= CountMod, LockInv,
         NEW t \in Threads, Step(t)
  PROVE  MonInv'
<1> USE ConstantsAssumption DEF LockInv, At, Goto, Free, Thin, Fat, IsFat,
     lockVars, monVars, TypeOK, WordInv, MonInv, ThreadInv, ThinPart,
     FatPart
<1>1. CASE LockObject(t)
  BY <1>1 DEF LockObject, Clear, AddToMonitorList
<1>2. CASE LockOwn(t)
  BY <1>2 DEF LockOwn
<1>3. CASE LockBump(t)
  BY <1>3, ModSmall DEF LockBump, AddToMonitorList
<1>4. CASE LockKind(t)
  BY <1>4 DEF LockKind, ChangeStatus
<1>5. CASE LockSpin(t)
  BY <1>5 DEF LockSpin
<1>6. CASE LockLook(t)
  BY <1>6 DEF LockLook, ChangeStatus
<1>7. CASE LockCas(t)
  BY <1>7 DEF LockCas, ChangeStatus
<1>8. CASE LockFatten(t)
  BY <1>8 DEF LockFatten
<1>9. CASE LockMonitor(t)
  BY <1>9 DEF LockMonitor, AddToMonitorList, ChangeStatus
<1>10. CASE LockMutex(t)
  BY <1>10 DEF LockMutex, ChangeStatus
<1>11. CASE LockSetOwner(t)
  BY <1>11 DEF LockSetOwner, AddToMonitorList
<1>12. CASE UnlockObject(t)
  BY <1>12 DEF UnlockObject, Clear
<1>13. CASE UnlockFree(t)
  BY <1>13 DEF UnlockFree, RemoveFromMonitorList
<1>14. CASE UnlockKind(t)
  BY <1>14 DEF UnlockKind
<1>15. CASE UnlockThin(t)
  BY <1>15 DEF UnlockThin, Throw
<1>16. CASE UnlockDrop(t)
  BY <1>16, ModSmall DEF UnlockDrop, RemoveFromMonitorList
<1>17. CASE UnlockMonitor(t)
  BY <1>17 DEF UnlockMonitor, Throw, RemoveFromMonitorList
<1>18. CASE UnlockMutex(t)
  BY <1>18 DEF UnlockMutex, RemoveFromMonitorList
<1>19. CASE ObjectWait(t)
  BY <1>19 DEF ObjectWait, Clear
<1>20. CASE WaitThin(t)
  BY <1>20 DEF WaitThin, Throw
<1>21. CASE WaitFatten(t)
  BY <1>21 DEF WaitFatten, OwnNewMonitor
<1>22. CASE WaitPublish(t)
  BY <1>22 DEF WaitPublish
<1>23. CASE WaitCheck(t)
  BY <1>23 DEF WaitCheck, Throw, OwnsMon, Relinquish, ChangeStatus
<1>24. CASE WaitLoop(t)
  BY <1>24 DEF WaitLoop
<1>25. CASE WaitWake(t)
  BY <1>25 DEF WaitWake
<1>26. CASE WaitDone(t)
  BY <1>26 DEF WaitDone, ChangeStatus
<1> HIDE DEF LockInv, At, Goto, Free, Thin, Fat, IsFat, lockVars, monVars,
     TypeOK, WordInv, MonInv, ThreadInv, ThinPart, FatPart
<1> QED
  BY <1>1, <1>2, <1>3, <1>4, <1>5, <1>6, <1>7, <1>8, <1>9,
     <1>10, <1>11, <1>12, <1>13, <1>14, <1>15, <1>16, <1>17, <1>18, <1>19,
     <1>20, <1>21, <1>22, <1>23, <1>24, <1>25, <1>26 DEF Step

\* The holder of a thin lock finds the word as it read it, whatever another
\* thread does.
LEMMA ThinStep ==
  ASSUME MaxDepth <= CountMod, LockInv,
         NEW t \in Threads, NEW u \in Threads, Step(t)
  PROVE  ThinPart(u)'
<1> USE ConstantsAssumption DEF LockInv, At, Goto, Free, Thin, Fat, IsFat,
     lockVars, monVars, TypeOK, WordInv, MonInv, ThreadInv, ThinPart,
     FatPart, TrackedPart, Locking
<1>1. CASE LockObject(t)
  BY <1>1 DEF LockObject, Clear, AddToMonitorList
<1>2. CASE LockOwn(t)
  BY <1>2 DEF LockOwn
<1>3. CASE LockBump(t)
  BY <1>3, ModSmall DEF LockBump, AddToMonitorList
<1>4. CASE LockKind(t)
  BY <1>4 DEF LockKind, ChangeStatus
<1>5. CASE LockSpin(t)
  BY <1>5 DEF LockSpin
<1>6. CASE LockLook(t)
  BY <1>6 DEF LockLook, ChangeStatus
<1>7. CASE LockCas(t)
  BY <1>7 DEF LockCas, ChangeStatus
<1>8. CASE LockFatten(t)
  BY <1>8 DEF LockFatten
<1>9. CASE LockMonitor(t)
  BY <1>9 DEF LockMonitor, AddToMonitorList, ChangeStatus
<1>10. CASE LockMutex(t)
  BY <1>10 DEF LockMutex, ChangeStatus
<1>11. CASE LockSetOwner(t)
  BY <1>11 DEF LockSetOwner, AddToMonitorList
<1>12. CASE UnlockObject(t)
  BY <1>12 DEF UnlockObject, Clear
<1>13. CASE UnlockFree(t)
  BY <1>13 DEF UnlockFree, RemoveFromMonitorList
<1>14. CASE UnlockKind(t)
  BY <1>14 DEF UnlockKind
<1>15. CASE UnlockThin(t)
  BY <1>15 DEF UnlockThin, Throw
<1>16. CASE UnlockDrop(t)
  BY <1>16, ModSmall DEF UnlockDrop, RemoveFromMonitorList
<1>17. CASE UnlockMonitor(t)
  BY <1>17 DEF UnlockMonitor, Throw, RemoveFromMonitorList
<1>18. CASE UnlockMutex(t)
  BY <1>18 DEF UnlockMutex, RemoveFromMonitorList
<1>19. CASE ObjectWait(t)
  BY <1>19 DEF ObjectWait, Clear
<1>20. CASE WaitThin(t)
  BY <1>20 DEF WaitThin, Throw
<1>21. CASE WaitFatten(t)
  BY <1>21 DEF WaitFatten, OwnNewMonitor
<1>22. CASE WaitPublish(t)
  BY <1>22 DEF WaitPublish
<1>23. CASE WaitCheck(t)
  BY <1>23 DEF WaitCheck, Throw, OwnsMon, Relinquish, ChangeStatus
<1>24. CASE WaitLoop(t)
  BY <1>24 DEF WaitLoop
<1>25. CASE WaitWake(t)
  BY <1>25 DEF WaitWake
<1>26. CASE WaitDone(t)
  BY <1>26 DEF WaitDone, ChangeStatus
<1> HIDE DEF LockInv, At, Goto, Free, Thin, Fat, IsFat, lockVars, monVars,
     TypeOK, WordInv, MonInv, ThreadInv, ThinPart, FatPart, TrackedPart,
     Locking
<1> QED
  BY <1>1, <1>2, <1>3, <1>4, <1>5, <1>6, <1>7, <1>8, <1>9,
     <1>10, <1>11, <1>12, <1>13, <1>14, <1>15, <1>16, <1>17, <1>18, <1>19,
     <1>20, <1>21, <1>22, <1>23, <1>24, <1>25, <1>26 DEF Step

\* A thread that works on the monitor keeps it, and its mutex.
LEMMA FatStep ==
  ASSUME MaxDepth <= CountMod, LockInv,
         NEW t \in Threads, NEW u \in Threads, Step(t)
  PROVE  FatPart(u)'
<1> USE ConstantsAssumption DEF LockInv, At, Goto, Free, Thin, Fat, IsFat,
     lockVars, monVars, TypeOK, WordInv, MonInv, ThreadInv, ThinPart,
     FatPart
<1>1. CASE LockObject(t)
  BY <1>1 DEF LockObject, Clear, AddToMonitorList
<1>2. CASE LockOwn(t)
  BY <1>2 DEF LockOwn
<1>3. CASE LockBump(t)
  BY <1>3, ModSmall DEF LockBump, AddToMonitorList
<1>4. CASE LockKind(t)
  BY <1>4 DEF LockKind, ChangeStatus
<1>5. CASE LockSpin(t)
  BY <1>5 DEF LockSpin
<1>6. CASE LockLook(t)
  BY <1>6 DEF LockLook, ChangeStatus
<1>7. CASE LockCas(t)
  BY <1>7 DEF LockCas, ChangeStatus
<1>8. CASE LockFatten(t)
  BY <1>8 DEF LockFatten
<1>9. CASE LockMonitor(t)
  BY <1>9 DEF LockMonitor, AddToMonitorList, ChangeStatus
<1>10. CASE LockMutex(t)
  BY <1>10 DEF LockMutex, ChangeStatus
<1>11. CASE LockSetOwner(t)
  BY <1>11 DEF LockSetOwner, AddToMonitorList
<1>12. CASE UnlockObject(t)
  BY <1>12 DEF UnlockObject, Clear
<1>13. CASE UnlockFree(t)
  BY <1>13 DEF UnlockFree, RemoveFromMonitorList
<1>14. CASE UnlockKind(t)
  BY <1>14 DEF UnlockKind
<1>15. CASE UnlockThin(t)
  BY <1>15 DEF UnlockThin, Throw
<1>16. CASE UnlockDrop(t)
  BY <1>16, ModSmall DEF UnlockDrop, RemoveFromMonitorList
<1>17. CASE UnlockMonitor(t)
  BY <1>17 DEF UnlockMonitor, Throw, RemoveFromMonitorList
<1>18. CASE UnlockMutex(t)
  BY <1>18 DEF UnlockMutex, RemoveFromMonitorList
<1>19. CASE ObjectWait(t)
  BY <1>19 DEF ObjectWait, Clear
<1>20. CASE WaitThin(t)
  BY <1>20 DEF WaitThin, Throw
<1>21. CASE WaitFatten(t)
  BY <1>21 DEF WaitFatten, OwnNewMonitor
<1>22. CASE WaitPublish(t)
  BY <1>22 DEF WaitPublish
<1>23. CASE WaitCheck(t)
  BY <1>23 DEF WaitCheck, Throw, OwnsMon, Relinquish, ChangeStatus
<1>24. CASE WaitLoop(t)
  BY <1>24 DEF WaitLoop
<1>25. CASE WaitWake(t)
  BY <1>25 DEF WaitWake
<1>26. CASE WaitDone(t)
  BY <1>26 DEF WaitDone, ChangeStatus
<1> HIDE DEF LockInv, At, Goto, Free, Thin, Fat, IsFat, lockVars, monVars,
     TypeOK, WordInv, MonInv, ThreadInv, ThinPart, FatPart
<1> QED
  BY <1>1, <1>2, <1>3, <1>4, <1>5, <1>6, <1>7, <1>8, <1>9,
     <1>10, <1>11, <1>12, <1>13, <1>14, <1>15, <1>16, <1>17, <1>18, <1>19,
     <1>20, <1>21, <1>22, <1>23, <1>24, <1>25, <1>26 DEF Step

\* The list of locked objects keeps agreeing with the lock; this is where the
\* count must not wrap.
LEMMA TrackedStep ==
  ASSUME MaxDepth <= CountMod, LockInv,
         NEW t \in Threads, NEW u \in Threads, Step(t)
  PROVE  TrackedPart(u)'
<1> USE ConstantsAssumption DEF LockInv, At, Goto, Free, Thin, Fat, IsFat,
     lockVars, monVars, TypeOK, WordInv, MonInv, ThreadInv, ThinPart,
     FatPart, TrackedPart, Locking, Inside, HoldsLock, Leaving
<1>1. CASE LockObject(t)
  BY <1>1 DEF LockObject, Clear, AddToMonitorList
<1>2. CASE LockOwn(t)
  BY <1>2 DEF LockOwn
<1>3. CASE LockBump(t)
  BY <1>3, ModSmall DEF LockBump, AddToMonitorList
<1>4. CASE LockKind(t)
  BY <1>4 DEF LockKind, ChangeStatus
<1>5. CASE LockSpin(t)
  BY <1>5 DEF LockSpin
<1>6. CASE LockLook(t)
  BY <1>6 DEF LockLook, ChangeStatus
<1>7. CASE LockCas(t)
  BY <1>7 DEF LockCas, ChangeStatus
<1>8. CASE LockFatten(t)
  BY <1>8 DEF LockFatten
<1>9. CASE LockMonitor(t)
  BY <1>9 DEF LockMonitor, AddToMonitorList, ChangeStatus
<1>10. CASE LockMutex(t)
  BY <1>10 DEF LockMutex, ChangeStatus
<1>11. CASE LockSetOwner(t)
  BY <1>11 DEF LockSetOwner, AddToMonitorList
<1>12. CASE UnlockObject(t)
  BY <1>12 DEF UnlockObject, Clear
<1>13. CASE UnlockFree(t)
  BY <1>13 DEF UnlockFree, RemoveFromMonitorList
<1>14. CASE UnlockKind(t)
  BY <1>14 DEF UnlockKind
<1>15. CASE UnlockThin(t)
  BY <1>15 DEF UnlockThin, Throw
<1>16. CASE UnlockDrop(t)
  BY <1>16, ModSmall DEF UnlockDrop, RemoveFromMonitorList
<1>17. CASE UnlockMonitor(t)
  BY <1>17 DEF UnlockMonitor, Throw, RemoveFromMonitorList
<1>18. CASE UnlockMutex(t)
  BY <1>18 DEF UnlockMutex, RemoveFromMonitorList
<1>19. CASE ObjectWait(t)
  BY <1>19 DEF ObjectWait, Clear
<1>20. CASE WaitThin(t)
  BY <1>20 DEF WaitThin, Throw
<1>21. CASE WaitFatten(t)
  BY <1>21 DEF WaitFatten, OwnNewMonitor
<1>22. CASE WaitPublish(t)
  BY <1>22 DEF WaitPublish
<1>23. CASE WaitCheck(t)
  BY <1>23 DEF WaitCheck, Throw, OwnsMon, Relinquish, ChangeStatus
<1>24. CASE WaitLoop(t)
  BY <1>24 DEF WaitLoop
<1>25. CASE WaitWake(t)
  BY <1>25 DEF WaitWake
<1>26. CASE WaitDone(t)
  BY <1>26 DEF WaitDone, ChangeStatus
<1> HIDE DEF LockInv, At, Goto, Free, Thin, Fat, IsFat, lockVars, monVars,
     TypeOK, WordInv, MonInv, ThreadInv, ThinPart, FatPart, TrackedPart,
     Locking, Inside, HoldsLock, Leaving
<1> QED
  BY <1>1, <1>2, <1>3, <1>4, <1>5, <1>6, <1>7, <1>8, <1>9,
     <1>10, <1>11, <1>12, <1>13, <1>14, <1>15, <1>16, <1>17, <1>18, <1>19,
     <1>20, <1>21, <1>22, <1>23, <1>24, <1>25, <1>26 DEF Step

\* A step throws only for a thread outside.
LEMMA FailStep ==
  ASSUME MaxDepth <= CountMod, LockInv,
         NEW t \in Threads, NEW u \in Threads, Step(t)
  PROVE  FailPart(u)'
<1> USE ConstantsAssumption DEF LockInv, At, Goto, Free, Thin, Fat, IsFat,
     lockVars, monVars, TypeOK, WordInv, MonInv, ThreadInv, ThinPart,
     FatPart, TrackedPart, FailPart, Inside, HoldsLock, Leaving
<1>1. CASE LockObject(t)
  BY <1>1 DEF LockObject, Clear, AddToMonitorList
<1>2. CASE LockOwn(t)
  BY <1>2 DEF LockOwn
<1>3. CASE LockBump(t)
  BY <1>3, ModSmall DEF LockBump, AddToMonitorList
<1>4. CASE LockKind(t)
  BY <1>4 DEF LockKind, ChangeStatus
<1>5. CASE LockSpin(t)
  BY <1>5 DEF LockSpin
<1>6. CASE LockLook(t)
  BY <1>6 DEF LockLook, ChangeStatus
<1>7. CASE LockCas(t)
  BY <1>7 DEF LockCas, ChangeStatus
<1>8. CASE LockFatten(t)
  BY <1>8 DEF LockFatten
<1>9. CASE LockMonitor(t)
  BY <1>9 DEF LockMonitor, AddToMonitorList, ChangeStatus
<1>10. CASE LockMutex(t)
  BY <1>10 DEF LockMutex, ChangeStatus
<1>11. CASE LockSetOwner(t)
  BY <1>11 DEF LockSetOwner, AddToMonitorList
<1>12. CASE UnlockObject(t)
  BY <1>12 DEF UnlockObject, Clear
<1>13. CASE UnlockFree(t)
  BY <1>13 DEF UnlockFree, RemoveFromMonitorList
<1>14. CASE UnlockKind(t)
  BY <1>14 DEF UnlockKind
<1>15. CASE UnlockThin(t)
  BY <1>15 DEF UnlockThin, Throw
<1>16. CASE UnlockDrop(t)
  BY <1>16, ModSmall DEF UnlockDrop, RemoveFromMonitorList
<1>17. CASE UnlockMonitor(t)
  BY <1>17 DEF UnlockMonitor, Throw, RemoveFromMonitorList
<1>18. CASE UnlockMutex(t)
  BY <1>18 DEF UnlockMutex, RemoveFromMonitorList
<1>19. CASE ObjectWait(t)
  BY <1>19 DEF ObjectWait, Clear
<1>20. CASE WaitThin(t)
  BY <1>20 DEF WaitThin, Throw
<1>21. CASE WaitFatten(t)
  BY <1>21 DEF WaitFatten, OwnNewMonitor
<1>22. CASE WaitPublish(t)
  BY <1>22 DEF WaitPublish
<1>23. CASE WaitCheck(t)
  BY <1>23 DEF WaitCheck, Throw, OwnsMon, Relinquish, ChangeStatus
<1>24. CASE WaitLoop(t)
  BY <1>24 DEF WaitLoop
<1>25. CASE WaitWake(t)
  BY <1>25 DEF WaitWake
<1>26. CASE WaitDone(t)
  BY <1>26 DEF WaitDone, ChangeStatus
<1> HIDE DEF LockInv, At, Goto, Free, Thin, Fat, IsFat, lockVars, monVars,
     TypeOK, WordInv, MonInv, ThreadInv, ThinPart, FatPart, TrackedPart,
     FailPart, Inside, HoldsLock, Leaving
<1> QED
  BY <1>1, <1>2, <1>3, <1>4, <1>5, <1>6, <1>7, <1>8, <1>9,
     <1>10, <1>11, <1>12, <1>13, <1>14, <1>15, <1>16, <1>17, <1>18, <1>19,
     <1>20, <1>21, <1>22, <1>23, <1>24, <1>25, <1>26 DEF Step

\* The invariant is inductive.
LEMMA NextLockInv ==
  ASSUME MaxDepth <= CountMod, LockInv, [Next]_vars
  PROVE  LockInv'
<1>1. CASE UNCHANGED vars
  <2> USE <1>1 DEF vars, LockInv
  <2>1. TypeOK'
    BY DEF TypeOK
  <2>2. WordInv' /\ MonInv'
    BY DEF WordInv, MonInv, IsFat
  <2>3. ASSUME NEW u \in Threads
        PROVE  ThreadInv(u)'
    <3> USE DEF ThreadInv
    <3>1. ThinPart(u)' /\ FailPart(u)'
      BY DEF ThinPart, FailPart, IsFat
    <3>2. FatPart(u)'
      BY DEF FatPart, IsFat
    <3>3. TrackedPart(u)'
      BY DEF TrackedPart, Inside, HoldsLock, IsFat
    <3> QED BY <3>1, <3>2, <3>3
  <2> QED
    BY <2>1, <2>2, <2>3
<1>2. ASSUME NEW t \in Threads, Step(t)
      PROVE  LockInv'
  <2>1. TypeOK' /\ WordInv' /\ MonInv'
    BY <1>2, TypeStep, WordStep, MonStep
  <2>2. ASSUME NEW u \in Threads
        PROVE  ThreadInv(u)'
    BY <1>2, ThinStep, FatStep, TrackedStep, FailStep DEF ThreadInv
  <2> QED
    BY <2>1, <2>2 DEF LockInv
<1> QED
  BY <1>1, <1>2 DEF Next

\* The invariant implies the safety properties of module ThinLock.
LEMMA LockInvImplies ==
  ASSUME LockInv
  PROVE  /\ TypeOK
         /\ DepthIsTracked
         /\ MutualExclusion
         /\ OnlyOutsidersFail
         /\ FreshOwnerFindsZero
<1> USE ConstantsAssumption DEF LockInv
<1>1. DepthIsTracked
  BY DEF TypeOK, WordInv, ThreadInv, ThinPart, TrackedPart, DepthIsTracked,
         Depth, HoldsLock, Inside, IsFat
<1>2. MutualExclusion
  BY <1>1 DEF TypeOK, DepthIsTracked, MutualExclusion, HoldsLock
<1>3. OnlyOutsidersFail
  BY DEF ThreadInv, FailPart, OnlyOutsidersFail
<1>4. FreshOwnerFindsZero
  BY DEF TypeOK, WordInv, MonInv, ThreadInv, FatPart, FreshOwnerFindsZero, At,
         IsFat
<1> QED
  BY <1>1, <1>2, <1>3, <1>4

\* LockInv holds throughout every behaviour of the lock whose nesting the
\* count of a thin lock can hold.
THEOREM Invariance ==
  ASSUME MaxDepth <= CountMod
  PROVE  Spec => []LockInv
<1>1. LockInv /\ [Next]_vars => LockInv'
  BY NextLockInv
<1> QED
  BY InitLockInv, <1>1, PTL DEF Spec

\* The lock word, the monitors and the locals of dvmLockObject, dvmUnlockObject
\* and dvmObjectWait keep their types.
THEOREM TypeCorrectness ==
  ASSUME MaxDepth <= CountMod
  PROVE  Spec => []TypeOK
<1>1. LockInv => TypeOK
  BY LockInvImplies
<1> QED
  BY <1>1, Invariance, PTL

\* Never are two threads inside synchronized regions of the object, for any
\* number of threads: dvmLockObject excludes them through thin, fat and just
\* fattened locks alike.
THEOREM Mutex ==
  ASSUME MaxDepth <= CountMod
  PROVE  Spec => []MutualExclusion
<1>1. LockInv => MutualExclusion
  BY LockInvImplies
<1> QED
  BY <1>1, Invariance, PTL

\* A thread inside holds the lock exactly as deep as it entered; fattening in
\* dvmObjectWait and the wait itself lose no recursion.
THEOREM DepthPreserved ==
  ASSUME MaxDepth <= CountMod
  PROVE  Spec => []DepthIsTracked
<1>1. LockInv => DepthIsTracked
  BY LockInvImplies
<1> QED
  BY <1>1, Invariance, PTL

\* IllegalMonitorStateException reaches only threads that do not hold the lock,
\* although dvmObjectWait loads the lock word twice.
THEOREM FailuresAreOutside ==
  ASSUME MaxDepth <= CountMod
  PROVE  Spec => []OnlyOutsidersFail
<1>1. LockInv => OnlyOutsidersFail
  BY LockInvImplies
<1> QED
  BY <1>1, Invariance, PTL

\* The assertion of lockMonitor on the recursion count never fails.
THEOREM FreshOwner ==
  ASSUME MaxDepth <= CountMod
  PROVE  Spec => []FreshOwnerFindsZero
<1>1. LockInv => FreshOwnerFindsZero
  BY LockInvImplies
<1> QED
  BY <1>1, Invariance, PTL

-----------------------------------------------------------------------------
(* Action properties                                                       *)

\* No step changes a fat lock word.
LEMMA FatForeverStep ==
  ASSUME MaxDepth <= CountMod, LockInv,
         NEW t \in Threads, Step(t)
  PROVE  IsFat(lock) => UNCHANGED lock
<1> USE ConstantsAssumption DEF LockInv, At, Goto, Free, Thin, Fat, IsFat,
     lockVars, monVars, TypeOK, WordInv, ThreadInv, ThinPart
<1>1. CASE LockObject(t)
  BY <1>1 DEF LockObject, Clear, AddToMonitorList
<1>2. CASE LockOwn(t)
  BY <1>2 DEF LockOwn
<1>3. CASE LockBump(t)
  BY <1>3, ModSmall DEF LockBump, AddToMonitorList
<1>4. CASE LockKind(t)
  BY <1>4 DEF LockKind, ChangeStatus
<1>5. CASE LockSpin(t)
  BY <1>5 DEF LockSpin
<1>6. CASE LockLook(t)
  BY <1>6 DEF LockLook, ChangeStatus
<1>7. CASE LockCas(t)
  BY <1>7 DEF LockCas, ChangeStatus
<1>8. CASE LockFatten(t)
  BY <1>8 DEF LockFatten
<1>9. CASE LockMonitor(t)
  BY <1>9 DEF LockMonitor, AddToMonitorList, ChangeStatus
<1>10. CASE LockMutex(t)
  BY <1>10 DEF LockMutex, ChangeStatus
<1>11. CASE LockSetOwner(t)
  BY <1>11 DEF LockSetOwner, AddToMonitorList
<1>12. CASE UnlockObject(t)
  BY <1>12 DEF UnlockObject, Clear
<1>13. CASE UnlockFree(t)
  BY <1>13 DEF UnlockFree, RemoveFromMonitorList
<1>14. CASE UnlockKind(t)
  BY <1>14 DEF UnlockKind
<1>15. CASE UnlockThin(t)
  BY <1>15 DEF UnlockThin, Throw
<1>16. CASE UnlockDrop(t)
  BY <1>16, ModSmall DEF UnlockDrop, RemoveFromMonitorList
<1>17. CASE UnlockMonitor(t)
  BY <1>17 DEF UnlockMonitor, Throw, RemoveFromMonitorList
<1>18. CASE UnlockMutex(t)
  BY <1>18 DEF UnlockMutex, RemoveFromMonitorList
<1>19. CASE ObjectWait(t)
  BY <1>19 DEF ObjectWait, Clear
<1>20. CASE WaitThin(t)
  BY <1>20 DEF WaitThin, Throw
<1>21. CASE WaitFatten(t)
  BY <1>21 DEF WaitFatten, OwnNewMonitor
<1>22. CASE WaitPublish(t)
  BY <1>22 DEF WaitPublish
<1>23. CASE WaitCheck(t)
  BY <1>23 DEF WaitCheck, Throw, OwnsMon, Relinquish, ChangeStatus
<1>24. CASE WaitLoop(t)
  BY <1>24 DEF WaitLoop
<1>25. CASE WaitWake(t)
  BY <1>25 DEF WaitWake
<1>26. CASE WaitDone(t)
  BY <1>26 DEF WaitDone, ChangeStatus
<1> HIDE DEF LockInv, At, Goto, Free, Thin, Fat, IsFat, lockVars, monVars,
     TypeOK, WordInv, ThreadInv, ThinPart
<1> QED
  BY <1>1, <1>2, <1>3, <1>4, <1>5, <1>6, <1>7, <1>8, <1>9,
     <1>10, <1>11, <1>12, <1>13, <1>14, <1>15, <1>16, <1>17, <1>18, <1>19,
     <1>20, <1>21, <1>22, <1>23, <1>24, <1>25, <1>26 DEF Step

\* A step that changes a held thin word is a step of its holder.
LEMMA HolderStep ==
  ASSUME MaxDepth <= CountMod, LockInv,
         NEW t \in Threads, NEW u \in Threads, lock.tid = u, lock' # lock,
         Step(t)
  PROVE  pc'[u] # pc[u]
<1> USE ConstantsAssumption DEF LockInv, At, Goto, Free, Thin, Fat, IsFat,
     lockVars, monVars, TypeOK, WordInv, ThreadInv, ThinPart
<1>1. CASE LockObject(t)
  BY <1>1 DEF LockObject, Clear, AddToMonitorList
<1>2. CASE LockOwn(t)
  BY <1>2 DEF LockOwn
<1>3. CASE LockBump(t)
  BY <1>3, ModSmall DEF LockBump, AddToMonitorList
<1>4. CASE LockKind(t)
  BY <1>4 DEF LockKind, ChangeStatus
<1>5. CASE LockSpin(t)
  BY <1>5 DEF LockSpin
<1>6. CASE LockLook(t)
  BY <1>6 DEF LockLook, ChangeStatus
<1>7. CASE LockCas(t)
  BY <1>7 DEF LockCas, ChangeStatus
<1>8. CASE LockFatten(t)
  BY <1>8 DEF LockFatten
<1>9. CASE LockMonitor(t)
  BY <1>9 DEF LockMonitor, AddToMonitorList, ChangeStatus
<1>10. CASE LockMutex(t)
  BY <1>10 DEF LockMutex, ChangeStatus
<1>11. CASE LockSetOwner(t)
  BY <1>11 DEF LockSetOwner, AddToMonitorList
<1>12. CASE UnlockObject(t)
  BY <1>12 DEF UnlockObject, Clear
<1>13. CASE UnlockFree(t)
  BY <1>13 DEF UnlockFree, RemoveFromMonitorList
<1>14. CASE UnlockKind(t)
  BY <1>14 DEF UnlockKind
<1>15. CASE UnlockThin(t)
  BY <1>15 DEF UnlockThin, Throw
<1>16. CASE UnlockDrop(t)
  BY <1>16, ModSmall DEF UnlockDrop, RemoveFromMonitorList
<1>17. CASE UnlockMonitor(t)
  BY <1>17 DEF UnlockMonitor, Throw, RemoveFromMonitorList
<1>18. CASE UnlockMutex(t)
  BY <1>18 DEF UnlockMutex, RemoveFromMonitorList
<1>19. CASE ObjectWait(t)
  BY <1>19 DEF ObjectWait, Clear
<1>20. CASE WaitThin(t)
  BY <1>20 DEF WaitThin, Throw
<1>21. CASE WaitFatten(t)
  BY <1>21 DEF WaitFatten, OwnNewMonitor
<1>22. CASE WaitPublish(t)
  BY <1>22 DEF WaitPublish
<1>23. CASE WaitCheck(t)
  BY <1>23 DEF WaitCheck, Throw, OwnsMon, Relinquish, ChangeStatus
<1>24. CASE WaitLoop(t)
  BY <1>24 DEF WaitLoop
<1>25. CASE WaitWake(t)
  BY <1>25 DEF WaitWake
<1>26. CASE WaitDone(t)
  BY <1>26 DEF WaitDone, ChangeStatus
<1> HIDE DEF LockInv, At, Goto, Free, Thin, Fat, IsFat, lockVars, monVars,
     TypeOK, WordInv, ThreadInv, ThinPart
<1> QED
  BY <1>1, <1>2, <1>3, <1>4, <1>5, <1>6, <1>7, <1>8, <1>9,
     <1>10, <1>11, <1>12, <1>13, <1>14, <1>15, <1>16, <1>17, <1>18, <1>19,
     <1>20, <1>21, <1>22, <1>23, <1>24, <1>25, <1>26 DEF Step

\* A fat lock stays fat and keeps its monitor: a thread blocked in lockMonitor
\* is blocked on the monitor the object has.
THEOREM FatLocksStay ==
  ASSUME MaxDepth <= CountMod
  PROVE  Spec => FatForever
<1>1. ASSUME LockInv, [Next]_vars
      PROVE  [IsFat(lock) => UNCHANGED lock]_vars
  BY <1>1, FatForeverStep DEF Next
<1> QED
  BY <1>1, Invariance, PTL DEF Spec, FatForever

\* While a thread holds the thin lock nobody else stores into the lock word,
\* which is what makes the plain stores of Sync.c:746 and Sync.c:913 safe.
THEOREM HolderWrites ==
  ASSUME MaxDepth <= CountMod
  PROVE  Spec => OnlyHolderWrites
<1>1. ASSUME LockInv, [Next]_vars
      PROVE  [ByHolder]_vars
  BY <1>1, HolderStep DEF Next, ByHolder
<1> QED
  BY <1>1, Invariance, PTL DEF Spec, OnlyHolderWrites

-----------------------------------------------------------------------------
(* ThinLock implements JavaLock                                           *)

\* What the abstract lock does not see.
Invisible == UNCHANGED <<Holder, HeldDepth, SavedDepth, exception>>

\* A thread that is not waiting, and does not start to, leaves alone what the
\* waiting threads have saved.
LEMMA SavedStays ==
  ASSUME TypeOK, NEW t \in Threads, NEW l, pc' = [pc EXCEPT ![t] = l],
         {pc[t], l} \cap {"w_loop", "w_sleep", "w_done"} = {},
         \A u \in Threads : u # t => temp'[u] = temp[u]
  PROVE  SavedDepth[t] = 0 /\ UNCHANGED SavedDepth
BY DEF TypeOK, SavedDepth, Leaving

\* Every step of the lock word is a call, an entry, an exit, a failure, or a
\* giving up or taking back of the abstract lock, or is invisible to it.
LEMMA AbstractStep ==
  ASSUME MaxDepth <= CountMod, LockInv, NEW t \in Threads, Step(t)
  PROVE  JavaLock!Next \/ Invisible
<1>t. TypeOK /\ WordInv
  BY DEF LockInv
<1>p. ThinPart(t) /\ FatPart(t)
  BY DEF LockInv, ThreadInv
<1>k. TrackedPart(t)
  BY DEF LockInv, ThreadInv
<1>f. FailPart(t)
  BY DEF LockInv, ThreadInv
<1>m. MonInv
  BY DEF LockInv
<1>1. CASE LockObject(t)
  <2>1. JavaLock!Enter(t) \/ JavaLock!Call(t)
    BY <1>1, <1>t, ConstantsAssumption DEF LockObject, Clear,
       AddToMonitorList, JavaLock!Enter, JavaLock!Call, At, Goto, IsFat,
       lockVars, monVars, TypeOK, Holder, HeldDepth, SavedDepth, Depth,
       Leaving, Invisible, WordInv, Free, Thin, Fat
  <2> QED
    BY <2>1 DEF JavaLock!Next
<1>2. CASE LockOwn(t)
  BY <1>2, <1>t DEF LockOwn, At, Goto, IsFat, lockVars, monVars, TypeOK,
     Holder, HeldDepth, SavedDepth, Depth, Leaving, Invisible, WordInv
<1>3. CASE LockBump(t)
  <2>1. /\ pc[t] = "l_bump" /\ pc' = [pc EXCEPT ![t] = "idle"]
        /\ UNCHANGED <<temp, exception>>
        /\ lock' = Thin(t, (temp[t] + 1) % CountMod)
    BY <1>3 DEF LockBump, AddToMonitorList, Goto, At
  <2>2. PICK n \in Nat : n = temp[t]
    BY <1>t DEF TypeOK
  <2>3. lock.tid = t /\ lock.count = n /\ t # NoThread
    BY <1>p, <2>1, <2>2, ConstantsAssumption DEF ThinPart
  <2>4. n + 1 < MaxDepth
    BY <1>k, <2>1, <2>3 DEF TrackedPart, Locking
  <2>5. n + 1 < CountMod
    BY <2>4, ConstantsAssumption
  <2>6. lock' = Thin(t, n + 1)
    BY <2>1, <2>2, <2>5, ModSmall
  <2>7. ~IsFat(lock) /\ ~IsFat(lock')
    BY <1>t, <2>3, <2>6 DEF WordInv, IsFat, Thin
  <2>8. Holder = t /\ Holder' = t
    BY <2>1, <2>3, <2>6, <2>7 DEF Holder, Thin
  <2>9. HeldDepth' = HeldDepth + 1
    BY <2>3, <2>6, <2>7, <2>8 DEF HeldDepth, Depth, Thin
  <2>10. exception = [exception EXCEPT ![t] = FALSE]
    BY <1>t, <1>f, <2>1 DEF TypeOK, FailPart
  <2>11. SavedDepth[t] = 0 /\ UNCHANGED SavedDepth
    BY <1>t, <2>1, SavedStays
  <2>12. JavaLock!Enter(t)
    BY <2>1, <2>8, <2>9, <2>10, <2>11 DEF JavaLock!Enter
  <2> QED
    BY <2>12 DEF JavaLock!Next
<1>4. CASE LockKind(t)
  BY <1>4, <1>t DEF LockKind, ChangeStatus, At, Goto, IsFat, lockVars,
     monVars, TypeOK, Holder, HeldDepth, SavedDepth, Depth, Leaving,
     Invisible, WordInv
<1>5. CASE LockSpin(t)
  BY <1>5, <1>t DEF LockSpin, At, Goto, IsFat, lockVars, monVars, TypeOK,
     Holder, HeldDepth, SavedDepth, Depth, Leaving, Invisible, WordInv
<1>6. CASE LockLook(t)
  BY <1>6, <1>t DEF LockLook, ChangeStatus, At, Goto, IsFat, lockVars,
     monVars, TypeOK, Holder, HeldDepth, SavedDepth, Depth, Leaving,
     Invisible, WordInv
<1>7. CASE LockCas(t)
  BY <1>7, <1>t, ConstantsAssumption DEF LockCas, ChangeStatus, At, Goto,
     IsFat, lockVars, monVars, TypeOK, Holder, HeldDepth, SavedDepth, Depth,
     Leaving, Invisible, WordInv, Free, Thin, Fat
<1>8. CASE LockFatten(t)
  <2>1. PICK m \in Monitors \ monitorList : lock' = Fat(m)
    BY <1>8 DEF LockFatten
  <2>2. /\ pc[t] = "l_fatten" /\ pc' = [pc EXCEPT ![t] = "l_fat"]
        /\ UNCHANGED <<owner, lockCount, temp, exception>>
    BY <1>8 DEF LockFatten, At, Goto, monVars
  <2>3. SavedDepth[t] = 0 /\ UNCHANGED SavedDepth
    BY <1>t, <2>2, SavedStays
  <2> QED
    BY <1>8, <1>t, <1>p, <1>m, <2>1, <2>2, <2>3, ConstantsAssumption
       DEF IsFat, TypeOK, Holder, HeldDepth, Depth, Invisible, WordInv,
       ThinPart, MonInv, Fat
<1>9. CASE LockMonitor(t)
  <2>1. PICK l \in {"idle", "m_own", "m_block"} : pc' = [pc EXCEPT ![t] = l]
    BY <1>9 DEF LockMonitor, AddToMonitorList, Goto
  <2>2. pc[t] = "l_fat" /\ UNCHANGED <<lock, owner, temp, exception>> /\ IsFat(lock)
    BY <1>9, <1>p DEF LockMonitor, At, lockVars, FatPart
  <2>3. SavedDepth[t] = 0 /\ UNCHANGED SavedDepth
    BY <1>t, <2>1, <2>2, SavedStays
  <2>4. Holder = owner[lock.mon] /\ UNCHANGED Holder
    BY <2>2 DEF Holder, IsFat
  <2>5. lock.mon \in Monitors /\ lockCount \in [Monitors -> Nat] /\ t # NoThread
    BY <1>t, <2>2, ConstantsAssumption DEF TypeOK, IsFat
  <2>6. CASE owner[lock.mon] = t /\ lockCount' = [lockCount EXCEPT ![lock.mon] = @ + 1]
    <3>1. HeldDepth' = HeldDepth + 1
      BY <2>2, <2>4, <2>5, <2>6 DEF HeldDepth, Depth, IsFat
    <3>2. exception = [exception EXCEPT ![t] = FALSE]
      BY <1>t, <1>f, <2>2 DEF TypeOK, FailPart
    <3>3. JavaLock!Enter(t)
      BY <2>2, <2>3, <2>4, <2>6, <3>1, <3>2 DEF JavaLock!Enter
    <3> QED BY <3>3 DEF JavaLock!Next
  <2>7. CASE UNCHANGED lockCount
    BY <2>2, <2>3, <2>4, <2>7 DEF HeldDepth, Depth, IsFat, Invisible
  <2> QED
    BY <1>9, <2>6, <2>7 DEF LockMonitor
<1>10. CASE LockMutex(t)
  BY <1>10, <1>t DEF LockMutex, ChangeStatus, At, Goto, IsFat, lockVars,
     monVars, TypeOK, Holder, HeldDepth, SavedDepth, Depth, Leaving,
     Invisible, WordInv
<1>11. CASE LockSetOwner(t)
  <2>1. /\ pc[t] = "m_own" /\ pc' = [pc EXCEPT ![t] = "idle"]
        /\ owner' = [owner EXCEPT ![mon[t]] = t]
        /\ UNCHANGED <<lock, lockCount, temp, exception>>
    BY <1>11 DEF LockSetOwner, AddToMonitorList, At, Goto, lockVars
  <2>2. SavedDepth[t] = 0 /\ UNCHANGED SavedDepth
    BY <1>t, <2>1, SavedStays
  <2>3. exception = [exception EXCEPT ![t] = FALSE]
    BY <1>t, <1>f, <2>1 DEF TypeOK, FailPart
  <2>4. /\ IsFat(lock) /\ mon[t] = lock.mon /\ owner[lock.mon] = NoThread
        /\ lock.mon \in Monitors /\ lockCount[lock.mon] = 0
    BY <1>t, <1>p, <1>m, <2>1, ConstantsAssumption
       DEF TypeOK, FatPart, MonInv, WordInv, IsFat
  <2>5. JavaLock!Enter(t)
    BY <1>t, <2>1, <2>2, <2>3, <2>4, ConstantsAssumption
       DEF JavaLock!Enter, TypeOK, IsFat, Holder, HeldDepth, Depth
  <2> QED
    BY <2>5 DEF JavaLock!Next
<1>12. CASE UnlockObject(t)
  <2>1. JavaLock!Call(t)
    BY <1>12, <1>t DEF UnlockObject, Clear, JavaLock!Call, At, Goto, IsFat,
       lockVars, monVars, TypeOK, Holder, HeldDepth, SavedDepth, Depth,
       Leaving, Invisible, WordInv
  <2> QED
    BY <2>1 DEF JavaLock!Next
<1>13. CASE UnlockFree(t)
  <2>1. /\ pc[t] = "u_free" /\ pc' = [pc EXCEPT ![t] = "idle"]
        /\ lock' = Free
        /\ UNCHANGED <<temp, exception>>
    BY <1>13 DEF UnlockFree, RemoveFromMonitorList, At, Goto
  <2>2. UNCHANGED SavedDepth
    BY <1>t, <2>1, SavedStays
  <2>3. ~IsFat(lock) /\ lock.tid = t /\ lock.count = 0 /\ t # NoThread
    BY <1>t, <1>p, <2>1, ConstantsAssumption DEF WordInv, ThinPart
  <2>4. Holder = t /\ HeldDepth = 1
    BY <2>1, <2>3 DEF Holder, HeldDepth, Depth
  <2>5. Holder' = NoThread /\ HeldDepth' = 0
    BY <2>1 DEF Holder, HeldDepth, IsFat, Free
  <2>6. JavaLock!Exit(t)
    BY <2>1, <2>2, <2>4, <2>5 DEF JavaLock!Exit
  <2> QED
    BY <2>6 DEF JavaLock!Next
<1>14. CASE UnlockKind(t)
  BY <1>14, <1>t DEF UnlockKind, At, Goto, IsFat, lockVars, monVars, TypeOK,
     Holder, HeldDepth, SavedDepth, Depth, Leaving, Invisible, WordInv
<1>15. CASE UnlockThin(t)
  <2>1. JavaLock!Fail(t) \/ Invisible
    BY <1>15, <1>t, <1>f, ConstantsAssumption DEF UnlockThin, Throw,
       JavaLock!Fail, At, Goto, IsFat, lockVars, monVars, TypeOK, Holder,
       HeldDepth, SavedDepth, Depth, Leaving, Invisible, WordInv, FailPart,
       Free, Thin, Fat
  <2> QED
    BY <2>1 DEF JavaLock!Next
<1>16. CASE UnlockDrop(t)
  <2>1. /\ pc[t] = "u_drop" /\ pc' = [pc EXCEPT ![t] = "idle"]
        /\ lock' = Thin(t, (temp[t] - 1) % CountMod)
        /\ UNCHANGED <<temp, exception>>
    BY <1>16 DEF UnlockDrop, RemoveFromMonitorList, At, Goto
  <2>2. UNCHANGED SavedDepth
    BY <1>t, <2>1, SavedStays
  <2>3. PICK n \in Nat \ {0} : n = temp[t] /\ n < CountMod
    BY <1>t, <1>p, <2>1, ConstantsAssumption DEF TypeOK, ThinPart
  <2>4. lock' = Thin(t, n - 1)
    BY <2>1, <2>3, ModSmall, ConstantsAssumption
  <2>5. ~IsFat(lock) /\ lock.tid = t /\ lock.count = n /\ t # NoThread
    BY <1>t, <1>p, <2>1, <2>3, ConstantsAssumption DEF WordInv, ThinPart
  <2>6. Holder = t /\ HeldDepth = n + 1
    BY <2>1, <2>5 DEF Holder, HeldDepth, Depth
  <2>7. pc'[t] = "idle" /\ ~IsFat(lock')
    BY <1>t, <2>1, <2>4 DEF TypeOK, IsFat, Thin
  <2>8. Holder' = t /\ HeldDepth' = n
    BY <2>3, <2>4, <2>5, <2>7 DEF Holder, HeldDepth, Depth, Thin
  <2>9. JavaLock!Exit(t)
    BY <2>1, <2>2, <2>3, <2>5, <2>6, <2>8 DEF JavaLock!Exit
  <2> QED
    BY <2>9 DEF JavaLock!Next
<1>17. CASE UnlockMonitor(t)
  <2>1. PICK l \in {"idle", "u_mutex"} : pc' = [pc EXCEPT ![t] = l]
    BY <1>17 DEF UnlockMonitor, Throw, RemoveFromMonitorList, Goto
  <2>2. pc[t] = "u_fat" /\ UNCHANGED <<lock, temp>> /\ IsFat(lock)
    BY <1>17, <1>p DEF UnlockMonitor, At, lockVars, FatPart
  <2>3. UNCHANGED SavedDepth
    BY <1>t, <2>1, <2>2, SavedStays
  <2>4. /\ lock.mon \in Monitors /\ lockCount \in [Monitors -> Nat] /\ t # NoThread
        /\ owner \in [Monitors -> Threads \union {NoThread}]
    BY <1>t, <2>2, ConstantsAssumption DEF TypeOK, IsFat
  <2>5. Holder = owner[lock.mon] /\ Holder' = owner'[lock.mon]
    BY <2>2 DEF Holder, IsFat
  <2>6. /\ HeldDepth = IF Holder = NoThread THEN 0 ELSE lockCount[lock.mon] + 1
        /\ HeldDepth' = IF Holder' = NoThread THEN 0 ELSE lockCount'[lock.mon] + 1
    BY <2>2 DEF HeldDepth, Depth, IsFat
  <2>7. CASE owner[lock.mon] # t /\ Throw(t) /\ UNCHANGED <<owner, lockCount>>
    <3>1. JavaLock!Fail(t)
      BY <2>2, <2>3, <2>5, <2>6, <2>7 DEF Throw, JavaLock!Fail
    <3> QED BY <3>1 DEF JavaLock!Next
  <2>8. CASE /\ owner[lock.mon] = t /\ lockCount[lock.mon] = 0
             /\ owner' = [owner EXCEPT ![lock.mon] = NoThread] /\ UNCHANGED exception
    <3>1. JavaLock!Exit(t)
      BY <2>2, <2>3, <2>4, <2>5, <2>6, <2>8 DEF JavaLock!Exit
    <3> QED BY <3>1 DEF JavaLock!Next
  <2>9. CASE /\ owner[lock.mon] = t /\ lockCount[lock.mon] # 0
             /\ lockCount' = [lockCount EXCEPT ![lock.mon] = @ - 1]
             /\ UNCHANGED <<owner, exception>>
    <3>1. JavaLock!Exit(t)
      BY <2>2, <2>3, <2>4, <2>5, <2>6, <2>9 DEF JavaLock!Exit
    <3> QED BY <3>1 DEF JavaLock!Next
  <2> QED
    BY <1>17, <2>7, <2>8, <2>9 DEF UnlockMonitor
<1>18. CASE UnlockMutex(t)
  BY <1>18, <1>t DEF UnlockMutex, RemoveFromMonitorList, At, Goto, IsFat,
     lockVars, monVars, TypeOK, Holder, HeldDepth, SavedDepth, Depth, Leaving,
     Invisible, WordInv
<1>19. CASE ObjectWait(t)
  <2>1. JavaLock!Call(t)
    BY <1>19, <1>t DEF ObjectWait, Clear, JavaLock!Call, At, Goto, IsFat,
       lockVars, monVars, TypeOK, Holder, HeldDepth, SavedDepth, Depth,
       Leaving, Invisible, WordInv
  <2> QED
    BY <2>1 DEF JavaLock!Next
<1>20. CASE WaitThin(t)
  <2>1. PICK l \in {"idle", "w_check", "w_fatten"} : pc' = [pc EXCEPT ![t] = l]
    BY <1>20 DEF WaitThin, Throw, Goto
  <2>2. /\ pc[t] = "w_thin" /\ UNCHANGED <<lock, owner, lockCount>>
        /\ \A u \in Threads : u # t => temp'[u] = temp[u]
    BY <1>20, <1>t DEF WaitThin, At, lockVars, monVars, TypeOK
  <2>3. UNCHANGED SavedDepth
    BY <1>t, <2>1, <2>2, SavedStays
  <2>4. UNCHANGED <<Holder, HeldDepth>>
    BY <1>t, <2>1, <2>2 DEF Holder, HeldDepth, Depth, IsFat, TypeOK
  <2>5. CASE ~IsFat(lock) /\ lock.tid # t /\ Throw(t)
    <3>1. JavaLock!Fail(t)
      BY <2>3, <2>4, <2>5, ConstantsAssumption DEF Throw, Holder, JavaLock!Fail
    <3> QED BY <3>1 DEF JavaLock!Next
  <2>6. CASE UNCHANGED exception
    BY <2>3, <2>4, <2>6 DEF Invisible
  <2> QED
    BY <1>20, <2>5, <2>6 DEF WaitThin
<1>21. CASE WaitFatten(t)
  BY <1>21, <1>t DEF WaitFatten, OwnNewMonitor, At, Goto, IsFat, lockVars,
     monVars, TypeOK, Holder, HeldDepth, SavedDepth, Depth, Leaving,
     Invisible, WordInv
<1>22. CASE WaitPublish(t)
  BY <1>22, <1>t, <1>p, ConstantsAssumption DEF WaitPublish, At, Goto, IsFat,
     lockVars, monVars, TypeOK, Holder, HeldDepth, SavedDepth, Depth, Leaving,
     Invisible, WordInv, ThinPart, FatPart, Free, Thin, Fat
<1>23. CASE WaitCheck(t)
  <2>1. ASSUME ~OwnsMon(t)
        PROVE  JavaLock!Fail(t)
    <3>1. /\ pc[t] = "w_check" /\ Throw(t)
          /\ UNCHANGED <<lock, owner, lockCount, temp>> /\ IsFat(lock)
      BY <1>23, <1>p, <2>1 DEF WaitCheck, At, lockVars, monVars, FatPart
    <3>2. UNCHANGED SavedDepth
      BY <1>t, <3>1, SavedStays DEF Throw, Goto
    <3>3. Holder = owner[lock.mon] /\ UNCHANGED <<Holder, HeldDepth>>
      BY <3>1 DEF Holder, HeldDepth, Depth, IsFat
    <3>4. owner[lock.mon] # t
      BY <1>t, <1>k, <1>f, <2>1, <3>1 DEF TypeOK, TrackedPart, FailPart, OwnsMon, IsFat
    <3> QED
      BY <3>1, <3>2, <3>3, <3>4 DEF Throw, JavaLock!Fail
  <2>2. ASSUME OwnsMon(t) /\ pc'[t] = "idle"
        PROVE  Invisible
    BY <1>23, <2>2, <1>t DEF WaitCheck, At, Goto, lockVars, TypeOK, Holder,
       HeldDepth, SavedDepth, Depth, Leaving, Invisible
  <2>3. ASSUME OwnsMon(t) /\ pc'[t] # "idle"
        PROVE  JavaLock!GiveUp(t)
    <3>a. pc[t] = "w_check" /\ IsFat(lock)
      BY <1>23, <1>p DEF WaitCheck, At, FatPart
    <3>b. mon[t] \in Monitors /\ owner[mon[t]] = t
      BY <1>t, <2>3 DEF TypeOK, OwnsMon
    <3>1. IsFat(lock) /\ mon[t] = lock.mon /\ lock.mon \in Monitors
      BY <1>m, <3>a, <3>b, ConstantsAssumption DEF MonInv
    <3>2. /\ pc' = [pc EXCEPT ![t] = "w_loop"]
          /\ temp' = [temp EXCEPT ![t] = lockCount[lock.mon]]
          /\ owner' = [owner EXCEPT ![lock.mon] = NoThread]
          /\ UNCHANGED <<lock, exception>>
      BY <1>23, <2>3, <3>1, <1>t DEF WaitCheck, Relinquish, Goto, lockVars,
         TypeOK
    <3>3. Holder = t /\ HeldDepth = lockCount[lock.mon] + 1
      BY <2>3, <3>1, ConstantsAssumption DEF OwnsMon, Holder, HeldDepth, Depth
    <3>4. Holder' = NoThread /\ HeldDepth' = 0
      BY <3>1, <3>2, <1>t DEF TypeOK, Holder, HeldDepth
    <3>5. /\ SavedDepth = [u \in Threads |-> SavedDepth[u]]
          /\ SavedDepth' = [u \in Threads |-> SavedDepth'[u]]
      BY DEF SavedDepth
    <3>6. \A u \in Threads :
            SavedDepth'[u] = IF u = t THEN lockCount[lock.mon] + 1
                             ELSE SavedDepth[u]
      BY <3>2, <1>t DEF TypeOK, SavedDepth, Leaving
    <3>7. SavedDepth' = [SavedDepth EXCEPT ![t] = lockCount[lock.mon] + 1]
      BY <3>6 DEF SavedDepth
    <3> QED
      BY <3>2, <3>3, <3>4, <3>7 DEF JavaLock!GiveUp
  <2> QED
    BY <2>1, <2>2, <2>3 DEF JavaLock!Next
<1>24. CASE WaitLoop(t)
  BY <1>24, <1>t DEF WaitLoop, At, Goto, lockVars, TypeOK, Holder, HeldDepth,
     SavedDepth, Depth, Leaving, Invisible
<1>25. CASE WaitWake(t)
  BY <1>25 DEF WaitWake, At, Goto, lockVars, Holder, HeldDepth,
     SavedDepth, Depth, Leaving, Invisible
<1>26. CASE WaitDone(t)
  <2>1. /\ pc[t] = "w_done" /\ IsFat(lock) /\ mon[t] = lock.mon
        /\ owner[lock.mon] = NoThread /\ lock.mon \in Monitors /\ t # NoThread
    BY <1>26, <1>t, <1>p, ConstantsAssumption DEF WaitDone, At, FatPart, TypeOK, IsFat, Thin, Free, Fat
  <2>2. /\ pc' = [pc EXCEPT ![t] = "idle"] /\ UNCHANGED <<lock, temp, exception>>
        /\ owner'[lock.mon] = t /\ lockCount'[lock.mon] = temp[t] /\ temp[t] \in Nat
    BY <1>26, <1>t, <2>1 DEF WaitDone, Goto, TypeOK, lockVars
  <2>3. Holder = NoThread /\ Holder' = t /\ HeldDepth' = temp[t] + 1
    BY <2>1, <2>2 DEF Holder, HeldDepth, Depth, IsFat
  <2>4. SavedDepth[t] = temp[t] + 1
    BY <2>1 DEF SavedDepth, Leaving
  <2>5. /\ SavedDepth = [u \in Threads |-> SavedDepth[u]]
        /\ SavedDepth' = [u \in Threads |-> SavedDepth'[u]]
        /\ \A u \in Threads : SavedDepth'[u] = IF u = t THEN 0 ELSE SavedDepth[u]
    BY <1>t, <2>1, <2>2 DEF SavedDepth, Leaving, TypeOK
  <2>6. SavedDepth' = [SavedDepth EXCEPT ![t] = 0]
    BY <2>5
  <2>7. JavaLock!TakeBack(t)
    BY <2>2, <2>3, <2>4, <2>6 DEF JavaLock!TakeBack
  <2> QED
    BY <2>7 DEF JavaLock!Next
<1> QED
  BY <1>1, <1>2, <1>3, <1>4, <1>5, <1>6, <1>7, <1>8, <1>9,
     <1>10, <1>11, <1>12, <1>13, <1>14, <1>15, <1>16, <1>17, <1>18, <1>19,
     <1>20, <1>21, <1>22, <1>23, <1>24, <1>25, <1>26 DEF Step

\* The lock word, its monitors and the code of vm/Sync.c implement the
\* re-entrant lock of module JavaLock.
THEOREM Refinement ==
  ASSUME MaxDepth <= CountMod
  PROVE  Spec => ImplementsJavaLock
<1>1. Init => JavaLock!Init
  BY ConstantsAssumption
  DEF Init, JavaLock!Init, Holder, HeldDepth, SavedDepth, Free, IsFat, Leaving
<1>2. ASSUME LockInv, [Next]_vars
      PROVE  [JavaLock!Next]_(JavaLock!vars)
  <2>1. CASE UNCHANGED vars
    <3>1. UNCHANGED <<Holder, HeldDepth>>
      BY <2>1 DEF vars, Holder, HeldDepth, Depth, IsFat
    <3>2. UNCHANGED <<SavedDepth, exception>>
      BY <2>1 DEF vars, SavedDepth, Leaving
    <3> QED
      BY <3>1, <3>2 DEF JavaLock!vars
  <2>2. ASSUME NEW t \in Threads, Step(t)
        PROVE  JavaLock!Next \/ Invisible
    BY <1>2, <2>2, AbstractStep
  <2> QED
    BY <1>2, <2>1, <2>2 DEF Next, Invisible, JavaLock!vars
<1> QED
  BY <1>1, <1>2, Invariance, PTL
  DEF Spec, ImplementsJavaLock, JavaLock!Spec
=============================================================================
