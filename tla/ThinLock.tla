------------------------------ MODULE ThinLock ------------------------------
(***************************************************************************)
(* The lock word of one object (vm/Sync.c): monitorenter, monitorexit and  *)
(* the part of Object.wait that fattens, releases and reacquires the lock. *)
(* A step is one access to memory that another thread may also access;     *)
(* memory is sequentially consistent.                                      *)
(*                                                                         *)
(* Thread identifiers are the threads themselves: that they are unique is  *)
(* the subject of module ThreadLifecycle.                                  *)
(***************************************************************************)
EXTENDS Integers

CONSTANTS
  Threads,     \* the threads of the VM
  Monitors,    \* the addresses dvmCreateMonitor may return
  NoThread,    \* a NULL Thread*, and the id bits of an unlocked thin lock
  NoMonitor,   \* a lock word that holds no Monitor*
  CountMod,    \* 2^16: the recursion count of a thin lock has 16 bits
  MaxDepth     \* bound: nested dvmLockObject calls of one thread

ASSUME ConstantsAssumption ==
  /\ NoThread \notin Threads
  /\ NoMonitor \notin Monitors
  /\ CountMod \in Nat \ {0}
  /\ MaxDepth \in Nat \ {0}

VARIABLES
  lock,        \* obj->lock, the union of a thin word and a Monitor*
  monitorList, \* gDvm.monitorList: the monitors created so far
  mutex,       \* mon->lock: the thread that holds the pthread mutex
  owner,       \* mon->owner
  lockCount,   \* mon->lockCount
  pc,          \* where each thread is; "idle": in none of these functions
  mon,         \* the local variable mon
  temp,        \* the count read by a non-atomic update, or prevLockCount
  tracked,     \* self->pLockedObjects: number of times the object is listed
  status,      \* self->status
  exception    \* the last call threw IllegalMonitorStateException

lockVars == <<lock, monitorList>>
monVars == <<mutex, owner, lockCount>>
vars == <<lock, monitorList, mutex, owner, lockCount, pc, mon, temp, tracked,
          status, exception>>

Free == [mon |-> NoMonitor, tid |-> NoThread, count |-> 0]
Thin(t, n) == [mon |-> NoMonitor, tid |-> t, count |-> n]
Fat(m) == [mon |-> m, tid |-> NoThread, count |-> 0]
IsFat(l) == l.mon # NoMonitor

Init ==
  /\ lock = Free
  /\ monitorList = {}
  /\ mutex = [m \in Monitors |-> NoThread]
  /\ owner = [m \in Monitors |-> NoThread]
  /\ lockCount = [m \in Monitors |-> 0]
  /\ pc = [t \in Threads |-> "idle"]
  /\ mon = [t \in Threads |-> NoMonitor]
  /\ temp = [t \in Threads |-> 0]
  /\ tracked = [t \in Threads |-> 0]
  /\ status = [t \in Threads |-> "running"]
  /\ exception = [t \in Threads |-> FALSE]

At(t, label) == pc[t] = label
Goto(t, label) == pc' = [pc EXCEPT ![t] = label]
ChangeStatus(t, s) == status' = [status EXCEPT ![t] = s]
Clear(t) == exception' = [exception EXCEPT ![t] = FALSE]

Throw(t) ==
  /\ exception' = [exception EXCEPT ![t] = TRUE]
  /\ Goto(t, "idle")

AddToMonitorList(t) ==
  /\ tracked' = [tracked EXCEPT ![t] = @ + 1]
  /\ Goto(t, "idle")

\* An object that is not listed is only logged ("BUG: object not found").
RemoveFromMonitorList(t) ==
  /\ tracked' = [tracked EXCEPT ![t] = IF @ > 0 THEN @ - 1 ELSE @]
  /\ Goto(t, "idle")

-----------------------------------------------------------------------------
(* dvmLockObject                                                           *)

LockObject(t) ==
  /\ At(t, "idle")
  /\ tracked[t] < MaxDepth
  /\ Clear(t)
  /\ \/ /\ lock = Free                                  \* the CAS succeeds
        /\ lock' = Thin(t, 0)
        /\ AddToMonitorList(t)
     \/ /\ lock # Free
        /\ Goto(t, "l_own")
        /\ UNCHANGED <<lock, tracked>>
  /\ UNCHANGED <<monitorList, monVars, mon, temp, status>>

\* Line 740, and the load of the non-atomic "*thinp += 1 << 16".
LockOwn(t) ==
  /\ At(t, "l_own")
  /\ IF lock.tid = t
     THEN /\ temp' = [temp EXCEPT ![t] = lock.count]
          /\ Goto(t, "l_bump")
     ELSE Goto(t, "l_kind") /\ UNCHANGED temp
  /\ UNCHANGED <<lockVars, monVars, mon, tracked, status, exception>>

LockBump(t) ==
  /\ At(t, "l_bump")
  /\ lock' = Thin(t, (temp[t] + 1) % CountMod)
  /\ AddToMonitorList(t)
  /\ UNCHANGED <<monitorList, monVars, mon, temp, status, exception>>

LockKind(t) ==
  /\ At(t, "l_kind")
  /\ IF IsFat(lock)
     THEN Goto(t, "l_fat") /\ UNCHANGED status
     ELSE Goto(t, "l_spin") /\ ChangeStatus(t, "monitor")
  /\ UNCHANGED <<lockVars, monVars, mon, temp, tracked, exception>>

\* The two loads of the spin loop, lines 774 and 775.
LockSpin(t) ==
  /\ At(t, "l_spin")
  /\ Goto(t, IF lock = Free THEN "l_cas" ELSE "l_look")
  /\ UNCHANGED <<lockVars, monVars, mon, temp, tracked, status, exception>>

LockLook(t) ==
  /\ At(t, "l_look")
  /\ IF IsFat(lock)                                     \* surprise-fattened
     THEN Goto(t, "l_fat") /\ ChangeStatus(t, "running")
     ELSE Goto(t, "l_spin") /\ UNCHANGED status
  /\ UNCHANGED <<lockVars, monVars, mon, temp, tracked, exception>>

\* Mutant: the lock word is stored without comparing it first.
LockCasBlind(t) ==
  /\ At(t, "l_cas")
  /\ lock' = Thin(t, 0)
  /\ Goto(t, "l_fatten")
  /\ ChangeStatus(t, "running")
  /\ UNCHANGED <<monitorList, monVars, mon, temp, tracked, exception>>

LockCas(t) ==
  /\ At(t, "l_cas")
  /\ \/ /\ lock = Free
        /\ lock' = Thin(t, 0)
        /\ Goto(t, "l_fatten")
        /\ ChangeStatus(t, "running")
     \/ /\ lock # Free
        /\ Goto(t, "l_spin")
        /\ UNCHANGED <<lock, status>>
  /\ UNCHANGED <<monitorList, monVars, mon, temp, tracked, exception>>

\* "Note this relinquishes ownership": the monitor is created unowned.
LockFatten(t) ==
  /\ At(t, "l_fatten")
  /\ \E m \in Monitors \ monitorList :
       /\ monitorList' = monitorList \union {m}
       /\ lock' = Fat(m)
  /\ Goto(t, "l_fat")
  /\ UNCHANGED <<monVars, mon, temp, tracked, status, exception>>

\* lockMonitor up to the trylock.
LockMonitor(t) ==
  /\ At(t, "l_fat")
  /\ mon' = [mon EXCEPT ![t] = lock.mon]
  /\ \/ /\ owner[lock.mon] = t
        /\ lockCount' = [lockCount EXCEPT ![lock.mon] = @ + 1]
        /\ AddToMonitorList(t)
        /\ UNCHANGED <<mutex, status>>
     \/ /\ owner[lock.mon] # t
        /\ mutex[lock.mon] = NoThread
        /\ mutex' = [mutex EXCEPT ![lock.mon] = t]
        /\ Goto(t, "m_own")
        /\ UNCHANGED <<lockCount, tracked, status>>
     \/ /\ owner[lock.mon] # t
        /\ mutex[lock.mon] # NoThread
        /\ Goto(t, "m_block")
        /\ ChangeStatus(t, "monitor")
        /\ UNCHANGED <<mutex, lockCount, tracked>>
  /\ UNCHANGED <<lockVars, owner, temp, exception>>

LockMutex(t) ==
  /\ At(t, "m_block")
  /\ mutex[mon[t]] = NoThread
  /\ mutex' = [mutex EXCEPT ![mon[t]] = t]
  /\ Goto(t, "m_own")
  /\ ChangeStatus(t, "running")
  /\ UNCHANGED <<lockVars, owner, lockCount, mon, temp, tracked, exception>>

\* Mutant: lockMonitor forgets to set the owner.
LockSetOwnerNot(t) ==
  /\ At(t, "m_own")
  /\ AddToMonitorList(t)
  /\ UNCHANGED <<lockVars, monVars, mon, temp, status, exception>>

LockSetOwner(t) ==
  /\ At(t, "m_own")
  /\ owner' = [owner EXCEPT ![mon[t]] = t]
  /\ AddToMonitorList(t)
  /\ UNCHANGED <<lockVars, mutex, lockCount, mon, temp, status, exception>>

-----------------------------------------------------------------------------
(* dvmUnlockObject                                                         *)

UnlockObject(t) ==
  /\ At(t, "idle")
  /\ Clear(t)
  /\ Goto(t, IF lock = Thin(t, 0) THEN "u_free" ELSE "u_kind")
  /\ UNCHANGED <<lockVars, monVars, mon, temp, tracked, status>>

UnlockFree(t) ==
  /\ At(t, "u_free")
  /\ lock' = Free
  /\ RemoveFromMonitorList(t)
  /\ UNCHANGED <<monitorList, monVars, mon, temp, status, exception>>

UnlockKind(t) ==
  /\ At(t, "u_kind")
  /\ Goto(t, IF IsFat(lock) THEN "u_fat" ELSE "u_thin")
  /\ UNCHANGED <<lockVars, monVars, mon, temp, tracked, status, exception>>

\* Line 899, and the load of the non-atomic "*thinp -= 1 << 16".
UnlockThin(t) ==
  /\ At(t, "u_thin")
  /\ \/ /\ lock.tid # t
        /\ Throw(t)
        /\ UNCHANGED temp
     \/ /\ lock.tid = t
        /\ temp' = [temp EXCEPT ![t] = lock.count]
        /\ Goto(t, "u_drop")
        /\ UNCHANGED exception
  /\ UNCHANGED <<lockVars, monVars, mon, tracked, status>>

UnlockDrop(t) ==
  /\ At(t, "u_drop")
  /\ lock' = Thin(t, (temp[t] - 1) % CountMod)
  /\ RemoveFromMonitorList(t)
  /\ UNCHANGED <<monitorList, monVars, mon, temp, status, exception>>

\* unlockMonitor up to the release of the mutex.
UnlockMonitor(t) ==
  /\ At(t, "u_fat")
  /\ mon' = [mon EXCEPT ![t] = lock.mon]
  /\ \/ /\ owner[lock.mon] # t
        /\ Throw(t)
        /\ UNCHANGED <<owner, lockCount, tracked>>
     \/ /\ owner[lock.mon] = t
        /\ lockCount[lock.mon] = 0
        /\ owner' = [owner EXCEPT ![lock.mon] = NoThread]
        /\ Goto(t, "u_mutex")
        /\ UNCHANGED <<lockCount, tracked, exception>>
     \/ /\ owner[lock.mon] = t
        /\ lockCount[lock.mon] # 0
        /\ lockCount' = [lockCount EXCEPT ![lock.mon] = @ - 1]
        /\ RemoveFromMonitorList(t)
        /\ UNCHANGED <<owner, exception>>
  /\ UNCHANGED <<lockVars, mutex, temp, status>>

UnlockMutex(t) ==
  /\ At(t, "u_mutex")
  /\ mutex' = [mutex EXCEPT ![mon[t]] = NoThread]
  /\ RemoveFromMonitorList(t)
  /\ UNCHANGED <<lockVars, owner, lockCount, mon, temp, status, exception>>

-----------------------------------------------------------------------------
(* dvmObjectWait, and the effect of waitMonitor on the lock                *)

\* mon and thin are two loads of the lock word.
ObjectWait(t) ==
  /\ At(t, "idle")
  /\ Clear(t)
  /\ mon' = [mon EXCEPT ![t] = lock.mon]
  /\ Goto(t, "w_thin")
  /\ UNCHANGED <<lockVars, monVars, temp, tracked, status>>

WaitThin(t) ==
  /\ At(t, "w_thin")
  /\ \/ /\ IsFat(lock)
        /\ Goto(t, "w_check")
        /\ UNCHANGED <<temp, exception>>
     \/ /\ ~IsFat(lock)
        /\ lock.tid # t
        /\ Throw(t)
        /\ UNCHANGED temp
     \/ /\ lock.tid = t
        /\ temp' = [temp EXCEPT ![t] = lock.count]
        /\ Goto(t, "w_fatten")
        /\ UNCHANGED exception
  /\ UNCHANGED <<lockVars, monVars, mon, tracked, status>>

\* Mutant: the new monitor is published without being locked.
OwnNewMonitorUnlocked(t, m) ==
  /\ owner' = [owner EXCEPT ![m] = t]
  /\ lockCount' = [lockCount EXCEPT ![m] = temp[t]]
  /\ UNCHANGED mutex

\* Mutant: the recursion count of the thin lock is lost.
OwnNewMonitorOnce(t, m) ==
  /\ mutex' = [mutex EXCEPT ![m] = t]
  /\ owner' = [owner EXCEPT ![m] = t]
  /\ UNCHANGED lockCount

\* lockMonitor on a monitor nobody else can see yet, and mon->lockCount.
OwnNewMonitor(t, m) ==
  /\ mutex' = [mutex EXCEPT ![m] = t]
  /\ owner' = [owner EXCEPT ![m] = t]
  /\ lockCount' = [lockCount EXCEPT ![m] = temp[t]]

\* The monitor is locked, at the right depth, before anyone can see it.
WaitFatten(t) ==
  /\ At(t, "w_fatten")
  /\ \E m \in Monitors \ monitorList :
       /\ monitorList' = monitorList \union {m}
       /\ mon' = [mon EXCEPT ![t] = m]
       /\ OwnNewMonitor(t, m)
  /\ Goto(t, "w_publish")
  /\ UNCHANGED <<lock, temp, tracked, status, exception>>

WaitPublish(t) ==
  /\ At(t, "w_publish")
  /\ lock' = Fat(mon[t])
  /\ Goto(t, "w_check")
  /\ UNCHANGED <<monitorList, monVars, mon, temp, tracked, status, exception>>

\* "Make sure that the lock is fat and that we hold it."
OwnsMon(t) == mon[t] # NoMonitor /\ owner[mon[t]] = t

\* Give up the ownership, however deep, with the mutex still held.
Relinquish(t) ==
  /\ temp' = [temp EXCEPT ![t] = lockCount[mon[t]]]
  /\ owner' = [owner EXCEPT ![mon[t]] = NoThread]
  /\ lockCount' = [lockCount EXCEPT ![mon[t]] = 0]

\* The checks of waitMonitor; the second disjunct is a timeout out of range.
WaitCheck(t) ==
  /\ At(t, "w_check")
  /\ \/ /\ ~OwnsMon(t)
        /\ Throw(t)
        /\ UNCHANGED <<owner, lockCount, temp, status>>
     \/ /\ OwnsMon(t)
        /\ Goto(t, "idle")
        /\ UNCHANGED <<owner, lockCount, temp, status, exception>>
     \/ /\ OwnsMon(t)
        /\ Relinquish(t)
        /\ ChangeStatus(t, "wait")
        /\ Goto(t, "w_loop")
        /\ UNCHANGED exception
  /\ UNCHANGED <<lockVars, mutex, mon, tracked>>

\* A pending interrupt, a timeout or a wakeup ends the loop; which one, and
\* when, is the subject of module Monitor.
WaitLoop(t) ==
  /\ At(t, "w_loop")
  /\ \/ /\ mutex' = [mutex EXCEPT ![mon[t]] = NoThread]
        /\ Goto(t, "w_sleep")
     \/ /\ Goto(t, "w_done")
        /\ UNCHANGED mutex
  /\ UNCHANGED <<lockVars, owner, lockCount, mon, temp, tracked, status,
                 exception>>

WaitWake(t) ==
  /\ At(t, "w_sleep")
  /\ mutex[mon[t]] = NoThread
  /\ mutex' = [mutex EXCEPT ![mon[t]] = t]
  /\ Goto(t, "w_loop")
  /\ UNCHANGED <<lockVars, owner, lockCount, mon, temp, tracked, status,
                 exception>>

\* Mutant: the saved recursion count is not restored.
WaitDoneShallow(t) ==
  /\ At(t, "w_done")
  /\ owner' = [owner EXCEPT ![mon[t]] = t]
  /\ ChangeStatus(t, "running")
  /\ Goto(t, "idle")
  /\ UNCHANGED <<lockVars, mutex, lockCount, mon, temp, tracked, exception>>

WaitDone(t) ==
  /\ At(t, "w_done")
  /\ owner' = [owner EXCEPT ![mon[t]] = t]
  /\ lockCount' = [lockCount EXCEPT ![mon[t]] = temp[t]]
  /\ ChangeStatus(t, "running")
  /\ Goto(t, "idle")
  /\ UNCHANGED <<lockVars, mutex, mon, temp, tracked, exception>>

-----------------------------------------------------------------------------

Step(t) ==
  \/ LockObject(t) \/ LockOwn(t) \/ LockBump(t) \/ LockKind(t)
  \/ LockSpin(t) \/ LockLook(t) \/ LockCas(t) \/ LockFatten(t)
  \/ LockMonitor(t) \/ LockMutex(t) \/ LockSetOwner(t)
  \/ UnlockObject(t) \/ UnlockFree(t) \/ UnlockKind(t) \/ UnlockThin(t)
  \/ UnlockDrop(t) \/ UnlockMonitor(t) \/ UnlockMutex(t)
  \/ ObjectWait(t) \/ WaitThin(t) \/ WaitFatten(t) \/ WaitPublish(t)
  \/ WaitCheck(t) \/ WaitLoop(t) \/ WaitWake(t) \/ WaitDone(t)

Next == \E t \in Threads : Step(t)

Spec == Init /\ [][Next]_vars

-----------------------------------------------------------------------------
(* What the lock promises                                                  *)

Labels ==
  {"idle", "l_own", "l_bump", "l_kind", "l_spin", "l_look", "l_cas",
   "l_fatten", "l_fat", "m_block", "m_own", "u_free", "u_kind", "u_thin",
   "u_drop", "u_fat", "u_mutex", "w_thin", "w_fatten", "w_publish",
   "w_check", "w_loop", "w_sleep", "w_done"}

\* The variables have their types: the lock word is free, thin or fat.
TypeOK ==
  /\ lock \in [mon : Monitors \union {NoMonitor},
               tid : Threads \union {NoThread}, count : 0 .. CountMod - 1]
  /\ monitorList \subseteq Monitors
  /\ mutex \in [Monitors -> Threads \union {NoThread}]
  /\ owner \in [Monitors -> Threads \union {NoThread}]
  /\ lockCount \in [Monitors -> Nat]
  /\ pc \in [Threads -> Labels]
  /\ mon \in [Threads -> Monitors \union {NoMonitor}]
  /\ temp \in [Threads -> Nat]
  /\ tracked \in [Threads -> Nat]
  /\ status \in [Threads -> {"running", "monitor", "wait"}]
  /\ exception \in [Threads -> BOOLEAN]

\* dvmHoldsLock.
HoldsLock(t) == IF IsFat(lock) THEN owner[lock.mon] = t ELSE lock.tid = t

\* How deep the lock word or the monitor says the lock is held.
Depth == IF IsFat(lock) THEN lockCount[lock.mon] + 1 ELSE lock.count + 1

\* A thread is inside its synchronized region when it entered more often than
\* it left, and neither is leaving nor waiting.
Leaving == {"u_mutex", "w_loop", "w_sleep", "w_done"}
Inside(t) == tracked[t] > 0 /\ pc[t] \notin Leaving

\* Two threads are never inside synchronized regions of the object at once,
\* whatever mixture of thin, fat and just fattened lock they came through.
MutualExclusion ==
  \A t, u \in Threads : Inside(t) /\ Inside(u) => t = u

\* A thread inside holds the lock in dvmHoldsLock's sense, as many times as
\* its own list of locked objects records: fattening loses no recursion.
DepthIsTracked ==
  \A t \in Threads : Inside(t) => HoldsLock(t) /\ Depth = tracked[t]

\* A call that fails with IllegalMonitorStateException came from a thread that
\* does not hold the lock.
OnlyOutsidersFail ==
  \A t \in Threads : exception[t] /\ At(t, "idle") => tracked[t] = 0

\* The assertion of lockMonitor (Sync.c:355): whoever takes the mutex finds
\* the recursion count of the previous owner gone.
FreshOwnerFindsZero ==
  \A t \in Threads : At(t, "m_own") => lockCount[mon[t]] = 0

\* A fat lock stays fat and keeps its monitor, so no thread can be left
\* waiting on a monitor the object no longer has.
FatForever == [][IsFat(lock) => UNCHANGED lock]_vars

\* A step that changes a held thin word is one of its holder.
ByHolder == \A t \in Threads : lock.tid = t /\ lock' # lock => pc'[t] # pc[t]

\* "only the thread holding the lock is allowed to modify the Lock field"
\* (Sync.c:743): a held thin word changes only by a step of its holder.
OnlyHolderWrites == [][ByHolder]_vars

-----------------------------------------------------------------------------
(* Refinement: the lock word implements the re-entrant lock of JavaLock.   *)

\* A thread that took the thin lock by spinning only does so to fatten it.
Holder ==
  IF IsFat(lock) THEN owner[lock.mon]
  ELSE IF lock.tid # NoThread /\ pc[lock.tid] # "l_fatten" THEN lock.tid
  ELSE NoThread

HeldDepth == IF Holder = NoThread THEN 0 ELSE Depth

SavedDepth ==
  [t \in Threads |->
     IF pc[t] \in Leaving \ {"u_mutex"} THEN temp[t] + 1 ELSE 0]

JavaLock ==
  INSTANCE JavaLock WITH
    holder <- Holder, depth <- HeldDepth, saved <- SavedDepth,
    failed <- exception

\* Every step of the lock word is a step of the re-entrant lock, or none.
ImplementsJavaLock == JavaLock!Spec

=============================================================================
