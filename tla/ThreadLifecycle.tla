--------------------------- MODULE ThreadLifecycle --------------------------
(***************************************************************************)
(* The life of a thread (vm/Thread.c, vm/Jni.c): started by another thread *)
(* or attached from native code, given a small ID from a bitmap, linked    *)
(* into the thread list, counted while it is no daemon, detached; and the  *)
(* main thread, which detaches, attaches again inside DestroyJavaVM and    *)
(* waits there for the last one.                                           *)
(*                                                                         *)
(* A section under gDvm.threadListLock that does not block is one step.    *)
(* The ID bitmap is also accessed without the lock, so its loads and       *)
(* stores are steps of their own.  Suspension is in ThreadSuspend.         *)
(***************************************************************************)
EXTENDS Integers, FiniteSets

CONSTANTS
  Main,         \* the thread that created the VM and will destroy it
  Children,     \* threads started by dvmCreateInterpThread
  Natives,      \* native threads that attach through JNI
  Daemons,      \* the Children and Natives that are daemons
  NoThread,
  WordBits,     \* bits in a word of the bitmap (32)
  MaxThreadId,  \* kMaxThreadId (2^15 - 1)
  AttachFails   \* an attach may fail half-way

Threads == {Main} \cup Children \cup Natives

ASSUME ConstantsAssumption ==
  /\ Main \notin Children \cup Natives
  /\ Children \cap Natives = {}
  /\ Daemons \subseteq Children \cup Natives
  /\ NoThread \notin Threads
  /\ IsFiniteSet(Threads)
  /\ WordBits \in Nat \ {0}
  /\ MaxThreadId \in Nat \ {0}
  /\ AttachFails \in BOOLEAN

VARIABLES
  threadIdMap,           \* gDvm.threadIdMap->storage: the bits set in a word
  threadId,              \* thread->threadId
  threadList,            \* gDvm.threadList
  nonDaemonThreadCount,  \* gDvm.nonDaemonThreadCount
  listLock,              \* holder of gDvm.threadListLock, between steps
  startCond,             \* the threads blocked on gDvm.threadStartCond
  exitCond,              \* the threads blocked on gDvm.vmExitCond
  status,                \* thread->status
  vmThread,              \* the Threads whose vmThread field is set
  pc,
  local                  \* child started; word and bits loaded; result

bitmap == <<threadIdMap, threadId>>
conds == <<startCond, exitCond>>
vars == <<threadIdMap, threadId, threadList, nonDaemonThreadCount, listLock,
          startCond, exitCond, status, vmThread, pc, local>>

Words == 0 .. (MaxThreadId + WordBits - 1) \div WordBits - 1
Bits == 0 .. WordBits - 1

Statuses == {"none", "initializing", "starting", "vmwait", "running", "native"}
Labels == {"none", "run", "native", "create", "awaitChild", "linked",
           "find", "store", "starting", "awaitParent",
           "attach", "prepare", "link", "attached", "construct", "unlink",
           "restore", "detach", "clear", "destroy", "awaitExit", "shutdown",
           "skipWait", "abort", "assert"}

NoLocals == [child |-> NoThread, word |-> 0, bits |-> {}, ok |-> TRUE]

At(t, label) == pc[t] = label
Goto(t, label) == pc' = [pc EXCEPT ![t] = label]
\* Leave the call t is in, its local variables with it.
Return(t, label) ==
  /\ Goto(t, label)
  /\ local' = [local EXCEPT ![t] = NoLocals]

Unlocked == listLock = NoThread
Owned(t) == listLock = t
SetStatus(t, s) == status' = [status EXCEPT ![t] = s]
Counted(t) == IF t \in Daemons THEN 0 ELSE 1

Init ==
  /\ threadIdMap = [w \in Words |-> IF w = 0 THEN {0} ELSE {}]
  /\ threadId = [t \in Threads |-> IF t = Main THEN 3 ELSE 0]
  /\ threadList = {Main}
  /\ nonDaemonThreadCount = 1
  /\ listLock = NoThread
  /\ startCond = {}
  /\ exitCond = {}
  /\ status = [t \in Threads |-> IF t = Main THEN "running" ELSE "none"]
  /\ vmThread = {Main}
  /\ pc = [t \in Threads |-> IF t = Main THEN "run" ELSE "none"]
  /\ local = [t \in Threads |-> NoLocals]
-----------------------------------------------------------------------------
\* Thread IDs: assignThreadId, dvmAllocBit, releaseThreadId, dvmClearBit.

\* dvmAllocBit up to the load of the first word that is not full.  With none
\* left assignThreadId aborts.
AllocLoad(t, next) ==
  LET open == {w \in Words : threadIdMap[w] # Bits}
  IN  IF open = {}
      THEN pc' = [u \in Threads |-> "abort"] /\ UNCHANGED local
      ELSE LET w == CHOOSE w \in open : \A x \in open : w <= x
           IN  /\ local' = [local EXCEPT ![t].word = w,
                                         ![t].bits = threadIdMap[w]]
               /\ Goto(t, next)

\* storage[word] |= 1 << bit.  The compiler may use the word as it was loaded
\* or load it again; without the lock the two can differ.
AllocStore(t) ==
  LET word == local[t].word
      free == Bits \ local[t].bits
      bit == CHOOSE b \in free : \A c \in free : b <= c
  IN  /\ \E old \in {local[t].bits, threadIdMap[word]} :
           threadIdMap' = [threadIdMap EXCEPT ![word] = old \cup {bit}]
      /\ threadId' = [threadId EXCEPT
                        ![t] = 2 * ((word * WordBits + bit) + 1) + 1]

ClearNum(t) == threadId[t] \div 2 - 1
-----------------------------------------------------------------------------
\* dvmCreateInterpThread and interpThreadStart.

\* Thread.start: refused when the vmThread field is already set.
CreateInterpThread(t) ==
  /\ At(t, "run") /\ Unlocked
  /\ \E child \in Children \ {t} :
       /\ child \notin vmThread
       /\ At(child, "none")
       /\ vmThread' = vmThread \cup {child}
       /\ status' = [status EXCEPT ![child] = "initializing"]
       /\ local' = [local EXCEPT ![t].child = child]
  /\ Goto(t, "create")
  /\ UNCHANGED <<bitmap, threadList, nonDaemonThreadCount, listLock, conds>>

\* pthread_create, which may fail.
PthreadCreate(t) ==
  LET child == local[t].child
  IN  /\ At(t, "create")
      /\ \/ /\ pc' = [pc EXCEPT ![t] = "awaitChild", ![child] = "find"]
            /\ UNCHANGED <<status, vmThread, local>>
         \/ /\ vmThread' = vmThread \ {child}
            /\ SetStatus(child, "none")
            /\ Return(t, "run")
      /\ UNCHANGED <<bitmap, threadList, nonDaemonThreadCount, listLock,
                     conds>>

\* Wait for the child on threadStartCond, then link it into the list.
AwaitChild(t) ==
  LET child == local[t].child
  IN  /\ At(t, "awaitChild") /\ Unlocked /\ t \notin startCond
      /\ SetStatus(t, "vmwait")
      /\ \/ /\ status[child] # "starting"
            /\ startCond' = startCond \cup {t}
            /\ UNCHANGED <<threadList, nonDaemonThreadCount, pc>>
         \/ /\ status[child] = "starting"
            /\ threadList' = threadList \cup {child}
            /\ nonDaemonThreadCount' = nonDaemonThreadCount + Counted(child)
            /\ Goto(t, "linked")
            /\ UNCHANGED startCond
      /\ UNCHANGED <<bitmap, listLock, exitCond, vmThread, local>>

\* Back in THREAD_RUNNING, tell the child to go: it must still be STARTING.
ReleaseChild(t) ==
  LET child == local[t].child
  IN  /\ At(t, "linked") /\ Unlocked
      /\ IF status[child] = "starting"
         THEN /\ status' = [status EXCEPT ![t] = "running",
                                          ![child] = "vmwait"]
              /\ startCond' = {}
              /\ Return(t, "run")
         ELSE /\ pc' = [u \in Threads |-> "assert"]
              /\ UNCHANGED <<status, startCond, local>>
      /\ UNCHANGED <<bitmap, threadList, nonDaemonThreadCount, listLock,
                     exitCond, vmThread>>

\* prepareThread in the child, without the thread list lock.
ChildFind(t) ==
  /\ At(t, "find")
  /\ AllocLoad(t, "store")
  /\ UNCHANGED <<bitmap, threadList, nonDaemonThreadCount, listLock, conds,
                 status, vmThread>>

ChildStore(t) ==
  /\ At(t, "store")
  /\ AllocStore(t)
  /\ Return(t, "starting")
  /\ UNCHANGED <<threadList, nonDaemonThreadCount, listLock, conds, status,
                 vmThread>>

\* Mutant: the child does not tell its parent that it is there.
StartingSilently(t) ==
  /\ At(t, "starting") /\ Unlocked
  /\ SetStatus(t, "starting")
  /\ startCond' = startCond \cup {t}
  /\ Goto(t, "awaitParent")
  /\ UNCHANGED <<bitmap, threadList, nonDaemonThreadCount, listLock, exitCond,
                 vmThread, local>>

Starting(t) ==
  /\ At(t, "starting") /\ Unlocked
  /\ SetStatus(t, "starting")
  /\ startCond' = {t}
  /\ Goto(t, "awaitParent")
  /\ UNCHANGED <<bitmap, threadList, nonDaemonThreadCount, listLock, exitCond,
                 vmThread, local>>

\* Mutant: one wakeup is enough, whatever caused it.
AwaitParentOnce(t) ==
  /\ At(t, "awaitParent") /\ Unlocked /\ t \notin startCond
  /\ SetStatus(t, "running")
  /\ Goto(t, "run")
  /\ UNCHANGED <<bitmap, threadList, nonDaemonThreadCount, listLock, conds,
                 vmThread, local>>

AwaitParent(t) ==
  /\ At(t, "awaitParent") /\ Unlocked /\ t \notin startCond
  /\ \/ /\ status[t] # "vmwait"
        /\ startCond' = startCond \cup {t}
        /\ UNCHANGED <<status, pc>>
     \/ /\ status[t] = "vmwait"
        /\ SetStatus(t, "running")
        /\ Goto(t, "run")
        /\ UNCHANGED startCond
  /\ UNCHANGED <<bitmap, threadList, nonDaemonThreadCount, listLock, exitCond,
                 vmThread, local>>
-----------------------------------------------------------------------------
\* attachThread (vm/Jni.c) and dvmAttachCurrentThread.

\* The count is raised for the duration of the attach, unless the VM is dying.
\* The main thread, once detached, comes here from DestroyJavaVM.
AttachThread(t) ==
  /\ t \in Natives \cup {Main}
  /\ At(t, "none") /\ Unlocked
  /\ nonDaemonThreadCount # 0
  /\ nonDaemonThreadCount' = nonDaemonThreadCount + 1
  /\ SetStatus(t, "initializing")
  /\ Goto(t, "attach")
  /\ UNCHANGED <<bitmap, threadList, listLock, conds, vmThread, local>>

\* prepareThread with the thread list lock held.
AttachFind(t) ==
  /\ At(t, "attach") /\ Unlocked
  /\ listLock' = t
  /\ AllocLoad(t, "prepare")
  /\ UNCHANGED <<bitmap, threadList, nonDaemonThreadCount, conds, status,
                 vmThread>>

AttachStore(t) ==
  /\ At(t, "prepare") /\ Owned(t)
  /\ AllocStore(t)
  /\ listLock' = NoThread
  /\ SetStatus(t, "vmwait")
  /\ Return(t, "link")
  /\ UNCHANGED <<threadList, nonDaemonThreadCount, conds, vmThread>>

AttachLink(t) ==
  /\ At(t, "link") /\ Unlocked
  /\ threadList' = threadList \cup {t}
  /\ nonDaemonThreadCount' = nonDaemonThreadCount + Counted(t)
  /\ Goto(t, "attached")
  /\ UNCHANGED <<bitmap, listLock, conds, status, vmThread, local>>

\* Past gcHeapLock and the suspension check.
AttachRunning(t) ==
  /\ At(t, "attached")
  /\ SetStatus(t, "running")
  /\ Goto(t, "construct")
  /\ UNCHANGED <<bitmap, threadList, nonDaemonThreadCount, listLock, conds,
                 vmThread, local>>

\* The Thread object's constructor runs; it may throw.  That somebody else
\* starts the very object that is being attached is left out.
Construct(t) ==
  /\ At(t, "construct")
  /\ \/ /\ vmThread' = vmThread \cup {t}
        /\ Goto(t, "restore")
     \/ /\ AttachFails
        /\ Goto(t, "unlink")
        /\ UNCHANGED vmThread
  /\ UNCHANGED <<bitmap, threadList, nonDaemonThreadCount, listLock, conds,
                 status, local>>

\* Mutant: a failed attach leaves the count raised.
FailUnlinkCounted(t) ==
  /\ At(t, "unlink") /\ Unlocked
  /\ threadList' = threadList \ {t}
  /\ SetStatus(t, "none")
  /\ local' = [local EXCEPT ![t].ok = FALSE]
  /\ Goto(t, "restore")
  /\ UNCHANGED <<bitmap, nonDaemonThreadCount, listLock, conds, vmThread>>

\* The failure paths free the Thread; threadId goes with it.
FailUnlink(t) ==
  /\ At(t, "unlink") /\ Unlocked
  /\ threadList' = threadList \ {t}
  /\ nonDaemonThreadCount' = nonDaemonThreadCount - Counted(t)
  /\ SetStatus(t, "none")
  /\ local' = [local EXCEPT ![t].ok = FALSE]
  /\ Goto(t, "restore")
  /\ UNCHANGED <<bitmap, listLock, conds, vmThread>>

\* No Thread yet, or no JNIEnv: fail before the thread is in the list.
FailEarly(t) ==
  /\ AttachFails
  /\ pc[t] \in {"attach", "link"}
  /\ SetStatus(t, "none")
  /\ local' = [local EXCEPT ![t].ok = FALSE]
  /\ Goto(t, "restore")
  /\ UNCHANGED <<bitmap, threadList, nonDaemonThreadCount, listLock, conds,
                 vmThread>>

\* Back from the attach.  For the main thread that is back in DestroyJavaVM,
\* which goes to shutdown without the wait when the attach failed.
Restore(t) ==
  /\ At(t, "restore") /\ Unlocked
  /\ nonDaemonThreadCount' = nonDaemonThreadCount - 1
  /\ IF local[t].ok
     THEN /\ SetStatus(t, "native")
          /\ Return(t, IF t = Main THEN "destroy" ELSE "native")
          /\ UNCHANGED threadId
     ELSE /\ threadId' = [threadId EXCEPT ![t] = 0]
          /\ Return(t, IF t = Main THEN "skipWait" ELSE "none")
          /\ UNCHANGED status
  /\ UNCHANGED <<threadIdMap, threadList, listLock, conds, vmThread>>

\* A native thread goes into the VM and back.
CallIn(t) ==
  /\ At(t, "native")
  /\ SetStatus(t, "running")
  /\ Goto(t, "run")
  /\ UNCHANGED <<bitmap, threadList, nonDaemonThreadCount, listLock, conds,
                 vmThread, local>>

CallOut(t) ==
  /\ t \in Natives /\ At(t, "run")
  /\ SetStatus(t, "native")
  /\ Goto(t, "native")
  /\ UNCHANGED <<bitmap, threadList, nonDaemonThreadCount, listLock, conds,
                 vmThread, local>>
-----------------------------------------------------------------------------
\* dvmDetachCurrentThread and DestroyJavaVM.

\* The Thread object no longer looks started; joiners are notified.
DetachCurrentThread(t) ==
  /\ At(t, "run")
  /\ vmThread' = vmThread \ {t}
  /\ SetStatus(t, "vmwait")
  /\ Goto(t, "detach")
  /\ UNCHANGED <<bitmap, threadList, nonDaemonThreadCount, listLock, conds,
                 local>>

\* t is about to bring the count to zero.
LastOne(t) == t \notin Daemons /\ nonDaemonThreadCount = 1

\* Unlink; the last non-daemon thread signals vmExitCond; load the word that
\* holds the ID's bit.
DetachUnlink(t) ==
  LET word == ClearNum(t) \div WordBits
  IN  /\ At(t, "detach") /\ Unlocked
      /\ listLock' = t
      /\ threadList' = threadList \ {t}
      /\ nonDaemonThreadCount' = nonDaemonThreadCount - Counted(t)
      /\ exitCond' = IF LastOne(t) THEN {} ELSE exitCond
      /\ local' = [local EXCEPT ![t].word = word,
                                ![t].bits = threadIdMap[word]]
      /\ Goto(t, "clear")
      /\ UNCHANGED <<bitmap, startCond, status, vmThread>>

\* dvmClearBit stores the word; the Thread is freed.
ReleaseThreadId(t) ==
  /\ At(t, "clear") /\ Owned(t)
  /\ threadIdMap' = [threadIdMap EXCEPT
                       ![local[t].word] =
                          local[t].bits \ {ClearNum(t) % WordBits}]
  /\ threadId' = [threadId EXCEPT ![t] = 0]
  /\ listLock' = NoThread
  /\ SetStatus(t, "none")
  /\ Return(t, "none")
  /\ UNCHANGED <<threadList, nonDaemonThreadCount, conds, vmThread>>

\* DestroyJavaVM of a detached thread is refused the attach: the VM is already
\* dying, and it goes to shutdown without the wait.
DestroyRefused(t) ==
  /\ t = Main /\ At(t, "none") /\ Unlocked
  /\ nonDaemonThreadCount = 0
  /\ Goto(t, "skipWait")
  /\ UNCHANGED <<bitmap, threadList, nonDaemonThreadCount, listLock, conds,
                 status, vmThread, local>>

\* The current thread, attached all along or again, leaves the count; sleep on
\* vmExitCond until it is zero.
DestroyJavaVM(t) ==
  /\ t = Main /\ pc[t] \in {"run", "destroy"} /\ Unlocked
  /\ SetStatus(t, "vmwait")
  /\ nonDaemonThreadCount' = nonDaemonThreadCount - 1
  /\ IF nonDaemonThreadCount' > 0
     THEN exitCond' = exitCond \cup {t} /\ Goto(t, "awaitExit")
     ELSE Goto(t, "shutdown") /\ UNCHANGED exitCond
  /\ UNCHANGED <<bitmap, threadList, listLock, startCond, vmThread, local>>

\* Mutant: one wakeup is enough, whatever caused it.
AwaitExitOnce(t) ==
  /\ At(t, "awaitExit") /\ Unlocked /\ t \notin exitCond
  /\ Goto(t, "shutdown")
  /\ UNCHANGED <<bitmap, threadList, nonDaemonThreadCount, listLock, conds,
                 status, vmThread, local>>

AwaitExit(t) ==
  /\ At(t, "awaitExit") /\ Unlocked /\ t \notin exitCond
  /\ IF nonDaemonThreadCount > 0
     THEN exitCond' = exitCond \cup {t} /\ UNCHANGED pc
     ELSE Goto(t, "shutdown") /\ UNCHANGED exitCond
  /\ UNCHANGED <<bitmap, threadList, nonDaemonThreadCount, listLock,
                 startCond, status, vmThread, local>>

\* pthread_cond_wait returns for no reason.
SpuriousWakeup(t) ==
  /\ t \in startCond \cup exitCond
  /\ startCond' = startCond \ {t}
  /\ exitCond' = exitCond \ {t}
  /\ UNCHANGED <<bitmap, threadList, nonDaemonThreadCount, listLock, status,
                 vmThread, pc, local>>

Create(t) ==
  \/ PthreadCreate(t) \/ AwaitChild(t) \/ ReleaseChild(t)
  \/ ChildFind(t) \/ ChildStore(t) \/ Starting(t) \/ AwaitParent(t)

AttachStep(t) ==
  \/ AttachFind(t) \/ AttachStore(t) \/ AttachLink(t) \/ AttachRunning(t)
  \/ Construct(t) \/ FailUnlink(t) \/ Restore(t)

Leave(t) == DetachUnlink(t) \/ ReleaseThreadId(t) \/ AwaitExit(t)

Step(t) == Create(t) \/ AttachStep(t) \/ Leave(t)

\* What the program and the system do of their own accord.
Choice(t) ==
  \/ CreateInterpThread(t) \/ AttachThread(t) \/ FailEarly(t)
  \/ CallIn(t) \/ CallOut(t) \/ DetachCurrentThread(t)
  \/ DestroyRefused(t) \/ DestroyJavaVM(t)

Next == \E t \in Threads : Step(t) \/ Choice(t) \/ SpuriousWakeup(t)

Spec == Init /\ [][Next]_vars

\* Every thread keeps running inside a call of the VM.
FairSpec == Spec /\ \A t \in Threads : SF_vars(Step(t))
-----------------------------------------------------------------------------
\* Properties.

\* Types of the state variables.
TypeOK ==
  /\ threadIdMap \in [Words -> SUBSET Bits]
  /\ threadId \in [Threads -> Nat]
  /\ threadList \subseteq Threads
  /\ nonDaemonThreadCount \in Nat
  /\ listLock \in Threads \cup {NoThread}
  /\ startCond \subseteq Threads /\ exitCond \subseteq Threads
  /\ status \in [Threads -> Statuses]
  /\ vmThread \subseteq Threads
  /\ pc \in [Threads -> Labels]

\* assignThreadId finds "a small unique integer": thin locks name their owner
\* by it.
UniqueIds ==
  \A t, u \in Threads : t # u /\ threadId[t] # 0 => threadId[t] # threadId[u]

\* dvmAllocBit's index is below kMaxThreadId, as assignThreadId relies on.
IdInRange == \A t \in Threads : threadId[t] # 0 => ClearNum(t) < MaxThreadId

\* freeThread is called once the ID has been given back.
FreedWithoutId ==
  \A t \in Threads : At(t, "restore") /\ ~local[t].ok => threadId[t] = 0

\* A thread runs interpreted code only while it is in the thread list, where
\* suspend-all and the collector see it: the child waits for its parent.
RunningIsListed ==
  \A t \in Threads : status[t] = "running" => t \in threadList

\* When the parent tells its child to go, it finds it in THREAD_STARTING: the
\* assertion of dvmCreateInterpThread.
ParentFindsChild == \A t \in Threads : ~At(t, "assert")

\* A bitmap with a bit for every thread does not run out: assignThreadId does
\* not abort.
IdsSuffice == \A t \in Threads : ~At(t, "abort")

\* nonDaemonThreadCount counts the non-daemon threads of the list, attaches in
\* progress once more, and not the thread in DestroyJavaVM.
CountIsExact ==
  LET attaching == {t \in Threads : pc[t] \in
                      {"attach", "prepare", "link", "attached", "construct",
                       "unlink", "restore"}}
      leaving == {t \in Threads : pc[t] \in {"awaitExit", "shutdown"}}
  IN  ParentFindsChild /\ IdsSuffice =>
        nonDaemonThreadCount = Cardinality(threadList \ Daemons)
                               + Cardinality(attaching) - Cardinality(leaving)

\* What other parts of the VM see of the threads is right: the list has every
\* thread that runs, and the count every one DestroyJavaVM has to wait for.
ListIsRight == RunningIsListed /\ CountIsExact

\* DestroyJavaVM goes on to dvmShutdown only when no other non-daemon thread is
\* left in the list, whether it waited for that, found the count at zero or was
\* refused the attach.  The one exception is an attach that began and failed
\* half-way (no memory, a constructor that throws): that exit waits for nobody.
Exits == {"shutdown", "skipWait"}
ExitWaitsForAll ==
  [][\A t \in Threads :
       pc[t] \notin Exits /\ pc'[t] \in Exits =>
         threadList \subseteq Daemons \cup {t} \/ ~local[t].ok]_vars

\* The thread in DestroyJavaVM does not sleep on once the count is zero: the
\* last thread signals it.
ExitIsSignalled == nonDaemonThreadCount = 0 => exitCond = {}

\* Nobody sleeps through the start handshake on the one condition variable
\* that all starts share: a parent sleeps only while its child is still on
\* its way to announce itself, a child only while its parent is still to
\* link it and let it go.
StartIsSignalled ==
  \A t \in startCond :
    \/ At(t, "awaitChild") /\ pc[local[t].child] \in {"find", "store", "starting"}
    \/ /\ At(t, "awaitParent") /\ status[t] = "starting"
       /\ \E p \in Threads : /\ local[p].child = t
                             /\ pc[p] \in {"awaitChild", "linked"}
    \/ ~ParentFindsChild \/ ~IdsSuffice

\* Thread.start returns, once its parent and child get to run (unless the IDs
\* run out).
StartReturns ==
  \A t \in Threads : At(t, "create") ~> At(t, "run") \/ At(t, "abort")
=============================================================================
