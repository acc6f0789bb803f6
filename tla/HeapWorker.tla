----------------------------- MODULE HeapWorker -----------------------------
(***************************************************************************)
(* The HeapWorker thread (vm/alloc/HeapWorker.c), which runs finalizers    *)
(* and enqueues references, with the threads it meets: collectors          *)
(* (vm/alloc/Heap.c) that queue work and suspend everybody, callers of     *)
(* dvmWaitForHeapWorkerIdle, and the thread that starts the VM and shuts   *)
(* it down.                                                                *)
(*                                                                         *)
(* A finalizer may allocate, so the worker collects too.  That it calls    *)
(* dvmWaitForHeapWorkerIdle itself, and that a collection runs inside      *)
(* dvmHeapWorkerStartup, are deadlocks the comments own up to (TODO and    *)
(* BUG); the model leaves them out.                                        *)
(***************************************************************************)
EXTENDS Integers, FiniteSets

CONSTANTS
  Worker, Main,   \* the HeapWorker, and the thread that started the VM
  Mutators,       \* the other threads
  References,     \* References to enqueue
  Finalizables,   \* objects to finalise
  NoThread, NoObject

Threads == {Worker, Main} \cup Mutators
Objects == References \cup Finalizables

ASSUME WorkerAssumption ==
  /\ Worker # Main /\ {Worker, Main} \cap Mutators = {}
  /\ References \cap Finalizables = {}
  /\ NoThread \notin Threads /\ NoObject \notin Objects

VARIABLES
  pc,
  heapLock,       \* gDvm.gcHeapLock: who has it
  workerLock,     \* gDvm.heapWorkerLock: who has it
  suspender,      \* the thread that has suspended all others
  ready,          \* gDvm.heapWorkerReady
  halt,           \* gDvm.haltHeapWorker
  operations,     \* gcHeap->referenceOperations
  finalizations,  \* gcHeap->pendingFinalizationRefs
  current,        \* gcHeap->heapWorkerCurrentObject
  trim,           \* gcHeap->heapWorkerNextTrim: "none", "set" or "due"
  batch,          \* history: each object with those queued together with it
  goal            \* history: what a waiting caller saw queued

locks == <<heapLock, workerLock, suspender>>
flags == <<ready, halt>>
queue == <<operations, finalizations>>
history == <<batch, goal>>
vars == <<pc, locks, flags, queue, current, trim, history>>

Queued == (operations \cup finalizations \cup {current}) \ {NoObject}

At(t, where) == pc[t] = where
Goto(t, where) == pc' = [pc EXCEPT ![t] = where]

\* Not suspended: interpreted code runs on, dvmChangeStatus(RUNNING) returns.
Free(t) == suspender \in {NoThread, t}

\* Where dvmSuspendAllThreads does not wait for a thread: in interpreted code,
\* which stops at a safepoint, or in THREAD_VMWAIT.
Unsafe == {"begin", "enter", "loop", "relock", "work", "returned", "startup",
           "starting", "started"}
Safe(t) == pc[t] \notin Unsafe

-----------------------------------------------------------------------------
(* heapWorkerCond and heapWorkerIdleCond.  A thread waiting on a condition *)
(* is at one of these places; a signal sends it on to take the lock again. *)

Sleeping == {"sleep", "timedSleep"}

\* pthread_cond_signal(&heapWorkerCond) when thread t goes to where: the
\* worker is the only one to wait, once the VM is up.
SignalWorker(t, where) ==
  pc' = [pc EXCEPT ![t] = where,
                   ![Worker] = IF pc[Worker] \in Sleeping THEN "woken"
                               ELSE IF t = Worker THEN where ELSE @]

\* pthread_cond_broadcast(&heapWorkerIdleCond), by the worker.
BroadcastIdle(where) ==
  pc' = [t \in Threads |-> IF t = Worker THEN where
                           ELSE IF pc[t] = "idle" THEN "idleWoken" ELSE pc[t]]

-----------------------------------------------------------------------------
(* dvmHeapWorkerStartup: the main thread creates the worker while it holds *)
(* heapWorkerLock, and waits until it is ready.                            *)

CreateWorker ==
  /\ At(Main, "startup")
  /\ workerLock = NoThread
  /\ pc' = [pc EXCEPT ![Main] = "starting", ![Worker] = "begin"]
  /\ UNCHANGED <<locks, flags, queue, current, trim, history>>

\* Woken by Ready; the lock is taken, the flag read, the lock released.
StartupDone ==
  /\ At(Main, "started")
  /\ workerLock = NoThread
  /\ IF ready
     THEN pc' = [t \in Threads |-> IF t = Worker THEN pc[t] ELSE "run"]
     ELSE Goto(Main, "starting")
  /\ UNCHANGED <<locks, flags, queue, current, trim, history>>

\* heapWorkerThreadStart tells the main thread.
Ready ==
  /\ At(Worker, "begin")
  /\ workerLock = NoThread
  /\ ready' = TRUE
  /\ pc' = [pc EXCEPT ![Worker] = "enter",
                      ![Main] = IF @ = "starting" THEN "started" ELSE @]
  /\ UNCHANGED <<locks, halt, queue, current, trim, history>>

-----------------------------------------------------------------------------
(* heapWorkerThreadStart: the loop.                                        *)

Enter ==
  /\ At(Worker, "enter")
  /\ workerLock = NoThread
  /\ workerLock' = Worker
  /\ Goto(Worker, "loop")
  /\ UNCHANGED <<heapLock, suspender, flags, queue, current, trim, history>>

\* Mutant: the callers are not told.
LoopSilently ==
  /\ At(Worker, "loop")
  /\ Goto(Worker, CASE halt -> "exited"
                    [] ~halt /\ trim = "due" -> "trimHeap"
                    [] ~halt /\ trim = "set" -> "timedSleep"
                    [] ~halt /\ trim = "none" -> "sleep")
  /\ workerLock' = NoThread
  /\ UNCHANGED <<heapLock, suspender, flags, queue, current, trim, history>>

\* The top of the loop: tell the callers, then trim, or sleep.  Nothing is
\* looked at again before the worker sleeps: neither the queue nor the flag.
Loop ==
  /\ At(Worker, "loop")
  /\ IF halt THEN Goto(Worker, "exited")
     ELSE BroadcastIdle(CASE trim = "due" -> "trimHeap"
                          [] trim = "set" -> "timedSleep"
                          [] trim = "none" -> "sleep")
  /\ workerLock' = NoThread
  /\ UNCHANGED <<heapLock, suspender, flags, queue, current, trim, history>>

\* The heap lock comes before the worker's, which was released for that.
TrimLockHeap ==
  /\ At(Worker, "trimHeap")
  /\ heapLock = NoThread
  /\ heapLock' = Worker
  /\ Goto(Worker, "trimLock")
  /\ UNCHANGED <<workerLock, suspender, flags, queue, current, trim, history>>

\* With both locks: trim, unlock the heap, forget the request, and sleep.
Trim ==
  /\ At(Worker, "trimLock")
  /\ workerLock = NoThread
  /\ heapLock' = NoThread
  /\ trim' = "none"
  /\ Goto(Worker, "sleep")
  /\ UNCHANGED <<workerLock, suspender, flags, queue, current, history>>

\* pthread_cond_timedwait returns ETIMEDOUT.
TimedOut ==
  /\ At(Worker, "timedSleep")
  /\ trim = "due"
  /\ Goto(Worker, "woken")
  /\ UNCHANGED <<locks, flags, queue, current, trim, history>>

\* The wait returns with the lock, which is released at once.
Woken ==
  /\ At(Worker, "woken")
  /\ workerLock = NoThread
  /\ Goto(Worker, "resume")
  /\ UNCHANGED <<locks, flags, queue, current, trim, history>>

\* dvmChangeStatus(NULL, THREAD_RUNNING).
Resume ==
  /\ At(Worker, "resume")
  /\ Free(Worker)
  /\ Goto(Worker, "relock")
  /\ UNCHANGED <<locks, flags, queue, current, trim, history>>

Relock ==
  /\ At(Worker, "relock")
  /\ workerLock = NoThread
  /\ workerLock' = Worker
  /\ Goto(Worker, "work")
  /\ UNCHANGED <<heapLock, suspender, flags, queue, current, trim, history>>

-----------------------------------------------------------------------------
(* doHeapWork and callMethod.                                              *)

\* dvmGetNextHeapWorkerObject: reference operations come before finalizations.
\* The table hands out its last entry; any will do.
NextObject ==
  IF operations # {} THEN operations ELSE finalizations

\* callMethod notes the object and calls its method without the lock.
CallMethod ==
  /\ At(Worker, "work")
  /\ \E o \in NextObject :
       /\ operations' = operations \ {o}
       /\ finalizations' = finalizations \ {o}
       /\ current' = o
  /\ workerLock' = NoThread
  /\ Goto(Worker, "method")
  /\ UNCHANGED <<heapLock, suspender, flags, trim, history>>

\* Mutant: the worker stops when the references are enqueued.
WorkDoneEarly ==
  /\ At(Worker, "work")
  /\ operations = {}
  /\ Goto(Worker, "loop")
  /\ UNCHANGED <<locks, flags, queue, current, trim, history>>

WorkDone ==
  /\ At(Worker, "work")
  /\ NextObject = {}
  /\ Goto(Worker, "loop")
  /\ UNCHANGED <<locks, flags, queue, current, trim, history>>

MethodReturns ==
  /\ At(Worker, "method")
  /\ Free(Worker)
  /\ Goto(Worker, "returned")
  /\ UNCHANGED <<locks, flags, queue, current, trim, history>>

\* Mutant: the object stays noted.
MethodDoneNoted ==
  /\ At(Worker, "returned")
  /\ workerLock = NoThread
  /\ workerLock' = Worker
  /\ Goto(Worker, "work")
  /\ UNCHANGED <<heapLock, suspender, flags, queue, current, trim, history>>

MethodDone ==
  /\ At(Worker, "returned")
  /\ workerLock = NoThread
  /\ workerLock' = Worker
  /\ current' = NoObject
  /\ Goto(Worker, "work")
  /\ UNCHANGED <<heapLock, suspender, flags, queue, trim, history>>

-----------------------------------------------------------------------------
(* A collection, by any thread in interpreted code: dvmLockHeap,           *)
(* dvmCollectGarbageInternal, dvmUnlockHeap.                               *)

Interpreting(t) == IF t = Worker THEN At(t, "method") ELSE At(t, "run")

Allocate(t) ==
  /\ Interpreting(t)
  /\ Free(t)
  /\ Goto(t, "gcLock")
  /\ UNCHANGED <<locks, flags, queue, current, trim, history>>

\* A loser of pthread_mutex_trylock waits in THREAD_VMWAIT.
LockHeap(t) ==
  /\ At(t, "gcLock")
  /\ heapLock = NoThread /\ Free(t)
  /\ heapLock' = t
  /\ Goto(t, "gcSuspend")
  /\ UNCHANGED <<workerLock, suspender, flags, queue, current, trim, history>>

SuspendAll(t) ==
  /\ At(t, "gcSuspend")
  /\ suspender' = t
  /\ Goto(t, "gcStop")
  /\ UNCHANGED <<heapLock, workerLock, flags, queue, current, trim, history>>

\* All others have stopped: heapWorkerLock is free, or soon will be.
LockWorker(t) ==
  /\ At(t, "gcStop")
  /\ \A u \in Threads \ {t} : Safe(u)
  /\ workerLock = NoThread
  /\ workerLock' = t
  /\ Goto(t, "gcCollect")
  /\ UNCHANGED <<heapLock, suspender, flags, queue, current, trim, history>>

\* Mutant: the worker is not signalled.
CollectSilently(t) ==
  /\ At(t, "gcCollect")
  /\ \E new \in SUBSET (Objects \ DOMAIN batch) :
       /\ operations' = operations \cup (new \cap References)
       /\ finalizations' = finalizations \cup (new \cap Finalizables)
       /\ batch' = [o \in new \cup DOMAIN batch |->
                      IF o \in new THEN new ELSE batch[o]]
  /\ trim' \in {"set", "none"}
  /\ workerLock' = NoThread
  /\ Goto(t, "gcResume")
  /\ UNCHANGED <<heapLock, suspender, flags, current, goal>>

\* The collection queues what it found, signals, and asks for a trim: the
\* request is lost when its microseconds are zero.
Collect(t) ==
  /\ At(t, "gcCollect")
  /\ \E new \in SUBSET (Objects \ DOMAIN batch) :
       /\ operations' = operations \cup (new \cap References)
       /\ finalizations' = finalizations \cup (new \cap Finalizables)
       /\ batch' = [o \in new \cup DOMAIN batch |->
                      IF o \in new THEN new ELSE batch[o]]
  /\ trim' \in {"set", "none"}
  /\ workerLock' = NoThread
  /\ SignalWorker(t, "gcResume")
  /\ UNCHANGED <<heapLock, suspender, flags, current, goal>>

ResumeAll(t) ==
  /\ At(t, "gcResume")
  /\ suspender' = NoThread
  /\ Goto(t, "gcUnlock")
  /\ UNCHANGED <<heapLock, workerLock, flags, queue, current, trim, history>>

UnlockHeap(t) ==
  /\ At(t, "gcUnlock")
  /\ heapLock' = NoThread
  /\ Goto(t, IF t = Worker THEN "method" ELSE "run")
  /\ UNCHANGED <<workerLock, suspender, flags, queue, current, trim, history>>

\* Time passes.
TrimIsDue ==
  /\ trim = "set"
  /\ trim' = "due"
  /\ UNCHANGED <<pc, locks, flags, queue, current, history>>

-----------------------------------------------------------------------------
(* dvmWaitForHeapWorkerIdle, as dvmRunFinalizationSync calls it outside    *)
(* the zygote.                                                             *)

RunFinalization(t) ==
  /\ At(t, "run")
  /\ Free(t)
  /\ ready  \* asserted
  /\ Goto(t, "idleLock")
  /\ UNCHANGED <<locks, flags, queue, current, trim, history>>

\* With the lock: wake the worker, and wait for its next broadcast.
WaitIdle(t) ==
  /\ At(t, "idleLock")
  /\ workerLock = NoThread
  /\ SignalWorker(t, "idle")
  /\ goal' = [goal EXCEPT ![t] = IF pc[Worker] = "enter" THEN {} ELSE Queued]
  /\ UNCHANGED <<locks, flags, queue, current, trim, batch>>

IdleWoken(t) ==
  /\ At(t, "idleWoken")
  /\ workerLock = NoThread
  /\ Goto(t, "idleBack")
  /\ UNCHANGED <<locks, flags, queue, current, trim, history>>

IdleReturns(t) ==
  /\ At(t, "idleBack")
  /\ Free(t)
  /\ Goto(t, "run")
  /\ goal' = [goal EXCEPT ![t] = {}]
  /\ UNCHANGED <<locks, flags, queue, current, trim, batch>>

-----------------------------------------------------------------------------
(* dvmHeapWorkerShutdown, by the main thread in DestroyJavaVM.             *)

\* The flag is set without the lock.
Halt ==
  /\ At(Main, "run")
  /\ Free(Main)
  /\ halt' = TRUE
  /\ Goto(Main, "halt")
  /\ UNCHANGED <<locks, ready, queue, current, trim, history>>

SignalHalt ==
  /\ At(Main, "halt")
  /\ workerLock = NoThread
  /\ SignalWorker(Main, "join")
  /\ UNCHANGED <<locks, flags, queue, current, trim, history>>

Join ==
  /\ At(Main, "join")
  /\ At(Worker, "exited")
  /\ ready' = FALSE
  /\ Goto(Main, "down")
  /\ UNCHANGED <<locks, halt, queue, current, trim, history>>

-----------------------------------------------------------------------------
Init ==
  /\ pc = [t \in Threads |-> IF t = Main THEN "startup" ELSE "none"]
  /\ heapLock = NoThread /\ workerLock = NoThread /\ suspender = NoThread
  /\ ready = FALSE /\ halt = FALSE
  /\ operations = {} /\ finalizations = {} /\ current = NoObject
  /\ trim = "none"
  /\ batch = [o \in {} |-> {}]
  /\ goal = [t \in Threads |-> {}]

StartUp == CreateWorker \/ StartupDone \/ Ready
WorkerStep ==
  \/ Enter \/ Loop \/ TrimLockHeap \/ Trim \/ TimedOut \/ Woken \/ Resume
  \/ Relock \/ CallMethod \/ WorkDone \/ MethodReturns \/ MethodDone
Collection(t) ==
  \/ LockHeap(t) \/ SuspendAll(t) \/ LockWorker(t) \/ Collect(t)
  \/ ResumeAll(t) \/ UnlockHeap(t)
Waiting(t) == WaitIdle(t) \/ IdleWoken(t) \/ IdleReturns(t)
ShutDown == SignalHalt \/ Join

Next ==
  \/ StartUp \/ WorkerStep \/ TrimIsDue \/ Halt \/ ShutDown
  \/ \E t \in Threads :
       Allocate(t) \/ Collection(t) \/ RunFinalization(t) \/ Waiting(t)

Spec == Init /\ [][Next]_vars

\* Threads that can run do, mutexes are granted, methods return, time passes.
\* Nothing makes the program allocate, wait or shut down.
Fairness ==
  /\ WF_vars(StartUp) /\ WF_vars(ShutDown) /\ WF_vars(TrimIsDue)
  /\ SF_vars(WorkerStep)
  /\ \A t \in Threads : SF_vars(Collection(t)) /\ SF_vars(Waiting(t))
FairSpec == Spec /\ Fairness

-----------------------------------------------------------------------------
(* Properties.                                                             *)

\* The state is of the expected shape.
TypeOK ==
  /\ DOMAIN pc = Threads
  /\ {heapLock, workerLock, suspender} \subseteq Threads \cup {NoThread}
  /\ {ready, halt} \subseteq BOOLEAN
  /\ operations \subseteq References /\ finalizations \subseteq Finalizables
  /\ current \in Objects \cup {NoObject}
  /\ trim \in {"none", "set", "due"}
  /\ DOMAIN batch \subseteq Objects
  /\ goal \in [Threads -> SUBSET Objects]

\* dvmAssertHeapWorkerThreadRunning aborts the VM over a method that takes too
\* long: when a collector looks, the noted object is one whose method is
\* running, and not one that has returned or has not been called.
WatchdogSeesMethod ==
  \A t \in Threads : At(t, "gcCollect") =>
    (current # NoObject <=> t = Worker \/ pc[Worker] \in {"method", "gcLock"})

\* "We must handle reference operations before finalizations": when finalize
\* is called on an object, the references queued together with it were
\* enqueued.
ReferencesFirst ==
  current \in Finalizables => batch[current] \cap operations = {}

\* "Do not return until any pending heap work has finished": what was queued,
\* or being worked on, when the caller began to wait is done when it returns.
\* (The worker's first broadcast, at start-up, follows no work: calls that
\* come before it are left out.)
IdleMeansDone ==
  \A t \in Threads : At(t, "idleBack") => goal[t] \cap Queued = {}

\* While the program goes on collecting, queued objects are worked on.
CollectsOn == []<>(suspender # NoThread)
QueueDrains ==
  CollectsOn => \A o \in Objects : o \in Queued ~> (o \notin Queued \/ halt)

\* A collection ends: nobody holds heapWorkerLock, or stays in THREAD_RUNNING,
\* while it waits for the collector.  While the program goes on collecting,
\* dvmWaitForHeapWorkerIdle returns and dvmHeapWorkerShutdown joins the worker.
CallsReturn ==
  /\ heapLock # NoThread ~> heapLock = NoThread
  /\ CollectsOn =>
       /\ \A t \in Threads \ {Worker} : At(t, "idle") ~> (~At(t, "idle") \/ halt)
       /\ At(Main, "join") ~> At(Main, "down")

\* "Wake up the heap worker to let it know that there's work to be done": the
\* worker does not sleep, with no deadline, while an object is queued or a
\* caller waits for it.  It does: a signal sent while it has released its lock
\* to take the heap's (Trim) finds nobody waiting.
SignalIsHeard ==
  At(Worker, "sleep") => Queued = {} /\ \A t \in Threads : ~At(t, "idle")
=============================================================================
