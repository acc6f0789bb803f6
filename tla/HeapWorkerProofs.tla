-------------------------- MODULE HeapWorkerProofs --------------------------
(***************************************************************************)
(* For any number of threads and objects: when a collector looks, the      *)
(* HeapWorker's note tells whether a method is running; a caller of        *)
(* dvmWaitForHeapWorkerIdle returns when what it saw queued is done; and   *)
(* references are enqueued before the finalizers queued with them run.     *)
(***************************************************************************)
EXTENDS HeapWorker, TLAPS

Collecting == {"gcSuspend", "gcStop", "gcCollect", "gcResume", "gcUnlock"}
Starting == {"startup", "starting", "started"}

\* Where the worker may be, and where the others may be.
WorkerPlaces ==
  {"none", "begin", "enter", "loop", "trimHeap", "trimLock", "sleep",
   "timedSleep", "woken", "resume", "relock", "work", "method", "returned",
   "exited", "gcLock"} \cup Collecting
CallerPlaces ==
  {"none", "run", "idleLock", "idle", "idleWoken", "idleBack", "halt", "join",
   "down", "gcLock"} \cup Starting \cup Collecting

\* dvmHeapWorkerStartup comes before everything else.
PlaceInv ==
  /\ pc \in [Threads -> WorkerPlaces \cup CallerPlaces]
  /\ pc[Worker] \in WorkerPlaces
  /\ \A t \in Threads \ {Worker} : pc[t] \in CallerPlaces
  /\ pc[Main] \in Starting => \A m \in Mutators : pc[m] = "none"
  /\ pc[Main] = "startup" => pc[Worker] = "none"
  /\ pc[Worker] \in {"none", "begin"} => pc[Main] \in Starting /\ ~ready

\* Who is where tells who has which lock, and who has suspended the others;
\* those stay where they are safe until the collection has ended.
LockInv ==
  /\ \A t \in Threads : workerLock = t <=> pc[t] \in {"loop", "work", "gcCollect"}
  /\ \A t \in Threads : heapLock = t <=> pc[t] \in {"trimLock"} \cup Collecting
  /\ \A t \in Threads : suspender = t <=> pc[t] \in {"gcStop", "gcCollect", "gcResume"}
  /\ \A t, u \in Threads : pc[t] = "gcCollect" /\ u # t => Safe(u)

\* The worker notes an object for as long as it is in the object's method, or
\* has not taken its lock again, or collects on behalf of the method.
CurrentInv ==
  current # NoObject <=>
    pc[Worker] \in {"method", "returned", "gcLock"} \cup Collecting

\* Every queued object has been queued by a collection, never twice.
BatchInv ==
  /\ Queued \subseteq DOMAIN batch
  /\ \A o \in DOMAIN batch : batch[o] \subseteq DOMAIN batch

\* What a caller waits for was queued; it is done when the worker comes round
\* to tell, and stays done.
GoalInv ==
  /\ \A t \in Threads : goal[t] \subseteq DOMAIN batch
  /\ pc[Worker] \in {"none", "begin", "enter"} => \A t \in Threads : goal[t] = {}
  /\ \A t \in Threads :
       \/ pc[t] \in {"idleWoken", "idleBack"}
       \/ pc[t] = "idle" /\ pc[Worker] = "loop"
       => goal[t] \cap Queued = {}

Inv == TypeOK /\ PlaceInv /\ LockInv /\ CurrentInv /\ BatchInv /\ GoalInv

-----------------------------------------------------------------------------
\* The worker, the main thread and the others are different threads.
LEMMA ThreadFacts ==
  /\ Worker \in Threads /\ Main \in Threads /\ Worker # Main
  /\ \A m \in Mutators : m \in Threads /\ m # Worker /\ m # Main
  /\ \A t \in Threads : t \in {Worker, Main} \cup Mutators
  /\ NoThread \notin Threads
BY WorkerAssumption DEF Threads

\* Everybody stays where they belong.
LEMMA PlaceStep == Inv /\ [Next]_vars => PlaceInv'
<1> SUFFICES ASSUME Inv, [Next]_vars PROVE PlaceInv'
  OBVIOUS
<1> USE DEF locks, flags, queue, history, At, Goto, Free, Inv, PlaceInv, TypeOK, WorkerPlaces, CallerPlaces, Collecting, Starting
<1>1. CASE UNCHANGED vars
  BY <1>1, ThreadFacts DEF vars
<1>2. CASE CreateWorker
  BY <1>2, ThreadFacts DEF CreateWorker
<1>3. CASE StartupDone
  BY <1>3, ThreadFacts DEF StartupDone
<1>4. CASE Ready
  BY <1>4, ThreadFacts DEF Ready
<1>5. CASE Enter
  BY <1>5, ThreadFacts DEF Enter
<1>6. CASE Loop
  BY <1>6, ThreadFacts DEF Loop, BroadcastIdle
<1>7. CASE TrimLockHeap
  BY <1>7, ThreadFacts DEF TrimLockHeap
<1>8. CASE Trim
  BY <1>8, ThreadFacts DEF Trim
<1>9. CASE TimedOut
  BY <1>9, ThreadFacts DEF TimedOut
<1>10. CASE Woken
  BY <1>10, ThreadFacts DEF Woken
<1>11. CASE Resume
  BY <1>11, ThreadFacts DEF Resume
<1>12. CASE Relock
  BY <1>12, ThreadFacts DEF Relock
<1>13. CASE CallMethod
  BY <1>13, ThreadFacts DEF CallMethod, NextObject
<1>14. CASE WorkDone
  BY <1>14, ThreadFacts DEF WorkDone, NextObject
<1>15. CASE MethodReturns
  BY <1>15, ThreadFacts DEF MethodReturns
<1>16. CASE MethodDone
  BY <1>16, ThreadFacts DEF MethodDone
<1>17. CASE TrimIsDue
  BY <1>17, ThreadFacts DEF TrimIsDue
<1>18. CASE Halt
  BY <1>18, ThreadFacts DEF Halt
<1>19. CASE SignalHalt
  BY <1>19, ThreadFacts DEF SignalHalt, SignalWorker, Sleeping
<1>20. CASE Join
  BY <1>20, ThreadFacts DEF Join
<1>21. ASSUME NEW t \in Threads, Allocate(t) PROVE PlaceInv'
  BY <1>21, ThreadFacts DEF Allocate, Interpreting
<1>22. ASSUME NEW t \in Threads, LockHeap(t) PROVE PlaceInv'
  BY <1>22, ThreadFacts DEF LockHeap
<1>23. ASSUME NEW t \in Threads, SuspendAll(t) PROVE PlaceInv'
  BY <1>23, ThreadFacts DEF SuspendAll
<1>24. ASSUME NEW t \in Threads, LockWorker(t) PROVE PlaceInv'
  BY <1>24, ThreadFacts DEF LockWorker
<1>25. ASSUME NEW t \in Threads, Collect(t) PROVE PlaceInv'
  BY <1>25, ThreadFacts DEF Collect, SignalWorker, Sleeping
<1>26. ASSUME NEW t \in Threads, ResumeAll(t) PROVE PlaceInv'
  BY <1>26, ThreadFacts DEF ResumeAll
<1>27. ASSUME NEW t \in Threads, UnlockHeap(t) PROVE PlaceInv'
  BY <1>27, ThreadFacts DEF UnlockHeap
<1>28. ASSUME NEW t \in Threads, RunFinalization(t) PROVE PlaceInv'
  BY <1>28, ThreadFacts DEF RunFinalization
<1>29. ASSUME NEW t \in Threads, WaitIdle(t) PROVE PlaceInv'
  BY <1>29, ThreadFacts DEF WaitIdle, SignalWorker, Sleeping
<1>30. ASSUME NEW t \in Threads, IdleWoken(t) PROVE PlaceInv'
  BY <1>30, ThreadFacts DEF IdleWoken
<1>31. ASSUME NEW t \in Threads, IdleReturns(t) PROVE PlaceInv'
  BY <1>31, ThreadFacts DEF IdleReturns
<1> QED
  BY <1>1, <1>2, <1>3, <1>4, <1>5, <1>6, <1>7, <1>8, <1>9, <1>10, <1>11,
     <1>12, <1>13, <1>14, <1>15, <1>16, <1>17, <1>18, <1>19, <1>20, <1>21,
     <1>22, <1>23, <1>24, <1>25, <1>26, <1>27, <1>28, <1>29, <1>30, <1>31
  DEF Next, StartUp, WorkerStep, Collection, Waiting, ShutDown

\* The state has its type in every step.
LEMMA TypeStep == Inv /\ [Next]_vars => TypeOK'
<1> SUFFICES ASSUME Inv, [Next]_vars PROVE TypeOK'
  OBVIOUS
<1> USE DEF locks, flags, queue, history, At, Goto, Free, Inv, TypeOK, Objects, Queued
<1>1. CASE UNCHANGED vars
  BY <1>1, ThreadFacts, WorkerAssumption DEF vars
<1>2. CASE CreateWorker
  BY <1>2, ThreadFacts, WorkerAssumption DEF CreateWorker
<1>3. CASE StartupDone
  BY <1>3, ThreadFacts, WorkerAssumption DEF StartupDone
<1>4. CASE Ready
  BY <1>4, ThreadFacts, WorkerAssumption DEF Ready
<1>5. CASE Enter
  BY <1>5, ThreadFacts, WorkerAssumption DEF Enter
<1>6. CASE Loop
  BY <1>6, ThreadFacts, WorkerAssumption DEF Loop, BroadcastIdle
<1>7. CASE TrimLockHeap
  BY <1>7, ThreadFacts, WorkerAssumption DEF TrimLockHeap
<1>8. CASE Trim
  BY <1>8, ThreadFacts, WorkerAssumption DEF Trim
<1>9. CASE TimedOut
  BY <1>9, ThreadFacts, WorkerAssumption DEF TimedOut
<1>10. CASE Woken
  BY <1>10, ThreadFacts, WorkerAssumption DEF Woken
<1>11. CASE Resume
  BY <1>11, ThreadFacts, WorkerAssumption DEF Resume
<1>12. CASE Relock
  BY <1>12, ThreadFacts, WorkerAssumption DEF Relock
<1>13. CASE CallMethod
  BY <1>13, ThreadFacts, WorkerAssumption DEF CallMethod, NextObject
<1>14. CASE WorkDone
  BY <1>14, ThreadFacts, WorkerAssumption DEF WorkDone, NextObject
<1>15. CASE MethodReturns
  BY <1>15, ThreadFacts, WorkerAssumption DEF MethodReturns
<1>16. CASE MethodDone
  BY <1>16, ThreadFacts, WorkerAssumption DEF MethodDone
<1>17. CASE TrimIsDue
  BY <1>17, ThreadFacts, WorkerAssumption DEF TrimIsDue
<1>18. CASE Halt
  BY <1>18, ThreadFacts, WorkerAssumption DEF Halt
<1>19. CASE SignalHalt
  BY <1>19, ThreadFacts, WorkerAssumption DEF SignalHalt, SignalWorker, Sleeping
<1>20. CASE Join
  BY <1>20, ThreadFacts, WorkerAssumption DEF Join
<1>21. ASSUME NEW t \in Threads, Allocate(t) PROVE TypeOK'
  BY <1>21, ThreadFacts, WorkerAssumption DEF Allocate, Interpreting
<1>22. ASSUME NEW t \in Threads, LockHeap(t) PROVE TypeOK'
  BY <1>22, ThreadFacts, WorkerAssumption DEF LockHeap
<1>23. ASSUME NEW t \in Threads, SuspendAll(t) PROVE TypeOK'
  BY <1>23, ThreadFacts, WorkerAssumption DEF SuspendAll
<1>24. ASSUME NEW t \in Threads, LockWorker(t) PROVE TypeOK'
  BY <1>24, ThreadFacts, WorkerAssumption DEF LockWorker
<1>25. ASSUME NEW t \in Threads, Collect(t) PROVE TypeOK'
  BY <1>25, ThreadFacts, WorkerAssumption DEF Collect, SignalWorker, Sleeping
<1>26. ASSUME NEW t \in Threads, ResumeAll(t) PROVE TypeOK'
  BY <1>26, ThreadFacts, WorkerAssumption DEF ResumeAll
<1>27. ASSUME NEW t \in Threads, UnlockHeap(t) PROVE TypeOK'
  BY <1>27, ThreadFacts, WorkerAssumption DEF UnlockHeap
<1>28. ASSUME NEW t \in Threads, RunFinalization(t) PROVE TypeOK'
  BY <1>28, ThreadFacts, WorkerAssumption DEF RunFinalization
<1>29. ASSUME NEW t \in Threads, WaitIdle(t) PROVE TypeOK'
  BY <1>29, ThreadFacts, WorkerAssumption DEF WaitIdle, SignalWorker, Sleeping
<1>30. ASSUME NEW t \in Threads, IdleWoken(t) PROVE TypeOK'
  BY <1>30, ThreadFacts, WorkerAssumption DEF IdleWoken
<1>31. ASSUME NEW t \in Threads, IdleReturns(t) PROVE TypeOK'
  BY <1>31, ThreadFacts, WorkerAssumption DEF IdleReturns
<1> QED
  BY <1>1, <1>2, <1>3, <1>4, <1>5, <1>6, <1>7, <1>8, <1>9, <1>10, <1>11,
     <1>12, <1>13, <1>14, <1>15, <1>16, <1>17, <1>18, <1>19, <1>20, <1>21,
     <1>22, <1>23, <1>24, <1>25, <1>26, <1>27, <1>28, <1>29, <1>30, <1>31
  DEF Next, StartUp, WorkerStep, Collection, Waiting, ShutDown

\* The locks go with the places.
LEMMA LockStep == Inv /\ [Next]_vars => LockInv'
<1> SUFFICES ASSUME Inv, [Next]_vars PROVE LockInv'
  OBVIOUS
<1>0. /\ pc \in [Threads -> WorkerPlaces \cup CallerPlaces] /\ LockInv
      /\ pc[Main] = "startup" => pc[Worker] = "none"
      /\ pc[Main] = "started" => \A m \in Mutators : pc[m] = "none"
      /\ trim \in {"none", "set", "due"}
      /\ {heapLock, workerLock, suspender} \subseteq Threads \cup {NoThread}
  BY DEF Inv, TypeOK, PlaceInv, Starting
<1> USE DEF locks, flags, queue, history, At, Goto, Free, LockInv, Safe, Unsafe, Collecting
<1>1. CASE UNCHANGED vars
  BY <1>1, <1>0, ThreadFacts DEF vars
<1>2. CASE CreateWorker
  BY <1>2, <1>0, ThreadFacts DEF CreateWorker
<1>3. CASE StartupDone
  BY <1>3, <1>0, ThreadFacts DEF StartupDone
<1>4. CASE Ready
  BY <1>4, <1>0, ThreadFacts DEF Ready
<1>5. CASE Enter
  BY <1>5, <1>0, ThreadFacts DEF Enter
<1>6. CASE Loop
  BY <1>6, <1>0, ThreadFacts DEF Loop, BroadcastIdle
<1>7. CASE TrimLockHeap
  BY <1>7, <1>0, ThreadFacts DEF TrimLockHeap
<1>8. CASE Trim
  BY <1>8, <1>0, ThreadFacts DEF Trim
<1>9. CASE TimedOut
  BY <1>9, <1>0, ThreadFacts DEF TimedOut
<1>10. CASE Woken
  BY <1>10, <1>0, ThreadFacts DEF Woken
<1>11. CASE Resume
  BY <1>11, <1>0, ThreadFacts DEF Resume
<1>12. CASE Relock
  BY <1>12, <1>0, ThreadFacts DEF Relock
<1>13. CASE CallMethod
  BY <1>13, <1>0, ThreadFacts DEF CallMethod, NextObject
<1>14. CASE WorkDone
  BY <1>14, <1>0, ThreadFacts DEF WorkDone, NextObject
<1>15. CASE MethodReturns
  BY <1>15, <1>0, ThreadFacts DEF MethodReturns
<1>16. CASE MethodDone
  BY <1>16, <1>0, ThreadFacts DEF MethodDone
<1>17. CASE TrimIsDue
  BY <1>17, <1>0, ThreadFacts DEF TrimIsDue
<1>18. CASE Halt
  BY <1>18, <1>0, ThreadFacts DEF Halt
<1>19. CASE SignalHalt
  BY <1>19, <1>0, ThreadFacts DEF SignalHalt, SignalWorker, Sleeping
<1>20. CASE Join
  BY <1>20, <1>0, ThreadFacts DEF Join
<1>21. ASSUME NEW t \in Threads, Allocate(t) PROVE LockInv'
  BY <1>21, <1>0, ThreadFacts DEF Allocate, Interpreting
<1>22. ASSUME NEW t \in Threads, LockHeap(t) PROVE LockInv'
  BY <1>22, <1>0, ThreadFacts DEF LockHeap
<1>23. ASSUME NEW t \in Threads, SuspendAll(t) PROVE LockInv'
  BY <1>23, <1>0, ThreadFacts DEF SuspendAll
<1>24. ASSUME NEW t \in Threads, LockWorker(t) PROVE LockInv'
  BY <1>24, <1>0, ThreadFacts DEF LockWorker
<1>25. ASSUME NEW t \in Threads, Collect(t) PROVE LockInv'
  BY <1>25, <1>0, ThreadFacts DEF Collect, SignalWorker, Sleeping
<1>26. ASSUME NEW t \in Threads, ResumeAll(t) PROVE LockInv'
  BY <1>26, <1>0, ThreadFacts DEF ResumeAll
<1>27. ASSUME NEW t \in Threads, UnlockHeap(t) PROVE LockInv'
  BY <1>27, <1>0, ThreadFacts DEF UnlockHeap
<1>28. ASSUME NEW t \in Threads, RunFinalization(t) PROVE LockInv'
  BY <1>28, <1>0, ThreadFacts DEF RunFinalization
<1>29. ASSUME NEW t \in Threads, WaitIdle(t) PROVE LockInv'
  BY <1>29, <1>0, ThreadFacts DEF WaitIdle, SignalWorker, Sleeping
<1>30. ASSUME NEW t \in Threads, IdleWoken(t) PROVE LockInv'
  BY <1>30, <1>0, ThreadFacts DEF IdleWoken
<1>31. ASSUME NEW t \in Threads, IdleReturns(t) PROVE LockInv'
  BY <1>31, <1>0, ThreadFacts DEF IdleReturns
<1> QED
  BY <1>1, <1>2, <1>3, <1>4, <1>5, <1>6, <1>7, <1>8, <1>9, <1>10, <1>11,
     <1>12, <1>13, <1>14, <1>15, <1>16, <1>17, <1>18, <1>19, <1>20, <1>21,
     <1>22, <1>23, <1>24, <1>25, <1>26, <1>27, <1>28, <1>29, <1>30, <1>31
  DEF Next, StartUp, WorkerStep, Collection, Waiting, ShutDown

\* The note goes with the method.
LEMMA CurrentStep == Inv /\ [Next]_vars => CurrentInv'
<1> SUFFICES ASSUME Inv, [Next]_vars PROVE CurrentInv'
  OBVIOUS
<1>0. /\ pc \in [Threads -> WorkerPlaces \cup CallerPlaces] /\ CurrentInv
      /\ pc[Main] = "startup" => pc[Worker] = "none"
      /\ trim \in {"none", "set", "due"}
      /\ operations \subseteq Objects /\ finalizations \subseteq Objects
      /\ NoObject \notin Objects
  BY WorkerAssumption DEF Inv, TypeOK, PlaceInv, Objects
<1> USE DEF locks, flags, queue, history, At, Goto, Free, CurrentInv, Collecting
<1>1. CASE UNCHANGED vars
  BY <1>1, <1>0, ThreadFacts DEF vars
<1>2. CASE CreateWorker
  BY <1>2, <1>0, ThreadFacts DEF CreateWorker
<1>3. CASE StartupDone
  BY <1>3, <1>0, ThreadFacts DEF StartupDone
<1>4. CASE Ready
  BY <1>4, <1>0, ThreadFacts DEF Ready
<1>5. CASE Enter
  BY <1>5, <1>0, ThreadFacts DEF Enter
<1>6. CASE Loop
  BY <1>6, <1>0, ThreadFacts DEF Loop, BroadcastIdle
<1>7. CASE TrimLockHeap
  BY <1>7, <1>0, ThreadFacts DEF TrimLockHeap
<1>8. CASE Trim
  BY <1>8, <1>0, ThreadFacts DEF Trim
<1>9. CASE TimedOut
  BY <1>9, <1>0, ThreadFacts DEF TimedOut
<1>10. CASE Woken
  BY <1>10, <1>0, ThreadFacts DEF Woken
<1>11. CASE Resume
  BY <1>11, <1>0, ThreadFacts DEF Resume
<1>12. CASE Relock
  BY <1>12, <1>0, ThreadFacts DEF Relock
<1>13. CASE CallMethod
  BY <1>13, <1>0, ThreadFacts DEF CallMethod, NextObject
<1>14. CASE WorkDone
  BY <1>14, <1>0, ThreadFacts DEF WorkDone, NextObject
<1>15. CASE MethodReturns
  BY <1>15, <1>0, ThreadFacts DEF MethodReturns
<1>16. CASE MethodDone
  BY <1>16, <1>0, ThreadFacts DEF MethodDone
<1>17. CASE TrimIsDue
  BY <1>17, <1>0, ThreadFacts DEF TrimIsDue
<1>18. CASE Halt
  BY <1>18, <1>0, ThreadFacts DEF Halt
<1>19. CASE SignalHalt
  BY <1>19, <1>0, ThreadFacts DEF SignalHalt, SignalWorker, Sleeping
<1>20. CASE Join
  BY <1>20, <1>0, ThreadFacts DEF Join
<1>21. ASSUME NEW t \in Threads, Allocate(t) PROVE CurrentInv'
  BY <1>21, <1>0, ThreadFacts DEF Allocate, Interpreting
<1>22. ASSUME NEW t \in Threads, LockHeap(t) PROVE CurrentInv'
  BY <1>22, <1>0, ThreadFacts DEF LockHeap
<1>23. ASSUME NEW t \in Threads, SuspendAll(t) PROVE CurrentInv'
  BY <1>23, <1>0, ThreadFacts DEF SuspendAll
<1>24. ASSUME NEW t \in Threads, LockWorker(t) PROVE CurrentInv'
  BY <1>24, <1>0, ThreadFacts DEF LockWorker
<1>25. ASSUME NEW t \in Threads, Collect(t) PROVE CurrentInv'
  BY <1>25, <1>0, ThreadFacts DEF Collect, SignalWorker, Sleeping
<1>26. ASSUME NEW t \in Threads, ResumeAll(t) PROVE CurrentInv'
  BY <1>26, <1>0, ThreadFacts DEF ResumeAll
<1>27. ASSUME NEW t \in Threads, UnlockHeap(t) PROVE CurrentInv'
  BY <1>27, <1>0, ThreadFacts DEF UnlockHeap
<1>28. ASSUME NEW t \in Threads, RunFinalization(t) PROVE CurrentInv'
  BY <1>28, <1>0, ThreadFacts DEF RunFinalization
<1>29. ASSUME NEW t \in Threads, WaitIdle(t) PROVE CurrentInv'
  BY <1>29, <1>0, ThreadFacts DEF WaitIdle, SignalWorker, Sleeping
<1>30. ASSUME NEW t \in Threads, IdleWoken(t) PROVE CurrentInv'
  BY <1>30, <1>0, ThreadFacts DEF IdleWoken
<1>31. ASSUME NEW t \in Threads, IdleReturns(t) PROVE CurrentInv'
  BY <1>31, <1>0, ThreadFacts DEF IdleReturns
<1> QED
  BY <1>1, <1>2, <1>3, <1>4, <1>5, <1>6, <1>7, <1>8, <1>9, <1>10, <1>11,
     <1>12, <1>13, <1>14, <1>15, <1>16, <1>17, <1>18, <1>19, <1>20, <1>21,
     <1>22, <1>23, <1>24, <1>25, <1>26, <1>27, <1>28, <1>29, <1>30, <1>31
  DEF Next, StartUp, WorkerStep, Collection, Waiting, ShutDown

\* A collection queues only what was never queued.
LEMMA BatchStep == Inv /\ [Next]_vars => BatchInv'
<1> SUFFICES ASSUME Inv, [Next]_vars PROVE BatchInv'
  OBVIOUS
<1>0. BatchInv /\ NoObject \notin Objects
  BY WorkerAssumption DEF Inv
<1> USE DEF locks, flags, queue, history, At, Goto, Free, BatchInv, Queued
<1>1. CASE UNCHANGED vars
  BY <1>1, <1>0 DEF vars
<1>2. CASE CreateWorker
  BY <1>2, <1>0 DEF CreateWorker
<1>3. CASE StartupDone
  BY <1>3, <1>0 DEF StartupDone
<1>4. CASE Ready
  BY <1>4, <1>0 DEF Ready
<1>5. CASE Enter
  BY <1>5, <1>0 DEF Enter
<1>6. CASE Loop
  BY <1>6, <1>0 DEF Loop, BroadcastIdle
<1>7. CASE TrimLockHeap
  BY <1>7, <1>0 DEF TrimLockHeap
<1>8. CASE Trim
  BY <1>8, <1>0 DEF Trim
<1>9. CASE TimedOut
  BY <1>9, <1>0 DEF TimedOut
<1>10. CASE Woken
  BY <1>10, <1>0 DEF Woken
<1>11. CASE Resume
  BY <1>11, <1>0 DEF Resume
<1>12. CASE Relock
  BY <1>12, <1>0 DEF Relock
<1>13. CASE CallMethod
  BY <1>13, <1>0 DEF CallMethod, NextObject
<1>14. CASE WorkDone
  BY <1>14, <1>0 DEF WorkDone, NextObject
<1>15. CASE MethodReturns
  BY <1>15, <1>0 DEF MethodReturns
<1>16. CASE MethodDone
  BY <1>16, <1>0 DEF MethodDone
<1>17. CASE TrimIsDue
  BY <1>17, <1>0 DEF TrimIsDue
<1>18. CASE Halt
  BY <1>18, <1>0 DEF Halt
<1>19. CASE SignalHalt
  BY <1>19, <1>0 DEF SignalHalt, SignalWorker, Sleeping
<1>20. CASE Join
  BY <1>20, <1>0 DEF Join
<1>21. ASSUME NEW t \in Threads, Allocate(t) PROVE BatchInv'
  BY <1>21, <1>0 DEF Allocate, Interpreting
<1>22. ASSUME NEW t \in Threads, LockHeap(t) PROVE BatchInv'
  BY <1>22, <1>0 DEF LockHeap
<1>23. ASSUME NEW t \in Threads, SuspendAll(t) PROVE BatchInv'
  BY <1>23, <1>0 DEF SuspendAll
<1>24. ASSUME NEW t \in Threads, LockWorker(t) PROVE BatchInv'
  BY <1>24, <1>0 DEF LockWorker
<1>25. ASSUME NEW t \in Threads, Collect(t) PROVE BatchInv'
  BY <1>25, <1>0 DEF Collect, SignalWorker, Sleeping
<1>26. ASSUME NEW t \in Threads, ResumeAll(t) PROVE BatchInv'
  BY <1>26, <1>0 DEF ResumeAll
<1>27. ASSUME NEW t \in Threads, UnlockHeap(t) PROVE BatchInv'
  BY <1>27, <1>0 DEF UnlockHeap
<1>28. ASSUME NEW t \in Threads, RunFinalization(t) PROVE BatchInv'
  BY <1>28, <1>0 DEF RunFinalization
<1>29. ASSUME NEW t \in Threads, WaitIdle(t) PROVE BatchInv'
  BY <1>29, <1>0 DEF WaitIdle, SignalWorker, Sleeping
<1>30. ASSUME NEW t \in Threads, IdleWoken(t) PROVE BatchInv'
  BY <1>30, <1>0 DEF IdleWoken
<1>31. ASSUME NEW t \in Threads, IdleReturns(t) PROVE BatchInv'
  BY <1>31, <1>0 DEF IdleReturns
<1> QED
  BY <1>1, <1>2, <1>3, <1>4, <1>5, <1>6, <1>7, <1>8, <1>9, <1>10, <1>11,
     <1>12, <1>13, <1>14, <1>15, <1>16, <1>17, <1>18, <1>19, <1>20, <1>21,
     <1>22, <1>23, <1>24, <1>25, <1>26, <1>27, <1>28, <1>29, <1>30, <1>31
  DEF Next, StartUp, WorkerStep, Collection, Waiting, ShutDown

\* What is done stays done.
LEMMA GoalStep == Inv /\ [Next]_vars => GoalInv'
<1> SUFFICES ASSUME Inv, [Next]_vars PROVE GoalInv'
  OBVIOUS
<1>0. /\ pc \in [Threads -> WorkerPlaces \cup CallerPlaces] /\ GoalInv
      /\ pc[Main] = "startup" => pc[Worker] = "none"
      /\ trim \in {"none", "set", "due"}
      /\ pc[Worker] = "work" => current = NoObject
      /\ workerLock = NoThread => pc[Worker] # "loop"
      /\ goal \in [Threads -> SUBSET Objects] /\ BatchInv
  BY ThreadFacts DEF Inv, TypeOK, PlaceInv, CurrentInv, LockInv, Collecting
<1> USE DEF locks, flags, queue, history, At, Goto, Free, GoalInv, BatchInv, Queued
<1>1. CASE UNCHANGED vars
  BY <1>1, <1>0, ThreadFacts DEF vars
<1>2. CASE CreateWorker
  BY <1>2, <1>0, ThreadFacts DEF CreateWorker
<1>3. CASE StartupDone
  BY <1>3, <1>0, ThreadFacts DEF StartupDone
<1>4. CASE Ready
  BY <1>4, <1>0, ThreadFacts DEF Ready
<1>5. CASE Enter
  BY <1>5, <1>0, ThreadFacts DEF Enter
<1>6. CASE Loop
  BY <1>6, <1>0, ThreadFacts DEF Loop, BroadcastIdle
<1>7. CASE TrimLockHeap
  BY <1>7, <1>0, ThreadFacts DEF TrimLockHeap
<1>8. CASE Trim
  BY <1>8, <1>0, ThreadFacts DEF Trim
<1>9. CASE TimedOut
  BY <1>9, <1>0, ThreadFacts DEF TimedOut
<1>10. CASE Woken
  BY <1>10, <1>0, ThreadFacts DEF Woken
<1>11. CASE Resume
  BY <1>11, <1>0, ThreadFacts DEF Resume
<1>12. CASE Relock
  BY <1>12, <1>0, ThreadFacts DEF Relock
<1>13. CASE CallMethod
  BY <1>13, <1>0, ThreadFacts DEF CallMethod, NextObject
<1>14. CASE WorkDone
  BY <1>14, <1>0, ThreadFacts DEF WorkDone, NextObject
<1>15. CASE MethodReturns
  BY <1>15, <1>0, ThreadFacts DEF MethodReturns
<1>16. CASE MethodDone
  BY <1>16, <1>0, ThreadFacts DEF MethodDone
<1>17. CASE TrimIsDue
  BY <1>17, <1>0, ThreadFacts DEF TrimIsDue
<1>18. CASE Halt
  BY <1>18, <1>0, ThreadFacts DEF Halt
<1>19. CASE SignalHalt
  BY <1>19, <1>0, ThreadFacts DEF SignalHalt, SignalWorker, Sleeping
<1>20. CASE Join
  BY <1>20, <1>0, ThreadFacts DEF Join
<1>21. ASSUME NEW t \in Threads, Allocate(t) PROVE GoalInv'
  BY <1>21, <1>0, ThreadFacts DEF Allocate, Interpreting
<1>22. ASSUME NEW t \in Threads, LockHeap(t) PROVE GoalInv'
  BY <1>22, <1>0, ThreadFacts DEF LockHeap
<1>23. ASSUME NEW t \in Threads, SuspendAll(t) PROVE GoalInv'
  BY <1>23, <1>0, ThreadFacts DEF SuspendAll
<1>24. ASSUME NEW t \in Threads, LockWorker(t) PROVE GoalInv'
  BY <1>24, <1>0, ThreadFacts DEF LockWorker
<1>25. ASSUME NEW t \in Threads, Collect(t) PROVE GoalInv'
  BY <1>25, <1>0, ThreadFacts DEF Collect, SignalWorker, Sleeping
<1>26. ASSUME NEW t \in Threads, ResumeAll(t) PROVE GoalInv'
  BY <1>26, <1>0, ThreadFacts DEF ResumeAll
<1>27. ASSUME NEW t \in Threads, UnlockHeap(t) PROVE GoalInv'
  BY <1>27, <1>0, ThreadFacts DEF UnlockHeap
<1>28. ASSUME NEW t \in Threads, RunFinalization(t) PROVE GoalInv'
  BY <1>28, <1>0, ThreadFacts DEF RunFinalization
<1>29. ASSUME NEW t \in Threads, WaitIdle(t) PROVE GoalInv'
  <2>1. t # Worker /\ pc[Worker] \notin {"none", "begin"} /\ pc[Worker] # "loop"
    BY <1>29, <1>0, ThreadFacts
    DEF WaitIdle, Inv, PlaceInv, WorkerPlaces, Collecting, Starting
  <2>2. /\ pc' = [pc EXCEPT ![t] = "idle", ![Worker] = pc'[Worker]]
        /\ pc'[Worker] \in {"woken", pc[Worker]}
    BY <1>29, <1>0, <2>1, ThreadFacts DEF WaitIdle, SignalWorker
  <2>3. goal' = [goal EXCEPT ![t] = IF pc[Worker] = "enter" THEN {} ELSE Queued]
    BY <1>29 DEF WaitIdle
  <2>4. UNCHANGED <<batch, Queued>> /\ Queued \subseteq DOMAIN batch
    BY <1>29, <1>0 DEF WaitIdle
  <2> QED BY <1>0, <2>1, <2>2, <2>3, <2>4, ThreadFacts
<1>30. ASSUME NEW t \in Threads, IdleWoken(t) PROVE GoalInv'
  BY <1>30, <1>0, ThreadFacts DEF IdleWoken
<1>31. ASSUME NEW t \in Threads, IdleReturns(t) PROVE GoalInv'
  BY <1>31, <1>0, ThreadFacts DEF IdleReturns
<1> QED
  BY <1>1, <1>2, <1>3, <1>4, <1>5, <1>6, <1>7, <1>8, <1>9, <1>10, <1>11,
     <1>12, <1>13, <1>14, <1>15, <1>16, <1>17, <1>18, <1>19, <1>20, <1>21,
     <1>22, <1>23, <1>24, <1>25, <1>26, <1>27, <1>28, <1>29, <1>30, <1>31
  DEF Next, StartUp, WorkerStep, Collection, Waiting, ShutDown

\* It all holds at the start.
LEMMA InitInv == Init => Inv
<1> SUFFICES ASSUME Init PROVE Inv
  OBVIOUS
<1> USE ThreadFacts, WorkerAssumption DEF Init
<1>1. TypeOK
  BY DEF TypeOK
<1>2. PlaceInv
  BY DEF PlaceInv, WorkerPlaces, CallerPlaces, Starting
<1>3. LockInv
  BY DEF LockInv, Collecting
<1>4. CurrentInv
  BY DEF CurrentInv, Collecting
<1>5. BatchInv
  BY DEF BatchInv, Queued
<1>6. GoalInv
  BY DEF GoalInv
<1> QED BY <1>1, <1>2, <1>3, <1>4, <1>5, <1>6 DEF Inv

\* Locks, note and queue are as described in every state.
THEOREM Invariance == Spec => []Inv
<1>1. Inv /\ [Next]_vars => Inv'
  BY TypeStep, PlaceStep, LockStep, CurrentStep, BatchStep, GoalStep DEF Inv
<1> QED
  BY InitInv, <1>1, PTL DEF Spec

\* dvmAssertHeapWorkerThreadRunning: whenever a collector looks, an object is
\* noted exactly when its method is running, however many threads collect.
THEOREM WatchdogIsFair == Spec => []WatchdogSeesMethod
<1>1. Inv => WatchdogSeesMethod
  <2> SUFFICES ASSUME Inv, NEW t \in Threads, pc[t] = "gcCollect"
               PROVE  current # NoObject <=>
                        t = Worker \/ pc[Worker] \in {"method", "gcLock"}
    BY DEF WatchdogSeesMethod, At
  <2>1. CASE t = Worker
    BY <2>1 DEF Inv, CurrentInv, Collecting
  <2>2. CASE t # Worker
    <3>1. heapLock = t
      BY DEF Inv, LockInv, Collecting
    <3>2. pc[Worker] \notin Collecting
      BY <2>2, <3>1, ThreadFacts DEF Inv, LockInv
    <3>3. pc[Worker] # "returned"
      BY <2>2, ThreadFacts DEF Inv, LockInv, Safe, Unsafe
    <3> QED BY <2>2, <3>2, <3>3 DEF Inv, CurrentInv
  <2> QED BY <2>1, <2>2
<1> QED
  BY <1>1, Invariance, PTL

\* dvmWaitForHeapWorkerIdle: "Do not return until any pending heap work has
\* finished", however many callers wait and whatever is collected meanwhile.
THEOREM IdleReturnsWhenDone == Spec => []IdleMeansDone
<1>1. Inv => IdleMeansDone
  BY DEF Inv, GoalInv, IdleMeansDone, At
<1> QED
  BY <1>1, Invariance, PTL

\* dvmGetNextHeapWorkerObject: "We must handle reference operations before
\* finalizations", of every batch a collection queues.
THEOREM ReferencesComeFirst == Spec => []ReferencesFirst
<1> USE DEF ReferencesFirst
<1>1. Init => ReferencesFirst
  BY WorkerAssumption DEF Init, Objects
<1>2. Inv /\ ReferencesFirst /\ [Next]_vars => ReferencesFirst'
  <2> SUFFICES ASSUME Inv, ReferencesFirst, [Next]_vars,
                      current' \in Finalizables
               PROVE  batch'[current'] \cap operations' = {}
    OBVIOUS
  <2> USE DEF queue, history
  <2>1. CASE UNCHANGED <<current, batch, operations>>
    BY <2>1
  <2>2. CASE CallMethod
    <3>1. PICK o \in NextObject :
            operations' = operations \ {o} /\ current' = o /\ UNCHANGED batch
      BY <2>2 DEF CallMethod
    <3>2. operations \subseteq References
      BY DEF Inv, TypeOK
    <3> QED BY <3>1, <3>2, WorkerAssumption DEF NextObject
  <2>3. CASE MethodDone
    BY <2>3, WorkerAssumption DEF MethodDone, Objects
  <2>4. ASSUME NEW t \in Threads, Collect(t)
        PROVE  batch'[current'] \cap operations' = {}
    <3>1. PICK new \in SUBSET (Objects \ DOMAIN batch) :
            /\ operations' = operations \cup (new \cap References)
            /\ batch' = [o \in new \cup DOMAIN batch |->
                           IF o \in new THEN new ELSE batch[o]]
      BY <2>4 DEF Collect
    <3>2. UNCHANGED current
      BY <2>4 DEF Collect
    <3>3. current \in DOMAIN batch /\ batch[current] \subseteq DOMAIN batch
      BY <3>2, WorkerAssumption DEF Inv, BatchInv, Queued, Objects
    <3> QED BY <3>1, <3>2, <3>3
  <2> QED
    BY <2>1, <2>2, <2>3, <2>4
    DEF Next, StartUp, WorkerStep, Collection, Waiting, ShutDown, vars,
        CreateWorker, StartupDone, Ready, Enter, Loop, TrimLockHeap, Trim,
        TimedOut, Woken, Resume, Relock, WorkDone, MethodReturns, TrimIsDue,
        Halt, SignalHalt, Join, Allocate, LockHeap, SuspendAll, LockWorker,
        ResumeAll, UnlockHeap, RunFinalization, WaitIdle, IdleWoken, IdleReturns
<1> QED
  BY <1>1, <1>2, Invariance, PTL DEF Spec
=============================================================================
