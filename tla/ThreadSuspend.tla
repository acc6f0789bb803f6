---------------------------- MODULE ThreadSuspend ---------------------------
(***************************************************************************)
(* Cooperative thread suspension (vm/Thread.c) and the operations that use *)
(* it: garbage collection, heap and stack dumps, stack traces of other     *)
(* threads, and the debugger's commands and events.                        *)
(*                                                                         *)
(* Each operation is the sequence of steps a thread performs, in the order *)
(* of the code; frame[t].todo is what is left of it.  A step that calls    *)
(* dvmCheckSuspendPending or blocks puts the steps it adds in front.       *)
(*                                                                         *)
(* Everything the code does under threadSuspendCountLock is one step: the  *)
(* lock is never held across a blocking call.  Every status other than     *)
(* THREAD_RUNNING is "waiting": suspension does not tell them apart.  The  *)
(* spin loops that end in dvmAbort after seconds spin for as long as       *)
(* they have to.                                                           *)
(***************************************************************************)
EXTENDS Integers, Sequences, FiniteSets

CONSTANTS
  Mutators,    \* threads that run interpreted code
  Outsiders,   \* the mutators a program that attaches threads starts without
  Debugger,    \* the JDWP thread
  Catcher,     \* the signal catcher
  NoThread,
  Programs,    \* programs, as the sets of operations they perform
  MaxCount     \* bound: suspensions of one thread the debugger asks for

Threads == Mutators \cup {Debugger, Catcher}

ASSUME ConstantsAssumption ==
  /\ Outsiders \subseteq Mutators
  /\ Debugger \notin Mutators
  /\ Catcher \notin Mutators \cup {Debugger}
  /\ NoThread \notin Threads
  /\ MaxCount \in Nat

VARIABLES
  operations,       \* the program that runs
  threadList,       \* gDvm.threadList
  status,           \* thread->status
  suspendCount,     \* thread->suspendCount
  dbgSuspendCount,  \* thread->dbgSuspendCount
  isSuspended,      \* thread->isSuspended
  suspendLock,      \* holder of gDvm._threadSuspendLock
  listLock,         \* holder of gDvm.threadListLock
  heapLock,         \* holder of gDvm.gcHeapLock
  eventThread,      \* state->eventThreadId: the JDWP event token
  frame             \* the operation each thread is in

counts == <<suspendCount, dbgSuspendCount>>
locks == <<suspendLock, listLock, heapLock, eventThread>>
vars == <<operations, threadList, status, suspendCount, dbgSuspendCount,
          isSuspended, suspendLock, listLock, heapLock, eventThread, frame>>

Causes == {"none", "gc", "debug", "debug-event", "stack-dump"}
Steps ==
  {"trySuspend", "lockList", "gotList", "raise", "spin", "unlockList",
   "unlockSuspend", "lower", "broadcast", "undo", "check", "asleep", "woken",
   "running", "waiting", "lockHeap", "blockHeap", "unlockHeap", "passHeap",
   "scan", "dump", "walk", "grabToken", "awaitToken", "suspendSelf",
   "suspendOne", "resumeOne", "attach", "unlink", "abort"}

\* why: the SuspendCause; target: the thread suspended singly; waits: the
\* threads waitForThreadSuspend has yet to see stopped; old: oldStatus.
Idle == [todo |-> <<>>, why |-> "none", target |-> NoThread, waits |-> {},
         old |-> "waiting"]

At(t, step) == frame[t].todo # <<>> /\ Head(frame[t].todo) = step

\* The rest of the operation, with the steps `first' in front of it.
Continue(t, first) ==
  LET rest == first \o Tail(frame[t].todo)
  IN  frame' = [frame EXCEPT ![t] = IF rest = <<>> THEN Idle
                                    ELSE [@ EXCEPT !.todo = rest]]
Advance(t) == Continue(t, <<>>)

Begin(t, why, target, steps) ==
  /\ frame[t] = Idle
  /\ frame' = [frame EXCEPT ![t] = [Idle EXCEPT !.todo = steps, !.why = why,
                                                !.target = target]]
  /\ UNCHANGED <<threadList, status, counts, isSuspended, locks>>

Running(t) == status[t] = "running" /\ ~isSuspended[t]

Init ==
  /\ operations \in Programs
  /\ threadList = IF "attach" \in operations THEN Threads \ Outsiders ELSE Threads
  /\ status = [t \in Threads |-> IF t \in Mutators \cap threadList
                                 THEN "running" ELSE "waiting"]
  /\ suspendCount = [t \in Threads |-> 0]
  /\ dbgSuspendCount = [t \in Threads |-> 0]
  /\ isSuspended = [t \in Threads |-> FALSE]
  /\ suspendLock = NoThread
  /\ listLock = NoThread
  /\ heapLock = NoThread
  /\ eventThread = NoThread
  /\ frame = [t \in Threads |-> Idle]
-----------------------------------------------------------------------------
\* dvmChangeStatus and dvmCheckSuspendPending.

\* dvmChangeStatus(self, THREAD_RUNNING): the check, then the assignment.
ToRunning == <<"check", "running">>

SetRunning(t) ==
  /\ At(t, "running")
  /\ status' = [status EXCEPT ![t] = "running"]
  /\ Advance(t)
  /\ UNCHANGED <<threadList, counts, isSuspended, locks>>

SetWaiting(t) ==
  /\ At(t, "waiting")
  /\ status' = [status EXCEPT ![t] = "waiting"]
  /\ Advance(t)
  /\ UNCHANGED <<threadList, counts, isSuspended, locks>>

CheckSuspendPending(t) ==
  /\ At(t, "check")
  /\ isSuspended' = [isSuspended EXCEPT ![t] = suspendCount[t] # 0]
  /\ Continue(t, IF suspendCount[t] # 0 THEN <<"asleep">> ELSE <<>>)
  /\ UNCHANGED <<threadList, status, counts, locks>>

\* A failed assertion stops the whole process.
Abort == frame' = [t \in Threads |-> [Idle EXCEPT !.todo = <<"abort">>]]

\* pthread_cond_wait returns for no reason.
SpuriousWakeup(t) ==
  /\ At(t, "asleep")
  /\ Continue(t, <<"woken">>)
  /\ UNCHANGED <<threadList, status, counts, isSuspended, locks>>

\* Back from pthread_cond_wait, in dvmCheckSuspendPending or dvmSuspendSelf.
WakeUp(t) ==
  /\ At(t, "woken")
  /\ \/ /\ suspendCount[t] # 0
        /\ Continue(t, <<"asleep">>)
        /\ UNCHANGED isSuspended
     \/ /\ suspendCount[t] = 0 /\ dbgSuspendCount[t] = 0
        /\ isSuspended' = [isSuspended EXCEPT ![t] = FALSE]
        /\ Advance(t)
     \/ /\ suspendCount[t] = 0 /\ dbgSuspendCount[t] # 0
        /\ Abort
        /\ UNCHANGED isSuspended
  /\ UNCHANGED <<threadList, status, counts, locks>>

\* Every thread blocked on threadSuspendCountCond is woken; t goes on.
Awaken(t) ==
  [u \in Threads |->
     IF u = t /\ Len(frame[t].todo) = 1 THEN Idle
     ELSE IF u = t THEN [frame[t] EXCEPT !.todo = Tail(@)]
     ELSE IF At(u, "asleep")
          THEN [frame[u] EXCEPT !.todo = <<"woken">> \o Tail(@)]
     ELSE frame[u]]
-----------------------------------------------------------------------------
\* The locks.

\* lockThreadSuspend: when the trylock fails, suspend if asked to and retry.
TrySuspendLock(t) ==
  /\ At(t, "trySuspend")
  /\ \/ /\ suspendLock = NoThread
        /\ suspendLock' = t
        /\ Advance(t)
     \/ /\ suspendLock # NoThread
        /\ Continue(t, <<"check", "trySuspend">>)
        /\ UNCHANGED suspendLock
  /\ UNCHANGED <<threadList, status, counts, isSuspended, listLock, heapLock,
                 eventThread>>

UnlockSuspend(t) ==
  /\ At(t, "unlockSuspend")
  /\ suspendLock' = NoThread
  /\ Advance(t)
  /\ UNCHANGED <<threadList, status, counts, isSuspended, listLock, heapLock,
                 eventThread>>

\* dvmLockThreadList: THREAD_VMWAIT while blocked, then the old status.
LockThreadList == <<"lockList", "gotList">>

LockList(t) ==
  /\ At(t, "lockList")
  /\ status' = [status EXCEPT ![t] = "waiting"]
  /\ frame' = [frame EXCEPT ![t].todo = Tail(@), ![t].old = status[t]]
  /\ UNCHANGED <<threadList, counts, isSuspended, locks>>

GotList(t) ==
  /\ At(t, "gotList")
  /\ listLock = NoThread
  /\ listLock' = t
  /\ status' = [status EXCEPT ![t] = frame[t].old]
  /\ Advance(t)
  /\ UNCHANGED <<threadList, counts, isSuspended, suspendLock, heapLock,
                 eventThread>>

UnlockList(t) ==
  /\ At(t, "unlockList")
  /\ listLock' = NoThread
  /\ Advance(t)
  /\ UNCHANGED <<threadList, status, counts, isSuspended, suspendLock,
                 heapLock, eventThread>>

\* dvmLockHeap: a trylock first, then a blocking lock in THREAD_VMWAIT.
LockHeap(t) ==
  /\ At(t, "lockHeap")
  /\ \/ /\ heapLock = NoThread
        /\ heapLock' = t
        /\ Advance(t)
        /\ UNCHANGED status
     \/ /\ heapLock # NoThread
        /\ status' = [status EXCEPT ![t] = "waiting"]
        /\ Continue(t, <<"blockHeap">> \o ToRunning)
        /\ UNCHANGED heapLock
  /\ UNCHANGED <<threadList, counts, isSuspended, suspendLock, listLock,
                 eventThread>>

BlockHeap(t) ==
  /\ At(t, "blockHeap")
  /\ heapLock = NoThread
  /\ heapLock' = t
  /\ Advance(t)
  /\ UNCHANGED <<threadList, status, counts, isSuspended, suspendLock,
                 listLock, eventThread>>

UnlockHeap(t) ==
  /\ At(t, "unlockHeap")
  /\ heapLock' = NoThread
  /\ Advance(t)
  /\ UNCHANGED <<threadList, status, counts, isSuspended, suspendLock,
                 listLock, eventThread>>

\* dvmAttachCurrentThread takes and releases gcHeapLock: any collection that
\* was running when the thread entered the list is over.
PassHeap(t) ==
  /\ At(t, "passHeap")
  /\ heapLock = NoThread
  /\ Advance(t)
  /\ UNCHANGED <<threadList, status, counts, isSuspended, locks>>
-----------------------------------------------------------------------------
\* dvmSuspendAllThreads, dvmResumeAllThreads and dvmUndoDebuggerSuspensions.

\* Mutant: SUSPEND_FOR_DEBUG_EVENT is forgotten.
ForDebuggerCommand(t) == frame[t].why = "debug"

ForDebugger(t) == frame[t].why \in {"debug", "debug-event"}

\* Mutant: the debugger suspends its own thread, too.
OthersAndDebugger(t) == threadList \ {t}

\* The threads t suspends and resumes for its cause.
Others(t) ==
  threadList \ ({t} \cup IF ForDebugger(t) THEN {Debugger} ELSE {})

dvmSuspendAllThreads ==
  <<"trySuspend">> \o LockThreadList
    \o <<"raise", "spin", "unlockList", "unlockSuspend">>
dvmResumeAllThreads ==
  <<"trySuspend">> \o LockThreadList
    \o <<"lower", "unlockList", "unlockSuspend", "broadcast">>
dvmUndoDebuggerSuspensions ==
  <<"trySuspend">> \o LockThreadList
    \o <<"undo", "unlockList", "broadcast", "unlockSuspend">>

Raise(t) ==
  /\ At(t, "raise")
  /\ suspendCount' = [u \in Threads |-> IF u \in Others(t)
                                        THEN suspendCount[u] + 1
                                        ELSE suspendCount[u]]
  /\ dbgSuspendCount' = [u \in Threads |->
                           IF u \in Others(t) /\ ForDebugger(t)
                           THEN dbgSuspendCount[u] + 1
                           ELSE dbgSuspendCount[u]]
  /\ frame' = [frame EXCEPT ![t].todo = Tail(@), ![t].waits = Others(t)]
  /\ UNCHANGED <<threadList, status, isSuspended, locks>>

\* Mutant: one look at the threads is enough.
WaitNot(t) ==
  /\ At(t, "spin")
  /\ Advance(t)
  /\ UNCHANGED <<threadList, status, counts, isSuspended, locks>>

\* waitForThreadSuspend: one thread seen stopped, or all of them.
WaitForThreadSuspend(t) ==
  /\ At(t, "spin")
  /\ \/ \E u \in frame[t].waits :
          /\ ~Running(u)
          /\ frame' = [frame EXCEPT ![t].waits = @ \ {u}]
     \/ /\ frame[t].waits = {}
        /\ Advance(t)
  /\ UNCHANGED <<threadList, status, counts, isSuspended, locks>>

\* Mutant: only the threads that have stopped at a safepoint are resumed.
LowerSuspended(t) ==
  /\ At(t, "lower")
  /\ suspendCount' = [u \in Threads |->
                        IF u \in Others(t) /\ isSuspended[u]
                        THEN suspendCount[u] - 1 ELSE suspendCount[u]]
  /\ Advance(t)
  /\ UNCHANGED <<threadList, status, dbgSuspendCount, isSuspended, locks>>

Lower(t) ==
  LET resumed == {u \in Others(t) : suspendCount[u] > 0}
  IN  /\ At(t, "lower")
      /\ suspendCount' = [u \in Threads |-> IF u \in resumed
                                            THEN suspendCount[u] - 1
                                            ELSE suspendCount[u]]
      /\ dbgSuspendCount' = [u \in Threads |->
                               IF u \in resumed /\ ForDebugger(t)
                               THEN dbgSuspendCount[u] - 1
                               ELSE dbgSuspendCount[u]]
      /\ Advance(t)
      /\ UNCHANGED <<threadList, status, isSuspended, locks>>

\* Mutant: dbgSuspendCount is not reset.
UndoOnce(t) ==
  /\ At(t, "undo")
  /\ suspendCount' = [u \in Threads |->
                        IF u \in threadList \ {t, Debugger}
                        THEN suspendCount[u] - dbgSuspendCount[u]
                        ELSE suspendCount[u]]
  /\ Advance(t)
  /\ UNCHANGED <<threadList, status, dbgSuspendCount, isSuspended, locks>>

Undo(t) ==
  LET undone == threadList \ {t, Debugger}
  IN  /\ At(t, "undo")
      /\ IF \A u \in undone : suspendCount[u] >= dbgSuspendCount[u]
         THEN /\ suspendCount' = [u \in Threads |->
                                    IF u \in undone
                                    THEN suspendCount[u] - dbgSuspendCount[u]
                                    ELSE suspendCount[u]]
              /\ dbgSuspendCount' = [u \in Threads |->
                                       IF u \in undone THEN 0
                                       ELSE dbgSuspendCount[u]]
              /\ Advance(t)
         ELSE Abort /\ UNCHANGED counts
      /\ UNCHANGED <<threadList, status, isSuspended, locks>>

Broadcast(t) ==
  /\ At(t, "broadcast")
  /\ frame' = Awaken(t)
  /\ UNCHANGED <<threadList, status, counts, isSuspended, locks>>
-----------------------------------------------------------------------------
\* dvmSuspendThread, dvmResumeThread and dvmSuspendSelf.

SuspendThread(t) ==
  LET u == frame[t].target
  IN  /\ At(t, "suspendOne")
      /\ suspendCount' = [suspendCount EXCEPT ![u] = @ + 1]
      /\ dbgSuspendCount' = [dbgSuspendCount EXCEPT ![u] = @ + 1]
      /\ frame' = [frame EXCEPT ![t].todo = Tail(@), ![t].waits = {u}]
      /\ UNCHANGED <<threadList, status, isSuspended, locks>>

\* Mutant: the thread is resumed and not woken.
ResumeThreadSilently(t) ==
  LET u == frame[t].target
      less == IF suspendCount[u] > 0 THEN 1 ELSE 0
  IN  /\ At(t, "resumeOne")
      /\ suspendCount' = [suspendCount EXCEPT ![u] = @ - less]
      /\ dbgSuspendCount' = [dbgSuspendCount EXCEPT ![u] = @ - less]
      /\ Advance(t)
      /\ UNCHANGED <<threadList, status, isSuspended, locks>>

ResumeThread(t) ==
  LET u == frame[t].target
      less == IF suspendCount[u] > 0 THEN 1 ELSE 0
  IN  /\ At(t, "resumeOne")
      /\ suspendCount' = [suspendCount EXCEPT ![u] = @ - less]
      /\ dbgSuspendCount' = [dbgSuspendCount EXCEPT ![u] = @ - less]
      /\ \/ suspendCount'[u] = 0 /\ frame' = Awaken(t)
         \/ suspendCount'[u] # 0 /\ Advance(t)
      /\ UNCHANGED <<threadList, status, isSuspended, locks>>

\* dvmSuspendSelf(true): the event token is given back under the count lock.
SuspendSelf(t) ==
  /\ At(t, "suspendSelf")
  /\ suspendCount' = [suspendCount EXCEPT ![t] = @ + 1]
  /\ dbgSuspendCount' = [dbgSuspendCount EXCEPT ![t] = @ + 1]
  /\ isSuspended' = [isSuspended EXCEPT ![t] = TRUE]
  /\ eventThread' = NoThread
  /\ Continue(t, <<"asleep">>)
  /\ UNCHANGED <<threadList, status, suspendLock, listLock, heapLock>>
-----------------------------------------------------------------------------
\* The operations of the VM that suspend, or are suspended.

Mutator(t) == t \in Mutators \cap threadList

\* The interpreter's dvmCheckSuspendQuick between two instructions.
Safepoint(t) ==
  /\ Mutator(t)
  /\ suspendCount[t] # 0
  /\ Begin(t, "none", NoThread, <<"check">>)

\* A native method or a blocking call, in THREAD_NATIVE or THREAD_WAIT.
NativeCall(t) ==
  /\ "native" \in operations /\ Mutator(t)
  /\ Begin(t, "none", NoThread, <<"waiting">> \o ToRunning)

dvmCollectGarbageInternal ==
  dvmSuspendAllThreads \o LockThreadList \o <<"scan", "unlockList">>
    \o dvmResumeAllThreads

\* An allocation that collects.
Collect(t) ==
  /\ "gc" \in operations /\ Mutator(t)
  /\ Begin(t, "gc", NoThread,
           <<"lockHeap">> \o dvmCollectGarbageInternal \o <<"unlockHeap">>)

\* SIGUSR1 arrives: hprofDumpHeap collects.  It blocks on gcHeapLock without
\* leaving THREAD_RUNNING.
SigUsr1(t) ==
  /\ "hprof" \in operations /\ t = Catcher
  /\ Begin(t, "gc", NoThread,
           ToRunning \o <<"blockHeap">> \o dvmCollectGarbageInternal
             \o <<"unlockHeap", "waiting">>)

\* SIGQUIT arrives (signalCatcherThreadStart).
SigQuit(t) ==
  /\ "dump" \in operations /\ t = Catcher
  /\ Begin(t, "stack-dump", NoThread,
           ToRunning \o dvmSuspendAllThreads \o <<"dump">>
             \o dvmResumeAllThreads \o <<"waiting">>)

\* VMStack.getThreadStackTrace of another thread.
GetThreadStackTrace(t) ==
  /\ "trace" \in operations /\ Mutator(t)
  /\ \E u \in threadList \ {t} :
       Begin(t, "none", u,
             LockThreadList \o <<"suspendOne", "spin", "walk", "resumeOne",
                                 "unlockList">>)

\* An event whose policy is SP_ALL, or SP_EVENT_THREAD (suspendByPolicy).
PostEvent(t) ==
  /\ "event" \in operations /\ Mutator(t)
  /\ \E suspends \in {dvmSuspendAllThreads, <<>>} :
       Begin(t, "debug-event", NoThread,
             <<"waiting", "grabToken">> \o suspends \o <<"suspendSelf">>
               \o ToRunning)

\* dvmJdwpProcessRequest for the commands that suspend and resume.
Serve(t, target, request) ==
  Begin(t, "debug", target,
        <<"awaitToken">> \o ToRunning \o request \o <<"waiting">>)

dvmDbgSuspendThread ==
  LockThreadList \o <<"suspendOne", "spin", "unlockList">>
dvmDbgResumeThread == LockThreadList \o <<"resumeOne", "unlockList">>

Command(t) ==
  /\ "command" \in operations /\ t = Debugger
  /\ \A u \in threadList : suspendCount[u] < MaxCount
  /\ \/ Serve(t, NoThread, dvmSuspendAllThreads)
     \/ Serve(t, NoThread, dvmResumeAllThreads)
     \/ \E u \in threadList \ {t} : \/ Serve(t, u, dvmDbgSuspendThread)
                                    \/ Serve(t, u, dvmDbgResumeThread)

\* The debugger disconnects; the JDWP thread is still in THREAD_VMWAIT.
Disconnect(t) ==
  /\ "disconnect" \in operations /\ t = Debugger
  /\ Begin(t, "debug", NoThread, dvmUndoDebuggerSuspensions)

\* dvmAttachCurrentThread.
AttachCurrentThread(t) ==
  /\ t \in Outsiders \ threadList
  /\ "attach" \in operations
  /\ Begin(t, "none", NoThread,
           LockThreadList \o <<"attach", "unlockList", "passHeap">>
             \o ToRunning)

\* dvmDetachCurrentThread, from the point where it is done with objects.
DetachCurrentThread(t) ==
  /\ Mutator(t)
  /\ "attach" \in operations
  /\ Begin(t, "none", NoThread,
           <<"waiting">> \o LockThreadList \o <<"unlink", "unlockList">>)

Attach(t) ==
  /\ At(t, "attach")
  /\ threadList' = threadList \cup {t}
  /\ Advance(t)
  /\ UNCHANGED <<status, counts, isSuspended, locks>>

\* The Thread is freed: a later attach starts from a new one.
Unlink(t) ==
  /\ At(t, "unlink")
  /\ threadList' = threadList \ {t}
  /\ suspendCount' = [suspendCount EXCEPT ![t] = 0]
  /\ dbgSuspendCount' = [dbgSuspendCount EXCEPT ![t] = 0]
  /\ Advance(t)
  /\ UNCHANGED <<status, isSuspended, locks>>

\* dvmJdwpSetWaitForEventThread: one event at a time; commands wait for it.
GrabToken(t) ==
  /\ At(t, "grabToken")
  /\ eventThread = NoThread
  /\ eventThread' = t
  /\ Advance(t)
  /\ UNCHANGED <<threadList, status, counts, isSuspended, suspendLock,
                 listLock, heapLock>>

AwaitToken(t) ==
  /\ At(t, "awaitToken")
  /\ eventThread = NoThread
  /\ Advance(t)
  /\ UNCHANGED <<threadList, status, counts, isSuspended, locks>>

\* What is done while others are stopped: gcScanAllThreads and the marking,
\* logThreadStacks, dvmFillInStackTraceRaw.
Work(t) ==
  /\ \E step \in {"scan", "dump", "walk"} : At(t, step)
  /\ Advance(t)
  /\ UNCHANGED <<threadList, status, counts, isSuspended, locks>>

Step(t) ==
  \/ SetRunning(t) \/ SetWaiting(t)
  \/ CheckSuspendPending(t) \/ WakeUp(t)
  \/ TrySuspendLock(t) \/ UnlockSuspend(t)
  \/ LockList(t) \/ GotList(t) \/ UnlockList(t)
  \/ LockHeap(t) \/ BlockHeap(t) \/ UnlockHeap(t) \/ PassHeap(t)
  \/ Raise(t) \/ WaitForThreadSuspend(t) \/ Lower(t) \/ Undo(t)
  \/ Broadcast(t)
  \/ SuspendThread(t) \/ ResumeThread(t) \/ SuspendSelf(t)
  \/ Attach(t) \/ Unlink(t)
  \/ GrabToken(t) \/ AwaitToken(t)
  \/ Work(t)

Operation(t) ==
  \/ NativeCall(t) \/ Collect(t) \/ SigUsr1(t) \/ SigQuit(t)
  \/ GetThreadStackTrace(t)
  \/ PostEvent(t) \/ Command(t) \/ Disconnect(t)
  \/ AttachCurrentThread(t) \/ DetachCurrentThread(t)

Next ==
  /\ UNCHANGED operations
  /\ \E t \in Threads :
       Step(t) \/ Operation(t) \/ Safepoint(t) \/ SpuriousWakeup(t)

Spec == Init /\ [][Next]_vars

\* The operating system runs every thread, and interpreted code keeps
\* reaching safepoints.
Fairness ==
  \A t \in Threads : /\ WF_vars(Step(t) /\ UNCHANGED operations)
                     /\ WF_vars(Safepoint(t) /\ UNCHANGED operations)

FairSpec == Spec /\ Fairness
-----------------------------------------------------------------------------
\* Properties.

LockHolders == Threads \cup {NoThread}

\* Types of the state variables.
TypeOK ==
  /\ operations \in Programs
  /\ threadList \subseteq Threads
  /\ status \in [Threads -> {"running", "waiting"}]
  /\ suspendCount \in [Threads -> Nat]
  /\ dbgSuspendCount \in [Threads -> Int]
  /\ isSuspended \in [Threads -> BOOLEAN]
  /\ {suspendLock, listLock, heapLock, eventThread} \subseteq LockHolders
  /\ \A t \in Threads :
       /\ frame[t].todo \in Seq(Steps)
       /\ frame[t].why \in Causes
       /\ frame[t].target \in LockHolders
       /\ frame[t].waits \subseteq Threads
       /\ frame[t].old \in {"running", "waiting"}

\* While the collector scans the threads, or the signal catcher dumps their
\* stacks, no other thread of the list runs: the assertion of gcScanThread.
StopTheWorld ==
  \A g \in Threads :
    At(g, "scan") \/ At(g, "dump") => \A t \in threadList \ {g} : ~Running(t)

\* dvmFillInStackTraceRaw walks the stack of a thread that stands still.
StackWalkIsSafe ==
  \A t \in Threads : At(t, "walk") => ~Running(frame[t].target)

\* dvmResumeAllThreads lowers the counts and wakes the threads in two critical
\* sections, and other suspensions and wakeups may come between them: a thread
\* asleep with a count of zero is always about to be woken.
NoLostResume ==
  \A t \in Threads :
    At(t, "asleep") /\ suspendCount[t] = 0 =>
      \E u \in Threads \ {t} : \E i \in 1..Len(frame[u].todo) :
        /\ frame[u].todo[i] = "broadcast"
        /\ \A j \in 1..i : frame[u].todo[j] \notin {"lower", "undo"}

\* The collections and dumps in progress that have stopped the other threads.
InForce ==
  {g \in Threads : /\ frame[g].why \in {"gc", "stack-dump"}
                   /\ \E i \in 1..Len(frame[g].todo) :
                        frame[g].todo[i] = "lower"
                   /\ \A i \in 1..Len(frame[g].todo) :
                        frame[g].todo[i] # "raise"}

\* Suspensions for the debugger and for the VM share suspendCount; what is not
\* the debugger's is owed to a collection or dump that will take it back.
BooksBalance ==
  \A t \in threadList :
    suspendCount[t] - dbgSuspendCount[t] = Cardinality(InForce \ {t})

\* The assertions on the counts in dvmCheckSuspendPending, dvmSuspendSelf and
\* dvmUndoDebuggerSuspensions.
CountAssertions == \A t \in Threads : ~At(t, "abort")

\* A collection that has begun to stop the world comes to its end.
CollectionEnds == \A t \in Threads : heapLock = t ~> heapLock # t

\* The steps left to t lower the suspend count of u.
WillResume(t, u) ==
  \E i \in 1..Len(frame[t].todo) :
    \/ frame[t].todo[i] = "resumeOne" /\ frame[t].target = u
    \/ frame[t].todo[i] = "lower" /\ u \in Others(t)

\* The JDWP thread, which alone can lift the debugger's suspensions, is stopped
\* itself by a stack trace.  It is never stopped for good: whoever stopped it
\* has its resume before it and is not asleep in its turn, although events and
\* commands suspend threads at the same time.  (A collection or a dump may be
\* put to sleep by an event between its suspend and its resume.)
DebuggerCanResume ==
  LET Asleep(t) == At(t, "asleep") /\ suspendCount[t] > 0
  IN  {"gc", "hprof", "dump"} \cap operations = {} /\ Asleep(Debugger) =>
        \E t \in threadList : WillResume(t, Debugger) /\ ~Asleep(t)
=============================================================================
