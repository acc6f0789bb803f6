------------------------------ MODULE Monitor -------------------------------
(***************************************************************************)
(* The fat monitor (vm/Sync.c): Object.wait with and without a timeout,    *)
(* notify, notifyAll, Thread.sleep and Thread.interrupt.  ThinLock shows   *)
(* how the lock is taken; here lockMonitor is one step, the mutex and the  *)
(* owner field change together.                                            *)
(*                                                                         *)
(* What the mutex mon->lock protects happens in one step while it is held. *)
(* self->interrupted and self->waitMonitor are also accessed without it;   *)
(* every such access is a step of its own.                                 *)
(***************************************************************************)
EXTENDS Integers, FiniteSets

CONSTANTS
  Threads,
  Monitors,
  SleepMonitor,  \* gDvm.threadSleepMon, used by Thread.sleep only
  NoThread,
  NoMonitor,
  MaxDepth,      \* bound: how deep a thread nests lockMonitor
  Timed,         \* threads whose waits may be timed
  Throwing,      \* which values of interruptShouldThrow it uses
  GivesUp,       \* Thread.interrupt may run out of its 0.5 seconds
  Sleeps,        \* threads that call Thread.sleep
  Interrupts,    \* threads Thread.interrupt is called on
  Queries        \* the program calls Thread.interrupted

ASSUME ConstantsAssumption ==
  /\ IsFiniteSet(Threads)
  /\ NoThread \notin Threads
  /\ NoMonitor \notin Monitors
  /\ SleepMonitor \in Monitors
  /\ MaxDepth \in Nat \ {0}
  /\ Timed \union Sleeps \union Interrupts \subseteq Threads
  /\ Throwing \union {GivesUp, Queries} \subseteq BOOLEAN

VARIABLES
  owner,            \* mon->owner while mon->lock is held by a running thread
  mutex,            \* mon->lock
  lockCount,        \* mon->lockCount
  waiting,          \* mon->waiting
  notifying,        \* mon->notifying
  interrupting,     \* mon->interrupting
  sleepers,         \* the threads blocked on mon->cond
  interrupted,      \* thread->interrupted
  interruptingWait, \* thread->interruptingWait
  waitMonitor,      \* thread->waitMonitor
  status,           \* thread->status
  pc,
  local             \* the local variables of the call a thread is in

counters == <<waiting, notifying, interrupting>>
locks == <<owner, mutex, lockCount>>
flags == <<interrupted, interruptingWait, waitMonitor>>
vars == <<owner, mutex, lockCount, waiting, notifying, interrupting, sleepers,
          interrupted, interruptingWait, waitMonitor, status, pc, local>>

\* mon: the monitor of the call; target: the thread to interrupt; timed,
\* throws, depth, wasInterrupted: timed, interruptShouldThrow, prevLockCount
\* and wasInterrupted of waitMonitor; timedOut: cc == ETIMEDOUT.
NoLocals == [mon |-> NoMonitor, target |-> NoThread, timed |-> FALSE,
             throws |-> FALSE, depth |-> 0, timedOut |-> FALSE,
             wasInterrupted |-> FALSE]

Init ==
  /\ owner = [m \in Monitors |-> NoThread]
  /\ mutex = [m \in Monitors |-> NoThread]
  /\ lockCount = [m \in Monitors |-> 0]
  /\ waiting = [m \in Monitors |-> 0]
  /\ notifying = [m \in Monitors |-> 0]
  /\ interrupting = [m \in Monitors |-> 0]
  /\ sleepers = [m \in Monitors |-> {}]
  /\ interrupted = [t \in Threads |-> FALSE]
  /\ interruptingWait = [t \in Threads |-> FALSE]
  /\ waitMonitor = [t \in Threads |-> NoMonitor]
  /\ status = [t \in Threads |-> "running"]
  /\ pc = [t \in Threads |-> "idle"]
  /\ local = [t \in Threads |-> NoLocals]

At(t, label) == pc[t] = label
Goto(t, label) == pc' = [pc EXCEPT ![t] = label]
ChangeStatus(t, s) == status' = [status EXCEPT ![t] = s]

\* The locals of a call are gone when it returns.
Return(t) ==
  /\ Goto(t, "idle")
  /\ local' = [local EXCEPT ![t] = NoLocals]

\* assert() is compiled in: no thread outlives a false one.
Abort(assertion) ==
  /\ pc' = [t \in Threads |-> assertion]
  /\ UNCHANGED <<counters, locks, sleepers, flags, status, local>>

Mon(t) == local[t].mon
Target(t) == local[t].target

Objects == Monitors \ {SleepMonitor}

-----------------------------------------------------------------------------
(* lockMonitor, tryLockMonitor, unlockMonitor                              *)

Acquire(t, m) ==
  \/ /\ owner[m] = t
     /\ lockCount' = [lockCount EXCEPT ![m] = @ + 1]
     /\ UNCHANGED <<owner, mutex>>
  \/ /\ mutex[m] = NoThread
     /\ mutex' = [mutex EXCEPT ![m] = t]
     /\ owner' = [owner EXCEPT ![m] = t]
     /\ UNCHANGED lockCount

CannotAcquire(t, m) == owner[m] # t /\ mutex[m] # NoThread

Release(t, m) ==
  \/ /\ lockCount[m] = 0
     /\ owner' = [owner EXCEPT ![m] = NoThread]
     /\ mutex' = [mutex EXCEPT ![m] = NoThread]
     /\ UNCHANGED lockCount
  \/ /\ lockCount[m] # 0
     /\ lockCount' = [lockCount EXCEPT ![m] = @ - 1]
     /\ UNCHANGED <<owner, mutex>>

Lock(t, m) ==
  /\ At(t, "idle")
  /\ owner[m] = t => lockCount[m] < MaxDepth - 1
  /\ Acquire(t, m)
  /\ UNCHANGED <<counters, sleepers, flags, status, pc, local>>

\* A call by a thread that is not the owner throws and changes nothing.
Unlock(t, m) ==
  /\ At(t, "idle")
  /\ owner[m] = t
  /\ Release(t, m)
  /\ UNCHANGED <<counters, sleepers, flags, status, pc, local>>

-----------------------------------------------------------------------------
(* waitMonitor                                                             *)

\* Mutant: notifications nobody is left to take stay on the books.
RepairedNot(m) == notifying[m]

\* "Make sure "notifying" wasn't screwed up by earlier activity."
Repaired(m) ==
  IF notifying[m] + interrupting[m] > waiting[m]
  THEN waiting[m] - interrupting[m] ELSE notifying[m]

\* Lines 518 to 540, with the mutex held: repair notifying, count the waiter
\* in and give up the ownership, however deep.
EnterWait(t, m, timed, throws) ==
  /\ notifying' = [notifying EXCEPT ![m] = Repaired(m)]
  /\ waiting' = [waiting EXCEPT ![m] = @ + 1]
  /\ local' = [local EXCEPT ![t] =
                 [NoLocals EXCEPT !.mon = m, !.timed = timed,
                                  !.throws = throws, !.depth = lockCount[m]]]
  /\ lockCount' = [lockCount EXCEPT ![m] = 0]
  /\ owner' = [owner EXCEPT ![m] = NoThread]
  /\ ChangeStatus(t, IF timed THEN "timed_wait" ELSE "wait")
  /\ Goto(t, "w_set")
  /\ UNCHANGED <<interrupting, sleepers, flags>>

\* The assertion of line 523.
CanRepair(m) ==
  notifying[m] + interrupting[m] > waiting[m] => waiting[m] >= interrupting[m]

Wait(t, m, timed, throws) ==
  /\ At(t, "idle")
  /\ owner[m] = t
  /\ IF CanRepair(m)
     THEN EnterWait(t, m, timed, throws) /\ UNCHANGED <<mutex>>
     ELSE Abort("assert_repair")

\* dvmThreadSleep: lockMonitor, then a wait that is always timed; the unlock
\* is SleepUnlock.
Sleep(t) ==
  /\ t \in Sleeps
  /\ At(t, "idle")
  /\ mutex[SleepMonitor] = NoThread
  /\ IF CanRepair(SleepMonitor)
     THEN /\ mutex' = [mutex EXCEPT ![SleepMonitor] = t]
          /\ EnterWait(t, SleepMonitor, TRUE, TRUE)
     ELSE Abort("assert_repair")

WaitSet(t) ==
  /\ At(t, "w_set")
  /\ waitMonitor' = [waitMonitor EXCEPT ![t] = Mon(t)]
  /\ Goto(t, "w_test")
  /\ UNCHANGED <<counters, locks, sleepers, interrupted, interruptingWait,
                 status, local>>

\* Mutant: the wait sleeps without looking at the interrupted flag.
WaitTestNot(t) ==
  /\ At(t, "w_test")
  /\ mutex' = [mutex EXCEPT ![Mon(t)] = NoThread]
  /\ sleepers' = [sleepers EXCEPT ![Mon(t)] = @ \union {t}]
  /\ Goto(t, "w_sleep")
  /\ UNCHANGED <<counters, owner, lockCount, flags, status, local>>

\* An interrupt from before the wait ends it at once.
WaitTest(t) ==
  /\ At(t, "w_test")
  /\ \/ /\ interrupted[t]
        /\ local' = [local EXCEPT ![t].wasInterrupted = TRUE]
        /\ Goto(t, "w_done")
        /\ UNCHANGED <<mutex, sleepers>>
     \/ /\ ~interrupted[t]
        /\ mutex' = [mutex EXCEPT ![Mon(t)] = NoThread]
        /\ sleepers' = [sleepers EXCEPT ![Mon(t)] = @ \union {t}]
        /\ Goto(t, "w_sleep")
        /\ UNCHANGED local
  /\ UNCHANGED <<counters, owner, lockCount, flags, status>>

\* pthread_cond_timedwait reaches its deadline; the thread still has to get
\* the mutex back before waitMonitor can act on it.
Timeout(t) ==
  /\ At(t, "w_sleep")
  /\ t \in sleepers[Mon(t)]
  /\ local[t].timed
  /\ sleepers' = [sleepers EXCEPT ![Mon(t)] = @ \ {t}]
  /\ local' = [local EXCEPT ![t].timedOut = TRUE]
  /\ UNCHANGED <<counters, locks, flags, status, pc>>

\* POSIX allows pthread_cond_wait to return for no reason.
SpuriousWakeup(t) ==
  /\ At(t, "w_sleep")
  /\ t \in sleepers[Mon(t)]
  /\ sleepers' = [sleepers EXCEPT ![Mon(t)] = @ \ {t}]
  /\ UNCHANGED <<counters, locks, flags, status, pc, local>>

\* Back from the condition variable with the mutex: lines 581 to 625.
Awake(t) == At(t, "w_sleep") /\ t \notin sleepers[Mon(t)]

\* Mutant: ETIMEDOUT is taken for a wakeup without reason.
WakeTimedOutAgain(t) ==
  /\ Awake(t)
  /\ local[t].timedOut
  /\ mutex[Mon(t)] = NoThread
  /\ mutex' = [mutex EXCEPT ![Mon(t)] = t]
  /\ Goto(t, "w_test")
  /\ UNCHANGED <<counters, owner, lockCount, sleepers, flags, status, local>>

WakeTimedOut(t) ==
  /\ Awake(t)
  /\ local[t].timedOut
  /\ mutex[Mon(t)] = NoThread
  /\ mutex' = [mutex EXCEPT ![Mon(t)] = t]
  /\ Goto(t, "w_done")
  /\ UNCHANGED <<counters, owner, lockCount, sleepers, flags, status, local>>

\* Mutant: the interrupt stays counted.
TakeInterruptUncounted(t) ==
  /\ interruptingWait' = [interruptingWait EXCEPT ![t] = FALSE]
  /\ UNCHANGED interrupting

\* The interrupt is taken off the books whether or not it ends the wait.
TakeInterrupt(t) ==
  /\ interruptingWait' = [interruptingWait EXCEPT ![t] = FALSE]
  /\ interrupting' = IF interruptingWait[t]
                     THEN [interrupting EXCEPT ![Mon(t)] = @ - 1]
                     ELSE interrupting

TakeWakeup(t) ==
  LET m == Mon(t)
      bails == interruptingWait[t] /\ local[t].throws
      notified == ~bails /\ notifying[m] # 0
  IN /\ TakeInterrupt(t)
     /\ local' = [local EXCEPT ![t].wasInterrupted = bails]
     /\ notifying' = IF notified THEN [notifying EXCEPT ![m] = @ - 1]
                                 ELSE notifying
     /\ IF bails \/ notified
        THEN /\ mutex' = [mutex EXCEPT ![m] = t]
             /\ Goto(t, "w_done")
             /\ UNCHANGED sleepers
        ELSE /\ sleepers' = [sleepers EXCEPT ![m] = @ \union {t}]
             /\ UNCHANGED <<mutex, pc>>
     /\ UNCHANGED <<waiting, owner, lockCount, interrupted, waitMonitor,
                    status>>

\* With the assertion of line 601.
Wake(t) ==
  /\ Awake(t)
  /\ ~local[t].timedOut
  /\ mutex[Mon(t)] = NoThread
  /\ IF interruptingWait[t] => interrupted[t]
     THEN TakeWakeup(t)
     ELSE Abort("assert_wake")

\* What follows the wait: Object.wait returns, Thread.sleep has to unlock.
LeaveWait(t) ==
  IF Mon(t) = SleepMonitor
  THEN Goto(t, "s_unlock") /\ UNCHANGED local
  ELSE Return(t)

WaitDone(t) ==
  LET m == Mon(t)
  IN /\ At(t, "w_done")
     /\ waitMonitor' = [waitMonitor EXCEPT ![t] = NoMonitor]
     /\ owner' = [owner EXCEPT ![m] = t]
     /\ waiting' = [waiting EXCEPT ![m] = @ - 1]
     /\ lockCount' = [lockCount EXCEPT ![m] = local[t].depth]
     /\ ChangeStatus(t, "running")
     /\ IF local[t].wasInterrupted
        THEN Goto(t, "w_clear") /\ UNCHANGED local
        ELSE LeaveWait(t)
     /\ UNCHANGED <<mutex, notifying, interrupting, sleepers, interrupted,
                    interruptingWait>>

\* The flag is cleared whether or not InterruptedException is thrown.
WaitClear(t) ==
  /\ At(t, "w_clear")
  /\ interrupted' = [interrupted EXCEPT ![t] = FALSE]
  /\ LeaveWait(t)
  /\ UNCHANGED <<counters, locks, sleepers, interruptingWait, waitMonitor,
                 status>>

SleepUnlock(t) ==
  /\ At(t, "s_unlock")
  /\ Release(t, SleepMonitor)
  /\ Return(t)
  /\ UNCHANGED <<counters, sleepers, flags, status>>

-----------------------------------------------------------------------------
(* notifyMonitor, notifyAllMonitor                                         *)

\* pthread_cond_signal wakes one of the threads blocked on the condition.
Signal(m) ==
  IF sleepers[m] = {} THEN UNCHANGED sleepers
  ELSE \E t \in sleepers[m] :
         sleepers' = [sleepers EXCEPT ![m] = @ \ {t}]

\* Mutant: pthread_cond_signal instead of pthread_cond_broadcast.
BroadcastToOne(m) == Signal(m)

Broadcast(m) == sleepers' = [sleepers EXCEPT ![m] = {}]

Notify(t, m) ==
  /\ At(t, "idle")
  /\ owner[m] = t
  /\ IF notifying[m] + interrupting[m] < waiting[m]
     THEN /\ notifying' = [notifying EXCEPT ![m] = @ + 1]
          /\ Signal(m)
     ELSE UNCHANGED <<notifying, sleepers>>
  /\ UNCHANGED <<waiting, interrupting, locks, flags, status, pc, local>>

NotifyAll(t, m) ==
  /\ At(t, "idle")
  /\ owner[m] = t
  /\ notifying' = [notifying EXCEPT ![m] = waiting[m] - interrupting[m]]
  /\ IF notifying'[m] > 0 THEN Broadcast(m) ELSE UNCHANGED sleepers
  /\ UNCHANGED <<waiting, interrupting, locks, flags, status, pc, local>>

-----------------------------------------------------------------------------
(* dvmThreadInterrupt, and Thread.interrupted                              *)

Interrupt(t, u) ==
  /\ u \in Interrupts
  /\ At(t, "idle")
  /\ interrupted' = [interrupted EXCEPT ![u] = TRUE]
  /\ local' = [local EXCEPT ![t].target = u]
  /\ Goto(t, "i_read")
  /\ UNCHANGED <<counters, locks, sleepers, interruptingWait, waitMonitor,
                 status>>

InterruptRead(t) ==
  /\ At(t, "i_read")
  /\ IF waitMonitor[Target(t)] = NoMonitor
     THEN Return(t)
     ELSE /\ local' = [local EXCEPT ![t].mon = waitMonitor[Target(t)]]
          /\ Goto(t, "i_try")
  /\ UNCHANGED <<counters, locks, sleepers, flags, status>>

\* The first attempt and the polling loop, whose exits are a monitor that the
\* target no longer waits on and, after half a second, giving up.
InterruptTry(t) ==
  /\ At(t, "i_try")
  /\ \/ /\ Acquire(t, Mon(t))
        /\ Goto(t, "i_mark")
        /\ UNCHANGED local
     \/ /\ CannotAcquire(t, Mon(t))
        /\ GivesUp \/ waitMonitor[Target(t)] # Mon(t)
        /\ Return(t)
        /\ UNCHANGED locks
  /\ UNCHANGED <<counters, sleepers, flags, status>>

\* With the monitor locked: the target is still in the wait to be interrupted.
StillWaits(u, m) ==
  waitMonitor[u] = m /\ interrupted[u] /\ ~interruptingWait[u]

InterruptMark(t) ==
  LET u == Target(t)
      m == Mon(t)
  IN /\ At(t, "i_mark")
     /\ IF StillWaits(u, m)
        THEN /\ interruptingWait' = [interruptingWait EXCEPT ![u] = TRUE]
             /\ interrupting' = [interrupting EXCEPT ![m] = @ + 1]
             /\ Broadcast(m)
        ELSE UNCHANGED <<interruptingWait, interrupting, sleepers>>
     /\ Release(t, m)
     /\ Return(t)
     /\ UNCHANGED <<waiting, notifying, interrupted, waitMonitor, status>>

\* Thread.interrupted reads the flag, then clears it.
Interrupted(t) ==
  /\ Queries
  /\ At(t, "idle")
  /\ local' = [local EXCEPT ![t].wasInterrupted = interrupted[t]]
  /\ Goto(t, "q_clear")
  /\ UNCHANGED <<counters, locks, sleepers, flags, status>>

InterruptedClear(t) ==
  /\ At(t, "q_clear")
  /\ interrupted' = [interrupted EXCEPT ![t] = FALSE]
  /\ Return(t)
  /\ UNCHANGED <<counters, locks, sleepers, interruptingWait, waitMonitor,
                 status>>

-----------------------------------------------------------------------------

Step(t) ==
  \/ \E m \in Objects :
       \/ Lock(t, m) \/ Unlock(t, m) \/ Notify(t, m) \/ NotifyAll(t, m)
       \/ \E timed \in {FALSE, (t \in Timed)}, throws \in Throwing :
            Wait(t, m, timed, throws)
  \/ WaitSet(t) \/ WaitTest(t) \/ Timeout(t) \/ SpuriousWakeup(t)
  \/ WakeTimedOut(t) \/ Wake(t) \/ WaitDone(t) \/ WaitClear(t)
  \/ Sleep(t) \/ SleepUnlock(t)
  \/ \E u \in Threads : Interrupt(t, u)
  \/ InterruptRead(t) \/ InterruptTry(t) \/ InterruptMark(t)
  \/ Interrupted(t) \/ InterruptedClear(t)

Next == \E t \in Threads : Step(t)

Spec == Init /\ [][Next]_vars

\* A running thread keeps running; a thread that needs a mutex gets it if it
\* is free again and again; the absolute deadline of a timed wait passes even
\* if the thread keeps waking for nothing; a Java program leaves its
\* synchronized blocks.
Fairness ==
  \A t \in Threads :
    /\ WF_vars(WaitSet(t) \/ WaitTest(t) \/ WaitDone(t) \/ WaitClear(t)
               \/ SleepUnlock(t) \/ InterruptRead(t) \/ InterruptMark(t)
               \/ InterruptedClear(t))
    /\ SF_vars(Timeout(t))
    /\ SF_vars(Wake(t) \/ WakeTimedOut(t))
    /\ SF_vars(InterruptTry(t))
    /\ \A m \in Objects : SF_vars(Unlock(t, m))

FairSpec == Spec /\ Fairness

-----------------------------------------------------------------------------
(* What the monitor promises                                               *)

Waiters(m) ==
  {t \in Threads : Mon(t) = m /\ pc[t] \in {"w_set", "w_test", "w_sleep",
                                            "w_done"}}

Labels == {"idle", "w_set", "w_test", "w_sleep", "w_done", "w_clear",
           "s_unlock", "i_read", "i_try", "i_mark", "q_clear",
           "assert_repair", "assert_wake"}
Locals == [mon : Monitors \union {NoMonitor},
           target : Threads \union {NoThread}, timed : BOOLEAN,
           throws : BOOLEAN, depth : Nat, timedOut : BOOLEAN,
           wasInterrupted : BOOLEAN]

\* The variables have their types; the three counters are C ints.
TypeOK ==
  /\ owner \in [Monitors -> Threads \union {NoThread}]
  /\ mutex \in [Monitors -> Threads \union {NoThread}]
  /\ lockCount \in [Monitors -> Nat]
  /\ waiting \in [Monitors -> Int]
  /\ notifying \in [Monitors -> Int]
  /\ interrupting \in [Monitors -> Int]
  /\ sleepers \in [Monitors -> SUBSET Threads]
  /\ interrupted \in [Threads -> BOOLEAN]
  /\ interruptingWait \in [Threads -> BOOLEAN]
  /\ waitMonitor \in [Threads -> Monitors \union {NoMonitor}]
  /\ status \in [Threads -> {"running", "wait", "timed_wait"}]
  /\ pc \in [Threads -> Labels]
  /\ local \in [Threads -> Locals]

\* waiting counts the threads inside waitMonitor, interrupting those among
\* them that an interrupt was posted to and that have not taken it yet.
CountersMatch ==
  \A m \in Monitors :
    /\ waiting[m] = Cardinality(Waiters(m))
    /\ interrupting[m] =
         Cardinality({t \in Waiters(m) : interruptingWait[t]})

\* While a notification is pending and a thread sleeps, some other waiter is
\* awake and will take it: no notification is left for a sleeper.
NoLostWakeup ==
  \A m \in Monitors :
    notifying[m] > 0 /\ sleepers[m] # {} =>
      \E t \in Waiters(m) :
        Awake(t) /\ ~(interruptingWait[t] /\ local[t].throws)

\* "Notify one thread waiting on this monitor" (Sync.c:661): while a thread
\* sleeps and no other waiter is awake, notify does not conclude that there is
\* nobody to signal.
NotifyFindsSleeper ==
  \A m \in Monitors :
    sleepers[m] # {} /\ (\A t \in Waiters(m) : ~Awake(t)) =>
      notifying[m] + interrupting[m] < waiting[m]

\* A thread that sleeps in an interruptible wait although it was interrupted
\* has an interrupter on its way to it, unless that one gave up.
InterruptReachesSleeper ==
  \A u \in Threads :
    u \in UNION {sleepers[m] : m \in Monitors} /\ interrupted[u]
      /\ local[u].throws
      => \E t \in Threads :
           Target(t) = u /\ pc[t] \in {"i_read", "i_try", "i_mark"}

\* A timed wait and a sleep return, whatever the other threads do.
TimedWaitEnds ==
  \A t \in Threads : local[t].timed ~> pc[t] = "idle"

\* An interruptible wait that is interrupted returns, when no interrupter
\* gives up on the mutex.
InterruptEndsWait ==
  \A t \in Threads :
    At(t, "w_sleep") /\ local[t].throws /\ interrupted[t] ~> At(t, "idle")

\* The assertion of waitMonitor (Sync.c:523): when a thread about to wait has
\* to repair notifying, no more threads are being interrupted than wait.
RepairAssertion == \A t \in Threads : ~At(t, "assert_repair")

\* The assertion of waitMonitor (Sync.c:601): a waiter that finds itself being
\* interrupted has its interrupted flag up.
WakeAssertion == \A t \in Threads : ~At(t, "assert_wake")

\* The books waitMonitor keeps are right and neither of its assertions fails.
MonitorAssertions == CountersMatch /\ RepairAssertion /\ WakeAssertion

\* "stays raised until queried or thrown" (Thread.h:168): the interrupted flag
\* goes down only when InterruptedException is thrown or Thread.interrupted
\* returns true.
InterruptStaysRaised ==
  [][\A t \in Threads :
       interrupted[t] /\ ~interrupted'[t] =>
         \/ At(t, "w_clear") /\ local[t].throws
         \/ At(t, "q_clear") /\ local[t].wasInterrupted]_vars

=============================================================================
