--------------------------- MODULE MonitorProofs ----------------------------
(***************************************************************************)
(* For any finite set of threads and any monitors, when no wait is timed:  *)
(* the counters of a monitor are exact, no notification is lost to a       *)
(* sleeper, and an interrupt reaches the thread it is meant for.           *)
(***************************************************************************)
EXTENDS Monitor, TLAPS

-----------------------------------------------------------------------------
(* The inductive invariant                                                 *)

\* No thread leaves a wait because of the time.
Untimed == Timed = {} /\ Sleeps = {}

Holding == {"w_set", "w_test", "w_done"}
Chasing == {"i_read", "i_try", "i_mark"}

\* What a thread has where it is in its call.
CallInv(t) ==
  /\ ~local[t].timed /\ ~local[t].timedOut
  /\ pc[t] \in Holding \union {"w_sleep", "w_clear"} => Mon(t) \in Objects
  /\ pc[t] \in Holding => mutex[Mon(t)] = t /\ owner[Mon(t)] = NoThread
  /\ pc[t] \in {"i_try", "i_mark"} => Mon(t) \in Monitors
  /\ pc[t] = "i_mark" => owner[Mon(t)] = t
  /\ pc[t] \in Chasing => Target(t) \in Threads
  /\ waitMonitor[t] = IF pc[t] \in {"w_test", "w_sleep", "w_done"}
                      THEN Mon(t) ELSE NoMonitor
  /\ interruptingWait[t] =>
       pc[t] = "w_sleep" /\ t \notin sleepers[Mon(t)] /\ interrupted[t]
  /\ pc[t] \notin {"s_unlock", "assert_repair", "assert_wake"}

\* An owner has the mutex, and who sleeps on a monitor waits on it.
LockInv ==
  \A m \in Monitors :
    /\ owner[m] # NoThread => mutex[m] = owner[m]
    /\ \A t \in sleepers[m] : pc[t] = "w_sleep" /\ Mon(t) = m

\* The threads that a pending notification would let out of their wait.
Ready(m) ==
  {t \in Waiters(m) : Awake(t) /\ ~(interruptingWait[t] /\ local[t].throws)}

\* A thread between counting itself in and going to sleep.
Entering(m) == \E t \in Threads : pc[t] \in {"w_set", "w_test"} /\ Mon(t) = m

\* Whenever a thread sleeps, or is about to, every pending notification has an
\* awake waiter that takes it.
NotifyInv(m) ==
  /\ notifying[m] \in Nat
  /\ sleepers[m] # {} \/ Entering(m) => notifying[m] <= Cardinality(Ready(m))

\* On its way to interrupt u in the wait that u is in.
Pursues(t, u) ==
  /\ Target(t) = u
  /\ \/ pc[t] = "i_read"
     \/ pc[t] \in {"i_try", "i_mark"} /\ Mon(t) = Mon(u)

\* A waiter whose flag is up has been told, or is being pursued.
ChaseInv ==
  \A u \in Threads :
    pc[u] = "w_sleep" /\ interrupted[u] /\ local[u].throws =>
      interruptingWait[u] \/ \E t \in Threads : Pursues(t, u)

CallsInv == TypeOK /\ LockInv /\ \A t \in Threads : CallInv(t)

Inv ==
  /\ CallsInv
  /\ CountersMatch
  /\ \A m \in Monitors : NotifyInv(m)

-----------------------------------------------------------------------------
(* Threads in their calls                                                  *)

\* What a step of t leaves alone: the calls of the other threads, the locks
\* that others hold, and, unless it tells one of its interrupt, their sleep.
Frame(t) ==
  /\ \A u \in Threads \ {t} :
       /\ pc'[u] = pc[u] /\ local'[u] = local[u]
       /\ waitMonitor'[u] = waitMonitor[u]
       /\ interrupted[u] => interrupted'[u]
       /\ interruptingWait'[u] =>
            \/ interruptingWait[u]
            \/ pc[u] = "w_sleep" /\ interrupted[u] /\ sleepers'[Mon(u)] = {}
  /\ \A m \in Monitors :
       /\ \/ mutex[m] \in {t, NoThread}
          \/ mutex'[m] = mutex[m] /\ owner'[m] = owner[m]
       /\ sleepers'[m] \subseteq sleepers[m] \union {t}

\* What it has to see to itself.
Own(t) ==
  /\ CallInv(t)'
  /\ \A m \in Monitors :
       /\ owner'[m] # NoThread => mutex'[m] = owner'[m]
       /\ t \in sleepers'[m] => pc'[t] = "w_sleep" /\ local'[t].mon = m

\* Together that is enough.
LEMMA CallsKept ==
  ASSUME NEW t \in Threads, CallsInv, TypeOK', Frame(t), Own(t)
  PROVE  CallsInv'
<1>1. LockInv'
  <2>1. ASSUME NEW m \in Monitors, NEW u \in sleepers'[m]
        PROVE  pc'[u] = "w_sleep" /\ local'[u].mon = m
    <3>1. u \in Threads
      BY <2>1 DEF TypeOK
    <3>2. CASE u = t
      BY <2>1, <3>2 DEF Own
    <3>3. CASE u # t
      BY <2>1, <3>1, <3>3 DEF Frame, CallsInv, LockInv, Mon
    <3> QED BY <3>2, <3>3
  <2> QED BY <2>1 DEF LockInv, Own, Mon
<1>2. ASSUME NEW u \in Threads \ {t}
      PROVE  CallInv(u)'
  <2>1. /\ CallInv(u) /\ LockInv /\ u # NoThread
        /\ pc'[u] = pc[u] /\ local'[u] = local[u] /\ waitMonitor'[u] = waitMonitor[u]
    BY ConstantsAssumption DEF CallsInv, Frame
  <2>2. ASSUME NEW m \in Monitors, mutex[m] = u
        PROVE  mutex'[m] = u /\ owner'[m] = owner[m]
    BY <2>1, <2>2 DEF Frame
  <2>3. interruptingWait'[u] =>
          pc[u] = "w_sleep" /\ u \notin sleepers'[Mon(u)] /\ interrupted'[u]
    <3>1. pc[u] = "w_sleep" => Mon(u) \in Monitors
      BY <2>1 DEF CallInv, Objects
    <3> QED BY <2>1, <3>1 DEF CallInv, Frame
  <2>4. pc[u] \in Holding => mutex'[Mon(u)] = u /\ owner'[Mon(u)] = NoThread
    BY <2>1, <2>2 DEF CallInv, Objects
  <2>5. pc[u] = "i_mark" => owner'[Mon(u)] = u
    BY <2>1, <2>2 DEF CallInv, LockInv
  <2> QED BY <2>1, <2>3, <2>4, <2>5 DEF CallInv, Mon, Target
<1> QED BY <1>1, <1>2 DEF CallsInv, Own

\* What is used of counting threads; that it is true comes last.
CardLaws ==
  /\ Cardinality({}) = 0
  /\ \A S \in SUBSET Threads :
       /\ Cardinality(S) \in Nat
       /\ \A x \in Threads :
            /\ x \notin S => Cardinality(S \union {x}) = Cardinality(S) + 1
            /\ x \in S => Cardinality(S \ {x}) = Cardinality(S) - 1
       /\ \A T \in SUBSET S :
            /\ Cardinality(T) <= Cardinality(S)
            /\ Cardinality(S \ T) = Cardinality(S) - Cardinality(T)

\* Those of the waiters that an interrupt has been posted to.
Told(m) == {t \in Waiters(m) : interruptingWait[t]}

\* No more threads are interrupted than wait: Sync.c:523 holds.
LEMMA RepairFacts ==
  ASSUME CardLaws, CountersMatch, NEW m \in Monitors
  PROVE  /\ waiting[m] = Cardinality(Waiters(m)) /\ waiting[m] \in Nat
         /\ interrupting[m] = Cardinality(Told(m)) /\ interrupting[m] \in Nat
         /\ interrupting[m] <= waiting[m]
         /\ CanRepair(m)
<1>1. Waiters(m) \in SUBSET Threads /\ Told(m) \in SUBSET Waiters(m)
  BY DEF Waiters, Told
<1>2. waiting[m] = Cardinality(Waiters(m)) /\ interrupting[m] = Cardinality(Told(m))
  BY DEF CountersMatch, Told
<1> QED BY <1>1, <1>2 DEF CardLaws, CanRepair

\* A lock is taken or released.
LEMMA LockTypes ==
  ASSUME TypeOK, NEW t \in Threads, NEW m \in Monitors,
         Acquire(t, m) \/ Release(t, m)
  PROVE  /\ owner' \in [Monitors -> Threads \union {NoThread}]
         /\ mutex' \in [Monitors -> Threads \union {NoThread}]
         /\ lockCount' \in [Monitors -> Nat]
<1>1. CASE Acquire(t, m)
  BY <1>1 DEF Acquire, TypeOK
<1>2. CASE Release(t, m)
  BY <1>2 DEF Release, TypeOK
<1> QED BY <1>1, <1>2

\* An owner still has the mutex, and no lock of another thread is touched.
LEMMA LockKept ==
  ASSUME TypeOK, LockInv, NEW t \in Threads, NEW m \in Monitors,
         Acquire(t, m) \/ (Release(t, m) /\ owner[m] = t)
  PROVE  \A n \in Monitors :
           /\ owner'[n] # NoThread => mutex'[n] = owner'[n]
           /\ \/ mutex[n] \in {t, NoThread}
              \/ mutex'[n] = mutex[n] /\ owner'[n] = owner[n]
<1>1. CASE Acquire(t, m)
  BY <1>1 DEF Acquire, TypeOK, LockInv
<1>2. CASE Release(t, m) /\ owner[m] = t
  BY <1>2, ConstantsAssumption DEF Release, TypeOK, LockInv
<1> QED BY <1>1, <1>2

\* A call returns.
LEMMA ReturnFacts ==
  ASSUME TypeOK, NEW t \in Threads, Return(t)
  PROVE  /\ pc' \in [Threads -> Labels] /\ local' \in [Threads -> Locals]
         /\ pc'[t] = "idle" /\ ~local'[t].timed /\ ~local'[t].timedOut
         /\ \A u \in Threads \ {t} : pc'[u] = pc[u] /\ local'[u] = local[u]
<1>1. NoLocals \in Locals /\ ~NoLocals.timed /\ ~NoLocals.timedOut
  BY DEF NoLocals, Locals
<1> QED BY <1>1 DEF Return, Goto, TypeOK, Labels

\* Setting one of the local variables leaves the others alone.
LEMMA SetMon ==
  ASSUME TypeOK, NEW t \in Threads, NEW m \in Monitors \union {NoMonitor},
         local' = [local EXCEPT ![t].mon = m]
  PROVE  /\ local' \in [Threads -> Locals] /\ local'[t].mon = m
         /\ local'[t].target = local[t].target
         /\ local'[t].timed = local[t].timed /\ local'[t].timedOut = local[t].timedOut
         /\ \A u \in Threads \ {t} : local'[u] = local[u]
BY DEF TypeOK, Locals

\* The same for the thread to interrupt.
LEMMA SetTarget ==
  ASSUME TypeOK, NEW t \in Threads, NEW u \in Threads,
         local' = [local EXCEPT ![t].target = u]
  PROVE  /\ local' \in [Threads -> Locals] /\ local'[t].target = u
         /\ local'[t].timed = local[t].timed /\ local'[t].timedOut = local[t].timedOut
         /\ \A v \in Threads \ {t} : local'[v] = local[v]
BY DEF TypeOK, Locals

\* The same for the note that a wait was interrupted.
LEMMA SetInterrupted ==
  ASSUME TypeOK, NEW t \in Threads, NEW b \in BOOLEAN,
         local' = [local EXCEPT ![t].wasInterrupted = b]
  PROVE  /\ local' \in [Threads -> Locals]
         /\ local'[t].mon = local[t].mon /\ local'[t].throws = local[t].throws
         /\ local'[t].timed = local[t].timed /\ local'[t].timedOut = local[t].timedOut
         /\ \A u \in Threads \ {t} : local'[u] = local[u]
BY ZenonT(30) DEF TypeOK, Locals

-----------------------------------------------------------------------------
(* The counters                                                            *)

Waits == Holding \union {"w_sleep"}

\* A step that neither enters nor leaves a wait, and tells no interrupt.
LEMMA WaitersSame ==
  ASSUME NEW t \in Threads, Frame(t), pc'[t] \in Waits <=> pc[t] \in Waits,
         pc[t] \in Waits => local'[t].mon = local[t].mon
  PROVE  \A m \in Monitors : Waiters(m)' = Waiters(m)
BY DEF Frame, Waiters, Waits, Holding, Mon

\* The counters then stay right.
LEMMA CountSame ==
  ASSUME CountersMatch, \A m \in Monitors : Waiters(m)' = Waiters(m),
         UNCHANGED <<waiting, interrupting, interruptingWait>>
  PROVE  CountersMatch'
<1> SUFFICES ASSUME NEW m \in Monitors
             PROVE  /\ waiting'[m] = Cardinality(Waiters(m)')
                    /\ interrupting'[m] = Cardinality(Told(m)')
  BY DEF CountersMatch, Told
<1>1. Waiters(m)' = Waiters(m) /\ Told(m)' = Told(m)
  BY DEF Told
<1>2. Cardinality(Waiters(m)') = Cardinality(Waiters(m))
  BY <1>1, Zenon
<1>3. Cardinality(Told(m)') = Cardinality(Told(m))
  BY <1>1, Zenon
<1> QED BY <1>2, <1>3 DEF CountersMatch, Told

\* A step that changes the waiters of a monitor, or those told of an
\* interrupt, counts them.
LEMMA CountOne ==
  ASSUME CountersMatch, NEW k \in Monitors,
         \A m \in Monitors \ {k} :
           /\ Waiters(m)' = Waiters(m) /\ Told(m)' = Told(m)
           /\ waiting'[m] = waiting[m] /\ interrupting'[m] = interrupting[m],
         waiting'[k] = Cardinality(Waiters(k)'),
         interrupting'[k] = Cardinality(Told(k)')
  PROVE  CountersMatch'
<1>1. ASSUME NEW m \in Monitors \ {k}
      PROVE  /\ waiting'[m] = Cardinality(Waiters(m)')
             /\ interrupting'[m] = Cardinality(Told(m)')
  <2>1. Cardinality(Waiters(m)') = Cardinality(Waiters(m))
    BY Zenon
  <2>2. Cardinality(Told(m)') = Cardinality(Told(m))
    BY Zenon
  <2> QED BY <2>1, <2>2 DEF CountersMatch, Told
<1> QED BY <1>1 DEF CountersMatch, Told

\* Every step keeps the counters right.
LEMMA CountStep ==
  ASSUME CardLaws, Untimed, CallsInv, CountersMatch, NEW t \in Threads, Step(t), Frame(t)
  PROVE  CountersMatch'
<1>0. TypeOK /\ CallInv(t)
  BY DEF CallsInv
<1>a. \A m \in Monitors : Waiters(m) \in SUBSET Threads /\ Told(m) \in SUBSET Threads
  BY DEF Waiters, Told
<1>s. /\ pc'[t] \in Waits <=> pc[t] \in Waits
      /\ pc[t] \in Waits => local'[t].mon = local[t].mon
      /\ UNCHANGED <<waiting, interrupting, interruptingWait>>
      => CountersMatch'
  BY WaitersSame, CountSame
<1> USE DEF At, Goto, ChangeStatus, counters, locks, flags, Waits, Holding
<1>1. ASSUME NEW m \in Objects,
             Lock(t, m) \/ Unlock(t, m) \/ Notify(t, m) \/ NotifyAll(t, m)
      PROVE  CountersMatch'
  BY <1>1, <1>s DEF Lock, Unlock, Notify, NotifyAll
<1>2. ASSUME NEW m \in Objects, NEW timed, NEW throws, Wait(t, m, timed, throws)
      PROVE  CountersMatch'
  <2>1. pc[t] = "idle" /\ EnterWait(t, m, timed, throws) /\ m \in Monitors
    BY <1>2, RepairFacts DEF Wait, Objects
  <2>2. /\ pc'[t] = "w_set" /\ local'[t].mon = m /\ ~interruptingWait[t]
        /\ waiting' = [waiting EXCEPT ![m] = @ + 1]
        /\ UNCHANGED <<interrupting, interruptingWait>>
    BY <1>0, <2>1 DEF EnterWait, TypeOK, NoLocals, CallInv
  <2>3. /\ Waiters(m)' = Waiters(m) \union {t} /\ t \notin Waiters(m)
        /\ \A n \in Monitors : n # m => Waiters(n)' = Waiters(n)
    BY <2>1, <2>2 DEF Frame, Waiters, Mon
  <2>4. \A n \in Monitors : Told(n)' = Told(n)
    BY <2>2, <2>3 DEF Told
  <2>5. Cardinality(Waiters(m)') = Cardinality(Waiters(m)) + 1
    BY <1>a, <2>1, <2>3 DEF CardLaws
  <2>6. Cardinality(Told(m)') = Cardinality(Told(m))
    BY <2>1, <2>4, Zenon
  <2>7. waiting'[m] = waiting[m] + 1
    BY <1>0, <2>1, <2>2 DEF TypeOK
  <2>8. \A n \in Monitors : n # m => waiting'[n] = waiting[n]
    BY <1>0, <2>2 DEF TypeOK
  <2>9. /\ waiting'[m] = Cardinality(Waiters(m)')
        /\ interrupting'[m] = Cardinality(Told(m)')
    BY <2>1, <2>2, <2>5, <2>6, <2>7, RepairFacts
  <2> QED
    BY <2>1, <2>2, <2>3, <2>4, <2>8, <2>9, CountOne
<1>3. CASE WaitSet(t)
  BY <1>3, <1>0, <1>s DEF WaitSet, TypeOK
<1>4. CASE WaitTest(t)
  BY <1>4, <1>0, <1>s, SetInterrupted DEF WaitTest, TypeOK
<1>5. CASE SpuriousWakeup(t)
  BY <1>5, <1>s DEF SpuriousWakeup
<1>6. CASE Wake(t)
  <2>1. TakeWakeup(t) /\ pc[t] = "w_sleep"
    BY <1>6, <1>0 DEF Wake, Awake, CallInv
  <2>m. PICK m \in Monitors : m = Mon(t)
    BY <1>0, <2>1 DEF CallInv, Objects
  <2>2. /\ local'[t].mon = local[t].mon /\ pc'[t] \in {"w_sleep", "w_done"}
        /\ UNCHANGED waiting
        /\ interruptingWait' = [interruptingWait EXCEPT ![t] = FALSE]
    BY <1>0, <2>1, SetInterrupted DEF TakeWakeup, TakeInterrupt, TypeOK
  <2>3. \A n \in Monitors : Waiters(n)' = Waiters(n)
    BY <2>1, <2>2, WaitersSame
  <2>4. CASE interruptingWait[t]
    <3>1. interrupting' = [interrupting EXCEPT ![m] = @ - 1]
      BY <2>1, <2>m, <2>4 DEF TakeWakeup, TakeInterrupt
    <3>2. /\ Told(m)' = Told(m) \ {t} /\ t \in Told(m)
          /\ \A n \in Monitors : n # m => Told(n)' = Told(n)
      BY <1>0, <2>1, <2>m, <2>2, <2>3, <2>4 DEF Told, Waiters, TypeOK
    <3>3. Cardinality(Told(m)') = Cardinality(Told(m)) - 1
      BY <1>a, <2>1, <3>2 DEF CardLaws
    <3>4. Cardinality(Waiters(m)') = Cardinality(Waiters(m))
      BY <2>1, <2>3, Zenon
    <3>5. interrupting'[m] = interrupting[m] - 1
      BY <1>0, <2>1, <3>1 DEF TypeOK
    <3>6. \A n \in Monitors : n # m => interrupting'[n] = interrupting[n]
      BY <1>0, <3>1 DEF TypeOK
    <3> QED BY <2>2, <2>3, <3>2, <3>3, <3>4, <3>5, <3>6, RepairFacts, CountOne
  <2>5. CASE ~interruptingWait[t]
    BY <1>0, <2>1, <2>2, <2>3, <2>5, CountSame DEF TakeWakeup, TakeInterrupt, TypeOK
  <2> QED BY <2>4, <2>5
<1>7. CASE WaitDone(t)
  <2>1. pc[t] = "w_done" /\ ~interruptingWait[t]
    BY <1>7, <1>0 DEF WaitDone, CallInv
  <2>m. PICK m \in Monitors : m = Mon(t)
    BY <1>0, <2>1 DEF CallInv, Objects
  <2>2. /\ pc'[t] \in {"w_clear", "s_unlock", "idle"}
        /\ waiting' = [waiting EXCEPT ![m] = @ - 1]
        /\ UNCHANGED <<interrupting, interruptingWait>>
    BY <1>7, <1>0, <2>m DEF WaitDone, LeaveWait, Return, TypeOK
  <2>3. /\ Waiters(m)' = Waiters(m) \ {t} /\ t \in Waiters(m)
        /\ \A n \in Monitors : n # m => Waiters(n)' = Waiters(n)
    BY <2>1, <2>m, <2>2 DEF Frame, Waiters, Mon
  <2>4. \A n \in Monitors : Told(n)' = Told(n)
    BY <2>1, <2>2, <2>3 DEF Told
  <2>5. Cardinality(Waiters(m)') = Cardinality(Waiters(m)) - 1
    BY <1>a, <2>1, <2>3 DEF CardLaws
  <2>6. Cardinality(Told(m)') = Cardinality(Told(m))
    BY <2>1, <2>4, Zenon
  <2>7. waiting'[m] = waiting[m] - 1
    BY <1>0, <2>1, <2>2 DEF TypeOK
  <2>8. \A n \in Monitors : n # m => waiting'[n] = waiting[n]
    BY <1>0, <2>2 DEF TypeOK
  <2> QED
    BY <2>1, <2>2, <2>3, <2>4, <2>5, <2>6, <2>7, <2>8, RepairFacts, CountOne
<1>8. CASE WaitClear(t)
  BY <1>8, <1>0, <1>s DEF WaitClear, LeaveWait, Return, TypeOK
<1>9. ASSUME NEW u \in Threads, Interrupt(t, u)
      PROVE  CountersMatch'
  BY <1>9, <1>0, <1>s DEF Interrupt, TypeOK
<1>10. CASE InterruptRead(t)
  BY <1>10, <1>0, <1>s DEF InterruptRead, Return, TypeOK
<1>11. CASE InterruptTry(t)
  BY <1>11, <1>0, <1>s DEF InterruptTry, Return, TypeOK
<1>12. CASE InterruptMark(t)
  <2>1. pc[t] = "i_mark" /\ pc'[t] = "idle"
    BY <1>12, <1>0 DEF InterruptMark, Return, TypeOK
  <2>m. PICK m \in Monitors, u \in Threads : m = Mon(t) /\ u = Target(t)
    BY <1>0, <2>1 DEF CallInv, Chasing
  <2>2. UNCHANGED waiting /\ \A n \in Monitors : Waiters(n)' = Waiters(n)
    BY <1>12, <2>1, WaitersSame DEF InterruptMark
  <2>3. CASE StillWaits(u, m)
    <3>1. /\ interruptingWait' = [interruptingWait EXCEPT ![u] = TRUE]
          /\ interrupting' = [interrupting EXCEPT ![m] = @ + 1]
      BY <1>12, <2>m, <2>3 DEF InterruptMark
    <3>2. u \in Waiters(m) /\ ~interruptingWait[u]
      BY <2>1, <2>3, ConstantsAssumption DEF StillWaits, CallsInv, CallInv, Waiters
    <3>3. /\ Told(m)' = Told(m) \union {u} /\ u \notin Told(m)
          /\ \A n \in Monitors : n # m => Told(n)' = Told(n)
      BY <1>0, <2>1, <2>2, <3>1, <3>2 DEF Told, Waiters, TypeOK
    <3>4. Cardinality(Told(m)') = Cardinality(Told(m)) + 1
      BY <1>a, <2>1, <3>3 DEF CardLaws
    <3>5. Cardinality(Waiters(m)') = Cardinality(Waiters(m))
      BY <2>1, <2>2, Zenon
    <3>6. interrupting'[m] = interrupting[m] + 1
      BY <1>0, <2>1, <3>1 DEF TypeOK
    <3>7. \A n \in Monitors : n # m => interrupting'[n] = interrupting[n]
      BY <1>0, <3>1 DEF TypeOK
    <3> QED BY <2>2, <3>3, <3>4, <3>5, <3>6, <3>7, RepairFacts, CountOne
  <2>4. CASE ~StillWaits(u, m)
    BY <1>12, <2>m, <2>2, <2>4, CountSame DEF InterruptMark
  <2> QED BY <2>3, <2>4
<1>13. CASE Interrupted(t)
  BY <1>13, <1>0, <1>s DEF Interrupted, TypeOK
<1>14. CASE InterruptedClear(t)
  BY <1>14, <1>0, <1>s DEF InterruptedClear, Return, TypeOK
<1>15. ~(Timeout(t) \/ WakeTimedOut(t) \/ Sleep(t) \/ SleepUnlock(t))
  BY <1>0 DEF Untimed, CallInv, Timeout, WakeTimedOut, Sleep, SleepUnlock
<1> QED
  BY <1>1, <1>2, <1>3, <1>4, <1>5, <1>6, <1>7, <1>8, <1>9, <1>10, <1>11,
     <1>12, <1>13, <1>14, <1>15 DEF Step

-----------------------------------------------------------------------------
(* Notifications                                                           *)

\* While a running thread owns the monitor, or nobody has its mutex, no thread
\* is on its way into or out of a wait.
LEMMA NobodyEnters ==
  ASSUME CallsInv, NEW m \in Monitors, NEW t \in Threads,
         owner[m] = t \/ mutex[m] = NoThread
  PROVE  /\ ~Entering(m)
         /\ \A u \in Waiters(m) : pc[u] = "w_sleep"
<1>1. ASSUME NEW u \in Threads, Mon(u) = m, pc[u] \in Holding
      PROVE  FALSE
  BY <1>1, ConstantsAssumption DEF CallsInv, CallInv, LockInv
<1> QED BY <1>1 DEF Entering, Waiters, Holding

\* A step after which the same threads, or more, would take a notification.
LEMMA NotifySame ==
  ASSUME CardLaws, NEW m \in Monitors, NotifyInv(m), notifying'[m] = notifying[m],
         Ready(m) \subseteq Ready(m)',
         sleepers'[m] # {} \/ Entering(m)' => sleepers[m] # {} \/ Entering(m)
  PROVE  NotifyInv(m)'
<1>1. Ready(m) \in SUBSET Threads /\ Ready(m)' \in SUBSET Threads
  BY DEF Ready, Waiters
<1>2. /\ Cardinality(Ready(m)) \in Nat /\ Cardinality(Ready(m)') \in Nat
      /\ Cardinality(Ready(m)) <= Cardinality(Ready(m)')
  BY <1>1 DEF CardLaws
<1> QED BY <1>2 DEF NotifyInv

\* The other threads stay ready.
LEMMA ReadySame ==
  ASSUME NEW t \in Threads, Frame(t), NEW m \in Monitors,
         \A u \in Ready(m) \ {t} : interruptingWait'[u] => interruptingWait[u],
         t \in Ready(m) => t \in Ready(m)'
  PROVE  Ready(m) \subseteq Ready(m)'
BY DEF Frame, Ready, Waiters, Awake, At, Mon

\* A thread that does not start to wait lets none enter.
LEMMA EnteringSame ==
  ASSUME NEW t \in Threads, Frame(t), NEW m \in Monitors,
         pc'[t] \notin {"w_set", "w_test"}
  PROVE  Entering(m)' => Entering(m)
BY DEF Frame, Entering, Mon

\* A step of a thread that sleeps on no monitor, and keeps off the conditions.
LEMMA NotifyQuiet ==
  ASSUME CardLaws, NEW t \in Threads, Frame(t), \A m \in Monitors : NotifyInv(m),
         pc[t] # "w_sleep", pc'[t] \notin {"w_set", "w_test"},
         UNCHANGED <<notifying, sleepers, interruptingWait>>
  PROVE  \A m \in Monitors : NotifyInv(m)'
<1>1. \A m \in Monitors : t \notin Ready(m)
  BY DEF Ready, Awake, At
<1> QED BY <1>1, ReadySame, EnteringSame, NotifySame

\* Every step leaves an awake waiter for every notification.
LEMMA NotifyStep ==
  ASSUME CardLaws, Untimed, Inv, NEW t \in Threads, Step(t), Frame(t)
  PROVE  \A m \in Monitors : NotifyInv(m)'
<1>0. TypeOK /\ LockInv /\ CallInv(t) /\ CallsInv /\ CountersMatch
  BY DEF Inv, CallsInv
<1>a. \A m \in Monitors :
        /\ NotifyInv(m) /\ Waiters(m) \in SUBSET Threads
        /\ Ready(m) \in SUBSET Threads /\ Ready(m)' \in SUBSET Threads
  BY DEF Inv, Ready, Waiters
<1>q. /\ pc[t] # "w_sleep" /\ pc'[t] \notin {"w_set", "w_test"}
      /\ UNCHANGED <<notifying, sleepers, interruptingWait>>
      => \A m \in Monitors : NotifyInv(m)'
  BY <1>a, NotifyQuiet
<1>e. ASSUME NEW k \in Monitors, NotifyInv(k)', pc[t] # "w_sleep",
             \A m \in Monitors : m # k =>
               /\ notifying'[m] = notifying[m] /\ sleepers'[m] = sleepers[m]
               /\ Entering(m)' => Entering(m)
               /\ \A u \in Ready(m) \ {t} : interruptingWait'[u] => interruptingWait[u]
      PROVE  \A m \in Monitors : NotifyInv(m)'
  <2>1. \A m \in Monitors : t \notin Ready(m)
    BY <1>e DEF Ready, Awake, At
  <2> QED BY <1>a, <1>e, <2>1, ReadySame, NotifySame
<1> USE DEF At, Goto, ChangeStatus, counters, locks, flags
<1>1. ASSUME NEW m \in Objects, Lock(t, m) \/ Unlock(t, m)
      PROVE  \A n \in Monitors : NotifyInv(n)'
  BY <1>1, <1>q DEF Lock, Unlock
<1>2. ASSUME NEW m \in Objects, Notify(t, m)
      PROVE  \A n \in Monitors : NotifyInv(n)'
  <2>1. pc[t] = "idle" /\ pc' = pc /\ m \in Monitors /\ UNCHANGED interruptingWait
    BY <1>2 DEF Notify, Objects
  <2>2. ~Entering(m) /\ ~Entering(m)' /\ \A n \in Monitors : Entering(n)' => Entering(n)
    BY <1>2, <1>0, <2>1, NobodyEnters, EnteringSame DEF Notify
  <2>3. CASE UNCHANGED <<notifying, sleepers>>
    BY <1>q, <2>1, <2>3
  <2>4. CASE notifying' = [notifying EXCEPT ![m] = @ + 1] /\ Signal(m)
    <3>1. \A n \in Monitors : n # m => notifying'[n] = notifying[n] /\ sleepers'[n] = sleepers[n]
      BY <1>0, <2>4 DEF Signal, TypeOK
    <3>2. notifying'[m] = notifying[m] + 1 /\ notifying[m] \in Nat
      BY <1>0, <1>a, <2>1, <2>4 DEF TypeOK, NotifyInv
    <3>3. CASE sleepers[m] = {}
      <4>1. sleepers'[m] = {}
        BY <2>4, <3>3 DEF Signal
      <4>2. NotifyInv(m)'
        BY <2>2, <3>2, <4>1 DEF NotifyInv
      <4> QED BY <1>e, <2>1, <2>2, <3>1, <4>2
    <3>4. CASE sleepers[m] # {}
      <4>1. PICK u \in sleepers[m] : sleepers' = [sleepers EXCEPT ![m] = @ \ {u}]
        BY <2>4, <3>4 DEF Signal
      <4>2. /\ u \in Threads /\ pc[u] = "w_sleep" /\ Mon(u) = m
            /\ ~interruptingWait[u] /\ u # t
        BY <1>0, <2>1, <4>1 DEF TypeOK, LockInv, CallsInv, CallInv
      <4>3. u \notin Ready(m) /\ u \in Ready(m)'
        BY <1>0, <2>1, <4>1, <4>2 DEF Ready, Waiters, Awake, Mon, Frame, TypeOK
      <4>4. Ready(m) \subseteq Ready(m)'
        BY <2>1, ReadySame DEF Ready, Awake
      <4>5. Cardinality(Ready(m)) + 1 <= Cardinality(Ready(m)')
        <5>1. Ready(m) \union {u} \in SUBSET Ready(m)'
          BY <4>3, <4>4
        <5>2. /\ Cardinality(Ready(m) \union {u}) = Cardinality(Ready(m)) + 1
              /\ Cardinality(Ready(m) \union {u}) <= Cardinality(Ready(m)')
          BY <1>a, <2>1, <4>2, <4>3, <5>1 DEF CardLaws
        <5> QED BY <5>2
      <4>6. Cardinality(Ready(m)) \in Nat /\ Cardinality(Ready(m)') \in Nat
        BY <1>a, <2>1 DEF CardLaws
      <4>7. NotifyInv(m)'
        BY <1>a, <2>1, <3>2, <3>4, <4>5, <4>6 DEF NotifyInv
      <4> QED BY <1>e, <2>1, <2>2, <3>1, <4>7
    <3> QED BY <3>3, <3>4
  <2> QED BY <1>2, <2>3, <2>4 DEF Notify
<1>3. ASSUME NEW m \in Objects, NotifyAll(t, m)
      PROVE  \A n \in Monitors : NotifyInv(n)'
  <2>1. pc[t] = "idle" /\ pc' = pc /\ m \in Monitors /\ UNCHANGED interruptingWait
    BY <1>3 DEF NotifyAll, Objects
  <2>2. ~Entering(m) /\ ~Entering(m)' /\ \A n \in Monitors : Entering(n)' => Entering(n)
    BY <1>3, <1>0, <2>1, NobodyEnters, EnteringSame DEF NotifyAll
  <2>3. /\ notifying'[m] \in Nat /\ (notifying'[m] > 0 => sleepers'[m] = {})
        /\ \A n \in Monitors : n # m => notifying'[n] = notifying[n] /\ sleepers'[n] = sleepers[n]
    <3>1. waiting[m] - interrupting[m] \in Nat
      BY <1>0, <2>1, RepairFacts
    <3> QED BY <1>3, <1>0, <2>1, <3>1 DEF NotifyAll, Broadcast, TypeOK
  <2>4. NotifyInv(m)'
    <3>1. Cardinality(Ready(m)') \in Nat
      BY <1>a, <2>1 DEF CardLaws
    <3> QED BY <2>2, <2>3, <3>1 DEF NotifyInv
  <2> QED BY <1>e, <2>1, <2>2, <2>3, <2>4
<1>4. ASSUME NEW m \in Objects, NEW timed, NEW throws, Wait(t, m, timed, throws)
      PROVE  \A n \in Monitors : NotifyInv(n)'
  <2>1. /\ pc[t] = "idle" /\ owner[m] = t /\ m \in Monitors
        /\ EnterWait(t, m, timed, throws)
    BY <1>4, <1>0, RepairFacts DEF Wait, Objects
  <2>2. /\ pc'[t] = "w_set" /\ local'[t].mon = m
        /\ notifying' = [notifying EXCEPT ![m] = Repaired(m)]
        /\ UNCHANGED <<sleepers, interruptingWait>>
    BY <1>0, <2>1 DEF EnterWait, TypeOK, NoLocals
  <2>3. \A n \in Monitors : n # m => (Entering(n)' => Entering(n)) /\ notifying'[n] = notifying[n]
    BY <1>0, <2>2 DEF Entering, Frame, Mon, TypeOK
  <2>a. /\ waiting[m] \in Nat /\ interrupting[m] \in Nat
        /\ interrupting[m] <= waiting[m] /\ notifying[m] \in Nat
    BY <1>0, <1>a, <2>1, RepairFacts DEF NotifyInv
  <2>4. /\ notifying[m] \in Nat /\ Repaired(m) \in Nat /\ Repaired(m) <= notifying[m]
        /\ Repaired(m) <= waiting[m] - interrupting[m]
    BY <2>a DEF Repaired
  <2>5. Ready(m) \subseteq Ready(m)'
    BY <2>1, <2>2, ReadySame DEF Ready, Awake
  <2>6. /\ Cardinality(Ready(m)) \in Nat /\ Cardinality(Ready(m)') \in Nat
        /\ Cardinality(Ready(m)) <= Cardinality(Ready(m)')
    BY <1>a, <2>1, <2>5 DEF CardLaws
  <2>7. sleepers[m] = {} => waiting[m] - interrupting[m] <= Cardinality(Ready(m))
    <3> SUFFICES ASSUME sleepers[m] = {}
                 PROVE  waiting[m] - interrupting[m] <= Cardinality(Ready(m))
      OBVIOUS
    <3>1. Waiters(m) \ Told(m) \in SUBSET Ready(m) /\ Told(m) \in SUBSET Waiters(m)
      BY <1>0, <2>1, NobodyEnters DEF Ready, Told, Waiters, Awake
    <3>2. /\ Cardinality(Waiters(m) \ Told(m)) = Cardinality(Waiters(m)) - Cardinality(Told(m))
          /\ Cardinality(Waiters(m) \ Told(m)) <= Cardinality(Ready(m))
      BY <1>a, <2>1, <3>1 DEF CardLaws
    <3> QED BY <1>0, <2>1, <3>2, RepairFacts
  <2>8. Repaired(m) <= Cardinality(Ready(m))
    <3>1. sleepers[m] # {} => notifying[m] <= Cardinality(Ready(m))
      BY <1>a, <2>1 DEF NotifyInv
    <3>2. waiting[m] - interrupting[m] \in Int
      BY <1>0, <2>1 DEF TypeOK
    <3> QED BY <2>4, <2>6, <2>7, <3>1, <3>2
  <2>9. notifying'[m] = Repaired(m)
    BY <1>0, <2>1, <2>2 DEF TypeOK
  <2>10. NotifyInv(m)'
    BY <2>4, <2>6, <2>8, <2>9 DEF NotifyInv
  <2> QED BY <1>e, <2>1, <2>2, <2>3, <2>10
<1>5. CASE WaitSet(t)
  <2>1. /\ pc[t] = "w_set" /\ pc'[t] = "w_test" /\ UNCHANGED local
        /\ UNCHANGED <<notifying, sleepers, interruptingWait>>
    BY <1>5, <1>0 DEF WaitSet, TypeOK
  <2>2. \A m \in Monitors : t \notin Ready(m) /\ (Entering(m)' => Entering(m))
    BY <2>1 DEF Ready, Awake, Entering, Frame, Mon
  <2> QED BY <1>a, <2>1, <2>2, ReadySame, NotifySame
<1>6. CASE WaitTest(t)
  <2>1. /\ pc[t] = "w_test" /\ pc'[t] \in {"w_done", "w_sleep"}
        /\ UNCHANGED <<notifying, interruptingWait>>
        /\ \A m \in Monitors : m # Mon(t) => sleepers'[m] = sleepers[m]
    BY <1>6, <1>0 DEF WaitTest, TypeOK
  <2>2. \A m \in Monitors : t \notin Ready(m) /\ (Entering(m)' => Entering(m))
    BY <2>1, EnteringSame DEF Ready, Awake
  <2>3. Entering(Mon(t))
    BY <2>1 DEF Entering
  <2> QED BY <1>a, <2>1, <2>2, <2>3, ReadySame, NotifySame
<1>7. CASE SpuriousWakeup(t)
  <2>1. /\ UNCHANGED <<notifying, interruptingWait, pc, local>>
        /\ \A m \in Monitors : sleepers'[m] \subseteq sleepers[m]
        /\ pc'[t] = "w_sleep"
    BY <1>7, <1>0 DEF SpuriousWakeup, TypeOK
  <2>2. \A m \in Monitors : t \in Ready(m) => t \in Ready(m)'
    BY <2>1 DEF Ready, Awake, Waiters, Mon
  <2>3. \A m \in Monitors : Ready(m) \subseteq Ready(m)' /\ (Entering(m)' => Entering(m))
    BY <2>1, <2>2, ReadySame, EnteringSame
  <2> QED BY <1>a, <2>1, <2>3, NotifySame
<1>8. CASE Wake(t)
  <2>1. TakeWakeup(t) /\ Awake(t) /\ mutex[Mon(t)] = NoThread /\ pc[t] = "w_sleep"
    BY <1>8, <1>0 DEF Wake, Awake, CallInv
  <2>m. PICK m \in Monitors : m = Mon(t)
    BY <1>0, <2>1 DEF CallInv, Objects
  <2>2. /\ local'[t].mon = m /\ pc'[t] \in {"w_sleep", "w_done"}
        /\ ~interruptingWait'[t]
        /\ \A u \in Threads \ {t} : interruptingWait'[u] = interruptingWait[u]
        /\ \A n \in Monitors : n # m => notifying'[n] = notifying[n] /\ sleepers'[n] = sleepers[n]
    <3>1. local'[t].mon = m
      BY <1>0, <2>1, <2>m, SetInterrupted DEF TakeWakeup, Mon
    <3>2. interruptingWait' = [interruptingWait EXCEPT ![t] = FALSE]
      BY <2>1 DEF TakeWakeup, TakeInterrupt
    <3>3. \A n \in Monitors : n # m => notifying'[n] = notifying[n] /\ sleepers'[n] = sleepers[n]
      BY <1>0, <2>1, <2>m DEF TakeWakeup, TypeOK
    <3>4. pc'[t] \in {"w_sleep", "w_done"}
      BY <1>0, <2>1 DEF TakeWakeup, TypeOK
    <3> QED BY <1>0, <3>1, <3>2, <3>3, <3>4 DEF TypeOK
  <2>3. \A n \in Monitors :
          /\ Entering(n)' => Entering(n)
          /\ n # m => t \notin Ready(n)
    BY <2>2, <2>m, EnteringSame DEF Ready, Waiters
  <2>4. \A n \in Monitors : n # m => NotifyInv(n)'
    BY <1>a, <2>2, <2>3, ReadySame, NotifySame
  <2>5. ~Entering(m)'
    BY <1>0, <2>1, <2>m, <2>3, NobodyEnters
  <2>6. Cardinality(Ready(m)) \in Nat /\ Cardinality(Ready(m)') \in Nat /\ notifying[m] \in Nat
    BY <1>a DEF CardLaws, NotifyInv
  <2>7. t \in Ready(m) <=> ~(interruptingWait[t] /\ local[t].throws)
    BY <2>1, <2>m DEF Ready, Waiters, Awake
  <2>8. CASE interruptingWait[t] /\ local[t].throws
    <3>1. UNCHANGED <<notifying, sleepers>>
      BY <1>0, <2>1, <2>8 DEF TakeWakeup, TypeOK
    <3> QED BY <1>a, <2>2, <2>3, <2>4, <2>7, <2>8, <3>1, ReadySame, NotifySame
  <2>9. CASE ~(interruptingWait[t] /\ local[t].throws) /\ notifying[m] # 0
    <3>1. /\ UNCHANGED sleepers
          /\ notifying' = [notifying EXCEPT ![m] = @ - 1]
      BY <2>1, <2>m, <2>9 DEF TakeWakeup
    <3>2. notifying'[m] = notifying[m] - 1
      BY <1>0, <3>1 DEF TypeOK
    <3>3. Ready(m) \ {t} \in SUBSET Ready(m)'
      BY <2>2, <3>1 DEF Ready, Waiters, Awake, Frame, Mon
    <3>4. Cardinality(Ready(m)) - 1 <= Cardinality(Ready(m)')
      <4>1. /\ Cardinality(Ready(m) \ {t}) = Cardinality(Ready(m)) - 1
            /\ Cardinality(Ready(m) \ {t}) <= Cardinality(Ready(m)')
        BY <1>a, <2>7, <2>9, <3>3 DEF CardLaws
      <4> QED BY <4>1
    <3>5. NotifyInv(m)'
      BY <1>a, <2>5, <2>6, <2>9, <3>1, <3>2, <3>4 DEF NotifyInv
    <3> QED BY <2>4, <3>5
  <2>10. CASE ~(interruptingWait[t] /\ local[t].throws) /\ notifying[m] = 0
    <3>1. UNCHANGED notifying
      BY <2>1, <2>m, <2>10 DEF TakeWakeup
    <3>2. NotifyInv(m)'
      BY <2>6, <2>10, <3>1 DEF NotifyInv
    <3> QED BY <2>4, <3>2
  <2> QED BY <2>8, <2>9, <2>10
<1>9. CASE WaitDone(t)
  BY <1>9, <1>0, <1>q DEF WaitDone, LeaveWait, Return, TypeOK
<1>10. CASE WaitClear(t)
  BY <1>10, <1>0, <1>q DEF WaitClear, LeaveWait, Return, TypeOK
<1>11. ASSUME NEW u \in Threads, Interrupt(t, u)
      PROVE  \A m \in Monitors : NotifyInv(m)'
  BY <1>11, <1>0, <1>q DEF Interrupt, TypeOK
<1>12. CASE InterruptRead(t)
  BY <1>12, <1>0, <1>q DEF InterruptRead, Return, TypeOK
<1>13. CASE InterruptTry(t)
  BY <1>13, <1>0, <1>q DEF InterruptTry, Return, TypeOK
<1>14. CASE InterruptMark(t)
  <2>1. pc[t] = "i_mark" /\ pc'[t] = "idle" /\ UNCHANGED notifying
    BY <1>14, <1>0 DEF InterruptMark, Return, TypeOK
  <2>m. PICK m \in Monitors, u \in Threads : m = Mon(t) /\ u = Target(t)
    BY <1>0, <2>1 DEF CallInv, Chasing
  <2>2. CASE StillWaits(u, m)
    <3>1. /\ interruptingWait' = [interruptingWait EXCEPT ![u] = TRUE]
          /\ sleepers' = [sleepers EXCEPT ![m] = {}]
      BY <1>14, <2>m, <2>2 DEF InterruptMark, Broadcast
    <3>2. Mon(u) = m
      BY <2>2, ConstantsAssumption DEF StillWaits, CallsInv, CallInv, Inv
    <3>3. ~Entering(m)' /\ \A n \in Monitors : Entering(n)' => Entering(n)
      BY <1>0, <2>1, <2>m, NobodyEnters, EnteringSame DEF CallInv
    <3>4. NotifyInv(m)'
      BY <1>0, <1>a, <2>1, <3>1, <3>3 DEF NotifyInv, TypeOK
    <3>5. \A n \in Monitors : n # m =>
            /\ sleepers'[n] = sleepers[n]
            /\ \A v \in Ready(n) \ {t} : interruptingWait'[v] => interruptingWait[v]
      BY <1>0, <3>1, <3>2 DEF TypeOK, Ready, Waiters
    <3> QED BY <1>e, <2>1, <3>3, <3>4, <3>5
  <2>3. CASE ~StillWaits(u, m)
    BY <1>14, <1>q, <2>1, <2>m, <2>3 DEF InterruptMark
  <2> QED BY <2>2, <2>3
<1>15. CASE Interrupted(t)
  BY <1>15, <1>0, <1>q DEF Interrupted, TypeOK
<1>16. CASE InterruptedClear(t)
  BY <1>16, <1>0, <1>q DEF InterruptedClear, Return, TypeOK
<1>17. ~(Timeout(t) \/ WakeTimedOut(t) \/ Sleep(t) \/ SleepUnlock(t))
  BY <1>0 DEF Untimed, CallInv, Timeout, WakeTimedOut, Sleep, SleepUnlock
<1> QED
  BY <1>1, <1>2, <1>3, <1>4, <1>5, <1>6, <1>7, <1>8, <1>9, <1>10, <1>11,
     <1>12, <1>13, <1>14, <1>15, <1>16, <1>17 DEF Step

-----------------------------------------------------------------------------
(* Interrupts                                                              *)

\* A pursuit goes on until the pursued has been told.
LEMMA ChaseKept ==
  ASSUME ChaseInv, NEW t \in Threads, Frame(t),
         \A u \in Threads :
           pc'[u] = "w_sleep" /\ interrupted'[u] /\ local'[u].throws =>
             \/ Pursues(t, u)'
             \/ /\ pc[u] = "w_sleep" /\ interrupted[u] /\ local[u].throws
                /\ local'[u].mon = local[u].mon
                /\ interruptingWait[u] => interruptingWait'[u]
                /\ Pursues(t, u) => Pursues(t, u)' \/ interruptingWait'[u]
  PROVE  ChaseInv'
<1> SUFFICES ASSUME NEW u \in Threads,
                    pc'[u] = "w_sleep", interrupted'[u], local'[u].throws,
                    ~interruptingWait'[u], ~Pursues(t, u)'
             PROVE  \E p \in Threads : Pursues(p, u)'
  BY DEF ChaseInv
<1>1. /\ ~interruptingWait[u] /\ ~Pursues(t, u)
      /\ pc[u] = "w_sleep" /\ interrupted[u] /\ local[u].throws
      /\ local'[u].mon = local[u].mon
  OBVIOUS
<1>2. PICK p \in Threads \ {t} : Pursues(p, u)
  BY <1>1 DEF ChaseInv
<1>3. Pursues(p, u)'
  BY <1>1, <1>2 DEF Frame, Pursues, Mon, Target
<1> QED BY <1>3

\* Every step does.
LEMMA ChaseStep ==
  ASSUME Untimed, ~GivesUp, CallsInv, ChaseInv, NEW t \in Threads, Step(t), Frame(t)
  PROVE  ChaseInv'
<1>0. TypeOK /\ CallInv(t)
  BY DEF CallsInv
<1>q. /\ pc[t] \notin Chasing /\ UNCHANGED interruptingWait
      /\ \A u \in Threads \ {t} : interrupted'[u] = interrupted[u]
      /\ pc'[t] = "w_sleep" =>
           \/ ~interrupted'[t]
           \/ pc[t] = "w_sleep" /\ UNCHANGED local /\ interrupted'[t] = interrupted[t]
      => ChaseInv'
  <2>1. pc[t] \notin Chasing => \A u \in Threads : ~Pursues(t, u)
    BY DEF Pursues, Chasing
  <2> QED BY <2>1, ChaseKept DEF Frame
<1> USE DEF At, Goto, ChangeStatus, counters, locks, flags
<1>1. ASSUME NEW m \in Objects,
             Lock(t, m) \/ Unlock(t, m) \/ Notify(t, m) \/ NotifyAll(t, m)
      PROVE  ChaseInv'
  BY <1>1, <1>q DEF Lock, Unlock, Notify, NotifyAll, Chasing
<1>2. ASSUME NEW m \in Objects, NEW timed, NEW throws, Wait(t, m, timed, throws)
      PROVE  ChaseInv'
  BY <1>2, <1>0, <1>q DEF Wait, EnterWait, Abort, Chasing, TypeOK
<1>3. CASE WaitSet(t)
  BY <1>3, <1>0, <1>q DEF WaitSet, Chasing, TypeOK
<1>4. CASE WaitTest(t)
  BY <1>4, <1>0, <1>q DEF WaitTest, Chasing, TypeOK
<1>5. CASE SpuriousWakeup(t)
  BY <1>5, <1>0, <1>q DEF SpuriousWakeup, Chasing, TypeOK
<1>6. CASE Wake(t)
  <2>1. TakeWakeup(t) /\ pc[t] = "w_sleep"
    BY <1>6, <1>0 DEF Wake, Awake, CallInv
  <2>2. /\ local'[t].mon = local[t].mon /\ local'[t].throws = local[t].throws
        /\ UNCHANGED interrupted
        /\ interruptingWait' = [interruptingWait EXCEPT ![t] = FALSE]
    BY <1>0, <2>1, SetInterrupted DEF TakeWakeup, TakeInterrupt
  <2>3. pc'[t] = "w_sleep" => ~(interruptingWait[t] /\ local[t].throws)
    BY <1>0, <2>1 DEF TakeWakeup, TypeOK
  <2>4. \A u \in Threads : ~Pursues(t, u)
    BY <2>1 DEF Pursues
  <2>5. /\ ~interruptingWait'[t]
        /\ \A u \in Threads \ {t} : interruptingWait'[u] = interruptingWait[u]
    BY <1>0, <2>2 DEF TypeOK
  <2> QED BY <2>1, <2>2, <2>3, <2>4, <2>5, ChaseKept DEF Frame
<1>7. CASE WaitDone(t)
  BY <1>7, <1>0, <1>q DEF WaitDone, LeaveWait, Return, Chasing, TypeOK
<1>8. CASE WaitClear(t)
  BY <1>8, <1>0, <1>q DEF WaitClear, LeaveWait, Return, Chasing, TypeOK
<1>9. ASSUME NEW u \in Threads, Interrupt(t, u)
      PROVE  ChaseInv'
  <2>1. /\ pc[t] = "idle" /\ pc'[t] = "i_read" /\ local'[t].target = u
        /\ interrupted' = [interrupted EXCEPT ![u] = TRUE] /\ UNCHANGED interruptingWait
    BY <1>9, <1>0, SetTarget DEF Interrupt, TypeOK
  <2>2. Pursues(t, u)' /\ \A v \in Threads : ~Pursues(t, v)
    BY <2>1 DEF Pursues, Target
  <2> QED BY <1>0, <2>1, <2>2, ChaseKept DEF Frame, TypeOK
<1>10. CASE InterruptRead(t)
  <2>1. pc[t] = "i_read" /\ UNCHANGED <<interrupted, interruptingWait>> /\ pc'[t] # "w_sleep"
    BY <1>10, <1>0 DEF InterruptRead, Return, TypeOK
  <2>2. ASSUME NEW u \in Threads \ {t}, pc[u] = "w_sleep", Pursues(t, u)
        PROVE  Pursues(t, u)'
    <3>1. waitMonitor[u] = Mon(u) /\ Mon(u) \in Monitors /\ Target(t) = u
      BY <2>2 DEF CallsInv, CallInv, Objects, Pursues
    <3>2. pc'[t] = "i_try" /\ local' = [local EXCEPT ![t].mon = Mon(u)]
      BY <1>10, <1>0, <3>1, ConstantsAssumption DEF InterruptRead, TypeOK
    <3>3. local'[t].mon = Mon(u) /\ local'[t].target = u /\ local'[u] = local[u]
      BY <1>0, <3>1, <3>2, SetMon DEF Target
    <3> QED BY <3>2, <3>3 DEF Pursues, Mon, Target
  <2> QED BY <2>1, <2>2, ChaseKept DEF Frame
<1>11. CASE InterruptTry(t)
  <2>1. pc[t] = "i_try" /\ UNCHANGED <<interrupted, interruptingWait>> /\ pc'[t] # "w_sleep"
    BY <1>11, <1>0 DEF InterruptTry, Return, TypeOK
  <2>2. ASSUME NEW u \in Threads \ {t}, pc[u] = "w_sleep", Pursues(t, u)
        PROVE  Pursues(t, u)'
    <3>1. waitMonitor[u] = Mon(u) /\ Target(t) = u /\ Mon(t) = Mon(u)
      BY <2>1, <2>2 DEF CallsInv, CallInv, Pursues
    <3>2. pc'[t] = "i_mark" /\ UNCHANGED local
      BY <1>11, <1>0, <3>1 DEF InterruptTry, TypeOK
    <3> QED BY <3>1, <3>2 DEF Pursues, Mon, Target
  <2> QED BY <2>1, <2>2, ChaseKept DEF Frame
<1>12. CASE InterruptMark(t)
  <2>1. pc[t] = "i_mark" /\ UNCHANGED interrupted /\ pc'[t] # "w_sleep"
    BY <1>12, <1>0 DEF InterruptMark, Return, TypeOK
  <2>2. \A u \in Threads : interruptingWait[u] => interruptingWait'[u]
    BY <1>12, <1>0 DEF InterruptMark, TypeOK
  <2>3. ASSUME NEW u \in Threads \ {t}, pc[u] = "w_sleep", interrupted[u], Pursues(t, u)
        PROVE  interruptingWait'[u]
    <3>1. waitMonitor[u] = Mon(u) /\ Target(t) = u /\ Mon(t) = Mon(u)
      BY <2>1, <2>3 DEF CallsInv, CallInv, Pursues
    <3> QED BY <1>12, <1>0, <2>2, <2>3, <3>1 DEF InterruptMark, StillWaits, TypeOK
  <2> QED BY <2>1, <2>2, <2>3, ChaseKept DEF Frame
<1>13. CASE Interrupted(t)
  BY <1>13, <1>0, <1>q DEF Interrupted, Chasing, TypeOK
<1>14. CASE InterruptedClear(t)
  BY <1>14, <1>0, <1>q DEF InterruptedClear, Return, Chasing, TypeOK
<1>15. ~(Timeout(t) \/ WakeTimedOut(t) \/ Sleep(t) \/ SleepUnlock(t))
  BY <1>0 DEF Untimed, CallInv, Timeout, WakeTimedOut, Sleep, SleepUnlock
<1> QED
  BY <1>1, <1>2, <1>3, <1>4, <1>5, <1>6, <1>7, <1>8, <1>9, <1>10, <1>11,
     <1>12, <1>13, <1>14, <1>15 DEF Step

-----------------------------------------------------------------------------
(* A step of a thread                                                      *)

\* Every step keeps the threads in their calls.
LEMMA CallsStep ==
  ASSUME CardLaws, Untimed, CallsInv, CountersMatch, NEW t \in Threads, Step(t)
  PROVE  CallsInv' /\ Frame(t)
<1>0. TypeOK /\ LockInv /\ CallInv(t) /\ t # NoThread
  BY ConstantsAssumption DEF CallsInv
<1>a. TypeOK' /\ Frame(t) /\ Own(t) => CallsInv' /\ Frame(t)
  BY CallsKept
<1> USE DEF At, Goto, ChangeStatus, counters, locks, flags, Mon, Target, Objects
<1>b. /\ pc'[t] = "idle" /\ ~local'[t].timed /\ ~local'[t].timedOut
      /\ waitMonitor'[t] = NoMonitor /\ ~interruptingWait'[t]
      => CallInv(t)'
  BY DEF CallInv, Holding, Chasing
<1>c. /\ pc[t] \in Chasing \union {"idle", "w_clear", "q_clear"} =>
           waitMonitor[t] = NoMonitor /\ ~interruptingWait[t]
      /\ ~local[t].timed /\ ~local[t].timedOut
  BY <1>0 DEF CallInv, Chasing
<1>d. \A m \in Monitors : /\ owner[m] # NoThread => mutex[m] = owner[m]
                          /\ t \in sleepers[m] => pc[t] = "w_sleep"
  BY <1>0 DEF LockInv
<1>1. ASSUME NEW m \in Objects, Lock(t, m)
      PROVE  CallsInv' /\ Frame(t)
  <2>1. TypeOK'
    BY <1>1, <1>0, LockTypes DEF TypeOK, Lock, Acquire
  <2>2. Frame(t)
    BY <1>1, <1>0, LockKept DEF Frame, Lock
  <2>3. Own(t)
    BY <1>1, <1>0, <1>b, <1>c, <1>d, LockKept DEF Own, Lock
  <2> QED BY <1>a, <2>1, <2>2, <2>3
<1>2. ASSUME NEW m \in Objects, Unlock(t, m)
      PROVE  CallsInv' /\ Frame(t)
  <2>1. TypeOK'
    BY <1>2, <1>0, LockTypes DEF TypeOK, Unlock, Release
  <2>2. Frame(t)
    BY <1>2, <1>0, LockKept DEF Frame, Unlock
  <2>3. Own(t)
    BY <1>2, <1>0, <1>b, <1>c, <1>d, LockKept DEF Own, Unlock
  <2> QED BY <1>a, <2>1, <2>2, <2>3
<1>3. ASSUME NEW m \in Objects, Notify(t, m)
      PROVE  CallsInv' /\ Frame(t)
  <2>1. TypeOK'
    BY <1>3, <1>0 DEF TypeOK, Notify, Signal
  <2>a. \A n \in Monitors : sleepers'[n] \subseteq sleepers[n]
    BY <1>3, <1>0 DEF Notify, Signal, TypeOK
  <2>2. Frame(t)
    BY <1>3, <2>a DEF Frame, Notify
  <2>3. Own(t)
    BY <1>3, <1>b, <1>c, <1>d, <2>a DEF Own, Notify
  <2> QED BY <1>a, <2>1, <2>2, <2>3
<1>4. ASSUME NEW m \in Objects, NotifyAll(t, m)
      PROVE  CallsInv' /\ Frame(t)
  <2>a. notifying' \in [Monitors -> Int]
    BY <1>4, <1>0 DEF NotifyAll, TypeOK
  <2>1. TypeOK'
    BY <1>4, <1>0, <2>a DEF TypeOK, NotifyAll, Broadcast
  <2>b. \A n \in Monitors : sleepers'[n] \subseteq sleepers[n]
    BY <1>4, <1>0 DEF NotifyAll, Broadcast, TypeOK
  <2>2. Frame(t)
    BY <1>4, <2>b DEF Frame, NotifyAll
  <2>3. Own(t)
    BY <1>4, <1>b, <1>c, <1>d, <2>b DEF Own, NotifyAll
  <2> QED BY <1>a, <2>1, <2>2, <2>3
<1>5. ASSUME NEW m \in Objects, NEW timed \in {FALSE, (t \in Timed)},
             NEW throws \in Throwing, Wait(t, m, timed, throws)
      PROVE  CallsInv' /\ Frame(t)
  <2>a. owner[m] = t /\ pc[t] = "idle"
        /\ EnterWait(t, m, timed, throws) /\ UNCHANGED mutex
    BY <1>5, RepairFacts DEF Wait
  <2>b. throws \in BOOLEAN /\ lockCount[m] \in Nat
    BY <1>0, ConstantsAssumption DEF TypeOK
  <2>c. timed = FALSE
    <3>1. (t \in Timed) = FALSE
      BY DEF Untimed
    <3> QED BY <3>1, Zenon
  <2>d. notifying' \in [Monitors -> Int] /\ waiting' \in [Monitors -> Int]
    BY <1>0, <2>a DEF TypeOK, EnterWait, Repaired
  <2>e. /\ local' \in [Threads -> Locals]
        /\ local'[t].mon = m /\ ~local'[t].timed /\ ~local'[t].timedOut
    BY <1>0, <2>a, <2>b, <2>c DEF TypeOK, EnterWait, NoLocals, Locals
  <2>1. TypeOK'
    BY <1>5, <1>0, <2>a, <2>c, <2>d, <2>e DEF TypeOK, EnterWait, Labels
  <2>2. Frame(t)
    BY <1>5, <1>0, <2>a, <2>e DEF Frame, TypeOK, LockInv, CallInv, EnterWait
  <2>3. Own(t)
    BY <1>5, <1>0, <2>a, <2>e, ConstantsAssumption
    DEF Own, TypeOK, LockInv, CallInv, Holding, Chasing, EnterWait
  <2> QED BY <1>a, <2>1, <2>2, <2>3
<1>6. CASE WaitSet(t)
  <2>1. TypeOK'
    BY <1>6, <1>0 DEF TypeOK, WaitSet, Labels, CallInv, Holding
  <2>2. Frame(t)
    BY <1>6, <1>0 DEF Frame, TypeOK, LockInv, CallInv, WaitSet
  <2>3. Own(t)
    BY <1>6, <1>0, ConstantsAssumption
    DEF Own, TypeOK, LockInv, CallInv, Holding, Chasing, WaitSet
  <2> QED BY <1>a, <2>1, <2>2, <2>3
<1>7. CASE WaitTest(t)
  <2>a. Mon(t) \in Monitors
    BY <1>7, <1>0 DEF WaitTest, CallInv, Holding
  <2>b. /\ local' \in [Threads -> Locals] /\ local'[t].mon = local[t].mon
        /\ ~local'[t].timed /\ ~local'[t].timedOut
        /\ \A u \in Threads \ {t} : local'[u] = local[u]
    BY <1>7, <1>0, SetInterrupted DEF WaitTest, TypeOK, CallInv
  <2>1. TypeOK'
    BY <1>7, <1>0, <2>a, <2>b DEF TypeOK, WaitTest, Labels
  <2>2. Frame(t)
    BY <1>7, <1>0, <2>a, <2>b DEF Frame, TypeOK, LockInv, CallInv, Holding,
       WaitTest
  <2>3. Own(t)
    BY <1>7, <1>0, <2>a, <2>b, ConstantsAssumption
    DEF Own, TypeOK, LockInv, CallInv, Holding, Chasing, WaitTest
  <2> QED BY <1>a, <2>1, <2>2, <2>3
<1>8. CASE SpuriousWakeup(t)
  <2>1. TypeOK'
    BY <1>8, <1>0 DEF TypeOK, SpuriousWakeup
  <2>a. \A n \in Monitors : sleepers'[n] \subseteq sleepers[n]
    BY <1>8, <1>0 DEF SpuriousWakeup, TypeOK
  <2>2. Frame(t)
    BY <1>8, <2>a DEF Frame, SpuriousWakeup
  <2>b. CallInv(t)'
    BY <1>8, <1>0, <2>a DEF CallInv, SpuriousWakeup
  <2>3. Own(t)
    BY <1>8, <1>0, <2>a, <2>b DEF Own, LockInv, SpuriousWakeup
  <2> QED BY <1>a, <2>1, <2>2, <2>3
<1>9. CASE Wake(t)
  <2>a. /\ TakeWakeup(t) /\ Awake(t) /\ mutex[Mon(t)] = NoThread
        /\ Mon(t) \in Monitors /\ pc[t] = "w_sleep"
    BY <1>9, <1>0 DEF Wake, CallInv, Awake
  <2>b. /\ local' \in [Threads -> Locals] /\ local'[t].mon = local[t].mon
        /\ ~local'[t].timed /\ ~local'[t].timedOut
        /\ \A u \in Threads \ {t} : local'[u] = local[u]
    BY <2>a, <1>0, SetInterrupted DEF TakeWakeup, TypeOK, CallInv
  <2>c. interrupting' \in [Monitors -> Int] /\ notifying' \in [Monitors -> Int]
    BY <2>a, <1>0 DEF TakeWakeup, TakeInterrupt, TypeOK
  <2>1. TypeOK'
    BY <1>9, <1>0, <2>a, <2>b, <2>c DEF TypeOK, TakeWakeup, TakeInterrupt, Awake, Labels
  <2>2. Frame(t)
    BY <1>9, <1>0, <2>a, <2>b DEF Frame, TypeOK, LockInv, CallInv, TakeWakeup, TakeInterrupt, Awake
  <2>3. Own(t)
    BY <1>9, <1>0, <2>a, <2>b, ConstantsAssumption
    DEF Own, TypeOK, LockInv, CallInv, Holding, Chasing, TakeWakeup, TakeInterrupt, Awake
  <2> QED BY <1>a, <2>1, <2>2, <2>3
<1>10. CASE WaitDone(t)
  <2>a. Mon(t) \in Objects
    BY <1>10, <1>0 DEF WaitDone, CallInv, Holding
  <2>b. LeaveWait(t) => Return(t)
    BY <2>a DEF LeaveWait
  <2>c. /\ local' \in [Threads -> Locals] /\ pc' \in [Threads -> Labels]
        /\ pc'[t] \in {"w_clear", "idle"} /\ local'[t].mon \in Monitors \union {NoMonitor}
        /\ ~local'[t].timed /\ ~local'[t].timedOut
        /\ \A u \in Threads \ {t} : pc'[u] = pc[u] /\ local'[u] = local[u]
        /\ pc'[t] = "w_clear" => local'[t].mon = local[t].mon
    <3>1. CASE Return(t)
      BY <1>0, <3>1, ReturnFacts DEF Locals
    <3>2. CASE Goto(t, "w_clear") /\ UNCHANGED local
      BY <1>0, <1>c, <2>a, <3>2 DEF TypeOK, Labels
    <3> QED BY <1>10, <2>b, <3>1, <3>2 DEF WaitDone
  <2>d. local[t].depth \in Nat /\ waiting[Mon(t)] - 1 \in Int
    BY <1>0, <2>a DEF TypeOK, Locals
  <2>1. TypeOK'
    BY <1>10, <1>0, <2>a, <2>c, <2>d DEF TypeOK, WaitDone
  <2>2. Frame(t)
    BY <1>10, <1>0, <2>a, <2>c DEF Frame, TypeOK, LockInv, CallInv, Holding,
       WaitDone
  <2>e. waitMonitor'[t] = NoMonitor /\ ~interruptingWait'[t]
    BY <1>10, <1>0 DEF WaitDone, CallInv, TypeOK
  <2>f. CallInv(t)'
    BY <2>a, <2>c, <2>e DEF CallInv, Holding, Chasing
  <2>g. mutex'[Mon(t)] = t /\ owner' = [owner EXCEPT ![Mon(t)] = t] /\ UNCHANGED <<mutex, sleepers>>
    BY <1>10, <1>0 DEF WaitDone, CallInv, Holding
  <2>3. Own(t)
    BY <1>0, <1>10, <1>d, <2>f, <2>g DEF Own, WaitDone, TypeOK
  <2> QED BY <1>a, <2>1, <2>2, <2>3
<1>11. CASE WaitClear(t)
  <2>a. Mon(t) \in Objects
    BY <1>11, <1>0 DEF WaitClear, CallInv, Holding
  <2>b. LeaveWait(t) => Return(t)
    BY <2>a DEF LeaveWait
  <2>c. /\ local' \in [Threads -> Locals] /\ pc' \in [Threads -> Labels]
        /\ pc'[t] = "idle" /\ local'[t].mon \in Monitors \union {NoMonitor}
        /\ ~local'[t].timed /\ ~local'[t].timedOut
        /\ \A u \in Threads \ {t} : pc'[u] = pc[u] /\ local'[u] = local[u]
    BY <1>11, <1>0, <2>a, <2>b, ReturnFacts DEF WaitClear, TypeOK, CallInv, Labels, Locals
  <2>1. TypeOK'
    BY <1>11, <1>0, <2>a, <2>c DEF TypeOK, WaitClear
  <2>2. Frame(t)
    BY <1>11, <1>0, <2>c DEF Frame, TypeOK, WaitClear
  <2>3. Own(t)
    BY <1>11, <1>b, <1>c, <1>d, <2>c DEF Own, WaitClear
  <2> QED BY <1>a, <2>1, <2>2, <2>3
<1>12. ASSUME NEW u \in Threads, Interrupt(t, u)
      PROVE  CallsInv' /\ Frame(t)
  <2>1. TypeOK'
    BY <1>12, <1>0, SetTarget DEF TypeOK, Interrupt, Labels
  <2>2. Frame(t)
    BY <1>12, <1>0, SetTarget DEF Frame, TypeOK, LockInv, CallInv, Interrupt
  <2>3. Own(t)
    BY <1>12, <1>0, SetTarget, ConstantsAssumption
    DEF Own, TypeOK, LockInv, CallInv, Holding, Chasing, Interrupt
  <2> QED BY <1>a, <2>1, <2>2, <2>3
<1>13. CASE InterruptRead(t)
  <2>1. CASE Return(t)
    <3>1. TypeOK'
      BY <1>13, <1>0, <2>1, ReturnFacts DEF InterruptRead, TypeOK
    <3>2. Frame(t)
      BY <1>13, <1>0, <2>1, ReturnFacts DEF InterruptRead, Frame
    <3>3. Own(t)
      BY <1>13, <1>0, <1>b, <1>c, <1>d, <2>1, ReturnFacts DEF InterruptRead, Own, Chasing
    <3> QED BY <1>a, <3>1, <3>2, <3>3
  <2>2. CASE ~Return(t)
    <3>a. /\ waitMonitor[Target(t)] \in Monitors /\ Goto(t, "i_try")
          /\ local' = [local EXCEPT ![t].mon = waitMonitor[Target(t)]]
      BY <1>13, <1>0, <2>2 DEF InterruptRead, TypeOK, CallInv, Chasing
    <3>b. /\ local' \in [Threads -> Locals] /\ local'[t].mon \in Monitors
          /\ local'[t].target = local[t].target
          /\ ~local'[t].timed /\ ~local'[t].timedOut
          /\ \A u \in Threads \ {t} : local'[u] = local[u]
      BY <1>0, <3>a, SetMon DEF CallInv
    <3>1. TypeOK'
      BY <1>13, <1>0, <3>a, <3>b DEF InterruptRead, TypeOK, Labels
    <3>2. Frame(t)
      BY <1>13, <1>0, <3>a, <3>b DEF InterruptRead, Frame, TypeOK
    <3>3. Own(t)
      BY <1>13, <1>0, <3>a, <3>b
      DEF InterruptRead, Own, CallInv, LockInv, TypeOK, Holding, Chasing
    <3> QED BY <1>a, <3>1, <3>2, <3>3
  <2> QED BY <2>1, <2>2
<1>14. CASE InterruptTry(t)
  <2>1. CASE Return(t) /\ UNCHANGED locks
    <3>1. TypeOK'
      BY <1>14, <1>0, <2>1, ReturnFacts DEF InterruptTry, TypeOK
    <3>2. Frame(t)
      BY <1>14, <1>0, <2>1, ReturnFacts DEF InterruptTry, Frame
    <3>3. Own(t)
      BY <1>14, <1>0, <1>b, <1>c, <1>d, <2>1, ReturnFacts DEF InterruptTry, Own, Chasing
    <3> QED BY <1>a, <3>1, <3>2, <3>3
  <2>2. CASE Acquire(t, Mon(t)) /\ Goto(t, "i_mark") /\ UNCHANGED local
    <3>a. Mon(t) \in Monitors /\ pc[t] = "i_try"
      BY <1>14, <1>0 DEF InterruptTry, CallInv
    <3>1. TypeOK'
      BY <1>14, <1>0, <2>2, <3>a, LockTypes DEF InterruptTry, TypeOK, Labels
    <3>b. pc'[t] = "i_mark" /\ \A u \in Threads \ {t} : pc'[u] = pc[u]
      BY <1>0, <2>2 DEF TypeOK
    <3>c. \A m \in Monitors : /\ owner'[m] # NoThread => mutex'[m] = owner'[m]
                              /\ \/ mutex[m] \in {t, NoThread}
                                 \/ mutex'[m] = mutex[m] /\ owner'[m] = owner[m]
      BY <1>0, <2>2, <3>a, LockKept
    <3>2. Frame(t)
      BY <1>14, <2>2, <3>b, <3>c DEF InterruptTry, Frame
    <3>d. owner'[Mon(t)] = t
      BY <1>0, <2>2, <3>a DEF Acquire, TypeOK
    <3>e. CallInv(t)'
      BY <1>14, <1>0, <2>2, <3>a, <3>b, <3>d DEF InterruptTry, CallInv, Holding, Chasing
    <3>3. Own(t)
      BY <1>14, <1>d, <3>a, <3>c, <3>e DEF InterruptTry, Own
    <3> QED BY <1>a, <3>1, <3>2, <3>3
  <2> QED BY <1>14, <2>1, <2>2 DEF InterruptTry
<1>15. CASE InterruptMark(t)
  <2>a. /\ Mon(t) \in Monitors /\ Target(t) \in Threads /\ pc[t] = "i_mark"
        /\ owner[Mon(t)] = t /\ mutex[Mon(t)] = t
        /\ Release(t, Mon(t)) /\ Return(t)
        /\ UNCHANGED <<waiting, notifying, interrupted, waitMonitor, status>>
    BY <1>15, <1>0 DEF InterruptMark, CallInv, LockInv, Chasing
  <2>b. /\ \A m \in Monitors : sleepers'[m] \subseteq sleepers[m]
        /\ \A u \in Threads : interruptingWait'[u] /\ ~interruptingWait[u] =>
             /\ u = Target(t) /\ StillWaits(u, Mon(t)) /\ sleepers'[Mon(t)] = {}
        /\ sleepers' \in [Monitors -> SUBSET Threads]
        /\ interruptingWait' \in [Threads -> BOOLEAN]
        /\ interrupting' \in [Monitors -> Int]
    <3>1. CASE StillWaits(Target(t), Mon(t))
      <4>1. /\ interruptingWait' = [interruptingWait EXCEPT ![Target(t)] = TRUE]
            /\ interrupting' = [interrupting EXCEPT ![Mon(t)] = @ + 1]
            /\ sleepers' = [sleepers EXCEPT ![Mon(t)] = {}]
        BY <1>15, <3>1 DEF InterruptMark, Broadcast
      <4> QED BY <1>0, <2>a, <3>1, <4>1 DEF TypeOK
    <3>2. CASE ~StillWaits(Target(t), Mon(t))
      BY <1>0, <1>15, <3>2 DEF InterruptMark, TypeOK
    <3> QED BY <3>1, <3>2
  <2>c. \A u \in Threads : StillWaits(u, Mon(t)) =>
          u # t /\ pc[u] = "w_sleep" /\ Mon(u) = Mon(t) /\ interrupted[u]
    <3> SUFFICES ASSUME NEW u \in Threads, StillWaits(u, Mon(t))
                 PROVE  u # t /\ pc[u] = "w_sleep" /\ Mon(u) = Mon(t) /\ interrupted[u]
      OBVIOUS
    <3>1. CallInv(u)
      BY DEF CallsInv
    <3> QED BY <2>a, <3>1, <1>0, ConstantsAssumption DEF StillWaits, CallInv, Holding
  <2>1. TypeOK'
    BY <1>0, <2>a, <2>b, LockTypes, ReturnFacts DEF TypeOK
  <2>d. \A m \in Monitors : /\ owner'[m] # NoThread => mutex'[m] = owner'[m]
                            /\ \/ mutex[m] \in {t, NoThread}
                               \/ mutex'[m] = mutex[m] /\ owner'[m] = owner[m]
    BY <1>0, <2>a, LockKept
  <2>e. /\ pc'[t] = "idle" /\ ~local'[t].timed /\ ~local'[t].timedOut
        /\ \A u \in Threads \ {t} : pc'[u] = pc[u] /\ local'[u] = local[u]
    BY <1>0, <2>a, ReturnFacts
  <2>2. Frame(t)
    BY <2>a, <2>b, <2>c, <2>d, <2>e DEF Frame
  <2>f. CallInv(t)'
    BY <1>b, <1>c, <2>a, <2>b, <2>c, <2>e DEF Chasing
  <2>3. Own(t)
    BY <1>d, <2>a, <2>b, <2>d, <2>f DEF Own
  <2> QED BY <1>a, <2>1, <2>2, <2>3
<1>16. CASE Interrupted(t)
  <2>a. /\ local' \in [Threads -> Locals] /\ ~local'[t].timed /\ ~local'[t].timedOut
        /\ \A u \in Threads \ {t} : local'[u] = local[u]
    BY <1>16, <1>0, SetInterrupted DEF Interrupted, TypeOK, CallInv
  <2>1. TypeOK'
    BY <1>16, <1>0, <2>a DEF TypeOK, Interrupted, Labels
  <2>2. Frame(t)
    BY <1>16, <1>0, <2>a DEF Frame, TypeOK, Interrupted
  <2>3. Own(t)
    BY <1>16, <1>0, <2>a, ConstantsAssumption
    DEF Own, TypeOK, LockInv, CallInv, Holding, Chasing, Interrupted
  <2> QED BY <1>a, <2>1, <2>2, <2>3
<1>17. CASE InterruptedClear(t)
  <2>1. TypeOK'
    BY <1>17, <1>0, ReturnFacts DEF TypeOK, InterruptedClear
  <2>2. Frame(t)
    BY <1>17, <1>0, ReturnFacts DEF Frame, TypeOK, InterruptedClear
  <2>3. Own(t)
    BY <1>17, <1>0, <1>b, <1>c, <1>d, ReturnFacts DEF Own, InterruptedClear
  <2> QED BY <1>a, <2>1, <2>2, <2>3
<1>18. ~(Timeout(t) \/ WakeTimedOut(t) \/ Sleep(t) \/ SleepUnlock(t))
  BY <1>0 DEF Untimed, CallInv, Timeout, WakeTimedOut, Sleep, SleepUnlock
<1> QED
  BY <1>1, <1>2, <1>3, <1>4, <1>5, <1>6, <1>7, <1>8, <1>9, <1>10, <1>11, <1>12, <1>13, <1>14, <1>15, <1>16, <1>17, <1>18 DEF Step

-----------------------------------------------------------------------------
(* The invariants and what follows from them                               *)

\* Nobody waits and nobody is interrupted when the program starts.
LEMMA InitInv == ASSUME CardLaws, Init PROVE Inv /\ ChaseInv
<1>1. NoLocals \in Locals
  BY DEF NoLocals, Locals
<1>2. TypeOK
  BY <1>1 DEF Init, TypeOK, Labels
<1>3. LockInv /\ ChaseInv
  BY DEF Init, LockInv, ChaseInv
<1>4. \A t \in Threads : CallInv(t)
  BY DEF Init, CallInv, NoLocals, Holding, Chasing
<1>5. ASSUME NEW m \in Monitors
      PROVE  /\ Waiters(m) = {} /\ {t \in Waiters(m) : interruptingWait[t]} = {}
             /\ ~Entering(m) /\ sleepers[m] = {}
             /\ waiting[m] = 0 /\ interrupting[m] = 0 /\ notifying[m] = 0
  BY DEF Init, Waiters, Entering
<1>6. CountersMatch
  BY <1>5 DEF CardLaws, CountersMatch
<1>7. \A m \in Monitors : NotifyInv(m)
  BY <1>5 DEF NotifyInv
<1> QED BY <1>2, <1>3, <1>4, <1>6, <1>7 DEF Inv, CallsInv

\* A step that changes nothing keeps it all.
LEMMA StutterInv == ASSUME CardLaws, Inv, UNCHANGED vars PROVE Inv'
<1>1. TypeOK' /\ LockInv'
  BY DEF Inv, CallsInv, vars, TypeOK, LockInv, Mon
<1>2. \A t \in Threads : CallInv(t)'
  BY DEF Inv, CallsInv, vars, CallInv, Mon, Target
<1>3. \A m \in Monitors : Waiters(m)' = Waiters(m)
  BY DEF vars, Waiters, Mon
<1>4. CountersMatch'
  BY <1>3, CountSame DEF Inv, vars
<1>5. ASSUME NEW m \in Monitors
      PROVE  NotifyInv(m)'
  <2>1. Ready(m)' = Ready(m) /\ Entering(m)' = Entering(m)
    BY <1>3 DEF vars, Ready, Entering, Awake, At, Mon
  <2> QED BY <2>1, NotifySame DEF Inv, vars
<1> QED BY <1>1, <1>2, <1>4, <1>5 DEF Inv, CallsInv

\* Every step keeps the invariant.
LEMMA NextInv == ASSUME CardLaws, Untimed, Inv, [Next]_vars PROVE Inv'
<1>1. ASSUME NEW t \in Threads, Step(t)
      PROVE  Inv'
  <2>1. CallsInv' /\ Frame(t)
    BY <1>1, CallsStep DEF Inv
  <2>2. CountersMatch'
    BY <1>1, <2>1, CountStep DEF Inv
  <2> QED BY <1>1, <2>1, <2>2, NotifyStep DEF Inv
<1> QED BY <1>1, StutterInv DEF Next

\* Nor does one lose track of an interrupt.
LEMMA NextChase ==
  ASSUME CardLaws, Untimed, ~GivesUp, Inv, ChaseInv, [Next]_vars PROVE ChaseInv'
<1>1. ASSUME NEW t \in Threads, Step(t)
      PROVE  ChaseInv'
  <2>1. Frame(t)
    BY <1>1, CallsStep DEF Inv
  <2> QED BY <1>1, <2>1, ChaseStep DEF Inv
<1>2. UNCHANGED vars => ChaseInv'
  BY DEF vars, ChaseInv, Pursues, Mon, Target
<1> QED BY <1>1, <1>2 DEF Next

\* A positive number of notifications is matched by a positive number of
\* waiters ready to take one.
LEMMA InvWakeup == ASSUME CardLaws, Inv PROVE NoLostWakeup
<1> SUFFICES ASSUME NEW m \in Monitors, notifying[m] > 0, sleepers[m] # {}
             PROVE  \E t \in Waiters(m) : t \in Ready(m)
  BY DEF NoLostWakeup, Ready
<1>1. Ready(m) \in SUBSET Waiters(m) /\ Ready(m) \in SUBSET Threads
  BY DEF Ready, Waiters
<1>2. notifying[m] <= Cardinality(Ready(m)) /\ notifying[m] \in Nat
  BY DEF Inv, NotifyInv
<1>3. Ready(m) # {}
  BY <1>2 DEF CardLaws
<1> QED BY <1>1, <1>3

\* When all waiters sleep, none is ready and none has been told.
LEMMA InvNotify == ASSUME CardLaws, Inv PROVE NotifyFindsSleeper
<1> SUFFICES ASSUME NEW m \in Monitors, sleepers[m] # {},
                    \A t \in Waiters(m) : ~Awake(t)
             PROVE  notifying[m] + interrupting[m] < waiting[m]
  BY DEF NotifyFindsSleeper
<1>1. PICK t \in Threads : t \in sleepers[m]
  BY DEF Inv, CallsInv, TypeOK
<1>2. t \in Waiters(m) /\ Waiters(m) \in SUBSET Threads
  BY <1>1 DEF Inv, CallsInv, LockInv, Waiters
<1>3. Ready(m) = {} /\ Told(m) = {}
  BY DEF Ready, Told, Inv, CallsInv, CallInv, Awake, At, Waiters
<1>4. notifying[m] = 0
  <2>1. notifying[m] <= Cardinality(Ready(m)) /\ notifying[m] \in Nat
    BY <1>1 DEF Inv, NotifyInv
  <2>2. Cardinality(Ready(m)) = 0
    BY <1>3, Zenon DEF CardLaws
  <2> QED BY <2>1, <2>2
<1>5. interrupting[m] = 0 /\ waiting[m] = Cardinality(Waiters(m))
  BY <1>3, RepairFacts DEF CardLaws, Inv
<1>6. /\ Cardinality(Waiters(m) \ {t}) = Cardinality(Waiters(m)) - 1
      /\ Cardinality(Waiters(m) \ {t}) \in Nat /\ Cardinality(Waiters(m)) \in Nat
  BY <1>2 DEF CardLaws
<1> QED BY <1>4, <1>5, <1>6

\* A thread that has been told does not sleep.
LEMMA InvChase == ASSUME Inv, ChaseInv PROVE InterruptReachesSleeper
<1> SUFFICES ASSUME NEW m \in Monitors, NEW u \in Threads,
                    u \in sleepers[m], interrupted[u], local[u].throws
             PROVE  \E t \in Threads :
                      Target(t) = u /\ pc[t] \in {"i_read", "i_try", "i_mark"}
  BY DEF InterruptReachesSleeper
<1>1. pc[u] = "w_sleep" /\ ~interruptingWait[u]
  BY DEF Inv, CallsInv, CallInv, LockInv
<1> QED BY <1>1 DEF ChaseInv, Pursues

-----------------------------------------------------------------------------
(* The theorems                                                            *)

FS == INSTANCE FiniteSetTheorems

\* There are finitely many threads.
LEMMA Counting == CardLaws
<1>c. \A S : FS!Cardinality(S) = Cardinality(S)
  BY DEF FS!Cardinality, Cardinality
<1>f. \A S \in SUBSET Threads : FS!IsFiniteSet(S)
  <2>1. FS!IsFiniteSet(Threads)
    BY ConstantsAssumption DEF FS!IsFiniteSet, IsFiniteSet
  <2> QED BY <2>1, FS!FS_Subset
<1>1. ASSUME NEW S \in SUBSET Threads, NEW T \in SUBSET S
      PROVE  FS!Cardinality(S \ T) = FS!Cardinality(S) - FS!Cardinality(T)
  <2>1. S \intersect T = T
    OBVIOUS
  <2>2. FS!Cardinality(S \intersect T) = FS!Cardinality(T)
    BY <2>1, Zenon
  <2>3. FS!Cardinality(S \ T) = FS!Cardinality(S) - FS!Cardinality(S \intersect T)
    BY <1>f, FS!FS_Difference
  <2> QED BY <2>2, <2>3
<1>2. FS!Cardinality({}) = 0
  BY FS!FS_EmptySet
<1>3. ASSUME NEW S \in SUBSET Threads
      PROVE  /\ FS!Cardinality(S) \in Nat
             /\ \A x \in Threads :
                  /\ x \notin S => FS!Cardinality(S \union {x}) = FS!Cardinality(S) + 1
                  /\ x \in S => FS!Cardinality(S \ {x}) = FS!Cardinality(S) - 1
             /\ \A T \in SUBSET S : FS!Cardinality(T) <= FS!Cardinality(S)
  BY <1>f, FS!FS_CardinalityType, FS!FS_AddElement, FS!FS_RemoveElement, FS!FS_Subset
<1> QED BY <1>c, <1>1, <1>2, <1>3 DEF CardLaws

\* The invariant holds throughout, when no wait is timed.
THEOREM Invariance == ASSUME Untimed PROVE Spec => []Inv
<1>1. Init => Inv
  BY InitInv, Counting
<1>2. Inv /\ [Next]_vars => Inv'
  BY NextInv, Counting
<1> QED BY <1>1, <1>2, PTL DEF Spec

\* waitMonitor (Sync.c) keeps exact books: waiting counts the threads inside
\* an untimed wait and interrupting those of them that have an interrupt to
\* take, whatever notify, notifyAll and Thread.interrupt do in between, and
\* neither of its assertions fails.
THEOREM BooksAreExact == ASSUME Untimed PROVE Spec => []MonitorAssertions
<1>1. Inv => MonitorAssertions
  BY DEF Inv, CallsInv, CallInv, MonitorAssertions, RepairAssertion, WakeAssertion, At
<1> QED BY <1>1, Invariance, PTL

\* While an untimed waiter sleeps on the condition, a notification that
\* notifyMonitor or notifyAllMonitor left pending has an awake waiter to take
\* it: none is lost.
THEOREM NotificationsArrive == ASSUME Untimed PROVE Spec => []NoLostWakeup
<1>1. Inv => NoLostWakeup
  BY InvWakeup, Counting
<1> QED BY <1>1, Invariance, PTL

\* notifyMonitor's test of its counters never hides a sleeper: while one
\* sleeps and no other waiter is awake, "notifying + interrupting < waiting".
THEOREM SleepersAreFound == ASSUME Untimed PROVE Spec => []NotifyFindsSleeper
<1>1. Inv => NotifyFindsSleeper
  BY InvNotify, Counting
<1> QED BY <1>1, Invariance, PTL

\* dvmThreadInterrupt (Sync.c) does not miss a sleeper: a thread whose flag it
\* raised and that sleeps in an interruptible wait still has an interrupter
\* after it, if none gives up on the mutex of a busy monitor.
THEOREM InterruptsArrive ==
  ASSUME Untimed, ~GivesUp PROVE Spec => []InterruptReachesSleeper
<1>1. Init => ChaseInv
  BY InitInv, Counting
<1>2. Inv /\ ChaseInv /\ [Next]_vars => ChaseInv'
  BY NextChase, Counting
<1>3. Inv /\ ChaseInv => InterruptReachesSleeper
  BY InvChase
<1> QED BY <1>1, <1>2, <1>3, Invariance, PTL DEF Spec

=============================================================================
