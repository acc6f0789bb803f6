----------------------- MODULE ThreadLifecycleProofs ------------------------
(***************************************************************************)
(* For any number of threads: the start handshake of dvmCreateInterpThread *)
(* and interpThreadStart loses no wakeup and never trips its assertion,    *)
(* every thread that runs is in the thread list, nonDaemonThreadCount is   *)
(* exact, and DestroyJavaVM waits for every non-daemon thread.             *)
(***************************************************************************)
EXTENDS ThreadLifecycle, TLAPS

\* assignThreadId has aborted the VM.
Dead == \A t \in Threads : pc[t] = "abort"

Parenting == {"create", "awaitChild", "linked"}
Attaching == {"attach", "prepare", "link", "attached", "construct", "unlink",
              "restore"}
Leaving == {"awaitExit", "shutdown"}
Unlisted == {"none", "find", "store", "starting", "attach", "prepare", "link",
             "clear", "skipWait"}
Listed == {"run", "native", "attached", "construct", "unlink", "detach", "destroy"}
            \cup Parenting \cup Leaving

\* The local variables of a call are a record of four fields.
IsLocal(r) ==
  /\ r = [child |-> r.child, word |-> r.word, bits |-> r.bits, ok |-> r.ok]
  /\ r.ok \in BOOLEAN
LocalType ==
  /\ local = [t \in Threads |-> local[t]]
  /\ \A t \in Threads : IsLocal(local[t])

\* The types of what the argument is about; the bitmap plays no part in it.
StateType ==
  /\ threadList \subseteq Threads
  /\ nonDaemonThreadCount \in Int
  /\ startCond \subseteq Threads
  /\ status \in [Threads -> Statuses]
  /\ pc \in [Threads -> Labels]
  /\ LocalType

\* Where a thread is tells whether it is in the list, and its status.
PlaceOK(t) ==
  /\ pc[t] \in Unlisted => t \notin threadList
  /\ pc[t] \in Listed => t \in threadList
  /\ pc[t] = "restore" => (t \in threadList <=> local[t].ok)
  /\ pc[t] # "restore" => local[t].ok
  /\ pc[t] \in {"find", "store", "starting"} => status[t] = "initializing"
  /\ pc[t] = "awaitParent" => \/ status[t] = "starting"
                              \/ status[t] = "vmwait" /\ t \in threadList
  /\ pc[t] = "detach" => status[t] = "vmwait"
  /\ pc[t] \in Leaving => t = Main
  /\ status[t] = "running" => t \in threadList
  /\ pc[t] \notin {"assert", "abort"}
PlaceInv == \A t \in Threads : PlaceOK(t)

\* On its way to announce itself, or waiting for its parent to let it go.
Announcing(c) ==
  \/ pc[c] \in {"find", "store", "starting"}
  \/ pc[c] = "awaitParent" /\ status[c] = "starting"

\* How far a parent and its child are in the handshake.
Together(p, c) ==
  /\ pc[p] = "create" => pc[c] = "none" /\ status[c] = "initializing"
  /\ pc[p] = "awaitChild" => Announcing(c) /\ c \notin threadList
  /\ pc[p] = "linked" =>
       pc[c] = "awaitParent" /\ status[c] = "starting" /\ c \in threadList

\* A child has one parent, which is there until the child may run.
FamilyInv ==
  /\ \A p \in Threads : pc[p] \in Parenting =>
       /\ local[p].child \in Children \cap vmThread
       /\ Together(p, local[p].child)
  /\ \A p, q \in Threads :
       /\ pc[p] \in Parenting /\ pc[q] \in Parenting
       /\ local[p].child = local[q].child
       => p = q
  /\ \A c \in Threads : Announcing(c) =>
       \E p \in Threads : local[p].child = c /\ pc[p] \in {"awaitChild", "linked"}

\* Who sleeps on threadStartCond: a parent whose child has not announced itself
\* yet, or a child that has not been let go.
SleepInv ==
  \A s \in startCond :
    \/ /\ pc[s] = "awaitChild"
       /\ pc[local[s].child] \in {"find", "store", "starting"}
    \/ pc[s] = "awaitParent" /\ status[s] = "starting"

\* Threads at these places.
Where(places) == {t \in Threads : pc[t] \in places}

\* CountIsExact, outside the VM's abort.
CountInv ==
  nonDaemonThreadCount =
    Cardinality(threadList \ Daemons) + Cardinality(Where(Attaching))
      - Cardinality(Where(Leaving))

\* What t contributes to the count.
Share(t) ==
  (IF t \in threadList THEN Counted(t) ELSE 0)
    + (IF pc[t] \in Attaching THEN 1 ELSE 0) - (IF pc[t] \in Leaving THEN 1 ELSE 0)

Inv ==
  /\ StateType /\ RunningIsListed /\ ParentFindsChild
  /\ ~Dead => PlaceInv /\ FamilyInv /\ CountInv /\ SleepInv
-----------------------------------------------------------------------------
\* The main thread, the children and the natives are different threads.
LEMMA ThreadFacts ==
  /\ Main \in Threads /\ Main \notin Daemons
  /\ \A t \in Threads : t = Main \/ t \in Children \/ t \in Natives
  /\ \A c \in Children : c \in Threads /\ c # Main /\ c \notin Natives
  /\ \A n \in Natives : n \in Threads /\ n # Main
BY ConstantsAssumption DEF Threads

\* dvmAllocBit aborts, or notes a word and goes on.
LEMMA AllocFacts ==
  ASSUME StateType, NEW t \in Threads, NEW next, AllocLoad(t, next), ~Dead'
  PROVE  /\ Goto(t, next)
         /\ \E w, b : local' = [local EXCEPT ![t].word = w, ![t].bits = b]
BY DEF AllocLoad, Dead

\* Nobody changes the local variables of another call.
Private(t) ==
  /\ LocalType'
  /\ \A u \in Threads \ {t} :
       local'[u].child = local[u].child /\ local'[u].ok = local[u].ok

\* A call notes something in its local variables.
LEMMA LocalNew ==
  ASSUME LocalType, NEW t \in Threads, NEW r, IsLocal(r),
         local' = [local EXCEPT ![t] = r]
  PROVE  Private(t) /\ local'[t] = r
BY DEF LocalType, IsLocal, Private

\* The word and bits a thread has loaded are its own affair.
LEMMA LocalWord ==
  ASSUME LocalType, NEW t \in Threads, NEW w, NEW b,
         local' = [local EXCEPT ![t].word = w, ![t].bits = b]
  PROVE  /\ Private(t)
         /\ local'[t].child = local[t].child /\ local'[t].ok = local[t].ok
<1>1. PICK r : r = local[t] /\ IsLocal(r)
  BY DEF LocalType
<1>a. r = [child |-> r.child, word |-> r.word, bits |-> r.bits, ok |-> r.ok]
  BY <1>1 DEF IsLocal
<1>2. PICK q : q = [r EXCEPT !.word = w, !.bits = b]
  BY Zenon
<1>3. q = [child |-> r.child, word |-> w, bits |-> b, ok |-> r.ok]
  BY ONLY <1>a, <1>2, Zenon
<1>4. IsLocal(q) /\ q.child = r.child /\ q.ok = r.ok
  BY <1>1, <1>3 DEF IsLocal
<1>5. local' = [local EXCEPT ![t] = q]
  BY <1>1, <1>2, Zenon DEF LocalType
<1> QED BY <1>1, <1>4, <1>5, LocalNew, Zenon

\* A parent notes its child.
LEMMA LocalChild ==
  ASSUME LocalType, NEW t \in Threads, NEW c,
         local' = [local EXCEPT ![t].child = c]
  PROVE  Private(t) /\ local'[t].child = c /\ local'[t].ok = local[t].ok
<1>1. PICK r : r = local[t] /\ IsLocal(r)
  BY DEF LocalType
<1>a. r = [child |-> r.child, word |-> r.word, bits |-> r.bits, ok |-> r.ok]
  BY <1>1 DEF IsLocal
<1>2. PICK q : q = [r EXCEPT !.child = c]
  BY Zenon
<1>3. q = [child |-> c, word |-> r.word, bits |-> r.bits, ok |-> r.ok]
  BY ONLY <1>a, <1>2, Zenon
<1>4. IsLocal(q) /\ q.child = c /\ q.ok = r.ok
  BY <1>1, <1>3 DEF IsLocal
<1>5. local' = [local EXCEPT ![t] = q]
  BY <1>1, <1>2 DEF LocalType
<1> QED BY <1>1, <1>4, <1>5, LocalNew, Zenon

\* An attach notes its failure.
LEMMA LocalOk ==
  ASSUME LocalType, NEW t \in Threads, local' = [local EXCEPT ![t].ok = FALSE]
  PROVE  Private(t) /\ local'[t].ok = FALSE
<1>1. PICK r : r = local[t] /\ IsLocal(r)
  BY DEF LocalType
<1>a. r = [child |-> r.child, word |-> r.word, bits |-> r.bits, ok |-> r.ok]
  BY <1>1 DEF IsLocal
<1>2. PICK q : q = [r EXCEPT !.ok = FALSE]
  BY Zenon
<1>3. q = [child |-> r.child, word |-> r.word, bits |-> r.bits, ok |-> FALSE]
  BY ONLY <1>a, <1>2, Zenon
<1>4. IsLocal(q) /\ q.ok = FALSE
  BY <1>3 DEF IsLocal
<1>5. local' = [local EXCEPT ![t] = q]
  BY <1>1, <1>2 DEF LocalType
<1> QED BY <1>4, <1>5, LocalNew, Zenon

\* A call returns.
LEMMA LocalReturn ==
  ASSUME LocalType, NEW t \in Threads, local' = [local EXCEPT ![t] = NoLocals]
  PROVE  Private(t) /\ local'[t].ok = TRUE
<1>1. IsLocal(NoLocals) /\ NoLocals.ok = TRUE
  BY DEF IsLocal, NoLocals
<1> QED BY <1>1, LocalNew, Zenon

\* A step that leaves them alone.
LEMMA LocalSame ==
  ASSUME LocalType, UNCHANGED local
  PROVE  \A t \in Threads : Private(t)
BY DEF LocalType, IsLocal, Private

-----------------------------------------------------------------------------
(* The steps of one thread by itself.                                      *)

\* A child that is still on its way is at one of these places.
ChildPlaces == {"none", "find", "store", "starting", "awaitParent"}

\* A step of t that changes nothing of other threads, leaves t where it may
\* be, and keeps the count right.
Solo(t) ==
  /\ StateType' /\ Private(t)
  /\ \A u \in Threads \ {t} : pc'[u] = pc[u] /\ status'[u] = status[u]
  /\ threadList' \ {t} = threadList \ {t}
  /\ PlaceOK(t)'
  /\ nonDaemonThreadCount' + Share(t) = nonDaemonThreadCount + Share(t)'

\* A step of a thread that is no parent, and no child on its way.
Apart(t) ==
  /\ pc[t] \notin Parenting /\ pc'[t] \notin Parenting
  /\ \/ pc[t] \notin ChildPlaces
     \/ pc[t] = "none" /\ t \notin Children
     \/ pc[t] = "awaitParent" /\ status[t] # "starting"
  /\ pc'[t] \notin ChildPlaces \ {"none"}
  /\ vmThread \ {t} \subseteq vmThread'

\* The steps of a thread that starts none and is not being started.
Alone(t) ==
  \/ AttachStep(t) \/ Leave(t) \/ AttachThread(t) \/ FailEarly(t)
  \/ CallIn(t) \/ CallOut(t) \/ DetachCurrentThread(t)
  \/ DestroyRefused(t) \/ DestroyJavaVM(t)

\* Attaching, leaving, calls in and out of the VM concern one thread.
LEMMA AloneStep ==
  ASSUME StateType, NEW t \in Threads, PlaceOK(t), Alone(t),
         AttachFind(t) => ~Dead'
  PROVE  Solo(t) /\ Apart(t) /\ pc[t] # "awaitParent" /\ UNCHANGED startCond
<1>0. /\ threadList \subseteq Threads /\ nonDaemonThreadCount \in Int
      /\ startCond \subseteq Threads /\ Counted(t) \in Int /\ LocalType
      /\ status \in [Threads -> Statuses] /\ pc \in [Threads -> Labels]
  BY DEF StateType, Counted
<1> USE DEF Goto, Return, SetStatus, At, conds
<1>1. CASE AttachFind(t)
  <2>a. /\ Goto(t, "prepare")
        /\ \E w, b : local' = [local EXCEPT ![t].word = w, ![t].bits = b]
    BY <1>1, AllocFacts, Zenon DEF AttachFind
  <2>b. PICK w, b : local' = [local EXCEPT ![t].word = w, ![t].bits = b]
    BY <2>a, Zenon
  <2>1. Private(t) /\ local'[t].ok = local[t].ok
    BY <1>0, <2>b, LocalWord, Zenon
  <2>2. StateType'
    BY <1>0, <1>1, <2>1, <2>a DEF AttachFind, StateType, Statuses, Labels, Private
  <2> QED
    BY <1>0, <1>1, <2>1, <2>2, <2>a DEF AttachFind, Solo, Apart, PlaceOK, Share,
       Unlisted, Listed, Parenting, Leaving, Attaching, ChildPlaces
<1>2. CASE AttachStore(t)
  <2>1. Private(t) /\ local'[t].ok = TRUE
    BY <1>0, <1>2, LocalReturn, Zenon DEF AttachStore
  <2>2. StateType'
    BY <1>0, <1>2, <2>1 DEF AttachStore, StateType, Statuses, Labels, Private
  <2> QED
    BY <1>0, <1>2, <2>1, <2>2 DEF AttachStore, Solo, Apart, PlaceOK, Share,
       Unlisted, Listed, Parenting, Leaving, Attaching, ChildPlaces
<1>3. CASE AttachLink(t)
  <2>1. Private(t)
    BY <1>0, <1>3, LocalSame DEF AttachLink
  <2>2. StateType'
    BY <1>0, <1>3, <2>1 DEF AttachLink, StateType, Statuses, Labels, Private
  <2> QED
    BY <1>0, <1>3, <2>1, <2>2 DEF AttachLink, Solo, Apart, PlaceOK, Share,
       Unlisted, Listed, Parenting, Leaving, Attaching, ChildPlaces
<1>4. CASE AttachRunning(t)
  <2>1. Private(t)
    BY <1>0, <1>4, LocalSame DEF AttachRunning
  <2>2. StateType'
    BY <1>0, <1>4, <2>1 DEF AttachRunning, StateType, Statuses, Labels, Private
  <2> QED
    BY <1>0, <1>4, <2>1, <2>2 DEF AttachRunning, Solo, Apart, PlaceOK, Share,
       Unlisted, Listed, Parenting, Leaving, Attaching, ChildPlaces
<1>5. CASE Construct(t)
  <2>1. Private(t)
    BY <1>0, <1>5, LocalSame DEF Construct
  <2>2. StateType'
    BY <1>0, <1>5, <2>1 DEF Construct, StateType, Statuses, Labels, Private
  <2> QED
    BY <1>0, <1>5, <2>1, <2>2 DEF Construct, Solo, Apart, PlaceOK, Share,
       Unlisted, Listed, Parenting, Leaving, Attaching, ChildPlaces
<1>6. CASE FailUnlink(t)
  <2>1. Private(t) /\ local'[t].ok = FALSE
    BY <1>0, <1>6, LocalOk, Zenon DEF FailUnlink
  <2>2. StateType'
    BY <1>0, <1>6, <2>1 DEF FailUnlink, StateType, Statuses, Labels, Private
  <2> QED
    BY <1>0, <1>6, <2>1, <2>2 DEF FailUnlink, Solo, Apart, PlaceOK, Share,
       Unlisted, Listed, Parenting, Leaving, Attaching, ChildPlaces
<1>7. CASE Restore(t)
  <2>1. Private(t) /\ local'[t].ok = TRUE
    BY <1>0, <1>7, LocalReturn, Zenon DEF Restore
  <2>2. StateType'
    BY <1>0, <1>7, <2>1 DEF Restore, StateType, Statuses, Labels, Private
  <2> QED
    BY <1>0, <1>7, <2>1, <2>2 DEF Restore, Solo, Apart, PlaceOK, Share,
       Unlisted, Listed, Parenting, Leaving, Attaching, ChildPlaces
<1>8. CASE DetachUnlink(t)
  <2>a. \E w, b : local' = [local EXCEPT ![t].word = w, ![t].bits = b]
    BY <1>8, Zenon DEF DetachUnlink
  <2>b. PICK w, b : local' = [local EXCEPT ![t].word = w, ![t].bits = b]
    BY <2>a, Zenon
  <2>1. Private(t) /\ local'[t].ok = local[t].ok
    BY <1>0, <2>b, LocalWord, Zenon
  <2>e. /\ pc[t] = "detach" /\ pc' = [pc EXCEPT ![t] = "clear"]
        /\ threadList' = threadList \ {t}
        /\ nonDaemonThreadCount' = nonDaemonThreadCount - Counted(t)
        /\ UNCHANGED <<startCond, status, vmThread>>
    BY <1>8, Zenon DEF DetachUnlink
  <2>2. StateType'
    BY <1>0, <2>1, <2>e DEF StateType, Statuses, Labels, Private
  <2> QED
    BY <1>0, <2>1, <2>2, <2>e DEF Solo, Apart, PlaceOK, Share,
       Unlisted, Listed, Parenting, Leaving, Attaching, ChildPlaces
<1>9. CASE ReleaseThreadId(t)
  <2>1. Private(t) /\ local'[t].ok = TRUE
    BY <1>0, <1>9, LocalReturn, Zenon DEF ReleaseThreadId
  <2>e. /\ pc[t] = "clear" /\ pc' = [pc EXCEPT ![t] = "none"]
        /\ status' = [status EXCEPT ![t] = "none"]
        /\ UNCHANGED <<threadList, nonDaemonThreadCount, startCond, vmThread>>
    BY <1>9, Zenon DEF ReleaseThreadId
  <2>2. StateType'
    BY <1>0, <2>1, <2>e DEF StateType, Statuses, Labels, Private
  <2> QED
    BY <1>0, <2>1, <2>2, <2>e DEF Solo, Apart, PlaceOK, Share,
       Unlisted, Listed, Parenting, Leaving, Attaching, ChildPlaces
<1>10. CASE AwaitExit(t)
  <2>1. Private(t)
    BY <1>0, <1>10, LocalSame DEF AwaitExit
  <2>2. StateType'
    BY <1>0, <1>10, <2>1 DEF AwaitExit, StateType, Statuses, Labels, Private
  <2> QED
    BY <1>0, <1>10, <2>1, <2>2 DEF AwaitExit, Solo, Apart, PlaceOK, Share,
       Unlisted, Listed, Parenting, Leaving, Attaching, ChildPlaces
<1>11. CASE AttachThread(t)
  <2>1. Private(t)
    BY <1>0, <1>11, LocalSame DEF AttachThread
  <2>2. StateType'
    BY <1>0, <1>11, <2>1 DEF AttachThread, StateType, Statuses, Labels, Private
  <2> QED
    BY <1>0, <1>11, <2>1, <2>2, ThreadFacts DEF AttachThread, Solo, Apart, PlaceOK, Share,
       Unlisted, Listed, Parenting, Leaving, Attaching, ChildPlaces
<1>12. CASE FailEarly(t)
  <2>1. Private(t) /\ local'[t].ok = FALSE
    BY <1>0, <1>12, LocalOk, Zenon DEF FailEarly
  <2>2. StateType'
    BY <1>0, <1>12, <2>1 DEF FailEarly, StateType, Statuses, Labels, Private
  <2> QED
    BY <1>0, <1>12, <2>1, <2>2 DEF FailEarly, Solo, Apart, PlaceOK, Share,
       Unlisted, Listed, Parenting, Leaving, Attaching, ChildPlaces
<1>13. CASE CallIn(t)
  <2>1. Private(t)
    BY <1>0, <1>13, LocalSame DEF CallIn
  <2>2. StateType'
    BY <1>0, <1>13, <2>1 DEF CallIn, StateType, Statuses, Labels, Private
  <2> QED
    BY <1>0, <1>13, <2>1, <2>2 DEF CallIn, Solo, Apart, PlaceOK, Share,
       Unlisted, Listed, Parenting, Leaving, Attaching, ChildPlaces
<1>14. CASE CallOut(t)
  <2>1. Private(t)
    BY <1>0, <1>14, LocalSame DEF CallOut
  <2>2. StateType'
    BY <1>0, <1>14, <2>1 DEF CallOut, StateType, Statuses, Labels, Private
  <2> QED
    BY <1>0, <1>14, <2>1, <2>2, ThreadFacts DEF CallOut, Solo, Apart, PlaceOK, Share,
       Unlisted, Listed, Parenting, Leaving, Attaching, ChildPlaces
<1>15. CASE DetachCurrentThread(t)
  <2>1. Private(t)
    BY <1>0, <1>15, LocalSame DEF DetachCurrentThread
  <2>2. StateType'
    BY <1>0, <1>15, <2>1 DEF DetachCurrentThread, StateType, Statuses, Labels, Private
  <2> QED
    BY <1>0, <1>15, <2>1, <2>2 DEF DetachCurrentThread, Solo, Apart, PlaceOK, Share,
       Unlisted, Listed, Parenting, Leaving, Attaching, ChildPlaces
<1>16. CASE DestroyJavaVM(t)
  <2>1. Private(t)
    BY <1>0, <1>16, LocalSame DEF DestroyJavaVM
  <2>2. StateType'
    BY <1>0, <1>16, <2>1 DEF DestroyJavaVM, StateType, Statuses, Labels, Private
  <2> QED
    BY <1>0, <1>16, <2>1, <2>2 DEF DestroyJavaVM, Solo, Apart, PlaceOK, Share,
       Unlisted, Listed, Parenting, Leaving, Attaching, ChildPlaces
<1>17. CASE DestroyRefused(t)
  <2>1. Private(t)
    BY <1>0, <1>17, LocalSame DEF DestroyRefused
  <2>2. StateType'
    BY <1>0, <1>17, <2>1 DEF DestroyRefused, StateType, Labels, Private
  <2> QED
    BY <1>0, <1>17, <2>1, <2>2, ThreadFacts DEF DestroyRefused, Solo, Apart, PlaceOK,
       Share, Unlisted, Listed, Parenting, Leaving, Attaching, ChildPlaces
<1> QED
  BY <1>1, <1>2, <1>3, <1>4, <1>5, <1>6, <1>7, <1>8, <1>9,
     <1>10, <1>11, <1>12, <1>13, <1>14, <1>15, <1>16, <1>17
  DEF Alone, AttachStep, Leave

-----------------------------------------------------------------------------
(* Counting.                                                               *)

\* Outside the VM's abort.
Live == StateType /\ PlaceInv /\ FamilyInv /\ CountInv /\ SleepInv

\* Adding a thread to a set of threads, and taking one out.
CardLaws ==
  /\ Cardinality({}) = 0
  /\ \A x \in Threads : Cardinality({x}) = 1
  /\ \A S \in SUBSET Threads : Cardinality(S) \in Nat
  /\ \A S \in SUBSET Threads, x \in Threads :
       /\ x \notin S => Cardinality(S \cup {x}) = Cardinality(S) + 1
       /\ x \in S => Cardinality(S \ {x}) = Cardinality(S) - 1

\* Two sets that differ at most in x.
LEMMA CardShift ==
  ASSUME CardLaws, NEW S \in SUBSET Threads, NEW R \in SUBSET Threads,
         NEW x \in Threads, R \ {x} = S \ {x}
  PROVE  /\ Cardinality(S) \in Nat /\ Cardinality(R) \in Nat
         /\ Cardinality(R) + (IF x \in S THEN 1 ELSE 0)
              = Cardinality(S) + (IF x \in R THEN 1 ELSE 0)
<1>1. Cardinality(S) \in Nat /\ Cardinality(R) \in Nat
  BY DEF CardLaws
<1>2. CASE x \in S <=> x \in R
  <2>1. S = R
    BY <1>2
  <2> QED BY <1>1, <1>2, <2>1
<1>3. CASE x \in S /\ x \notin R
  <2>1. R = S \ {x}
    BY <1>3
  <2>2. Cardinality(S \ {x}) = Cardinality(S) - 1
    BY <1>3 DEF CardLaws
  <2>3. Cardinality(R) = Cardinality(S) - 1
    BY <2>1, <2>2, Zenon
  <2> QED BY ONLY <1>1, <1>3, <2>3
<1>4. CASE x \notin S /\ x \in R
  <2>1. R = S \cup {x}
    BY <1>4
  <2>2. Cardinality(S \cup {x}) = Cardinality(S) + 1
    BY <1>4 DEF CardLaws
  <2>3. Cardinality(R) = Cardinality(S) + 1
    BY <2>1, <2>2, Zenon
  <2> QED BY ONLY <1>1, <1>4, <2>3
<1> QED BY <1>2, <1>3, <1>4

\* The count stays exact when it changes by what one thread contributes.
LEMMA CountShift ==
  ASSUME CardLaws, StateType, StateType', CountInv, NEW x \in Threads,
         threadList' \ {x} = threadList \ {x},
         \A u \in Threads \ {x} : /\ pc'[u] \in Attaching <=> pc[u] \in Attaching
                                  /\ pc'[u] \in Leaving <=> pc[u] \in Leaving,
         nonDaemonThreadCount' + Share(x) = nonDaemonThreadCount + Share(x)'
  PROVE  CountInv'
<1> DEFINE L == threadList \ Daemons
           A == Where(Attaching)
           E == Where(Leaving)
<1>1. /\ L \in SUBSET Threads /\ L' \in SUBSET Threads /\ L' \ {x} = L \ {x}
      /\ A \in SUBSET Threads /\ A' \in SUBSET Threads /\ A' \ {x} = A \ {x}
      /\ E \in SUBSET Threads /\ E' \in SUBSET Threads /\ E' \ {x} = E \ {x}
  BY DEF StateType, Where
<1>2. /\ (IF x \in threadList THEN Counted(x) ELSE 0) = IF x \in L THEN 1 ELSE 0
      /\ (IF x \in threadList' THEN Counted(x) ELSE 0) = IF x \in L' THEN 1 ELSE 0
      /\ x \in A <=> pc[x] \in Attaching
      /\ x \in A' <=> pc'[x] \in Attaching
      /\ x \in E <=> pc[x] \in Leaving
      /\ x \in E' <=> pc'[x] \in Leaving
  BY DEF Where, Counted
<1> HIDE DEF L, A, E
<1>3. /\ Cardinality(L) \in Nat /\ Cardinality(L') \in Nat
      /\ Cardinality(L') + (IF x \in L THEN 1 ELSE 0)
           = Cardinality(L) + (IF x \in L' THEN 1 ELSE 0)
  BY <1>1, CardShift
<1>4. /\ Cardinality(A) \in Nat /\ Cardinality(A') \in Nat
      /\ Cardinality(A') + (IF x \in A THEN 1 ELSE 0)
           = Cardinality(A) + (IF x \in A' THEN 1 ELSE 0)
  BY <1>1, CardShift
<1>5. /\ Cardinality(E) \in Nat /\ Cardinality(E') \in Nat
      /\ Cardinality(E') + (IF x \in E THEN 1 ELSE 0)
           = Cardinality(E) + (IF x \in E' THEN 1 ELSE 0)
  BY <1>1, CardShift
<1>6. /\ Share(x) = (IF x \in L THEN 1 ELSE 0) + (IF x \in A THEN 1 ELSE 0)
                      - (IF x \in E THEN 1 ELSE 0)
      /\ Share(x)' = (IF x \in L' THEN 1 ELSE 0) + (IF x \in A' THEN 1 ELSE 0)
                       - (IF x \in E' THEN 1 ELSE 0)
  BY <1>2 DEF Share
<1>7. nonDaemonThreadCount = Cardinality(L) + Cardinality(A) - Cardinality(E)
  BY DEF CountInv, L, A, E
<1>8. nonDaemonThreadCount \in Int /\ nonDaemonThreadCount' \in Int
  BY DEF StateType
<1>9. nonDaemonThreadCount' = Cardinality(L') + Cardinality(A') - Cardinality(E')
  BY <1>3, <1>4, <1>5, <1>6, <1>7, <1>8
<1> QED BY <1>9 DEF CountInv, L, A, E
-----------------------------------------------------------------------------
(* Steps that concern a parent and its child.                              *)

\* A step of a parent and its child, which does not concern other families.
LEMMA FamilyPair ==
  ASSUME FamilyInv, NEW t \in Threads, Private(t), NEW c \in Threads \ {t},
         pc[c] \notin Parenting, pc'[c] \notin Parenting, ~Announcing(t)',
         pc[t] \in Parenting => local[t].child = c,
         \A p \in Threads \ {t} :
           pc[p] \in Parenting => local[p].child \in Threads \ {t, c},
         \A u \in Threads \ {t, c} : pc'[u] = pc[u] /\ status'[u] = status[u],
         vmThread \ {c} \subseteq vmThread', threadList' \ {c} = threadList \ {c},
         pc'[t] \in Parenting =>
           /\ local'[t].child = c /\ c \in Children \cap vmThread'
           /\ Together(t, c)',
         Announcing(c)' => pc'[t] \in {"awaitChild", "linked"}
  PROVE  FamilyInv'
<1>1. \A p \in Threads : p # t /\ pc'[p] \in Parenting =>
        /\ p # c /\ pc'[p] = pc[p] /\ local'[p].child = local[p].child
        /\ local[p].child \in Threads \ {t, c}
  BY DEF Private
<1>2. \A u \in Threads \ {t, c} : Announcing(u)' <=> Announcing(u)
  BY DEF Announcing
<1>3. ASSUME NEW p \in Threads, pc'[p] \in Parenting
      PROVE  /\ local'[p].child \in Children \cap vmThread'
             /\ Together(p, local[p].child)'
  <2>1. CASE p = t
    BY <1>3, <2>1
  <2>2. CASE p # t
    <3>1. PICK d \in Threads \ {t, c} :
            /\ d = local[p].child /\ local'[p].child = d
            /\ d \in Children \cap vmThread /\ Together(p, d)
      BY <1>1, <1>3, <2>2 DEF FamilyInv
    <3>2. Together(p, d)'
      BY <1>1, <1>2, <1>3, <2>2, <3>1 DEF Together
    <3> QED BY <3>1, <3>2
  <2> QED BY <2>1, <2>2
<1>4. ASSUME NEW p \in Threads, NEW q \in Threads,
             pc'[p] \in Parenting, pc'[q] \in Parenting,
             local'[p].child = local'[q].child
      PROVE  p = q
  <2>1. p = t => q = t
    BY <1>1, <1>4
  <2>2. q = t => p = t
    BY <1>1, <1>4
  <2>3. CASE p # t /\ q # t
    BY <1>1, <1>4, <2>3 DEF FamilyInv
  <2> QED BY <2>1, <2>2, <2>3
<1>5. ASSUME NEW u \in Threads, Announcing(u)'
      PROVE  \E p \in Threads : local'[p].child = u
                                 /\ pc'[p] \in {"awaitChild", "linked"}
  <2>1. CASE u = c
    BY <1>5, <2>1 DEF Parenting
  <2>2. CASE u # c
    <3>1. PICK p \in Threads : local[p].child = u /\ pc[p] \in {"awaitChild", "linked"}
      BY <1>2, <1>5, <2>2 DEF FamilyInv
    <3>2. p \in Threads \ {t, c}
      BY <2>2, <3>1 DEF Parenting
    <3> QED BY <3>1, <3>2 DEF Private
  <2> QED BY <2>1, <2>2
<1> QED BY <1>3, <1>4, <1>5 DEF FamilyInv

\* c is, or is about to be, t's child, and nobody else's.
Kin(t, c) ==
  /\ c \in Children /\ c \in Threads \ {t, Main} /\ pc[c] \in ChildPlaces
  /\ pc[t] \in {"run"} \cup Parenting
  /\ pc[t] \in Parenting => local[t].child = c
  /\ \A p \in Threads \ {t} :
       pc[p] \in Parenting => local[p].child \in Threads \ {t, c}

\* A step of the two.
Duo(t, c) ==
  /\ StateType' /\ Private(t)
  /\ \A u \in Threads \ {t, c} : pc'[u] = pc[u] /\ status'[u] = status[u]
  /\ pc'[t] \in {"run"} \cup Parenting /\ pc'[c] \in ChildPlaces
  /\ vmThread \ {c} \subseteq vmThread' /\ threadList' \ {c} = threadList \ {c}
  /\ PlaceOK(t)' /\ PlaceOK(c)'
  /\ nonDaemonThreadCount' + Share(c) = nonDaemonThreadCount + Share(c)'
  /\ pc'[t] \in Parenting =>
       local'[t].child = c /\ c \in vmThread' /\ Together(t, c)'
  /\ Announcing(c)' => pc'[t] \in {"awaitChild", "linked"}

\* A parent and its child are kin.
LEMMA ParentIsKin ==
  ASSUME Live, NEW t \in Threads, pc[t] \in Parenting
  PROVE  /\ Kin(t, local[t].child) /\ Together(t, local[t].child)
         /\ local[t].child \in vmThread
<1>0. FamilyInv
  BY DEF Live
<1>1. \A p \in Threads : pc[p] \in Parenting =>
        /\ local[p].child \in Children \cap vmThread /\ local[p].child \in Threads
        /\ local[p].child # Main /\ Together(p, local[p].child)
        /\ pc[local[p].child] \in ChildPlaces
  BY <1>0, ThreadFacts DEF FamilyInv, Together, Announcing, Parenting, ChildPlaces
<1>2. \A p \in Threads : pc[p] \in Parenting => local[p].child # t
  BY <1>1 DEF Parenting, ChildPlaces
<1>3. \A p \in Threads \ {t} :
        pc[p] \in Parenting => local[p].child # local[t].child
  BY <1>0 DEF FamilyInv
<1> QED BY <1>1, <1>2, <1>3 DEF Kin

\* Such a step keeps places, families and count.
LEMMA DuoKeeps ==
  ASSUME CardLaws, Live, NEW t \in Threads, NEW c \in Threads, Kin(t, c), Duo(t, c)
  PROVE  StateType' /\ PlaceInv' /\ FamilyInv' /\ CountInv'
<1>0. StateType /\ StateType' /\ PlaceInv /\ FamilyInv /\ CountInv
  BY DEF Live, Duo
<1>1. PlaceInv'
  <2>1. ASSUME NEW u \in Threads \ {t, c} PROVE PlaceOK(u)'
    <3>1. /\ pc'[u] = pc[u] /\ status'[u] = status[u] /\ local'[u].ok = local[u].ok
          /\ u \in threadList' <=> u \in threadList
      BY <2>1 DEF Duo, Private
    <3> QED BY <1>0, <3>1 DEF PlaceInv, PlaceOK
  <2> QED BY <2>1 DEF PlaceInv, Duo
<1>2. CountInv'
  <2>1. \A u \in Threads \ {c} : /\ pc'[u] \in Attaching <=> pc[u] \in Attaching
                                 /\ pc'[u] \in Leaving <=> pc[u] \in Leaving
    BY DEF Duo, Kin, Attaching, Leaving, Parenting
  <2> QED BY <1>0, <2>1, CountShift DEF Duo
<1>3. FamilyInv'
  <2>1. /\ pc[c] \notin Parenting /\ pc'[c] \notin Parenting /\ ~Announcing(t)'
        /\ c \in Threads \ {t}
    BY DEF Kin, Duo, ChildPlaces, Parenting, Announcing
  <2> QED BY <1>0, <2>1, FamilyPair DEF Kin, Duo
<1> QED BY <1>0, <1>1, <1>2, <1>3

\* On its way to announce itself.
Arriving == {"find", "store", "starting"}

\* A parent sleeps on as before, or starts to.
LEMMA SleepDuo ==
  ASSUME Live, NEW t \in Threads, NEW c \in Threads, Kin(t, c), Duo(t, c),
         pc[c] \notin {"awaitChild", "awaitParent"} \/ UNCHANGED <<pc[c], status[c]>>,
         pc'[c] \in Arriving \/ pc[c] \notin Arriving, t \notin startCond,
         startCond' \subseteq startCond \cup {t},
         t \in startCond' => /\ pc'[t] = "awaitChild"
                             /\ pc'[local'[t].child] \in Arriving
  PROVE  SleepInv'
<1>0. StateType /\ startCond \subseteq Threads /\ FamilyInv /\ SleepInv
  BY DEF Live, StateType
<1> SUFFICES ASSUME NEW s \in startCond', s # t
             PROVE  \/ /\ pc'[s] = "awaitChild"
                       /\ pc'[local'[s].child] \in Arriving
                    \/ pc'[s] = "awaitParent" /\ status'[s] = "starting"
  BY DEF SleepInv, Arriving
<1>1. /\ s \in Threads /\ pc'[s] = pc[s] /\ status'[s] = status[s]
      /\ local'[s].child = local[s].child
      /\ \/ pc[s] = "awaitChild" /\ pc[local[s].child] \in Arriving
         \/ pc[s] = "awaitParent" /\ status[s] = "starting"
  BY <1>0 DEF SleepInv, Arriving, Duo, Private
<1>2. ASSUME pc[s] = "awaitChild"
      PROVE  local[s].child \in Threads \ {t, c}
  BY <1>1, <1>2 DEF Kin, Parenting
<1> QED BY <1>1, <1>2 DEF Duo

\* dvmCreateInterpThread makes the Thread of a child.
LEMMA CreateInv ==
  ASSUME CardLaws, Live, NEW t \in Threads, CreateInterpThread(t)
  PROVE  Live'
<1>0. /\ threadList \subseteq Threads /\ nonDaemonThreadCount \in Int
      /\ startCond \subseteq Threads /\ LocalType
      /\ status \in [Threads -> Statuses] /\ pc \in [Threads -> Labels]
  BY DEF Live, StateType
<1>1. PICK c \in Children \ {t} :
        /\ c \notin vmThread /\ pc[c] = "none"
        /\ vmThread' = vmThread \cup {c}
        /\ status' = [status EXCEPT ![c] = "initializing"]
        /\ local' = [local EXCEPT ![t].child = c]
  BY Zenon DEF CreateInterpThread, At
<1>2. /\ pc[t] = "run" /\ pc' = [pc EXCEPT ![t] = "create"]
      /\ UNCHANGED <<threadList, nonDaemonThreadCount, startCond>>
  BY DEF CreateInterpThread, At, Goto, conds
<1>3. Private(t) /\ local'[t].child = c /\ local'[t].ok = local[t].ok
  BY <1>0, <1>1, LocalChild, Zenon
<1>4. c \in Threads \ {t, Main} /\ PlaceOK(t) /\ PlaceOK(c) /\ Counted(c) \in Int
  BY <1>1, ThreadFacts DEF Live, PlaceInv, Counted
<1>5. StateType'
  BY <1>0, <1>1, <1>2, <1>3, <1>4 DEF StateType, Statuses, Labels, Private
<1>6. Kin(t, c)
  <2>1. ASSUME NEW p \in Threads \ {t}, pc[p] \in Parenting
        PROVE  local[p].child \in Threads \ {t, c}
    BY <1>1, <1>2, <2>1, ThreadFacts
    DEF Live, FamilyInv, Parenting, Together, Announcing
  <2> QED BY <1>1, <1>2, <1>4, <2>1 DEF Kin, ChildPlaces, Parenting
<1>7. /\ pc'[t] = "create" /\ pc'[c] = "none" /\ status'[c] = "initializing"
      /\ status'[t] = status[t] /\ local'[c].ok = local[c].ok
      /\ \A u \in Threads \ {t, c} : pc'[u] = pc[u] /\ status'[u] = status[u]
  BY <1>0, <1>1, <1>2, <1>3, <1>4 DEF Private
<1>8. PlaceOK(t)' /\ PlaceOK(c)'
  BY <1>1, <1>2, <1>3, <1>4, <1>7 DEF PlaceOK, Unlisted, Listed, Parenting, Leaving
<1>9. nonDaemonThreadCount' + Share(c) = nonDaemonThreadCount + Share(c)'
  BY <1>0, <1>1, <1>2, <1>4, <1>7 DEF Share
<1>10. Duo(t, c)
  BY <1>1, <1>2, <1>3, <1>5, <1>7, <1>8, <1>9
  DEF Duo, Together, Announcing, ChildPlaces, Parenting
<1>11. SleepInv'
  <2>1. t \notin startCond
    BY <1>2 DEF Live, SleepInv
  <2> QED BY <1>1, <1>2, <1>4, <1>6, <1>7, <1>10, <2>1, SleepDuo DEF Arriving
<1> QED BY <1>4, <1>6, <1>10, <1>11, DuoKeeps, Zenon DEF Live

\* pthread_create starts the child, or fails.
LEMMA PthreadInv ==
  ASSUME CardLaws, Live, NEW t \in Threads, PthreadCreate(t)
  PROVE  Live'
<1>0. /\ threadList \subseteq Threads /\ nonDaemonThreadCount \in Int
      /\ startCond \subseteq Threads /\ LocalType
      /\ status \in [Threads -> Statuses] /\ pc \in [Threads -> Labels]
  BY DEF Live, StateType
<1>1. /\ pc[t] = "create"
      /\ UNCHANGED <<threadList, nonDaemonThreadCount, startCond>>
  BY DEF PthreadCreate, At, conds
<1>2. PICK c \in Threads : c = local[t].child /\ Kin(t, c) /\ Together(t, c)
                           /\ c \in vmThread
  BY <1>1, ParentIsKin, Zenon DEF Kin, Parenting
<1>3. /\ c \in Threads \ {t, Main} /\ PlaceOK(t) /\ PlaceOK(c) /\ Counted(c) \in Int
      /\ pc[c] = "none" /\ status[c] = "initializing"
  BY <1>1, <1>2 DEF Live, PlaceInv, Counted, Kin, Together
<1>4. \/ /\ pc' = [pc EXCEPT ![t] = "awaitChild", ![c] = "find"]
         /\ UNCHANGED <<status, vmThread, local>>
      \/ /\ vmThread' = vmThread \ {c} /\ status' = [status EXCEPT ![c] = "none"]
         /\ pc' = [pc EXCEPT ![t] = "run"]
         /\ local' = [local EXCEPT ![t] = NoLocals]
  BY <1>2, Zenon DEF PthreadCreate, SetStatus, Return, Goto
<1>5. Private(t) /\ local'[t].ok = TRUE
  <2>1. CASE UNCHANGED local
    <3>1. local[t].ok = TRUE
      BY <1>0, <1>1, <1>3 DEF PlaceOK, LocalType, IsLocal
    <3> QED BY <1>0, <2>1, <3>1, LocalSame
  <2>2. CASE local' = [local EXCEPT ![t] = NoLocals]
    BY <1>0, <2>2, LocalReturn, Zenon
  <2> QED BY <1>4, <2>1, <2>2, Zenon
<1>6. StateType'
  BY <1>0, <1>1, <1>3, <1>4, <1>5 DEF StateType, Statuses, Labels, Private
<1>7. /\ vmThread \ {c} \subseteq vmThread' /\ local'[c].ok = local[c].ok
      /\ \A u \in Threads \ {t, c} : pc'[u] = pc[u] /\ status'[u] = status[u]
      /\ status'[t] = status[t]
      /\ \/ /\ pc'[t] = "awaitChild" /\ pc'[c] = "find" /\ status'[c] = "initializing"
            /\ local'[t].child = c /\ c \in vmThread'
         \/ pc'[t] = "run" /\ pc'[c] = "none" /\ status'[c] = "none"
  <2>1. local'[c].ok = local[c].ok
    BY <1>3, <1>5 DEF Private
  <2> QED BY ONLY <1>0, <1>2, <1>3, <1>4, <2>1, t \in Threads
<1>8. PlaceOK(t)' /\ PlaceOK(c)'
  <2>1. PlaceOK(t)'
    BY <1>1, <1>3, <1>5, <1>7 DEF PlaceOK, Unlisted, Listed, Parenting, Leaving
  <2>2. PlaceOK(c)'
    BY <1>1, <1>3, <1>7 DEF PlaceOK, Unlisted, Listed, Parenting, Leaving
  <2> QED BY <2>1, <2>2
<1>9. nonDaemonThreadCount' + Share(c) = nonDaemonThreadCount + Share(c)'
  BY <1>0, <1>1, <1>3, <1>7 DEF Share, Attaching, Leaving
<1>10. Duo(t, c)
  <2>1. c \notin threadList
    BY <1>3 DEF PlaceOK, Unlisted
  <2> QED BY <1>1, <1>5, <1>6, <1>7, <1>8, <1>9, <2>1
          DEF Duo, Together, Announcing, ChildPlaces, Parenting
<1>11. SleepInv'
  <2>1. t \notin startCond
    BY <1>1 DEF Live, SleepInv
  <2> QED BY <1>1, <1>2, <1>3, <1>10, <2>1, SleepDuo DEF Arriving
<1> QED BY <1>2, <1>10, <1>11, DuoKeeps, Zenon DEF Live

\* The parent waits, or links its child into the list.
LEMMA AwaitInv ==
  ASSUME CardLaws, Live, NEW t \in Threads, AwaitChild(t)
  PROVE  Live'
<1>0. /\ threadList \subseteq Threads /\ nonDaemonThreadCount \in Int
      /\ startCond \subseteq Threads /\ LocalType
      /\ status \in [Threads -> Statuses] /\ pc \in [Threads -> Labels]
  BY DEF Live, StateType
<1>1. /\ pc[t] = "awaitChild" /\ t \notin startCond
      /\ status' = [status EXCEPT ![t] = "vmwait"] /\ UNCHANGED <<local, vmThread>>
  BY DEF AwaitChild, At, SetStatus
<1>2. PICK c \in Threads : c = local[t].child /\ Kin(t, c) /\ Together(t, c)
                           /\ c \in vmThread
  BY <1>1, ParentIsKin, Zenon DEF Kin, Parenting
<1>3. /\ c \in Threads \ {t, Main} /\ PlaceOK(t) /\ PlaceOK(c) /\ Counted(c) \in Int
      /\ Announcing(c) /\ c \notin threadList
  BY <1>1, <1>2 DEF Live, PlaceInv, Counted, Kin, Together
<1>4. \/ /\ UNCHANGED <<pc, threadList, nonDaemonThreadCount>>
         /\ startCond' = startCond \cup {t} /\ status[c] # "starting"
      \/ /\ UNCHANGED startCond /\ status[c] = "starting"
         /\ pc' = [pc EXCEPT ![t] = "linked"] /\ threadList' = threadList \cup {c}
         /\ nonDaemonThreadCount' = nonDaemonThreadCount + Counted(c)
  BY <1>2, Zenon DEF AwaitChild, Goto
<1>5. Private(t)
  BY <1>0, <1>1, LocalSame
<1>6. StateType'
  BY <1>0, <1>1, <1>3, <1>4, <1>5 DEF StateType, Statuses, Labels, Private
<1>7. /\ pc[c] \in Arriving => status[c] # "starting"
      /\ pc[c] \notin Arriving => pc[c] = "awaitParent" /\ status[c] = "starting"
  BY <1>3 DEF Announcing, PlaceOK, Arriving
<1>8. /\ \A u \in Threads \ {t} : pc'[u] = pc[u] /\ status'[u] = status[u]
      /\ status'[t] = "vmwait"
      /\ \/ pc'[t] = "awaitChild" /\ UNCHANGED <<threadList, nonDaemonThreadCount>>
         \/ /\ pc'[t] = "linked" /\ threadList' = threadList \cup {c}
            /\ nonDaemonThreadCount' = nonDaemonThreadCount + Counted(c)
            /\ pc[c] = "awaitParent" /\ status[c] = "starting"
  BY <1>0, <1>1, <1>4, <1>7
<1>9. PlaceOK(t)' /\ PlaceOK(c)'
  <2>1. PlaceOK(t)'
    BY <1>1, <1>3, <1>8 DEF PlaceOK, Unlisted, Listed, Parenting, Leaving
  <2>2. PlaceOK(c)'
    BY <1>1, <1>3, <1>8 DEF PlaceOK, Unlisted, Listed, Parenting, Leaving
  <2> QED BY <2>1, <2>2
<1>10. nonDaemonThreadCount' + Share(c) = nonDaemonThreadCount + Share(c)'
  BY <1>0, <1>3, <1>8 DEF Share
<1>11. Duo(t, c)
  <2>1. Announcing(c)' /\ local'[t].child = c /\ c \in vmThread'
    BY <1>1, <1>2, <1>3, <1>8 DEF Announcing
  <2>2. pc'[c] \in ChildPlaces
    BY <1>3, <1>8 DEF Announcing, ChildPlaces
  <2>3. threadList' \ {c} = threadList \ {c} /\ pc'[t] \in {"awaitChild", "linked"}
    BY <1>8
  <2>4. Together(t, c)'
    BY <1>3, <1>8, <2>1 DEF Together
  <2> QED BY <1>1, <1>5, <1>6, <1>8, <1>9, <1>10, <2>1, <2>2, <2>3, <2>4
          DEF Duo, Parenting
<1>12. SleepInv'
  <2>1. t \in startCond' => /\ pc'[t] = "awaitChild"
                            /\ pc'[local'[t].child] \in Arriving
    BY ONLY <1>1, <1>2, <1>3, <1>4, <1>7, <1>8
  <2>2. pc'[c] = pc[c] /\ status'[c] = status[c] /\ startCond' \subseteq startCond \cup {t}
    BY <1>3, <1>4, <1>8
  <2> QED BY <1>1, <1>2, <1>11, <2>1, <2>2, SleepDuo
<1> QED BY <1>2, <1>11, <1>12, DuoKeeps, Zenon DEF Live

\* The parent lets its child go.
LEMMA ReleaseInv ==
  ASSUME CardLaws, Live, NEW t \in Threads, ReleaseChild(t)
  PROVE  Live'
<1>0. /\ threadList \subseteq Threads /\ nonDaemonThreadCount \in Int
      /\ startCond \subseteq Threads /\ LocalType
      /\ status \in [Threads -> Statuses] /\ pc \in [Threads -> Labels]
  BY DEF Live, StateType
<1>1. pc[t] = "linked" /\ UNCHANGED <<threadList, nonDaemonThreadCount, vmThread>>
  BY DEF ReleaseChild, At
<1>2. PICK c \in Threads : c = local[t].child /\ Kin(t, c) /\ Together(t, c)
                           /\ c \in vmThread
  BY <1>1, ParentIsKin, Zenon DEF Kin, Parenting
<1>3. /\ c \in Threads \ {t, Main} /\ PlaceOK(t) /\ PlaceOK(c) /\ Counted(c) \in Int
      /\ pc[c] = "awaitParent" /\ status[c] = "starting" /\ c \in threadList
  BY <1>1, <1>2 DEF Live, PlaceInv, Counted, Kin, Together
<1>4. /\ startCond' = {} /\ pc' = [pc EXCEPT ![t] = "run"]
      /\ status' = [status EXCEPT ![t] = "running", ![c] = "vmwait"]
      /\ local' = [local EXCEPT ![t] = NoLocals]
  BY <1>2, <1>3, Zenon DEF ReleaseChild, Return, Goto
<1>5. Private(t) /\ local'[t].ok = TRUE
  BY <1>0, <1>4, LocalReturn, Zenon
<1>6. StateType'
  BY <1>0, <1>1, <1>3, <1>4, <1>5 DEF StateType, Statuses, Labels, Private
<1>7. /\ pc'[t] = "run" /\ status'[t] = "running"
      /\ pc'[c] = pc[c] /\ status'[c] = "vmwait" /\ local'[c].ok = local[c].ok
      /\ \A u \in Threads \ {t, c} : pc'[u] = pc[u] /\ status'[u] = status[u]
  BY <1>0, <1>3, <1>4, <1>5 DEF Private
<1>8. PlaceOK(t)' /\ PlaceOK(c)'
  BY <1>1, <1>3, <1>5, <1>7 DEF PlaceOK, Unlisted, Listed, Parenting, Leaving
<1>9. nonDaemonThreadCount' + Share(c) = nonDaemonThreadCount + Share(c)'
  BY <1>0, <1>1, <1>3, <1>7 DEF Share
<1>10. Duo(t, c)
  BY <1>1, <1>3, <1>5, <1>6, <1>7, <1>8, <1>9
  DEF Duo, Announcing, ChildPlaces, Parenting
<1>11. SleepInv'
  BY <1>4 DEF SleepInv
<1> QED BY <1>2, <1>10, <1>11, DuoKeeps, Zenon DEF Live
-----------------------------------------------------------------------------
(* Steps that concern one thread.                                          *)

\* A step that concerns one thread keeps places and count.
LEMMA SoloKeeps ==
  ASSUME CardLaws, StateType, PlaceInv, CountInv, NEW t \in Threads, Solo(t)
  PROVE  StateType' /\ PlaceInv' /\ CountInv'
<1>1. StateType'
  BY DEF Solo
<1>2. ASSUME NEW u \in Threads, u # t PROVE PlaceOK(u)'
  <2>1. /\ pc'[u] = pc[u] /\ status'[u] = status[u] /\ local'[u].ok = local[u].ok
        /\ u \in threadList' <=> u \in threadList
    BY <1>2 DEF Solo, Private
  <2> QED BY <2>1 DEF PlaceInv, PlaceOK
<1>3. PlaceInv'
  BY <1>2 DEF PlaceInv, Solo
<1>4. CountInv'
  BY <1>1, CountShift DEF Solo
<1> QED BY <1>1, <1>3, <1>4

\* Such a step does not concern a family.
LEMMA FamilySame ==
  ASSUME FamilyInv, NEW t \in Threads, Solo(t), Apart(t)
  PROVE  FamilyInv'
<1>0. /\ \A u \in Threads \ {t} : /\ pc'[u] = pc[u] /\ status'[u] = status[u]
                                  /\ local'[u].child = local[u].child
      /\ threadList' \ {t} = threadList \ {t}
  BY DEF Solo, Private
<1>1. /\ pc[t] \notin Parenting /\ pc'[t] \notin Parenting
      /\ ~Announcing(t) /\ ~Announcing(t)'
      /\ \A u \in Threads \ {t} : Announcing(u)' <=> Announcing(u)
  BY <1>0 DEF Announcing, ChildPlaces, Apart
<1>2. \A p \in Threads : pc[p] \in Parenting =>
        local[p].child \in Threads \ {t} /\ p # t
  BY <1>1, ThreadFacts DEF FamilyInv, Together, Announcing, ChildPlaces,
     Parenting, Apart
<1>3. ASSUME NEW p \in Threads, pc'[p] \in Parenting
      PROVE  /\ local'[p].child \in Children \cap vmThread'
             /\ Together(p, local[p].child)'
  <2>1. PICK c \in Threads \ {t} :
          /\ c = local[p].child /\ local'[p].child = c /\ p # t
          /\ c \in Children \cap vmThread /\ Together(p, c)
    BY <1>0, <1>1, <1>2, <1>3 DEF FamilyInv
  <2>2. Together(p, c)'
    BY <1>0, <1>1, <2>1 DEF Together
  <2> QED BY <2>1, <2>2 DEF Apart
<1>4. \A p, q \in Threads :
        /\ pc'[p] \in Parenting /\ pc'[q] \in Parenting
        /\ local'[p].child = local'[q].child
        => p = q
  BY <1>0, <1>1 DEF FamilyInv
<1>5. ASSUME NEW c \in Threads, Announcing(c)'
      PROVE  \E p \in Threads : local'[p].child = c /\ pc'[p] \in {"awaitChild", "linked"}
  <2>1. PICK p \in Threads : local[p].child = c /\ pc[p] \in {"awaitChild", "linked"}
    BY <1>1, <1>5 DEF FamilyInv
  <2> QED BY <1>0, <1>2, <2>1 DEF Parenting
<1> QED BY <1>3, <1>4, <1>5 DEF FamilyInv

\* A child on its way goes on, and its parent with it.
LEMMA FamilyChild ==
  ASSUME FamilyInv, NEW t \in Threads, Solo(t),
         Announcing(t), Announcing(t)',
         pc[t] = "awaitParent" => pc'[t] = "awaitParent",
         UNCHANGED <<vmThread, threadList>>
  PROVE  FamilyInv'
<1>0. \A u \in Threads \ {t} : /\ pc'[u] = pc[u] /\ status'[u] = status[u]
                               /\ local'[u].child = local[u].child
  BY DEF Solo, Private
<1>1. /\ pc[t] \notin Parenting /\ pc'[t] \notin Parenting
      /\ \A u \in Threads : Announcing(u)' <=> Announcing(u)
  BY <1>0 DEF Announcing, Parenting
<1>3. ASSUME NEW p \in Threads, pc'[p] \in Parenting
      PROVE  /\ local'[p].child \in Children \cap vmThread'
             /\ Together(p, local[p].child)'
  <2>1. PICK c \in Threads :
          /\ c = local[p].child /\ local'[p].child = c /\ p # t
          /\ c \in Children \cap vmThread /\ Together(p, c)
    BY <1>0, <1>1, <1>3, ThreadFacts DEF FamilyInv
  <2>2. Together(p, c)'
    <3>1. CASE c = t
      BY <1>0, <1>1, <2>1, <3>1 DEF Together, Announcing
    <3>2. CASE c # t
      BY <1>0, <1>1, <2>1, <3>2 DEF Together
    <3> QED BY <3>1, <3>2
  <2> QED BY <2>1, <2>2
<1>4. \A p, q \in Threads :
        /\ pc'[p] \in Parenting /\ pc'[q] \in Parenting
        /\ local'[p].child = local'[q].child
        => p = q
  BY <1>0, <1>1 DEF FamilyInv
<1>5. ASSUME NEW c \in Threads, Announcing(c)'
      PROVE  \E p \in Threads : local'[p].child = c /\ pc'[p] \in {"awaitChild", "linked"}
  <2>1. PICK p \in Threads : local[p].child = c /\ pc[p] \in {"awaitChild", "linked"}
    BY <1>1, <1>5 DEF FamilyInv
  <2> QED BY <1>0, <1>1, <2>1 DEF Parenting
<1> QED BY <1>3, <1>4, <1>5 DEF FamilyInv

\* A step of a thread that waits for nobody, and does not start to.
LEMMA SleepSame ==
  ASSUME StateType, FamilyInv, SleepInv, NEW t \in Threads, Solo(t),
         startCond' \subseteq startCond,
         pc[t] \notin {"awaitChild", "awaitParent"},
         pc[t] \in Arriving => pc'[t] \in Arriving
  PROVE  SleepInv'
<1> SUFFICES ASSUME NEW s \in startCond'
             PROVE  \/ /\ pc'[s] = "awaitChild"
                       /\ pc'[local'[s].child] \in Arriving
                    \/ pc'[s] = "awaitParent" /\ status'[s] = "starting"
  BY DEF SleepInv, Arriving
<1>0. \A u \in Threads \ {t} : /\ pc'[u] = pc[u] /\ status'[u] = status[u]
                               /\ local'[u].child = local[u].child
  BY DEF Solo, Private
<1>1. \/ pc[s] = "awaitChild" /\ pc[local[s].child] \in Arriving
      \/ pc[s] = "awaitParent" /\ status[s] = "starting"
  BY DEF SleepInv, Arriving
<1>2. s \in Threads \ {t}
  BY <1>1 DEF StateType
<1>3. CASE pc[s] = "awaitChild" /\ pc[local[s].child] \in Arriving
  <2>1. local[s].child \in Threads
    BY <1>2, <1>3, ThreadFacts DEF FamilyInv, Parenting
  <2> QED BY <1>0, <1>2, <1>3, <2>1
<1>4. CASE pc[s] = "awaitParent" /\ status[s] = "starting"
  BY <1>0, <1>2, <1>4
<1> QED BY <1>1, <1>3, <1>4

\* A child on its way.
LEMMA ChildInv ==
  ASSUME CardLaws, Live, NEW t \in Threads, ChildFind(t) => ~Dead',
         ChildFind(t) \/ ChildStore(t) \/ Starting(t) \/ AwaitParent(t)
  PROVE  Live'
<1>0. /\ StateType /\ PlaceInv /\ PlaceOK(t) /\ FamilyInv /\ CountInv /\ SleepInv
      /\ threadList \subseteq Threads /\ nonDaemonThreadCount \in Int
      /\ startCond \subseteq Threads /\ Counted(t) \in Int /\ LocalType
      /\ status \in [Threads -> Statuses] /\ pc \in [Threads -> Labels]
  BY DEF Live, PlaceInv, StateType, Counted
<1>b. /\ SleepInv /\ startCond \subseteq Threads
      /\ \A s \in startCond : pc[s] = "awaitChild" => local[s].child \in Threads
  BY <1>0, ThreadFacts DEF FamilyInv, Parenting
<1>a. Solo(t) => StateType' /\ PlaceInv' /\ CountInv'
  BY <1>0, SoloKeeps
<1> USE DEF Goto, Return, SetStatus, At, conds
<1>1. CASE ChildFind(t)
  <2>a. /\ Goto(t, "store")
        /\ \E w, b : local' = [local EXCEPT ![t].word = w, ![t].bits = b]
    BY <1>0, <1>1, AllocFacts, Zenon DEF ChildFind
  <2>1. PICK w, b : local' = [local EXCEPT ![t].word = w, ![t].bits = b]
    BY <2>a, Zenon
  <2>2. Private(t) /\ local'[t].ok = local[t].ok
    BY <1>0, <2>1, LocalWord, Zenon
  <2>3. StateType'
    BY <1>0, <1>1, <2>a, <2>2 DEF ChildFind, StateType, Labels, Private
  <2>4. /\ Solo(t) /\ Announcing(t) /\ Announcing(t)'
        /\ UNCHANGED <<startCond, vmThread, threadList>>
        /\ pc[t] \notin {"awaitChild", "awaitParent"} /\ pc'[t] \in Arriving
    BY <1>0, <1>1, <2>a, <2>2, <2>3 DEF ChildFind, Solo, PlaceOK, Share, Announcing,
       Arriving, Unlisted, Listed, Parenting, Leaving, Attaching
  <2> QED BY <1>0, <1>a, <2>4, FamilyChild, SleepSame DEF Live
<1>2. CASE ChildStore(t)
  <2>1. Private(t) /\ local'[t].ok = TRUE
    BY <1>0, <1>2, LocalReturn, Zenon DEF ChildStore
  <2>2. StateType'
    BY <1>0, <1>2, <2>1 DEF ChildStore, StateType, Labels, Private
  <2>3. /\ Solo(t) /\ Announcing(t) /\ Announcing(t)'
        /\ UNCHANGED <<startCond, vmThread, threadList>>
        /\ pc[t] \notin {"awaitChild", "awaitParent"} /\ pc'[t] \in Arriving
    BY <1>0, <1>2, <2>1, <2>2 DEF ChildStore, Solo, PlaceOK, Share, Announcing,
       Arriving, Unlisted, Listed, Parenting, Leaving, Attaching
  <2> QED BY <1>0, <1>a, <2>3, FamilyChild, SleepSame DEF Live
<1>3. CASE Starting(t)
  <2>1. Private(t)
    BY <1>0, <1>3, LocalSame, Zenon DEF Starting
  <2>2. StateType'
    BY <1>0, <1>3, <2>1 DEF Starting, StateType, Statuses, Labels, Private
  <2>3. /\ Solo(t) /\ Announcing(t) /\ Announcing(t)'
        /\ UNCHANGED <<vmThread, threadList>> /\ pc'[t] = "awaitParent"
        /\ startCond' = {t} /\ status'[t] = "starting"
    BY <1>0, <1>3, <2>1, <2>2 DEF Starting, Solo, PlaceOK, Share, Announcing,
       Unlisted, Listed, Parenting, Leaving, Attaching
  <2>4. SleepInv'
    BY <2>3 DEF SleepInv
  <2> QED BY <1>0, <1>a, <2>3, <2>4, FamilyChild DEF Live
<1>4. CASE AwaitParent(t)
  <2>1. Private(t)
    BY <1>0, <1>4, LocalSame DEF AwaitParent
  <2>2. StateType'
    BY <1>0, <1>4, <2>1 DEF AwaitParent, StateType, Statuses, Labels, Private
  <2>3. /\ Solo(t) /\ UNCHANGED <<vmThread, threadList, local>>
        /\ pc[t] = "awaitParent" /\ t \notin startCond
        /\ \/ /\ Announcing(t) /\ Announcing(t)' /\ UNCHANGED <<pc, status>>
              /\ startCond' = startCond \cup {t} /\ status[t] = "starting"
           \/ Apart(t) /\ UNCHANGED startCond
    BY <1>0, <1>4, <2>1, <2>2 DEF AwaitParent, Solo, PlaceOK, Share, Announcing,
       Apart, ChildPlaces, Unlisted, Listed, Parenting, Leaving, Attaching
  <2>4. FamilyInv'
    BY <1>0, <2>3, FamilyChild, FamilySame
  <2>5. SleepInv'
    <3>1. \A u \in Threads \ {t} : pc'[u] = pc[u] /\ status'[u] = status[u]
      BY <2>3 DEF Solo
    <3>2. pc[t] = "awaitParent" /\ t \notin startCond /\ UNCHANGED local
      BY <2>3
    <3>3. CASE /\ startCond' = startCond \cup {t} /\ status[t] = "starting"
               /\ UNCHANGED <<pc, status>>
      BY ONLY <1>b, <3>2, <3>3 DEF SleepInv
    <3>4. CASE UNCHANGED startCond
      BY ONLY <1>b, <3>1, <3>2, <3>4 DEF SleepInv
    <3> QED BY <2>3, <3>3, <3>4
  <2> QED BY <1>a, <2>3, <2>4, <2>5 DEF Live
<1> QED BY <1>1, <1>2, <1>3, <1>4

\* A thread that starts none and is not being started.
LEMMA AloneInv ==
  ASSUME CardLaws, Live, NEW t \in Threads, Alone(t), AttachFind(t) => ~Dead'
  PROVE  Live'
<1>0. StateType /\ PlaceInv /\ PlaceOK(t) /\ FamilyInv /\ CountInv /\ SleepInv
  BY DEF Live, PlaceInv
<1>1. Solo(t) /\ Apart(t) /\ pc[t] # "awaitParent" /\ UNCHANGED startCond
  BY <1>0, AloneStep
<1>2. StateType' /\ PlaceInv' /\ CountInv' /\ FamilyInv'
  BY <1>0, <1>1, SoloKeeps, FamilySame
<1>3. pc[t] \notin {"awaitChild", "awaitParent"} \cup Arriving
  BY <1>1 DEF Apart, Parenting, ChildPlaces, Arriving
<1>4. SleepInv'
  BY <1>0, <1>1, <1>3, SleepSame
<1> QED BY <1>2, <1>4 DEF Live

\* Steps that only wake somebody, or nothing at all.
LEMMA QuietKeeps ==
  ASSUME UNCHANGED <<threadList, nonDaemonThreadCount, status, vmThread, pc, local>>,
         startCond' \subseteq startCond
  PROVE  /\ StateType => StateType'
         /\ PlaceInv => PlaceInv'
         /\ FamilyInv => FamilyInv'
         /\ CountInv => CountInv'
<1>1. LocalType => LocalType'
  <2>1. LocalType => Private(Main)
    BY LocalSame, ThreadFacts
  <2> QED BY <2>1 DEF Private
<1>2. StateType => StateType'
  BY <1>1 DEF StateType
<1>3. PlaceInv => PlaceInv'
  BY DEF PlaceInv, PlaceOK
<1>4. \A c \in Threads : Announcing(c)' <=> Announcing(c)
  BY DEF Announcing
<1>5. \A p, c \in Threads : Together(p, c)' <=> Together(p, c)
  BY <1>4 DEF Together
<1>6. FamilyInv => FamilyInv'
  BY <1>4, <1>5, ThreadFacts DEF FamilyInv
<1>7. CountInv => CountInv'
  BY Zenon DEF CountInv, Where
<1> QED BY <1>2, <1>3, <1>6, <1>7

\* A step outside the VM's abort.
LEMMA LiveStep ==
  ASSUME CardLaws, Live, NEW t \in Threads,
         Step(t) \/ Choice(t) \/ SpuriousWakeup(t),
         ChildFind(t) \/ AttachFind(t) => ~Dead'
  PROVE  Live'
<1>1. CASE SpuriousWakeup(t)
  <2>1. /\ UNCHANGED <<threadList, nonDaemonThreadCount, status, vmThread, pc, local>>
        /\ startCond' \subseteq startCond
    BY <1>1 DEF SpuriousWakeup
  <2>2. StateType' /\ PlaceInv' /\ FamilyInv' /\ CountInv'
    BY <2>1, QuietKeeps DEF Live
  <2>3. SleepInv'
    BY <2>1 DEF Live, SleepInv
  <2> QED BY <2>2, <2>3 DEF Live
<1>2. CASE Alone(t)
  BY <1>2, AloneInv
<1>3. CASE ChildFind(t) \/ ChildStore(t) \/ Starting(t) \/ AwaitParent(t)
  BY <1>3, ChildInv
<1>4. CASE \/ CreateInterpThread(t) \/ PthreadCreate(t)
           \/ AwaitChild(t) \/ ReleaseChild(t)
  BY <1>4, CreateInv, PthreadInv, AwaitInv, ReleaseInv
<1> QED BY <1>1, <1>2, <1>3, <1>4 DEF Step, Choice, Create, Alone

\* Nobody moves once the VM has aborted.
LEMMA DeadIsStill ==
  ASSUME Dead, NEW t \in Threads
  PROVE  ~Step(t) /\ ~Choice(t)
<1>1. pc[t] = "abort"
  BY DEF Dead
<1>2. ~Create(t)
  BY <1>1, Zenon DEF Create, PthreadCreate, AwaitChild, ReleaseChild, ChildFind,
     ChildStore, Starting, AwaitParent, At
<1>3. ~AttachStep(t)
  BY <1>1, Zenon DEF AttachStep, AttachFind, AttachStore, AttachLink, AttachRunning,
     Construct, FailUnlink, Restore, At
<1>4. ~Leave(t)
  BY <1>1, Zenon DEF Leave, DetachUnlink, ReleaseThreadId, AwaitExit, At
<1>5. ~FailEarly(t)
  BY <1>1 DEF FailEarly
<1>6. ~DestroyJavaVM(t)
  BY <1>1 DEF DestroyJavaVM
<1>7. ~Choice(t)
  BY <1>1, <1>5, <1>6, Zenon DEF Choice, CreateInterpThread, AttachThread, CallIn,
     CallOut, DetachCurrentThread, DestroyRefused, At
<1> QED BY <1>2, <1>3, <1>4, <1>7 DEF Step

FS == INSTANCE FiniteSetTheorems

\* The laws hold, since there are finitely many threads.
LEMMA CardFacts == CardLaws
<1>1. \A S : FS!Cardinality(S) = Cardinality(S)
  BY DEF FS!Cardinality, Cardinality
<1>2. \A S \in SUBSET Threads : FS!IsFiniteSet(S)
  <2>1. FS!IsFiniteSet(Threads)
    BY ConstantsAssumption DEF FS!IsFiniteSet, IsFiniteSet
  <2> QED BY <2>1, FS!FS_Subset
<1>3. FS!Cardinality({}) = 0 /\ \A x : FS!Cardinality({x}) = 1
  BY FS!FS_EmptySet, FS!FS_Singleton
<1>4. ASSUME NEW S \in SUBSET Threads
      PROVE  /\ FS!Cardinality(S) \in Nat
             /\ \A x \in Threads :
                  /\ x \notin S => FS!Cardinality(S \cup {x}) = FS!Cardinality(S) + 1
                  /\ x \in S => FS!Cardinality(S \ {x}) = FS!Cardinality(S) - 1
  BY <1>2, FS!FS_CardinalityType, FS!FS_AddElement, FS!FS_RemoveElement
<1> QED BY <1>1, <1>3, <1>4 DEF CardLaws

\* A step of a VM that has aborted or aborts.
LEMMA DeadStep ==
  ASSUME Inv, NEW t \in Threads,
         \/ Dead /\ SpuriousWakeup(t)
         \/ (ChildFind(t) \/ AttachFind(t)) /\ Dead'
  PROVE  Inv'
<1>0. StateType /\ pc \in [Threads -> Labels] /\ RunningIsListed /\ ParentFindsChild
  BY DEF Inv, StateType
<1>1. /\ UNCHANGED <<status, threadList, nonDaemonThreadCount, local>>
      /\ startCond' \subseteq startCond
      /\ pc' = pc \/ pc' = [u \in Threads |-> "abort"]
  <2>1. CASE SpuriousWakeup(t)
    BY <2>1 DEF SpuriousWakeup
  <2>2. ASSUME NEW next \in {"store", "prepare"}, AllocLoad(t, next), Dead'
        PROVE  pc' = [u \in Threads |-> "abort"] /\ UNCHANGED local
    <3>1. pc'[t] = "abort"
      BY <2>2 DEF Dead
    <3>2. pc' # [pc EXCEPT ![t] = next]
      BY <1>0, <2>2, <3>1
    <3> QED BY <2>2, <3>2, Zenon DEF AllocLoad, Goto
  <2>3. CASE (ChildFind(t) \/ AttachFind(t)) /\ Dead'
    BY <2>2, <2>3 DEF ChildFind, AttachFind, conds
  <2> QED BY <2>1, <2>3
<1>2. LocalType'
  BY <1>0, <1>1, LocalSame DEF StateType, Private
<1>3. StateType' /\ RunningIsListed' /\ ParentFindsChild'
  BY <1>0, <1>1, <1>2 DEF StateType, RunningIsListed, ParentFindsChild, Labels, At
<1>4. Dead'
  BY <1>1 DEF Dead, SpuriousWakeup
<1> QED BY <1>3, <1>4 DEF Inv

\* The start of the VM.
LEMMA InitInv ==
  ASSUME CardLaws, Init
  PROVE  Inv
<1> USE ThreadFacts DEF Init
<1>1. LocalType
  BY Zenon DEF LocalType, IsLocal, NoLocals
<1>2. StateType
  BY <1>1 DEF StateType, Statuses, Labels
<1>3. RunningIsListed /\ ParentFindsChild /\ SleepInv
  BY DEF RunningIsListed, ParentFindsChild, SleepInv, At
<1>4. PlaceInv
  BY DEF PlaceInv, PlaceOK, Unlisted, Listed, Parenting, Leaving, NoLocals
<1>5. FamilyInv
  BY DEF FamilyInv, Parenting, Announcing
<1>6. CountInv
  <2>1. /\ threadList \ Daemons = {Main}
        /\ Where(Attaching) = {} /\ Where(Leaving) = {}
    BY DEF Where, Attaching, Leaving
  <2>2. Cardinality({}) = 0 /\ Cardinality({Main}) = 1
    BY ThreadFacts DEF CardLaws
  <2> HIDE DEF Init
  <2>3. /\ Cardinality(threadList \ Daemons) = 1
        /\ Cardinality(Where(Attaching)) = 0 /\ Cardinality(Where(Leaving)) = 0
    BY <2>1, <2>2, Zenon
  <2>4. nonDaemonThreadCount = 1
    BY DEF Init
  <2> QED BY <2>3, <2>4 DEF CountInv
<1> QED BY <1>2, <1>3, <1>4, <1>5, <1>6 DEF Inv

\* A set with the main thread and at most one element has no other.
LEMMA OnlyMain ==
  ASSUME CardLaws, NEW S \in SUBSET Threads, Main \in S, Cardinality(S) <= 1
  PROVE  S = {Main}
<1>1. Cardinality(S \ {Main}) = Cardinality(S) - 1 /\ Cardinality(S) \in Nat
  BY ThreadFacts DEF CardLaws
<1>2. ASSUME NEW u \in S, u # Main PROVE FALSE
  <2>1. /\ S \ {Main} \in SUBSET Threads /\ u \in S \ {Main}
        /\ (S \ {Main}) \ {u} \in SUBSET Threads /\ u \in Threads
    BY <1>2
  <2>2. Cardinality((S \ {Main}) \ {u}) = Cardinality(S \ {Main}) - 1
    BY <2>1 DEF CardLaws
  <2>3. Cardinality((S \ {Main}) \ {u}) \in Nat
    BY <2>1 DEF CardLaws
  <2> QED BY <1>1, <2>2, <2>3
<1> QED BY <1>2

-----------------------------------------------------------------------------
\* Places, families, sleepers and the count are as described in every state.
THEOREM Invariance == Spec => []Inv
<1>1. Inv /\ [Next]_vars => Inv'
  <2> SUFFICES ASSUME Inv, [Next]_vars PROVE Inv'
    OBVIOUS
  <2>1. CASE UNCHANGED vars
    <3>1. /\ UNCHANGED <<threadList, nonDaemonThreadCount, status, vmThread, pc, local>>
          /\ UNCHANGED startCond
      BY <2>1 DEF vars
    <3>2. /\ RunningIsListed' <=> RunningIsListed
          /\ ParentFindsChild' <=> ParentFindsChild
          /\ SleepInv' <=> SleepInv
          /\ Dead' <=> Dead
      BY <3>1 DEF RunningIsListed, ParentFindsChild, At, SleepInv, Dead
    <3> QED BY <3>1, <3>2, QuietKeeps DEF Inv
  <2>2. ASSUME NEW t \in Threads, Step(t) \/ Choice(t) \/ SpuriousWakeup(t)
        PROVE  Inv'
    <3>1. CASE Dead
      BY <2>2, <3>1, DeadIsStill, DeadStep
    <3>2. CASE (ChildFind(t) \/ AttachFind(t)) /\ Dead'
      BY <3>2, DeadStep
    <3>3. CASE ~Dead /\ ~((ChildFind(t) \/ AttachFind(t)) /\ Dead')
      <4>1. Live'
        BY <2>2, <3>3, LiveStep, CardFacts DEF Inv, Live
      <4>2. RunningIsListed' /\ ParentFindsChild'
        BY <4>1 DEF Live, PlaceInv, PlaceOK, RunningIsListed, ParentFindsChild, At
      <4> QED BY <4>1, <4>2 DEF Inv, Live
    <3> QED BY <3>1, <3>2, <3>3
  <2> QED BY <2>1, <2>2 DEF Next
<1> QED
  BY InitInv, CardFacts, <1>1, PTL DEF Spec

\* dvmCreateInterpThread: "assert(newThread->status == THREAD_STARTING)" holds
\* whenever a parent comes to let its child go, however many threads start.
THEOREM HandshakeHolds == Spec => []ParentFindsChild
<1>1. Inv => ParentFindsChild
  BY DEF Inv
<1> QED BY <1>1, Invariance, PTL

\* Nobody sleeps through the start handshake, although all starts share one
\* condition variable, and wakeups may be spurious.
THEOREM HandshakeIsSignalled == Spec => []StartIsSignalled
<1>1. Inv => StartIsSignalled
  <2> SUFFICES ASSUME Inv, IdsSuffice PROVE StartIsSignalled
    BY DEF StartIsSignalled
  <2>1. PlaceInv /\ FamilyInv /\ SleepInv
    BY ThreadFacts DEF Inv, Dead, IdsSuffice, At
  <2>2. startCond \subseteq Threads
    BY DEF Inv, StateType
  <2> QED BY <2>1, <2>2 DEF StartIsSignalled, SleepInv, FamilyInv, Announcing, At
<1> QED BY <1>1, Invariance, PTL

\* Every thread that runs is in the list, and nonDaemonThreadCount counts the
\* non-daemon threads of the list, attaches in progress once more, and not the
\* thread in DestroyJavaVM: for any number of threads.
THEOREM ListStaysRight == Spec => []ListIsRight
<1>1. Inv => ListIsRight
  <2> SUFFICES ASSUME Inv PROVE RunningIsListed /\ CountIsExact
    BY DEF ListIsRight
  <2>1. IdsSuffice => CountInv
    BY ThreadFacts DEF Inv, Dead, IdsSuffice, At
  <2> QED BY <2>1 DEF Inv, CountIsExact, CountInv, Where, Attaching, Leaving
<1> QED BY <1>1, Invariance, PTL

\* DestroyJavaVM goes on to dvmShutdown only when no other non-daemon thread is
\* left in the list, whether it waited for that, found the count at zero or was
\* refused the attach; the one exception is an attach that failed half-way.
THEOREM ExitWaits == Spec => ExitWaitsForAll
<1>1. ASSUME Inv, Next, NEW t \in Threads, pc[t] \notin Exits, pc'[t] \in Exits,
             local[t].ok
      PROVE  threadList \subseteq Daemons \cup {t}
  <2>0. StateType /\ pc \in [Threads -> Labels]
    BY <1>1 DEF Inv, StateType
  <2>1. PICK u \in Threads : Step(u) \/ Choice(u) \/ SpuriousWakeup(u)
    BY <1>1 DEF Next
  <2>2. ~Dead'
    BY <1>1 DEF Dead, Exits
  <2>3. u = t /\ (AwaitExit(t) \/ DestroyJavaVM(t) \/ DestroyRefused(t))
    <3> USE DEF Goto, Return, At, Exits
    <3>1. ASSUME NEW next \in {"store", "prepare"}, AllocLoad(u, next) PROVE FALSE
      <4>1. pc' = [pc EXCEPT ![u] = next]
        BY <2>0, <2>2, <3>1, AllocFacts, Zenon
      <4> QED BY <1>1, <2>0, <4>1
    <3>2. ~Create(u)
      BY <1>1, <2>0, <3>1 DEF Create, PthreadCreate, AwaitChild, ReleaseChild,
         ChildFind, ChildStore, Starting, AwaitParent
    <3>3. ~AttachStep(u)
      <4>1. ~Restore(u)
        BY <1>1, <2>0 DEF Restore
      <4> QED BY <1>1, <2>0, <3>1, <4>1 DEF AttachStep, AttachFind, AttachStore,
              AttachLink, AttachRunning, Construct, FailUnlink
    <3>4. Leave(u) => u = t /\ AwaitExit(t)
      BY <1>1, <2>0 DEF Leave, DetachUnlink, ReleaseThreadId, AwaitExit
    <3>5. Choice(u) => u = t /\ (DestroyJavaVM(t) \/ DestroyRefused(t))
      BY <1>1, <2>0 DEF Choice, CreateInterpThread, AttachThread, FailEarly, CallIn,
         CallOut, DetachCurrentThread, DestroyJavaVM, DestroyRefused
    <3>6. ~SpuriousWakeup(u)
      BY <1>1 DEF SpuriousWakeup
    <3> QED BY <2>1, <3>2, <3>3, <3>4, <3>5, <3>6 DEF Step
  <2>4. pc[t] \in {"awaitExit", "run", "destroy", "none"}
    BY <2>3 DEF AwaitExit, DestroyJavaVM, DestroyRefused, At
  <2>5. PlaceInv /\ CountInv
    BY <1>1, <2>4 DEF Inv, Dead
  <2>6. t = Main
    BY <2>3, <2>5 DEF AwaitExit, DestroyJavaVM, DestroyRefused, At, PlaceInv, PlaceOK,
       Leaving
  <2>7. Cardinality(Where(Leaving)) = IF pc[t] = "awaitExit" THEN 1 ELSE 0
    <3>1. Where(Leaving) = IF pc[t] = "awaitExit" THEN {t} ELSE {}
      BY <2>4, <2>5, <2>6 DEF Where, Leaving, PlaceInv, PlaceOK
    <3>2. Cardinality({}) = 0 /\ Cardinality({t}) = 1
      BY CardFacts DEF CardLaws
    <3> QED BY <3>1, <3>2, Zenon
  <2>8. /\ threadList \ Daemons \in SUBSET Threads
        /\ Cardinality(threadList \ Daemons) \in Nat
        /\ Cardinality(Where(Attaching)) \in Nat
        /\ nonDaemonThreadCount \in Int
    BY <2>0, CardFacts DEF CardLaws, StateType, Where
  <2>9. CASE AwaitExit(t) \/ DestroyJavaVM(t)
    <3>1. Cardinality(threadList \ Daemons) <= 1
      <4>1. CASE AwaitExit(t)
        <5>1. pc[t] = "awaitExit" /\ ~(nonDaemonThreadCount > 0)
          BY <1>1, <2>0, <4>1 DEF AwaitExit, At, Exits
        <5> QED BY <2>5, <2>7, <2>8, <5>1 DEF CountInv
      <4>2. CASE DestroyJavaVM(t)
        <5>1. pc[t] # "awaitExit" /\ ~(nonDaemonThreadCount - 1 > 0)
          BY <1>1, <2>0, <4>2 DEF DestroyJavaVM, Goto, Exits
        <5> QED BY <2>5, <2>7, <2>8, <5>1 DEF CountInv
      <4> QED BY <2>9, <4>1, <4>2
    <3>2. Main \in threadList \ Daemons
      <4>1. pc[t] \in {"awaitExit", "run", "destroy"}
        BY <2>9 DEF AwaitExit, DestroyJavaVM, At
      <4> QED BY <2>5, <2>6, <4>1, ThreadFacts DEF PlaceInv, PlaceOK, Leaving, Listed
    <3>3. threadList \ Daemons = {Main}
      BY <2>8, <3>1, <3>2, OnlyMain, CardFacts
    <3> QED BY <2>6, <3>3
  <2>10. CASE DestroyRefused(t)
    <3>1. pc[t] = "none" /\ nonDaemonThreadCount = 0
      BY <2>10 DEF DestroyRefused, At
    <3>2. Cardinality(threadList \ Daemons) = 0
      BY <2>5, <2>7, <2>8, <3>1 DEF CountInv
    <3>3. ASSUME NEW x \in threadList \ Daemons PROVE FALSE
      <4>1. x \in Threads /\ (threadList \ Daemons) \ {x} \in SUBSET Threads
        BY <2>8, <3>3
      <4>2. /\ Cardinality((threadList \ Daemons) \ {x}) \in Nat
            /\ Cardinality((threadList \ Daemons) \ {x})
                 = Cardinality(threadList \ Daemons) - 1
        BY <2>8, <3>3, <4>1, CardFacts DEF CardLaws
      <4> QED BY <3>2, <4>2
    <3> QED BY <3>3
  <2> QED BY <2>3, <2>9, <2>10
<1>2. Inv /\ [Next]_vars =>
        [\A t \in Threads : pc[t] \notin Exits /\ pc'[t] \in Exits =>
           threadList \subseteq Daemons \cup {t} \/ ~local[t].ok]_vars
  BY <1>1
<1> QED
  BY <1>2, Invariance, PTL DEF Spec, ExitWaitsForAll
=============================================================================
