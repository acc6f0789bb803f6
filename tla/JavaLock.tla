------------------------------ MODULE JavaLock ------------------------------
(***************************************************************************)
(* What the lock of an object promises the Java program: a re-entrant      *)
(* lock that Object.wait gives up completely and takes back as deep as it  *)
(* was.  ThinLock implements it.                                           *)
(***************************************************************************)
EXTENDS Naturals

CONSTANTS Threads, NoThread

VARIABLES
  holder,  \* the thread inside, or NoThread
  depth,   \* how many times it entered
  saved,   \* the depth a waiting thread will return with; 0: not waiting
  failed   \* the last call of a thread threw IllegalMonitorStateException

vars == <<holder, depth, saved, failed>>

Init ==
  /\ holder = NoThread
  /\ depth = 0
  /\ saved = [t \in Threads |-> 0]
  /\ failed = [t \in Threads |-> FALSE]

Call(t) ==
  /\ failed' = [failed EXCEPT ![t] = FALSE]
  /\ UNCHANGED <<holder, depth, saved>>

Enter(t) ==
  /\ holder \in {NoThread, t}
  /\ saved[t] = 0
  /\ holder' = t
  /\ depth' = depth + 1
  /\ failed' = [failed EXCEPT ![t] = FALSE]
  /\ UNCHANGED saved

Exit(t) ==
  /\ holder = t
  /\ depth' = depth - 1
  /\ holder' = IF depth = 1 THEN NoThread ELSE t
  /\ UNCHANGED <<saved, failed>>

GiveUp(t) ==
  /\ holder = t
  /\ saved' = [saved EXCEPT ![t] = depth]
  /\ holder' = NoThread
  /\ depth' = 0
  /\ UNCHANGED failed

TakeBack(t) ==
  /\ holder = NoThread
  /\ saved[t] > 0
  /\ holder' = t
  /\ depth' = saved[t]
  /\ saved' = [saved EXCEPT ![t] = 0]
  /\ UNCHANGED failed

Fail(t) ==
  /\ holder # t
  /\ failed' = [failed EXCEPT ![t] = TRUE]
  /\ UNCHANGED <<holder, depth, saved>>

Next ==
  \E t \in Threads :
    Call(t) \/ Enter(t) \/ Exit(t) \/ GiveUp(t) \/ TakeBack(t) \/ Fail(t)

Spec == Init /\ [][Next]_vars
=============================================================================
