----------------------------- MODULE ClassLinker ----------------------------
(***************************************************************************)
(* Loading, linking and initialising classes (vm/oo/Class.c), with the     *)
(* resolution that asks for them (vm/oo/Resolve.c).                        *)
(*                                                                         *)
(* A thread is a stack of calls.  "find" is findClassNoInit with the       *)
(* dvmLinkClass it makes, "init" is dvmInitClass, "forName" is             *)
(* dvmFindClass and "static" is an invoke-static or a static field access  *)
(* of the interpreter.  A class is reached by its descriptor; its          *)
(* ClassObject is a number, 0 is NULL.                                     *)
(*                                                                         *)
(* A step is a stretch of code with one access to what other threads can   *)
(* change.  The object lock of a class is the re-entrant lock that         *)
(* JavaLock specifies.  A wait may end by itself, as pthread_cond_wait     *)
(* may.  The exceptions that say why a call failed are not told apart.     *)
(***************************************************************************)
EXTENDS Integers, Sequences, FiniteSets

CONSTANTS
  Thread, NoThread,
  Name,         \* class descriptors
  LinkDeps,     \* for each name, what linking resolves: superclass first
  Uses,         \* for each name, the classes its code refers to
  LinkFails,    \* names that may fail to load or link by themselves
  VerifyFails,  \* names the verifier or the loader check may reject
  ClinitFails,  \* names whose <clinit> may throw
  Preverified,  \* names with CLASS_ISPREVERIFIED
  VerifyModes,  \* values gDvm.classVerifyMode may have
  MaxClass,     \* bound: ClassObjects in use at a time
  MaxCalls      \* bound: calls a thread makes from outside

ASSUME LinkerAssumption ==
  /\ NoThread \notin Thread
  /\ LinkDeps \in [Name -> Seq(Name)]
  /\ Uses \in [Name -> Seq(Name)]
  /\ LinkFails \cup VerifyFails \cup ClinitFails \cup Preverified \subseteq Name
  /\ VerifyModes \subseteq {"none", "all"} /\ VerifyModes # {}
  /\ MaxClass \in Nat /\ MaxCalls \in Nat

VARIABLES
  cls,       \* the ClassObjects
  loaded,    \* gDvm.loadedClasses: the ClassObject of each name
  resolved,  \* pDvmDex->pResClasses
  members,   \* pDvmDex->pResMethods: names with a resolved static member
  stack,     \* the calls each thread is in, outermost first
  outcome,   \* result of the last call a thread made from outside
  calls,     \* calls made so far
  aborted,   \* a failed assert has stopped the VM
  mode       \* gDvm.classVerifyMode

vars ==
  <<cls, loaded, resolved, members, stack, outcome, calls, aborted, mode>>
tables == <<loaded, resolved, members>>
outside == <<calls, aborted, mode>>

Class == 1 .. MaxClass
NULL == 0

\* ClassStatus
ERROR == -1
LOADED == 1
RESOLVED == 3
VERIFYING == 4
VERIFIED == 5
INITIALIZING == 6
INITIALIZED == 7
Statuses ==
  {ERROR, LOADED, RESOLVED, VERIFYING, VERIFIED, INITIALIZING, INITIALIZED}

ClassObject ==
  [name : Name, status : Statuses, super : 0 .. MaxClass,
   initThreadId : Thread \cup {NoThread}, owner : Thread \cup {NoThread},
   depth : Nat, waiters : SUBSET Thread]

\* A call: what it does next (pc), the class it is about, the position in a
\* list (i), the result of the call it made (v), whether all went well (ok)
\* and whether dvmResolveClass asked, which caches the answer.
Frame == [op : {"find", "init", "forName", "static"}, pc : STRING, name : Name,
          c : 0 .. MaxClass, i : Nat, v : 0 .. MaxClass, ok : BOOLEAN,
          cache : BOOLEAN]

Call(op, pc, n, c, cache) ==
  [op |-> op, pc |-> pc, name |-> n, c |-> c, i |-> 1, v |-> NULL,
   ok |-> TRUE, cache |-> cache]
ResolveClass(n) == Call("find", "resolve", n, NULL, TRUE)
FindClassNoInit(n) == Call("find", "lookup", n, NULL, FALSE)
InitClass(c) == Call("init", "lock", cls[c].name, c, FALSE)
StaticUse(n) == Call("static", "resolve", n, NULL, FALSE)
ForName(n) == Call("forName", "resolve", n, NULL, FALSE)

\* dvmIsClassLinked
IsLinked(c) == cls[c].status >= RESOLVED

-----------------------------------------------------------------------------
(* The call stack.                                                         *)

Top(t) == stack[t][Len(stack[t])]
At(t, op, pc) ==
  stack[t] # <<>> /\ ~aborted /\ Top(t).op = op /\ Top(t).pc = pc

Goto(t, f) == stack' = [stack EXCEPT ![t][Len(stack[t])] = f]
Step(t, pc) == Goto(t, [Top(t) EXCEPT !.pc = pc])

\* Call f; the caller goes on at pc.
Push(t, pc, f) ==
  stack' = [stack EXCEPT ![t] = Append([@ EXCEPT ![Len(@)].pc = pc], f)]

\* The callee's result is the caller's to read; the outermost call leaves it
\* in outcome.
Return(t, result) ==
  LET s == stack[t] IN
  IF Len(s) = 1
  THEN /\ stack' = [stack EXCEPT ![t] = <<>>]
       /\ outcome' = [outcome EXCEPT ![t] = result]
  ELSE /\ stack' = [stack EXCEPT
             ![t] = [SubSeq(s, 1, Len(s) - 1) EXCEPT ![Len(s) - 1].v = result]]
       /\ UNCHANGED outcome

-----------------------------------------------------------------------------
(* The object lock of a class, and Object.wait and notifyAll on it.  A     *)
(* step that takes the lock and lets it go again needs it to be free.      *)

CanLock(t, c) == cls[c].owner \in {NoThread, t}
Locked(r, t) == [r EXCEPT !.owner = t, !.depth = @ + 1]
Unlocked(r) ==
  [r EXCEPT !.depth = @ - 1, !.owner = IF r.depth = 1 THEN NoThread ELSE @]
Notified(r) == [r EXCEPT !.waiters = {}]

\* dvmObjectWait lets the lock go whatever its depth.
ObjectWait(t, c) ==
  /\ cls' = [cls EXCEPT ![c].owner = NoThread, ![c].depth = 0,
                        ![c].waiters = @ \cup {t}]
  /\ Goto(t, [Top(t) EXCEPT !.pc = "waiting", !.i = cls[c].depth])
  /\ UNCHANGED outcome

\* It returns with the lock, as deep as it was.
Woken(t) ==
  /\ \E op \in {"find", "init"} : At(t, op, "waiting")
  /\ LET c == Top(t).c IN
     /\ t \notin cls[c].waiters
     /\ cls[c].owner = NoThread
     /\ cls' = [cls EXCEPT ![c].owner = t, ![c].depth = Top(t).i]
  /\ Goto(t, [Top(t) EXCEPT !.pc = "locked", !.i = 1])
  /\ UNCHANGED <<tables, outcome, outside>>

\* pthread_cond_wait may return without a signal.
SpuriousWakeup(t, c) ==
  /\ ~aborted
  /\ t \in cls[c].waiters
  /\ cls' = [cls EXCEPT ![c].waiters = @ \ {t}]
  /\ UNCHANGED <<tables, stack, outcome, outside>>

-----------------------------------------------------------------------------
(* findClassNoInit, for a class of the boot class path, and dvmLinkClass.  *)

\* dvmResolveClass, dvmOptResolveClass: the table of resolved classes first.
Resolve(t) ==
  /\ At(t, "find", "resolve")
  /\ LET n == Top(t).name IN
     IF resolved[n] # NULL
     THEN Return(t, resolved[n])
     ELSE Step(t, "lookup") /\ UNCHANGED outcome
  /\ UNCHANGED <<cls, tables, outside>>

\* dvmLookupClass
Lookup(t) ==
  /\ At(t, "find", "lookup")
  /\ LET found == loaded[Top(t).name] IN
     Goto(t, [Top(t) EXCEPT !.c = found,
                            !.pc = IF found = NULL THEN "load" ELSE "got"])
  /\ UNCHANGED <<cls, tables, outcome, outside>>

\* ClassObjects something still points to; the collector frees the others.
Referenced ==
  {loaded[n] : n \in Name} \cup {resolved[n] : n \in Name}
    \cup UNION {{stack[t][k].c : k \in DOMAIN stack[t]} : t \in Thread}
Unreferenced == Class \ Referenced
Fresh == CHOOSE c \in Unreferenced : \A d \in Unreferenced : c <= d

\* Mutant: the table is not looked at again before the class is added.
LoadAndAddAnyway(t) ==
  /\ At(t, "find", "load")
  /\ LET n == Top(t).name IN
     /\ Unreferenced # {}
     /\ cls' = [cls EXCEPT ![Fresh] =
            [name |-> n, status |-> LOADED, super |-> NULL,
             initThreadId |-> t, owner |-> t, depth |-> 1, waiters |-> {}]]
     /\ loaded' = [loaded EXCEPT ![n] = Fresh]
     /\ Goto(t, [Top(t) EXCEPT !.c = Fresh, !.pc = "link"])
  /\ UNCHANGED <<resolved, members, outcome, outside>>

\* loadClassFromDex, then dvmAddClassToHash with the new class locked.  A
\* class that another thread added in the meantime wins; the new one, which
\* nobody else has seen, is dropped.
LoadAndAdd(t) ==
  /\ At(t, "find", "load")
  /\ LET n == Top(t).name IN
     IF loaded[n] # NULL
     THEN Step(t, "again") /\ UNCHANGED <<cls, loaded>>
     ELSE /\ Unreferenced # {}
          /\ cls' = [cls EXCEPT ![Fresh] =
                 [name |-> n, status |-> LOADED, super |-> NULL,
                  initThreadId |-> t, owner |-> t, depth |-> 1,
                  waiters |-> {}]]
          /\ loaded' = [loaded EXCEPT ![n] = Fresh]
          /\ Goto(t, [Top(t) EXCEPT !.c = Fresh, !.pc = "link"])
  /\ UNCHANGED <<resolved, members, outcome, outside>>

\* The class is not in the DEX file, or loadClassFromDex objects to it.
LoadFailed(t) ==
  /\ At(t, "find", "load")
  /\ Top(t).name \in LinkFails
  /\ Return(t, NULL)
  /\ UNCHANGED <<cls, tables, outside>>

\* "Grab the winning class", with the assert that there is one.
LookupAgain(t) ==
  /\ At(t, "find", "again")
  /\ LET found == loaded[Top(t).name] IN
     IF found = NULL
     THEN aborted' = TRUE /\ UNCHANGED stack
     ELSE /\ Goto(t, [Top(t) EXCEPT !.c = found, !.pc = "got"])
          /\ UNCHANGED aborted
  /\ UNCHANGED <<cls, tables, outcome, calls, mode>>

\* dvmLinkClass resolves the superclass and the interfaces.
LinkResolve(t) ==
  /\ At(t, "find", "link")
  /\ Top(t).i <= Len(LinkDeps[Top(t).name])
  /\ Push(t, "dependency", ResolveClass(LinkDeps[Top(t).name][Top(t).i]))
  /\ UNCHANGED <<cls, tables, outcome, outside>>

LinkResolved(t) ==
  /\ At(t, "find", "dependency")
  /\ LET f == Top(t) IN
     IF f.v = NULL
     THEN /\ cls' = [cls EXCEPT ![f.c].status = ERROR]
          /\ Step(t, "linkFailed")
     ELSE /\ cls' = [cls EXCEPT ![f.c].super = IF f.i = 1 THEN f.v ELSE @]
          /\ Goto(t, [f EXCEPT !.pc = "link", !.i = @ + 1, !.v = NULL])
  /\ UNCHANGED <<tables, outcome, outside>>

\* The rest of dvmLinkClass, up to the status it leaves.
LinkDone(t) ==
  /\ At(t, "find", "link")
  /\ LET f == Top(t) IN
     /\ f.i > Len(LinkDeps[f.name])
     /\ \/ /\ cls' = [cls EXCEPT ![f.c].status =
                   IF f.name \in Preverified THEN VERIFIED ELSE RESOLVED]
           /\ Step(t, "linked")
        \/ /\ f.name \in LinkFails
           /\ cls' = [cls EXCEPT ![f.c].status = ERROR]
           /\ Step(t, "linkFailed")
  /\ UNCHANGED <<tables, outcome, outside>>

\* Back in findClassNoInit: wake the waiters and unlock.
Linked(t) ==
  /\ At(t, "find", "linked")
  /\ cls' = [cls EXCEPT ![Top(t).c] = Unlocked(Notified(@))]
  /\ Step(t, "found")
  /\ UNCHANGED <<tables, outcome, outside>>

\* removeClassFromHash, while the class is still locked ...
Unhash(t) ==
  /\ At(t, "find", "linkFailed")
  /\ loaded' = [loaded EXCEPT ![Top(t).name] = NULL]
  /\ Step(t, "unhashed")
  /\ UNCHANGED <<cls, resolved, members, outcome, outside>>

\* ... then the waiters are told, and the class is unlocked.
LinkFailed(t) ==
  /\ At(t, "find", "unhashed")
  /\ cls' = [cls EXCEPT
       ![Top(t).c] = [Unlocked(Notified(@)) EXCEPT !.initThreadId = NoThread]]
  /\ Return(t, NULL)
  /\ UNCHANGED <<tables, outside>>

\* got_class, and the test after it.  The status is read without the lock.
GotClass(t) ==
  /\ At(t, "find", "got")
  /\ LET c == Top(t).c IN
     \/ IsLinked(c) /\ Step(t, "found") /\ UNCHANGED outcome
     \/ cls[c].status = ERROR /\ Return(t, NULL)
     \/ cls[c].status = LOADED /\ Step(t, "lock") /\ UNCHANGED outcome
  /\ UNCHANGED <<cls, tables, outside>>

GotClassLock(t) ==
  /\ At(t, "find", "lock")
  /\ CanLock(t, Top(t).c)
  /\ cls' = [cls EXCEPT ![Top(t).c] = Locked(@, t)]
  /\ Step(t, "locked")
  /\ UNCHANGED <<tables, outcome, outside>>

\* A recursive link is a ClassCircularityError; otherwise wait for the end of
\* the link.
GotClassLocked(t) ==
  /\ At(t, "find", "locked")
  /\ LET c == Top(t).c IN
     IF ~IsLinked(c) /\ cls[c].initThreadId = t
     THEN cls' = [cls EXCEPT ![c] = Unlocked(@)] /\ Return(t, NULL)
     ELSE IF cls[c].status = LOADED
     THEN ObjectWait(t, c)
     ELSE /\ cls' = [cls EXCEPT ![c] = Unlocked(@)]
          /\ Step(t, "got")
          /\ UNCHANGED outcome
  /\ UNCHANGED <<tables, outside>>

\* dvmDexSetResolvedClass, if dvmResolveClass asked.
SetResolvedClass(f) ==
  resolved' = [resolved EXCEPT ![f.name] = IF f.cache THEN f.c ELSE @]

\* "check some invariants": an assert that the class is linked, read without
\* the lock some time after the last look.  Then the class is returned.  (That
\* java.lang.Class is initialised when found is left out.)
Found(t) ==
  /\ At(t, "find", "found")
  /\ LET f == Top(t) IN
     IF IsLinked(f.c)
     THEN /\ SetResolvedClass(f)
          /\ Return(t, f.c)
          /\ UNCHANGED aborted
     ELSE aborted' = TRUE /\ UNCHANGED <<resolved, stack, outcome>>
  /\ UNCHANGED <<cls, loaded, members, calls, mode>>

-----------------------------------------------------------------------------
(* dvmInitClass.  A result other than NULL is TRUE.                        *)

\* What the failing paths do to a class that is locked.
FailAndUnlock(t, c) ==
  /\ cls' = [cls EXCEPT ![c] = [Unlocked(@) EXCEPT !.status = ERROR]]
  /\ Return(t, NULL)

UnlockAndReturn(t, c, result) ==
  /\ cls' = [cls EXCEPT ![c] = Unlocked(@)]
  /\ Return(t, result)

\* Mutant: an earlier failure is not looked for.
InitLockRetry(t) ==
  /\ At(t, "init", "lock")
  /\ CanLock(t, Top(t).c)
  /\ LET c == Top(t).c
         verified == mode = "none" \/ cls[c].status >= VERIFIED
     IN /\ cls' = [cls EXCEPT ![c] = [Locked(@, t) EXCEPT
                       !.status = IF verified THEN @ ELSE VERIFYING]]
        /\ Step(t, IF verified THEN "locked" ELSE "verify")
  /\ UNCHANGED <<tables, outcome, outside>>

\* Take the lock and see whether the class was verified, or need not be.  An
\* earlier failure leaves at once.
InitLock(t) ==
  /\ At(t, "init", "lock")
  /\ CanLock(t, Top(t).c)
  /\ LET c == Top(t).c IN
     \/ cls[c].status = ERROR /\ Return(t, NULL) /\ UNCHANGED cls
     \/ /\ cls[c].status # ERROR /\ cls[c].status < VERIFIED
        /\ mode = "all"
        /\ cls' = [cls EXCEPT ![c] = [Locked(@, t) EXCEPT !.status = VERIFYING]]
        /\ Step(t, "verify")
        /\ UNCHANGED outcome
     \/ /\ cls[c].status # ERROR
        /\ cls[c].status >= VERIFIED \/ mode = "none"
        /\ cls' = [cls EXCEPT ![c] = Locked(@, t)]
        /\ Step(t, "locked")
        /\ UNCHANGED outcome
  /\ UNCHANGED <<tables, outside>>

\* dvmVerifyClass, with the class locked, resolves what the code refers to.
VerifyResolve(t) ==
  /\ At(t, "init", "verify")
  /\ Top(t).i <= Len(Uses[Top(t).name])
  /\ Push(t, "verifyUse", ResolveClass(Uses[Top(t).name][Top(t).i]))
  /\ UNCHANGED <<cls, tables, outcome, outside>>

VerifyResolved(t) ==
  /\ At(t, "init", "verifyUse")
  /\ Goto(t, [Top(t) EXCEPT !.pc = "verify", !.i = @ + 1, !.v = NULL,
                            !.ok = @ /\ Top(t).v # NULL])
  /\ UNCHANGED <<cls, tables, outcome, outside>>

\* A class the code refers to and that was not found may or may not matter.
Verified(t) ==
  /\ At(t, "init", "verify")
  /\ LET f == Top(t) IN
     /\ f.i > Len(Uses[f.name])
     /\ \/ /\ cls' = [cls EXCEPT ![f.c].status = VERIFIED]
           /\ Goto(t, [f EXCEPT !.pc = "locked", !.i = 1, !.ok = TRUE])
           /\ UNCHANGED outcome
        \/ /\ ~f.ok \/ f.name \in VerifyFails
           /\ FailAndUnlock(t, f.c)
  /\ UNCHANGED <<tables, outside>>

\* With the lock, past the verification: done before, in progress here or
\* elsewhere, failed since, or ours to initialise.
InitTest(t) ==
  /\ At(t, "init", "locked")
  /\ LET c == Top(t).c IN
     \/ cls[c].status = INITIALIZED /\ UnlockAndReturn(t, c, c)
     \/ /\ cls[c].status = INITIALIZING
        /\ cls[c].initThreadId = t
        /\ UnlockAndReturn(t, c, c)
     \/ /\ cls[c].status = INITIALIZING
        /\ cls[c].initThreadId # t
        /\ ObjectWait(t, c)
     \/ cls[c].status = ERROR /\ UnlockAndReturn(t, c, NULL)
  /\ UNCHANGED <<tables, outside>>

\* validateSuperDescriptors, then the class is marked and unlocked.
InitBegin(t) ==
  /\ At(t, "init", "locked")
  /\ LET c == Top(t).c IN
     /\ cls[c].status \in {RESOLVED, VERIFIED}
     /\ \/ /\ cls' = [cls EXCEPT ![c] =
                 [Unlocked(@) EXCEPT !.status = INITIALIZING,
                                     !.initThreadId = t]]
           /\ Step(t, "super")
           /\ UNCHANGED outcome
        \/ Top(t).name \in VerifyFails /\ FailAndUnlock(t, c)
  /\ UNCHANGED <<tables, outside>>

\* Mutant: a superclass whose initialisation has begun will do.
InitSuperBegun(t) ==
  /\ At(t, "init", "super")
  /\ LET super == cls[Top(t).c].super IN
     IF super # NULL /\ cls[super].status < INITIALIZING
     THEN Push(t, "superDone", InitClass(super))
     ELSE Step(t, "clinit")
  /\ UNCHANGED <<cls, tables, outcome, outside>>

\* The superclass comes first; its status is read without its lock.
InitSuper(t) ==
  /\ At(t, "init", "super")
  /\ LET super == cls[Top(t).c].super IN
     IF super # NULL /\ cls[super].status # INITIALIZED
     THEN Push(t, "superDone", InitClass(super))
     ELSE Step(t, "clinit")
  /\ UNCHANGED <<cls, tables, outcome, outside>>

\* A failure of the superclass is written before the lock is taken.
InitSuperDone(t) ==
  /\ At(t, "init", "superDone")
  /\ IF Top(t).v = NULL
     THEN /\ cls' = [cls EXCEPT ![Top(t).c].status = ERROR]
          /\ Step(t, "superFailed")
     ELSE Step(t, "clinit") /\ UNCHANGED cls
  /\ UNCHANGED <<tables, outcome, outside>>

InitSuperFailed(t) ==
  /\ At(t, "init", "superFailed")
  /\ CanLock(t, Top(t).c)
  /\ cls' = [cls EXCEPT ![Top(t).c] = Notified(@)]
  /\ Return(t, NULL)
  /\ UNCHANGED <<tables, outside>>

\* <clinit> uses statics of other classes; the first failure ends it.
Clinit(t) ==
  /\ At(t, "init", "clinit")
  /\ Top(t).i <= Len(Uses[Top(t).name])
  /\ Push(t, "clinitUse", StaticUse(Uses[Top(t).name][Top(t).i]))
  /\ UNCHANGED <<cls, tables, outcome, outside>>

ClinitUsed(t) ==
  /\ At(t, "init", "clinitUse")
  /\ LET f == Top(t) IN
     IF f.v = NULL
     THEN Goto(t, [f EXCEPT !.pc = "finish", !.ok = FALSE])
     ELSE Goto(t, [f EXCEPT !.pc = "clinit", !.i = @ + 1, !.v = NULL])
  /\ UNCHANGED <<cls, tables, outcome, outside>>

ClinitReturns(t) ==
  /\ At(t, "init", "clinit")
  /\ LET f == Top(t) IN
     /\ f.i > Len(Uses[f.name])
     /\ \E ok \in IF f.name \in ClinitFails THEN BOOLEAN ELSE {TRUE} :
          Goto(t, [f EXCEPT !.pc = "finish", !.ok = ok])
  /\ UNCHANGED <<cls, tables, outcome, outside>>

\* Mutant: the waiters are not woken.
InitFinishSilently(t) ==
  /\ At(t, "init", "finish")
  /\ LET f == Top(t) IN
     /\ CanLock(t, f.c)
     /\ cls' = [cls EXCEPT ![f.c].status = IF f.ok THEN INITIALIZED ELSE ERROR]
     /\ Return(t, IF f.ok THEN f.c ELSE NULL)
  /\ UNCHANGED <<tables, outside>>

\* Lock, note the result, wake the waiters, unlock.
InitFinish(t) ==
  /\ At(t, "init", "finish")
  /\ LET f == Top(t) IN
     /\ CanLock(t, f.c)
     /\ cls' = [cls EXCEPT ![f.c] =
           [Notified(@) EXCEPT !.status = IF f.ok THEN INITIALIZED ELSE ERROR]]
     /\ Return(t, IF f.ok THEN f.c ELSE NULL)
  /\ UNCHANGED <<tables, outside>>

-----------------------------------------------------------------------------
(* dvmFindClass, and a use of a static member.                             *)

\* dvmFindClass finds the class; the interpreter looks for the resolved
\* member and only without one goes through dvmResolveMethod.
ForNameFind(t) ==
  /\ At(t, "forName", "resolve")
  /\ Push(t, "found", FindClassNoInit(Top(t).name))
  /\ UNCHANGED <<cls, tables, outcome, outside>>

StaticResolve(t) ==
  /\ At(t, "static", "resolve")
  /\ LET n == Top(t).name IN
     IF n \in members
     THEN Goto(t, [Top(t) EXCEPT !.pc = "use", !.c = resolved[n]])
     ELSE Push(t, "found", ResolveClass(n))
  /\ UNCHANGED <<cls, tables, outcome, outside>>

\* Mutant: a class whose initialisation has begun is taken as initialised.
EnsureInitBegun(t) ==
  /\ \E op \in {"forName", "static"} : At(t, op, "found")
  /\ LET c == Top(t).v IN
     \/ c = NULL /\ Return(t, NULL)
     \/ /\ c # NULL
        /\ UNCHANGED outcome
        /\ IF cls[c].status >= INITIALIZING
           THEN Goto(t, [Top(t) EXCEPT !.pc = "initDone", !.c = c])
           ELSE stack' = [stack EXCEPT ![t] = Append(
                  [@ EXCEPT ![Len(@)].pc = "initDone", ![Len(@)].c = c],
                  InitClass(c))]
  /\ UNCHANGED <<cls, tables, outside>>

\* Both initialise the class unless it is; the status is read without the lock.
EnsureInit(t) ==
  /\ \E op \in {"forName", "static"} : At(t, op, "found")
  /\ LET c == Top(t).v IN
     \/ c = NULL /\ Return(t, NULL)
     \/ /\ c # NULL
        /\ UNCHANGED outcome
        /\ IF cls[c].status = INITIALIZED
           THEN Goto(t, [Top(t) EXCEPT !.pc = "initDone", !.c = c])
           ELSE stack' = [stack EXCEPT ![t] = Append(
                  [@ EXCEPT ![Len(@)].pc = "initDone", ![Len(@)].c = c],
                  InitClass(c))]
  /\ UNCHANGED <<cls, tables, outside>>

ForNameDone(t) ==
  /\ At(t, "forName", "initDone")
  /\ Return(t, Top(t).v)
  /\ UNCHANGED <<cls, tables, outside>>

\* dvmDexSetResolvedMethod, then the use.
StaticResolved(t) ==
  /\ At(t, "static", "initDone")
  /\ IF Top(t).v = NULL
     THEN Return(t, NULL) /\ UNCHANGED members
     ELSE /\ members' = members \cup {Top(t).name}
          /\ Step(t, "use")
          /\ UNCHANGED outcome
  /\ UNCHANGED <<cls, loaded, resolved, outside>>

Use(t) ==
  /\ At(t, "static", "use")
  /\ Return(t, Top(t).c)
  /\ UNCHANGED <<cls, tables, outside>>

-----------------------------------------------------------------------------
\* Code outside asks for a class by name, or uses a static member of one.
Begin(t) ==
  /\ stack[t] = <<>> /\ ~aborted
  /\ calls[t] < MaxCalls
  /\ calls' = [calls EXCEPT ![t] = @ + 1]
  /\ \E n \in Name : \E f \in {ForName(n), StaticUse(n)} :
       stack' = [stack EXCEPT ![t] = <<f>>]
  /\ outcome' = [outcome EXCEPT ![t] = NULL]
  /\ UNCHANGED <<cls, tables, aborted, mode>>

FindStep(t) ==
  \/ Resolve(t) \/ Lookup(t) \/ LoadAndAdd(t) \/ LoadFailed(t)
  \/ LookupAgain(t) \/ LinkResolve(t) \/ LinkResolved(t) \/ LinkDone(t)
  \/ Linked(t) \/ Unhash(t) \/ LinkFailed(t) \/ GotClass(t)
  \/ GotClassLock(t) \/ GotClassLocked(t) \/ Found(t)

InitStep(t) ==
  \/ InitLock(t) \/ VerifyResolve(t) \/ VerifyResolved(t) \/ Verified(t)
  \/ InitTest(t) \/ InitBegin(t) \/ InitSuper(t) \/ InitSuperDone(t)
  \/ InitSuperFailed(t) \/ Clinit(t) \/ ClinitUsed(t) \/ ClinitReturns(t)
  \/ InitFinish(t)

UseStep(t) ==
  \/ ForNameFind(t) \/ StaticResolve(t) \/ EnsureInit(t) \/ ForNameDone(t)
  \/ StaticResolved(t) \/ Use(t)

ThreadStep(t) == FindStep(t) \/ InitStep(t) \/ UseStep(t) \/ Woken(t)

\* The threads may all have made their calls, or a failed assert stopped them.
Stopped == aborted \/ \A t \in Thread : stack[t] = <<>> /\ calls[t] = MaxCalls
Done == Stopped /\ UNCHANGED vars

Init ==
  /\ cls = [c \in Class |->
       [name |-> CHOOSE n \in Name : TRUE, status |-> LOADED, super |-> NULL,
        initThreadId |-> NoThread, owner |-> NoThread, depth |-> 0,
        waiters |-> {}]]
  /\ loaded = [n \in Name |-> NULL]
  /\ resolved = [n \in Name |-> NULL]
  /\ members = {}
  /\ stack = [t \in Thread |-> <<>>]
  /\ outcome = [t \in Thread |-> NULL]
  /\ calls = [t \in Thread |-> 0]
  /\ aborted = FALSE
  /\ mode \in VerifyModes

Next ==
  \/ \E t \in Thread : Begin(t) \/ ThreadStep(t)
  \/ \E t \in Thread, c \in Class : SpuriousWakeup(t, c)
  \/ Done

Spec == Init /\ [][Next]_vars

\* A runnable thread is run, and a lock that is free again and again is
\* taken.  A spurious wakeup, or a call from outside, need not happen.
FairSpec == Spec /\ \A t \in Thread : SF_vars(ThreadStep(t))

-----------------------------------------------------------------------------
(* Properties.                                                             *)

\* The state is of the expected shape.
TypeOK ==
  /\ cls \in [Class -> ClassObject]
  /\ loaded \in [Name -> 0 .. MaxClass]
  /\ resolved \in [Name -> 0 .. MaxClass]
  /\ members \in SUBSET Name
  /\ \A t \in Thread : \A k \in DOMAIN stack[t] : stack[t][k] \in Frame
  /\ outcome \in [Thread -> 0 .. MaxClass]
  /\ calls \in [Thread -> 0 .. MaxCalls]
  /\ aborted \in BOOLEAN
  /\ mode \in VerifyModes

\* One name, one class.  What dvmResolveClass has cached, and what
\* findClassNoInit is about to return, is the class gDvm.loadedClasses holds
\* for the name, and its superclass is the one the table holds; it has
\* been linked, though its initialisation may have failed since.  "Worst case
\* we have two threads storing the same value."
OneDefinition ==
  LET Good(c, n) ==
        /\ c = loaded[n]
        /\ cls[c].status # LOADED
        /\ LinkDeps[n] # <<>> => cls[c].super = loaded[LinkDeps[n][1]]
        /\ LinkDeps[n] # <<>> => cls[c].super # NULL
  IN /\ \A n \in Name : resolved[n] # NULL => Good(resolved[n], n)
     /\ \A t \in Thread :
          At(t, "find", "found") => Good(Top(t).c, Top(t).name)

\* The frames of thread t that are initialising class c.
Initialising(t, c) ==
  {k \in DOMAIN stack[t] :
     /\ stack[t][k].op = "init" /\ stack[t][k].c = c
     /\ stack[t][k].pc \in {"super", "superDone", "superFailed", "clinit",
                            "clinitUse", "finish"}}

\* A class is initialised by one call of dvmInitClass, in one thread, and its
\* <clinit> runs only when its superclass is initialised, or is being
\* initialised further out in the same thread.
InitOnceSuperFirst ==
  /\ \A c \in Class :
       Cardinality(UNION {{<<t, k>> : k \in Initialising(t, c)}
                            : t \in Thread}) <= 1
  /\ \A t \in Thread, c \in Class : \A k \in Initialising(t, c) :
       LET super == cls[c].super IN
       (stack[t][k].pc \in {"clinit", "clinitUse"} /\ super # NULL)
         => \/ cls[super].status = INITIALIZED
            \/ Initialising(t, super) # {}

\* "Once a class fails to initialize, it must always fail", and a class that
\* is initialised stays so: a class that keeps its place in the table never
\* leaves ERROR or INITIALIZED.
FinalStatus ==
  [][\A n \in Name :
       LET c == loaded[n] IN
       (c # NULL /\ loaded'[n] = c /\ cls[c].status \in {ERROR, INITIALIZED})
         => cls'[c].status = cls[c].status]_vars

\* What dvmFindClass returns is an initialised class, or one that this thread
\* is itself initialising further out.
FoundIsInitialised ==
  \A t \in Thread :
    (At(t, "forName", "initDone") /\ Top(t).v # NULL) =>
      \/ cls[Top(t).v].status = INITIALIZED
      \/ Initialising(t, Top(t).v) # {}

\* A static member is used only of a class that is initialised, or by the
\* thread that is initialising it: "The class is initialized, the method has
\* been found" when dvmResolveMethod puts it where all threads find it.
StaticUseIsInitialised ==
  \A t \in Thread :
    At(t, "static", "use") =>
      \/ cls[Top(t).c].status = INITIALIZED
      \/ Initialising(t, Top(t).c) # {}

\* No wait without a waker: a thread that waits in dvmInitClass waits for a
\* class that another thread is initialising and will notify; and the wait in
\* findClassNoInit for a link in progress is never entered, since the linking
\* thread keeps the class locked.
WaiterHasWaker ==
  \A t \in Thread, c \in Class : t \in cls[c].waiters =>
    /\ At(t, "init", "waiting") \/ aborted
    /\ \E u \in Thread \ {t} : Initialising(u, c) # {}

\* The class "Grab the winning class" looks for is there: the assert after the
\* second dvmLookupClass of findClassNoInit holds.
WinnerIsThere ==
  \A t \in Thread : At(t, "find", "again") => loaded[Top(t).name] # NULL

\* The class findClassNoInit is about to return is linked, as the assert before
\* its end says.
FoundIsLinked ==
  \A t \in Thread : At(t, "find", "found") => IsLinked(Top(t).c)

\* Every call returns: no thread is left blocked on a class lock or waiting
\* for an initialisation.
EveryCallReturns ==
  \A t \in Thread : stack[t] # <<>> ~> (stack[t] = <<>> \/ aborted)
=============================================================================
