# Verification of the Dalvik VM

TLA+ models of this Dalvik VM (Android 1.6, ported to 64-bit macOS): object
locks, monitors, thread suspension and life cycle, class loading and
initialization, the instanceof cache, the garbage collector with its heap
worker, and the data flow of the bytecode verifier. TLC checks them on small
instances; TLAPS proves the object lock, the monitor's books, the start and exit
of threads, the cache, the collector, the heap worker and the verifier's data
flow correct for every value of the constants.

## The system and its parts

| Part | Source | Module | State |
|---|---|---|---|
| object locks | `vm/Sync.c` | `ThinLock`, `JavaLock`, `ThinLockProofs` | all but freeing monitors with their objects |
| monitors, interrupt, sleep | `vm/Sync.c`, `native/java_lang_VMThread.c` | `Monitor`, `MonitorProofs` | modelled |
| suspension | `vm/Thread.c`, `vm/SignalCatcher.c` and callers | `ThreadSuspend` | all but the debugger's method invocation |
| creation, attach, detach, exit | `vm/Thread.c`, `vm/Jni.c`, `vm/Misc.c` | `ThreadLifecycle`, `ThreadLifecycleProofs` | interpreted and native threads; not internal threads and `dvmSlayDaemons` |
| JDWP | `vm/jdwp` | `ThreadSuspend` | event token, suspending part of events and commands |
| class loading | `vm/oo/Class.c`, `vm/oo/Resolve.c` | `ClassLinker` | boot class path: find, load, link, verify, initialise, use |
| type-check cache | `vm/AtomicCache.[ch]` | `AtomicCache`, `AtomicCacheProofs` | lookup and update |
| garbage collector | `vm/alloc/MarkSweep.c`, `HeapBitmap.c`, `Heap.c` | `MarkSweep`, `HeapBitmap`, `MarkSweepProofs`; `ThreadSuspend` | marking, references, finalization, sweep; stop-the-world |
| heap worker | `vm/alloc/HeapWorker.c` | `HeapWorker`, `HeapWorkerProofs` | start-up, loop, trim, waiting callers, shutdown |
| verifier | `vm/analysis/CodeVerify.c` | `CodeFlow`, `RegType`, `CodeFlowProofs` | data flow and merging of types |

`PROJECT.json` lists every part, the ones not modelled with the reason.

How they interact: a thread enters the list and gets an ID (`ThreadLifecycle`);
the ID names it as owner in a lock word (`ThinLock`); a contended or waited-on
lock becomes a monitor (`Monitor`), such as the one of a class that a thread
links or initialises (`ClassLinker`, which verifies a class first: `CodeFlow`).
Collections, dumps and the debugger stop the threads of the list
(`ThreadSuspend`); a collection then marks and sweeps (`MarkSweep`) and leaves
finalizers and references to the heap worker (`HeapWorker`). The modules are
composed through these interfaces only: `ThinLock` takes threads as their own
IDs and so relies on IDs being unique, which can fail (see below); `MarkSweep`
takes the world as stopped; `HeapWorker` takes suspension as one step followed
by a wait for the others.

## Modules

* **ThinLock**: the lock word of one object. Every load and store another thread
  can race with is a step; `pc` labels begin with `l_`/`m_` in `dvmLockObject`
  and `lockMonitor`, `u_` in `dvmUnlockObject`, `w_` in `dvmObjectWait` and
  `waitMonitor`. The count of a thin lock is kept modulo `CountMod`. `tracked` is
  the list of locked objects each thread keeps (monitor tracking is compiled in).
* **JavaLock**: the re-entrant lock that `ThinLock` implements; `Holder`,
  `HeldDepth` and `SavedDepth` are the refinement mapping.
* **Monitor**: wait, notify, notifyAll, sleep, interrupt and interrupted with the
  three counters of a monitor. What `mon->lock` protects is one step; accesses
  to `interrupted` and `waitMonitor` outside it are steps of their own.
* **ThreadSuspend**: an operation (`"gc"`, `"hprof"`, `"dump"`, `"trace"`,
  `"event"`, `"command"`, `"disconnect"`, `"native"`, `"attach"`) is the sequence
  of steps the code performs, kept in `frame[t].todo`. The signal catcher dumps
  on SIGQUIT (`"dump"`) and collects on SIGUSR1 (`"hprof"`, compiled in). A
  failed assertion aborts the VM. `Programs` are sets of operations that occur
  together.
* **ThreadLifecycle**: start handshake, attach with its failure paths, detach,
  ID bitmap, non-daemon count, DestroyJavaVM. The main thread may have detached
  when it calls DestroyJavaVM: it is attached again, or goes to the shutdown
  without a wait when that is refused or fails (`"skipWait"`).
* **ClassLinker**: `stack[t]` holds the calls of `dvmResolveClass`,
  `findClassNoInit`, `dvmLinkClass`, `dvmInitClass`, `dvmFindClass` and of static
  uses a thread is in; `cls` the `ClassObject`s with status, lock and waiters;
  `loaded` and `resolved` the two tables. Reads of the status without the lock
  are steps of their own. Which steps may fail is a constant. `mode` is
  `gDvm.classVerifyMode` as far as it concerns classes of the boot class path:
  `"none"`, to which `Init.c:770` and `Init.c:814` set it in a VM whatever the
  options say (so that a class goes from `CLASS_RESOLVED` to its initialisation),
  and `"all"`, which only dexopt can ask for (`Init.c:1257`); the run has both. In
  mode `"all"` a class is verified unless it is in `Preverified`. What linking
  computes (layout, vtables) is left out. The wait in `findClassNoInit` is
  modelled but never entered, because the linking thread keeps the class locked.
  The asserts after the second lookup and before the return of `findClassNoInit`
  set `aborted`, which ends the behaviour.
* **AtomicCache**: one entry, since a lookup touches only one. Each field access
  is a step, the version is 64 bits wide and `firstVersion` is cut to 32
  (`VersionSpan`). That two classes differ in their low 32 bits is assumed
  (`LowIsInjective`).
* **MarkSweep**: one collection, from the root set to the sweep, object by
  object: mark bitmap, finger, mark stack, the pointer buffer of the bitmap walk,
  the three reference lists and the heap worker's tables. An object is an
  address. Objects are walked by `Walk`, the sequence of bitmap words in the
  order the code visits them; every Reference is taken to have a queue.
* **HeapBitmap**: that sequence, with the sort of `createSortedBitmapIndexList`.
  Words past a bitmap's `max` hold no marks and are walked too.
* **HeapWorker**: the worker, collectors, callers of
  `dvmWaitForHeapWorkerIdle` and the shutdown, with the heap lock, the worker's
  lock and its two conditions. `trim` is the deadline of the next heap trim.
* **CodeFlow**: `doCodeVerification` for one method. `Effect` (what an opcode
  checks and does to the registers) and `Merge` are constants. The order of the
  `updateRegisters` calls of one instruction is left open, which covers the
  code's. A branch target is the first instruction, a target of a branch or a
  switch, or any handler of the table, thrown to or not; a move-exception that is
  reached without a throw is refused. Registers are kept at branch targets, and with `-Xgenregmap` or in
  dexopt at `gcPoint`s too. A self-branch has its flag cleared after the merge;
  that this does no harm is `MethodAssumption`.
* **RegType**: `gDvmMergeTab` and the merging of class references. A type is a
  word: a simple type or the address of a class. `RegType` is a `u4`, so
  `regTypeFromClass` cuts a pointer of this 64-bit port to `RegTypeBits` and
  `regTypeInitializedReferenceToClass` takes the rest for a pointer again; that
  nothing is lost is assumed (`AddressesFit`). Arrays and uninitialised
  references are left out.
* **MC...** hold the instances for TLC. Operators commented "Mutant" are faulty
  variants that show which property notices the fault.

Memory is sequentially consistent in all models, although `MEM_BARRIER` only
restrains the compiler. Time is not modelled: a timeout may happen at any
moment, and spin loops that abort the VM after seconds spin on.

## Runs

| Run | Checks | Shows |
|---|---|---|
| `ThinLock` | `MutualExclusion`, `DepthIsTracked`, `OnlyOutsidersFail`, `OnlyHolderWrites`, `ImplementsJavaLock` | the lock is a re-entrant lock through every thin/fat transition |
| `MonitorUntimed` | `NoLostWakeup`, `InterruptReachesSleeper`, `MonitorAssertions`, `NotifyFindsSleeper` | without timeouts no notification or interrupt is lost |
| `MonitorLive` | `TimedWaitEnds`, `InterruptEndsWait` | timed waits, sleeps and interrupted waits return |
| `SuspendCollect` | `StopTheWorld`, `CollectionEnds` | competing collectors stop the world and finish |
| `SuspendDebug` | `NoLostResume`, `BooksBalance`, `CountAssertions`, `DebuggerCanResume` | suspend counts and wakeups stay right among collector, tracer, dumper and events, and among debugger commands, events, tracers and attaching threads; a traced JDWP thread is let go again |
| `LifecycleStart` | `ListIsRight`, `ParentFindsChild`, `StartIsSignalled`, `ExitWaitsForAll` | start, attach, failure and exit together, the main thread attached or not |
| `ClassLinker` | `OneDefinition`, `InitOnceSuperFirst`, `FoundIsInitialised`, `FinalStatus`, `EveryCallReturns` | two threads define, link and initialise each class once, superclass first, through failures, and nobody waits for ever |
| `AtomicCache` | `RightAnswer`, `OneWriter` | an unlocked lookup never believes a torn or foreign entry |
| `MarkSweep` | `StrongMarkIsExact`, `ScannedOnce`, `ClearedTogether`, `FinalizesTheUnreachable`, `SurvivorsAreWhole` | every small heap is marked exactly, each object scanned once, references cleared together, and nothing alive points to freed memory |
| `HeapWorker` | `WatchdogSeesMethod`, `IdleMeansDone`, `QueueDrains`, `CallsReturn` | queued work is done, waiting callers return when it is, no deadlock with collectors or shutdown |
| `CodeFlow` | `AcceptedIsTyped`, `NoStrayFlag`, `Terminates` | methods the verifier accepts are soundly typed, and it always ends |
| `MarkSweepHeaps` | `StrongMarkIsExact` violated | with three bitmaps the walk may go backwards and miss an object |

`MarkSweepHeaps`: `createSortedBitmapIndexList` compares `hbs[j].base` with
`hbs[i].base` but swaps entries of the list, which by then may stand for other
bitmaps (`HeapBitmap.c:327`). Bitmaps at 3, 1, 2 come out in the order 2, 3, 1.
Two bitmaps are always sorted, which `MCMarkSweep` checks as an assumption; the
comment before the loop says "numBitmaps is usually 2 or 3". In this port the
fault is latent: a third heap comes with the zygote, and even `-Xzygote` sets
`gDvm.zygote` to false (`Init.c:688`).

What restricts the passing runs is what the disagreements below show.
`MonitorUntimed` has no timeouts, because a wait that times out forgets its
notification or interrupt. `SuspendCollect` has threads that only run or
collect, because a thread that returns from native code, or gets the list lock,
may run during a collection. `DebuggerCanResume` says nothing of programs with
collections or dumps, because with them the JDWP thread can be stopped for good;
what it says is about the program with commands, events and stack traces, where
a trace suspends the JDWP thread like any other. That program has no dump, and
no program has both `"gc"` and `"hprof"`, for the reasons below. Exits of
`ExitWaitsForAll` whose attach failed half-way are excluded, because they wait
for nobody. `OneDefinition` does not say that a class is linked when
`findClassNoInit` returns it, because an assertion to that effect may fail.
`SurvivorsAreWhole` excludes collections that list a reference after the lists
were latched. `QueueDrains` and the second half of `CallsReturn` suppose that
the program goes on collecting (`CollectsOn`), because a signal to the worker
can be lost. `HeapWorker` and `LifecycleStart` do not check for deadlock: the
VM may stop, and a caller may be left behind when the worker has exited.

### Further disagreements

TLC finds these with the same modules, the property and the constants named; no
run is kept for them.

* `ThinLock`, `MaxDepth > CountMod`: `MutualExclusion` fails. The count of a thin
  lock wraps (`Sync.c:746`), and the next unlock frees the object.
* `Monitor`, three threads, all `Timed`: `NotifyFindsSleeper` fails. A waiter
  that was signalled and returns by ETIMEDOUT does not take its notification off
  `mon->notifying` (`Sync.c:581`); `notifyMonitor` ("Notify one thread waiting on
  this monitor", `Sync.c:661`) then signals nobody although a thread sleeps.
* `Monitor`, `Sleeps` and `Interrupts` both threads of two: `RepairAssertion`
  (`Sync.c:523`) fails after a sleeper times out while being interrupted.
* `Monitor`, `Timed` and `Interrupts` all of three threads:
  `InterruptReachesSleeper` fails, from the same omission at `Sync.c:581`.
* `Monitor`, `Throwing = {FALSE}` or `Queries = TRUE`: `InterruptStaysRaised`
  ("stays raised until queried or thrown", `Thread.h:168`) fails at
  `Sync.c:654` and `java_lang_VMThread.c:131`.
* `ThreadSuspend`, `Programs = {{"gc", "native"}}`: `StopTheWorld` fails.
  `dvmChangeStatus` checks for suspension and then sets THREAD_RUNNING
  (`Thread.c:2749`), and a suspend-all may come between; `Thread.c:2442` says
  "Any attempt to transition back to THREAD_RUNNING will cause a check for
  suspension, so it should be impossible for anything to execute interpreted
  code or modify objects".
* `ThreadSuspend`, `Programs = {{"gc", "trace"}}`, three mutators:
  `StopTheWorld` fails. `dvmLockThreadList` restores the status it saved
  (`Thread.c:476`) after suspend-all has released the list lock.
* `ThreadSuspend`, `Programs = {{"gc", "event", "attach"}}`, three mutators, one
  of them an outsider: `CountAssertions` (`Thread.c:2708`) fails. A collection's
  resume lowers the count of a thread it never suspended.
* `ThreadSuspend`, `Programs = {{"gc", "event", "command"}}` or with `"dump"`
  for `"gc"`, `MaxCount = 2`: `DebuggerCanResume` without its hypothesis fails.
  An event suspends the collector, or the signal catcher, before its resume,
  while the JDWP thread is suspended by it.
* `ThreadSuspend`, `Programs = {{"gc", "hprof"}}`, one mutator: `CollectionEnds`
  fails. `hprofDumpHeap` waits for the heap lock in THREAD_RUNNING
  (`Heap.c:1068`), where `dvmLockHeap` goes to THREAD_VMWAIT first
  (`Heap.c:174`); the collector that has the lock waits for it to stop.
* `ThreadSuspend`, `Programs = {{"command", "event", "dump"}}`, `MaxCount = 2`:
  `BooksBalance` fails. The JDWP thread in `dvmDbgResumeThread`, in THREAD_VMWAIT
  for the list lock, passes for stopped; it gets the lock while the dump goes on
  (`Thread.c:476`) and lowers a count that belongs to the dump
  (`Thread.c:2158`).
* `ThreadLifecycle`, two children and a native thread: `UniqueIds` fails.
  `interpThreadStart` takes an ID (`Thread.c:1412`) before it takes the lock that
  `Thread.c:872` asks for: "The threadListLock must be held by the caller
  (needed for assignThreadId())".
* `ThreadLifecycle`, `AttachFails`: `FreedWithoutId` fails (`Thread.c:1911`).
* `ThreadLifecycle`, `MaxThreadId` not a multiple of `WordBits`: `IdInRange`
  fails (`Misc.c:205`).
* `ThreadLifecycle`, `AttachFails`: `ExitWaitsForAll` without the exception for a
  failed attach fails. DestroyJavaVM takes any failure to attach for a VM that is
  "shutting down" (`Jni.c:3105`) and shuts it down under the other threads.
* `ThreadLifecycle`, one child and one daemon attach: `ExitIsSignalled` fails
  (`Jni.c:2988`).
* `ClassLinker`, `Base` and `Derived`, no failures, `MaxClass = 2`:
  `StaticUseIsInitialised` fails. A method resolved by the thread that is in the
  middle of the class's `<clinit>` is put where all threads find it; "The class
  is initialized, the method has been found." (`Resolve.c:256`) is then false.
* `ClassLinker`, `LinkFails = {Base}`: `WinnerIsThere` fails. The winner of two
  loads may fail to link and be gone when the loser looks for it (the assertion
  after "Grab the winning class.", `Class.c:1565`).
* `ClassLinker`, `ClinitFails = {Base}` or `VerifyFails = {Derived}`:
  `FoundIsLinked` fails. After the unlock (`Class.c:1615`), or the test for
  `CLASS_ERROR` (`Class.c:1679`), another thread's initialisation of the class
  may fail, and `assert(dvmIsClassLinked(clazz))` (`Class.c:1691`) with it. The
  property holds when neither verification nor `<clinit>` fails.
* `RegType`: `AddressesFit` is an assumption the port does not meet by itself.
  "For reference types it holds a pointer to the ClassObject"
  (`CodeVerify.h:103`), but the type is a `u4`: of a pointer above 4 GB it holds
  the low half, `CodeVerify.c:487` makes a pointer of that and
  `findCommonSuperclass` follows it. It does no harm while the VM runs with
  `VERIFY_MODE_NONE`.
* `MarkSweep`, `Heaps <- ReferenceHeaps`: `AlwaysWhole` fails. A phantom
  referent is followed after the lists were latched; a weak reference found on
  the way keeps a referent that is swept, against "all objects that it points to
  must be valid" (`MarkSweep.c:889`).
* `MarkSweep`, `Bitmaps <- ThreeHeaps`: `FingerIsMonotonic` fails with
  `StrongMarkIsExact`.
* `HeapWorker`: `SignalIsHeard` fails. A collection or a waiting caller that
  signals while the worker has released its lock to take the heap's
  (`HeapWorker.c:360`) is not heard, and the worker sleeps with work queued;
  "Wake up the heap worker to let it know that there's work to be done"
  (`HeapWorker.c:406`).

These hold: `StackWalkIsSafe` with `Programs = {{"trace", "disconnect"}}`;
`ExitIsSignalled` and `StartReturns` with children only and no attaches.

## Bounds and fairness

`ThinLock` has three threads (holder, spinner, and one that fattens or takes the
fattened lock in between), two monitors and depth three, the full range of a
count modulo three. `MonitorUntimed` has four threads: two sleepers, a notifier
and an interrupter. `SuspendCollect` has three mutators, `SuspendDebug` one and
an outsider that attaches, besides the JDWP thread and the signal catcher, and
at most `MaxCount` debugger suspensions. `LifecycleStart` has two children, a
native thread and the main thread, and three IDs in one word of the bitmap, so
that a fourth thread finds none left. Symmetry is used only in runs without liveness.

`ClassLinker` has two threads with one call each from outside (the calls of a
`<clinit>` come on top), a superclass, a subclass and a class that names itself
as superclass, and four `ClassObject`s, enough for every load that is lost.
`AtomicCache` has three threads, three pairs that share the entry and
`VersionSpan = 4`, so that the version outgrows what a lookup can read; the
state space is finite because nobody can update an entry after that.
`MarkSweep` takes every heap of three objects of the shapes in `MCMarkSweep`,
one mark per word and a buffer of two: enough for an object before, at and
behind the finger, for a reference, its referent and a finalizable object, and
for a buffer that is handed over while the walk goes on. `HeapWorker` has one
mutator besides the main thread, one reference and one finalizable object.
`CodeFlow` has all methods of four instructions over the opcodes and targets in
`MCCodeFlow`: loops, joins, switches and handlers that meet an earlier
instruction again with wider types. The merge laws are checked for the whole
table by assumptions of `MCCodeFlow`. `ClassLinker` begins in either verify mode.

Fairness: the operating system runs every thread that can run (WF). Mutexes are
granted to a thread that finds them free again and again, a deadline passes, a
Java program leaves its synchronized blocks and class initializers (SF),
finalizers return, and interpreted code reaches safepoints (WF).
`CollectionEnds` needs no more than that because a loser of the suspend lock
stops for the winner. `InterruptEndsWait` assumes that the interrupter does not
give up after its half second (`GivesUp = FALSE`). Nothing makes the program
allocate, call or shut down, and nothing makes a wait return without a signal.
`CodeFlow` is sequential: it takes its next step (WF).

## Proofs

All theorems are for every value of the constants that meets the assumptions
named in the modules.

**Object lock.** `ThinLockProofs` proves, for every set of threads and monitors
and every `MaxDepth <= CountMod` (the hypothesis is necessary, see above):
`TypeOK`, `MutualExclusion`, `DepthIsTracked`, `OnlyOutsidersFail`,
`FreshOwnerFindsZero`, `FatForever` and `OnlyHolderWrites`, and from them
`ImplementsJavaLock` (`Refinement`). `MutualExclusion` is not inductive: it does not say why the holder's copy of the lock word is current
or who has the mutex. `LockInv` adds the shape of the word (`WordInv`), that an
owner has the mutex and that an unowned monitor has count zero (`MonInv`), and
for each thread what its place in the code implies about the thin word
(`ThinPart`), the monitor (`FatPart`), its list of locked objects
(`TrackedPart`) and exceptions (`FailPart`). `AbstractStep` then maps each
action to a step of `JavaLock` or to stuttering.

**Cache.** `AtomicCacheProofs` proves `RightAnswer` and `OneWriter` for any
number of threads, pairs and any width of the version. The invariant says who
owns the entry and what it has written (`WriterInv`), that the entry answers
rightly whenever its version is even (`Consistent`), and that what a reader has
read is still in the entry if the version is still the one it read
(`ReaderInv`).

**Monitor.** `MonitorProofs` proves, for every finite set of threads, any
monitors and any depth, when no wait is timed (`Untimed`; with timeouts they
fail, see above): `MonitorAssertions`, `NoLostWakeup`, `NotifyFindsSleeper` and,
when interrupters do not give up (`~GivesUp`), `InterruptReachesSleeper`. None
of them is inductive. `CallInv` and `LockInv` say what a thread holds where it
is in its call and who sleeps where; `NotifyInv` says that while a thread
sleeps, or is about to, the pending notifications are no more than the waiters
that are awake to take them (`Ready`); `ChaseInv` says that a waiter whose flag
is up has been told or is being pursued. What is used of cardinalities is one
definition, `CardLaws`, which the last section proves.

**Threads.** `ThreadLifecycleProofs` proves `ParentFindsChild`,
`StartIsSignalled`, `ListIsRight` and the action property `ExitWaitsForAll` for
any finite sets of children and native threads and any bitmap, with a main thread
that may be detached when it destroys the VM. The invariant
says for each place in the code whether a thread is in the list and with which
status (`PlaceInv`), how far a parent and its child are in the handshake
(`FamilyInv`), who may sleep on the one condition (`SleepInv`), and what is
counted (`CountInv`); it holds until `assignThreadId` aborts the VM for want of
IDs (`Dead`). A step concerns one thread (`Solo`) or a parent and its child
(`Duo`), and one lemma for each says that the other threads' parts are kept.

**Collector.** `MarkSweepProofs` proves `SurvivorsAreWhole`, `ClearedTogether`,
`StrongMarkIsExact` and `FinalizesTheUnreachable` for every heap, word and buffer
size, under `GoodWalk`: the walk covers the heap in address order, which is what
three bitmaps may break. The invariant is the tri-colour one (`ColourInv`: what
is marked and not scanned is on the stack, in the buffer or ahead of the walk;
what is scanned points to marked objects or is a listed reference), with the
place of the finger (`WalkInv`) and what each phase leaves behind (`PhaseInv`).
That nothing too much is marked needs `OriginInv`, every mark is in each closed
set that contains the roots, and `FinalInv` for the finalizers. With words and
bitmaps that do not overlap (`OrderedWalk`, an assumption of `MCMarkSweep` for
two bitmaps) `ScannedOnce` and `FingerIsMonotonic` follow as well.

**Heap worker.** `HeapWorkerProofs` proves `WatchdogSeesMethod`, `IdleMeansDone`
and `ReferencesFirst` for any threads, references and finalizable objects. The
invariant says who has which lock and who is stopped (`LockInv`), when an object
is noted (`CurrentInv`), that nothing is queued twice (`BatchInv`), and that what
a caller waits for is done when the worker comes round to its broadcast, and
stays done (`GoalInv`).

**Verifier.** `CodeFlowProofs` proves `AcceptedIsTyped` and `NoStrayFlag` for
methods of any length, any opcodes and any merge that gives upper bounds, with
registers kept at branch targets (`OnlyBranches`, the default). The invariant
says that registers an instruction leaves have been delivered to its successors
or that those are marked (`EdgeInv`, `UpdateInv`), that the table holds what a
branch target was verified with (`StableInv`), and that a flag outside the
branch targets is next to the instruction just verified (`CarryInv`).

TLC finds each of these invariants to hold on the instance of its run.

Only model-checked: everything about `ThreadSuspend` and `ClassLinker`, whose
threads are sequences of steps or of calls; monitors with timed waits; the
verifier with GC points; that `mergeTypes` meets the laws the verifier's proof
assumes, for classes that meet `AddressesFit`. Out of the prover's reach: liveness under fairness and ENABLED,
induction over data, and modules with RECURSIVE operators (there are none).

## Not modelled

* Class loaders written in Java, array and proxy classes, `java.lang.Class`
  itself, which is initialised as soon as it is found; a cycle of superclasses
  over two classes linked by two threads, and two classes whose initializers
  need each other, where the language allows a deadlock.
* A collection during `dvmHeapWorkerStartup` and a finalizer that waits for the
  heap worker: both are deadlocks that comments in `HeapWorker.c` own up to. The
  zygote's path, spurious wakeups of the worker, and calls that come before the
  worker's first broadcast.
* How roots are found, allocation, growth limits and heap source: sequential
  arithmetic under the heap lock around an external allocator.
* What an opcode checks, uninitialised references, arrays, static checks of the
  verifier, and the optimizer: sequential, over instruction encodings.
* The debugger's method invocation, event registration and packets; internal VM
  threads and `dvmSlayDaemons`; a Thread object that Java code starts while it is
  being attached (`Thread.c:1858`).
* Reference tables, hash tables, tracing and the linear allocator: sequential
  code used under one lock.
* The interpreter's instructions, exceptions, reflection, file formats and the
  core libraries: sequential, or pure input and output.
