------------------------------ MODULE MarkSweep -----------------------------
(***************************************************************************)
(* One collection: dvmCollectGarbageInternal (vm/alloc/Heap.c) once the    *)
(* world is stopped, with the marking, reference handling and sweeping of  *)
(* vm/alloc/MarkSweep.c and the bitmap walk of vm/alloc/HeapBitmap.c.      *)
(*                                                                         *)
(* An object is its address.  The initial state is any heap of Heaps: what *)
(* the objects point to, what earlier collections scheduled, the roots.    *)
(* Walk is the order in which dvmHeapBitmapWalkList visits the words of    *)
(* the mark bitmaps.  Words past the highest mark (HeapBitmap.max) hold no *)
(* bits; the model walks them too.                                         *)
(***************************************************************************)
EXTENDS Integers, Sequences, FiniteSets

CONSTANTS
  Obj,          \* addresses of the objects
  Heaps,        \* the heaps a collection may find, as records
  Walk,         \* words in visiting order: addresses lo .. hi - 1, whether it
                \* is the last word of its bitmap, and where that bitmap ends
  WordBits,     \* HB_BITS_PER_WORD
  BufSize,      \* kPointerBufSize
  EndOfMemory   \* ULONG_MAX

NULL == 0
Kind == {"plain", "soft", "weak", "phantom"}

ASSUME SweepAssumption ==
  /\ Obj \subseteq Nat \ {NULL}
  /\ EndOfMemory \in Nat /\ \A o \in Obj : o < EndOfMemory
  /\ WordBits \in Nat /\ BufSize \in Nat
  /\ Walk \in Seq([lo : Nat, hi : Nat, last : BOOLEAN, end : Nat])

ASSUME HeapAssumption == \A h \in Heaps :
  /\ h.strong \in [Obj -> SUBSET Obj]
  /\ h.kind \in [Obj -> Kind]
  /\ h.referent \in [Obj -> Obj \cup {NULL}]
  /\ h.roots \subseteq Obj /\ h.finalizable \subseteq Obj
  /\ h.scheduled \subseteq {o \in Obj : h.kind[o] # "plain"}
  /\ h.soft \in {"none", "some", "all"}

VARIABLES
  pc,           \* how far dvmCollectGarbageInternal is
  objs,         \* the object bitmap: what is allocated
  strong,       \* the fields of each object other than Reference.referent
  kind,         \* which Reference class it is an instance of, if any
  referent,     \* Reference.referent
  scheduled,    \* References with vmData = SCHEDULED_REFERENCE_MAGIC
  roots,        \* what dvmHeapMarkRootSet marks
  finalizable,  \* finalizableRefs
  pending,      \* pendingFinalizationRefs added by this collection
  operations,   \* referenceOperations added by this collection
  soft,         \* softReferenceCollectionState
  mark,         \* the mark bitmap
  scanned,      \* objects with scanGeneration = gGeneration
  stack,        \* the mark stack; an object is pushed at most once
  finger,       \* markContext.finger
  word,         \* next word of Walk
  buffer,       \* pointerBuf of dvmHeapBitmapXorWalk
  listed,       \* References on the soft, weak and phantom lists
  latched       \* those lists as latched after the strong marking

graph == <<strong, kind, roots>>
walking == <<word, buffer>>
tables == <<scheduled, finalizable, pending, operations>>
vars == <<pc, objs, graph, referent, tables, soft, mark, scanned, stack, finger,
          walking, listed, latched>>

-----------------------------------------------------------------------------
(* scanObject                                                              *)

\* The referent of a Reference that its other fields have not marked.
Unsettled(o) ==
  /\ kind[o] # "plain"
  /\ referent[o] # NULL
  /\ referent[o] \notin mark \cup strong[o]

\* markAllReferents is set while the objects to finalise are followed.
markAllReferents == pc = "drainFinalizable"

\* Whether such a referent is marked at once.  With SR_COLLECT_SOME every
\* other soft reference is kept; which ones depends on the order of the scan.
Follow(o, keep) ==
  \/ markAllReferents
  \/ o \in scheduled
  \/ kind[o] = "soft" /\ soft = "none"
  \/ kind[o] = "soft" /\ soft = "some" /\ keep

\* Mutants: new marks are all left to the walk, or all pushed.
ScanObjectWalked(o) ==
  \E keep \in BOOLEAN :
    LET follow == Unsettled(o) /\ Follow(o, keep)
        new == (strong[o] \cup (IF follow THEN {referent[o]} ELSE {})) \ mark
    IN /\ mark' = mark \cup new
       /\ scanned' = scanned \cup {o}
       /\ stack' = stack \ {o}
       /\ listed' = IF Unsettled(o) /\ ~follow THEN listed \cup {o} ELSE listed
ScanObjectPushed(o) ==
  \E keep \in BOOLEAN :
    LET follow == Unsettled(o) /\ Follow(o, keep)
        new == (strong[o] \cup (IF follow THEN {referent[o]} ELSE {})) \ mark
    IN /\ mark' = mark \cup new
       /\ scanned' = scanned \cup {o}
       /\ stack' = (stack \ {o}) \cup new
       /\ listed' = IF Unsettled(o) /\ ~follow THEN listed \cup {o} ELSE listed

\* Mark what o points to; newly marked objects below the finger, which the
\* walk will not see, go on the mark stack.
ScanObject(o) ==
  \E keep \in BOOLEAN :
    LET follow == Unsettled(o) /\ Follow(o, keep)
        new == (strong[o] \cup (IF follow THEN {referent[o]} ELSE {})) \ mark
    IN /\ mark' = mark \cup new
       /\ scanned' = scanned \cup {o}
       /\ stack' = (stack \ {o}) \cup {x \in new : x < finger}
       /\ listed' = IF Unsettled(o) /\ ~follow THEN listed \cup {o} ELSE listed

-----------------------------------------------------------------------------
(* Strong marking: dvmHeapMarkRootSet and dvmHeapScanMarkedObjects.        *)

\* The roots are marked and left to the walk.
MarkRootSet ==
  /\ pc = "roots"
  /\ mark' = roots
  /\ pc' = "walk"
  /\ UNCHANGED <<objs, graph, referent, tables, soft, scanned, stack, finger,
                 walking, listed, latched>>

\* DECODE_BITS: collect the marks of a word; hand the buffer over when it has
\* no room for a whole word, and at the end of the bitmap.
WalkWord ==
  /\ pc = "walk"
  /\ word <= Len(Walk)
  /\ LET w == Walk[word]
         bits == {o \in mark : w.lo <= o /\ o < w.hi}
         full == bits # {} /\ BufSize - Cardinality(buffer \cup bits) < WordBits
         ends == w.last /\ buffer \cup bits # {}
     IN /\ buffer' = buffer \cup bits
        /\ finger' = IF full THEN w.hi ELSE IF ends THEN w.end ELSE finger
        /\ pc' = IF full \/ ends THEN "scan" ELSE "walk"
  /\ word' = word + 1
  /\ UNCHANGED <<objs, graph, referent, tables, soft, mark, scanned, stack,
                 listed, latched>>

\* scanBitmapCallback, an object at a time in address order.
ScanBuffered ==
  /\ pc = "scan"
  /\ \E o \in buffer :
       /\ \A q \in buffer : o <= q
       /\ ScanObject(o)
       /\ buffer' = buffer \ {o}
       /\ pc' = IF buffer = {o} THEN "walk" ELSE "scan"
  /\ UNCHANGED <<objs, graph, referent, tables, soft, finger, word, latched>>

\* The walk is over; processMarkStack moves the finger past everything.
WalkDone ==
  /\ pc = "walk"
  /\ word > Len(Walk)
  /\ finger' = EndOfMemory
  /\ pc' = "drain"
  /\ UNCHANGED <<objs, graph, referent, tables, soft, mark, scanned, stack,
                 walking, listed, latched>>

-----------------------------------------------------------------------------
(* processMarkStack, and what follows when the stack is empty.             *)

Draining == {"drain", "drainFinalizable", "drainPhantom"}

ProcessMarkStack ==
  /\ pc \in Draining
  /\ \E o \in stack : ScanObject(o)
  /\ UNCHANGED <<pc, objs, graph, referent, tables, soft, finger, walking,
                 latched>>

\* The lists are latched once all strongly reachable objects are marked.
Drained ==
  /\ pc \in Draining
  /\ stack = {}
  /\ pc' = CASE pc = "drain" -> "soft"
             [] pc = "drainFinalizable" -> "phantom"
             [] pc = "drainPhantom" -> "sweep"
  /\ latched' = IF pc = "drain" THEN listed ELSE latched
  /\ UNCHANGED <<objs, graph, referent, tables, soft, mark, scanned, stack,
                 finger, walking, listed>>

-----------------------------------------------------------------------------
(* dvmHeapHandleReferences and dvmHeapScheduleFinalizations.  Every        *)
(* Reference is taken to have a queue that it is not in yet.               *)

\* References of one list whose referent nothing stronger keeps.
Dead(k) ==
  {r \in latched : /\ kind[r] = k /\ referent[r] # NULL
                   /\ referent[r] \notin mark}

\* Soft and weak references are cleared, scheduled and never rescheduled.
ClearReferences(k) ==
  /\ referent' = [o \in Obj |-> IF o \in Dead(k) THEN NULL ELSE referent[o]]
  /\ scheduled' = scheduled \cup Dead(k)
  /\ operations' = operations \cup Dead(k)

\* Mutant: when some soft references were kept, the others are not cleared.
HandleSoftAll ==
  /\ pc = "soft"
  /\ IF soft = "all"
     THEN ClearReferences("soft")
     ELSE UNCHANGED <<referent, scheduled, operations>>
  /\ soft' = "none"
  /\ pc' = "weak"
  /\ UNCHANGED <<objs, graph, finalizable, pending, mark, scanned, stack, finger,
                 walking, listed, latched>>

HandleSoft ==
  /\ pc = "soft"
  /\ IF soft # "none"
     THEN ClearReferences("soft")
     ELSE UNCHANGED <<referent, scheduled, operations>>
  /\ soft' = "none"
  /\ pc' = "weak"
  /\ UNCHANGED <<objs, graph, finalizable, pending, mark, scanned, stack, finger,
                 walking, listed, latched>>

HandleWeak ==
  /\ pc = "weak"
  /\ ClearReferences("weak")
  /\ pc' = "finalizable"
  /\ UNCHANGED <<objs, graph, finalizable, pending, soft, mark, scanned, stack,
                 finger, walking, listed, latched>>

\* Mutant: an object that was queued stays finalizable.
ScheduleFinalizationsTwice ==
  /\ pc = "finalizable"
  /\ LET new == finalizable \ mark IN
     /\ pending' = pending \cup new
     /\ mark' = mark \cup new
     /\ stack' = stack \cup {x \in new : x < finger}
     /\ pc' = IF new = {} THEN "phantom" ELSE "drainFinalizable"
  /\ UNCHANGED <<objs, graph, referent, scheduled, finalizable, operations, soft,
                 scanned, finger, walking, listed, latched>>

\* Unmarked finalizable objects are queued for the HeapWorker, and marked with
\* all they reach.
ScheduleFinalizations ==
  /\ pc = "finalizable"
  /\ LET new == finalizable \ mark IN
     /\ finalizable' = finalizable \ new
     /\ pending' = pending \cup new
     /\ mark' = mark \cup new
     /\ stack' = stack \cup {x \in new : x < finger}
     /\ pc' = IF new = {} THEN "phantom" ELSE "drainFinalizable"
  /\ UNCHANGED <<objs, graph, referent, scheduled, operations, soft, scanned,
                 finger, walking, listed, latched>>

\* Mutant: the referents are not kept.
HandlePhantomUnmarked ==
  /\ pc = "phantom"
  /\ operations' = operations \cup Dead("phantom")
  /\ scheduled' = scheduled \cup Dead("phantom")
  /\ pc' = "sweep"
  /\ UNCHANGED <<objs, graph, referent, finalizable, pending, soft, mark,
                 scanned, stack, finger, walking, listed, latched>>

\* Phantom references are not cleared: their referents are kept.  Of those
\* with one referent only the first on the list gets the magic value.
HandlePhantom ==
  /\ pc = "phantom"
  /\ LET new == {referent[r] : r \in Dead("phantom")} IN
     /\ operations' = operations \cup Dead("phantom")
     /\ \E first \in [new -> Dead("phantom")] :
          /\ \A x \in new : referent[first[x]] = x
          /\ scheduled' = scheduled \cup {first[x] : x \in new}
     /\ mark' = mark \cup new
     /\ stack' = stack \cup {x \in new : x < finger}
     /\ pc' = IF new = {} THEN "sweep" ELSE "drainPhantom"
  /\ UNCHANGED <<objs, graph, referent, finalizable, pending, soft, scanned,
                 finger, walking, listed, latched>>

\* dvmHeapSweepUnmarkedObjects frees what is allocated and not marked, and
\* dvmHeapFinishMarkStep makes the mark bitmap the object bitmap.
Sweep ==
  /\ pc = "sweep"
  /\ objs' = mark
  /\ pc' = "done"
  /\ UNCHANGED <<graph, referent, tables, soft, mark, scanned, stack, finger,
                 walking, listed, latched>>

\* The threads are resumed.
Done == pc = "done" /\ UNCHANGED vars

-----------------------------------------------------------------------------
Init ==
  /\ pc = "roots"
  /\ objs = Obj
  /\ \E h \in Heaps :
       /\ strong = h.strong /\ kind = h.kind /\ referent = h.referent
       /\ roots = h.roots /\ finalizable = h.finalizable
       /\ scheduled = h.scheduled /\ soft = h.soft
  /\ pending = {} /\ operations = {}
  /\ mark = {} /\ scanned = {} /\ stack = {} /\ finger = NULL
  /\ word = 1 /\ buffer = {}
  /\ listed = {} /\ latched = {}

Next ==
  \/ MarkRootSet \/ WalkWord \/ ScanBuffered \/ WalkDone
  \/ ProcessMarkStack \/ Drained
  \/ HandleSoft \/ HandleWeak \/ ScheduleFinalizations \/ HandlePhantom
  \/ Sweep \/ Done

Spec == Init /\ [][Next]_vars

-----------------------------------------------------------------------------
(* Properties.                                                             *)

\* The state is of the expected shape.
TypeOK ==
  /\ pc \in {"roots", "walk", "scan", "soft", "weak", "finalizable", "phantom",
             "sweep", "done"} \cup Draining
  /\ objs \subseteq Obj
  /\ strong \in [Obj -> SUBSET Obj] /\ kind \in [Obj -> Kind]
  /\ referent \in [Obj -> Obj \cup {NULL}]
  /\ scheduled \subseteq Obj /\ roots \subseteq Obj
  /\ finalizable \subseteq Obj /\ pending \subseteq Obj
  /\ operations \subseteq Obj
  /\ soft \in {"none", "some", "all"}
  /\ mark \subseteq Obj /\ scanned \subseteq Obj /\ stack \subseteq Obj
  /\ finger \in Nat /\ word \in Nat \ {0} /\ buffer \subseteq Obj
  /\ listed \subseteq Obj /\ latched \subseteq Obj

\* What can be reached from the objects of S along the edges.
Reach(S, edges) ==
  {o \in Obj : \A T \in SUBSET Obj :
     (S \subseteq T /\ \A x \in T : edges[x] \subseteq T) => o \in T}

\* Reachable from the roots: through fields, soft references that are kept,
\* and references an earlier collection scheduled.
Reachable ==
  Reach(roots, [o \in Obj |-> strong[o] \cup
                  (IF kind[o] = "soft" \/ o \in scheduled
                   THEN {referent[o]} \ {NULL} ELSE {})])

\* dvmHeapScanMarkedObjects marks "the entire set of live objects": once the
\* soft references are handled, the marks are exactly what is reachable, no
\* matter how fields, finger, pointer buffer and mark stack lie.
StrongMarkIsExact == pc = "weak" => mark = Reachable

\* No object is scanned twice: nothing waits to be scanned, in the buffer or
\* on the stack, that was scanned or waits elsewhere ("object was already
\* scanned this generation" aborts a debug build).
ScannedOnce ==
  /\ buffer \cap scanned = {}
  /\ stack \cap scanned = {}
  /\ buffer \cap stack = {}

\* "We're required to clear all references to a given referent atomically":
\* before any finalizer can be scheduled, no soft or weak reference that
\* stays alive still refers to an object that nothing stronger keeps.
ClearedTogether ==
  pc = "finalizable" =>
    \A r \in mark : (kind[r] \in {"soft", "weak"} /\ referent[r] # NULL)
                     => referent[r] \in mark

\* dvmHeapScheduleFinalizations queues exactly the finalizable objects that
\* are not reachable.
FinalizesTheUnreachable ==
  pc \in {"drainFinalizable", "phantom"} =>
    /\ pending = (finalizable \cup pending) \ Reachable
    /\ finalizable \cap pending = {}

\* References put on a list after the lists were latched: nothing handles them.
Late == listed \ latched

\* Nothing that survives, and nothing the VM will follow later, points to a
\* freed object.
Whole ==
  /\ roots \cup pending \cup operations \cup finalizable \subseteq objs
  /\ \A o \in objs :
       /\ strong[o] \subseteq objs
       /\ kind[o] # "plain" => referent[o] \in objs \cup {NULL}

\* After a collection that listed no reference late, the heap is whole.
SurvivorsAreWhole == (pc = "done" /\ Late = {}) => Whole

\* "All objects that it points to must be valid": the same of every collection.
\* HandlePhantom marks referents after the lists were latched, and scans them
\* with markAllReferents off, so a weak reference it reaches keeps a referent
\* that is swept.
AlwaysWhole == pc = "done" => Whole

\* "The bitmaps will be visited in address order, so that finger will increase
\* monotonically", which scanBitmapCallback asserts.
FingerIsMonotonic == [][finger' >= finger]_vars

-----------------------------------------------------------------------------
\* What the walk owes the marking: every object is in one of its words, the
\* words ascend, and the last one ends a bitmap.
GoodWalk ==
  /\ \A o \in Obj : \E i \in 1 .. Len(Walk) : Walk[i].lo <= o /\ o < Walk[i].hi
  /\ \A i \in 1 .. Len(Walk) : Walk[i].hi <= Walk[i].end
  /\ \A i, j \in 1 .. Len(Walk) : i < j => Walk[i].hi <= Walk[j].hi
  /\ Walk # <<>> => Walk[Len(Walk)].last

\* What the walk owes besides so that no object is met twice: words, and the
\* bitmaps they are part of, do not overlap and come in address order.
OrderedWalk ==
  /\ \A i \in 1 .. Len(Walk) :
       Walk[i].lo <= Walk[i].hi /\ Walk[i].end <= EndOfMemory
  /\ \A i, j \in 1 .. Len(Walk) : i < j =>
       /\ Walk[i].hi <= Walk[j].lo
       /\ Walk[i].last => Walk[i].end <= Walk[j].lo
=============================================================================
