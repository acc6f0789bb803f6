----------------------------- MODULE MCMarkSweep ----------------------------
(* Instances of MarkSweep: small heaps of every shape.                     *)
EXTENDS MarkSweep, HeapBitmap

CONSTANTS Bitmaps  \* how the heaps lie in memory, as hs->heaps lists them

\* The newest heap first, above or below the older one.
OneWord(b) == [base |-> b, words |-> 1]
TwoHeaps == <<[base |-> 3, words |-> 2], [base |-> 1, words |-> 2]>>
ThreeHeaps == <<OneWord(3), OneWord(1), OneWord(2)>>
WalkOfBitmaps == WalkList(Bitmaps, WordBits)

\* Two bitmaps are walked as the marking needs, whichever way they lie.
ASSUME TwoBitmapsInOrder == Len(Bitmaps) <= 2 => GoodWalk /\ OrderedWalk

\* An object: plain with some fields, or a reference.
Plain(fields) ==
  {[strong |-> s, kind |-> "plain", referent |-> NULL, sched |-> FALSE]
     : s \in {t \in SUBSET Obj : Cardinality(t) <= fields}}
Reference ==
  {[strong |-> {}, kind |-> k, referent |-> r, sched |-> FALSE]
     : k \in {"soft", "weak", "phantom"}, r \in Obj}
ScheduledPhantom ==
  {[strong |-> {}, kind |-> "phantom", referent |-> r, sched |-> TRUE]
     : r \in Obj}

HeapOf(shape, rs, fs, policy) ==
  [strong |-> [o \in Obj |-> shape[o].strong],
   kind |-> [o \in Obj |-> shape[o].kind],
   referent |-> [o \in Obj |-> shape[o].referent],
   scheduled |-> {o \in Obj : shape[o].sched},
   roots |-> rs, finalizable |-> fs, soft |-> policy]

\* A root, and fields only.
PlainHeaps ==
  {HeapOf(shape, {r}, {}, "none") : shape \in [Obj -> Plain(2)], r \in Obj}

\* References of all kinds; one root in the middle, or one at either end; an
\* object to finalise.
ReferenceHeaps ==
  {HeapOf(shape, rs, fs, policy) :
     shape \in [Obj -> Plain(1) \cup Reference \cup ScheduledPhantom],
     rs \in {{2}, {1, 3}}, fs \in {{}, {2}}, policy \in {"none", "some", "all"}}
AllHeaps == PlainHeaps \cup ReferenceHeaps
=============================================================================
