----------------------------- MODULE HeapBitmap -----------------------------
(***************************************************************************)
(* The order in which dvmHeapBitmapWalkList visits the bitmaps of several  *)
(* heaps (vm/alloc/HeapBitmap.c).  A bitmap is the address it starts at    *)
(* and its number of words.                                                *)
(***************************************************************************)
EXTENDS Integers, Sequences, SequencesExt

\* The pairs <<i, j>>, j < i, in the order of the two loops.
LoopPairs(n) ==
  FlattenSeq([i \in 1 .. n |-> [j \in 1 .. i - 1 |-> <<i, j>>]])

\* createSortedBitmapIndexList compares the bases of bitmaps i and j, and
\* swaps entries i and j of the list.
SortedIndexList(base) ==
  LET Swap(out, p) ==
        IF base[p[2]] > base[p[1]]
        THEN [out EXCEPT ![p[1]] = out[p[2]], ![p[2]] = out[p[1]]]
        ELSE out
  IN FoldLeft(Swap, [i \in DOMAIN base |-> i], LoopPairs(Len(base)))

\* The words of a bitmap, in address order.
WordsOf(b, bits) ==
  [k \in 1 .. b.words |->
     [lo |-> b.base + (k - 1) * bits, hi |-> b.base + k * bits,
      last |-> k = b.words, end |-> b.base + b.words * bits]]

\* dvmHeapBitmapWalkList: the words of each bitmap, in the order of the list.
WalkList(bitmaps, bits) ==
  LET index == SortedIndexList([i \in DOMAIN bitmaps |-> bitmaps[i].base])
  IN FlattenSeq([i \in DOMAIN bitmaps |-> WordsOf(bitmaps[index[i]], bits)])

\* "Regardless of the order of the array, the bitmaps will be visited in
\* address order."
Ascending(walk) ==
  \A i, j \in DOMAIN walk : i < j => walk[i].hi <= walk[j].lo
=============================================================================
