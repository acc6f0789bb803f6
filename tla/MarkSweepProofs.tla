-------------------------- MODULE MarkSweepProofs ---------------------------
(***************************************************************************)
(* For every heap, buffer size and bitmap layout that is walked in address *)
(* order: a collection that lists no reference late frees nothing that a   *)
(* survivor, a root or a table of the VM still points to.                  *)
(***************************************************************************)
EXTENDS MarkSweep, TLAPS

\* The walk has not come to o yet.
Ahead(o) == \E j \in 1 .. Len(Walk) :
              j >= word /\ Walk[j].lo <= o /\ o < Walk[j].hi

\* The reference refers to nothing, or to something marked.
Settled(r) == referent[r] = NULL \/ referent[r] \in mark

\* Tri-colour marking: what is marked and not scanned waits somewhere; what
\* is scanned points to marked objects, or is a reference that was listed.
ColourInv ==
  /\ \A o \in mark : o \in scanned \/ o \in stack \/ o \in buffer \/ Ahead(o)
  /\ \A o \in scanned :
       /\ o \in mark /\ strong[o] \subseteq mark
       /\ kind[o] # "plain" => Settled(o) \/ o \in listed
  /\ buffer \subseteq mark /\ stack \subseteq mark
  /\ listed \subseteq scanned /\ latched \subseteq listed

\* What the finger has passed the walk does not visit any more.
WalkInv ==
  /\ pc = "roots" => /\ word = 1 /\ mark = {} /\ scanned = {}
                     /\ listed = {} /\ stack = {}
  /\ pc \in {"roots", "walk"} /\ (word = 1 \/ Walk[word - 1].last) => buffer = {}
  /\ pc \in {"roots", "walk", "scan"} => word \in 1 .. Len(Walk) + 1
  /\ pc = "scan" => \A j \in 1 .. Len(Walk) : j < word => Walk[j].hi <= finger
  /\ pc \notin {"roots", "walk", "scan"} =>
       word = Len(Walk) + 1 /\ buffer = {} /\ finger = EndOfMemory

\* The phases, in order: what each leaves behind.
Swept == {"done"}
AfterPhantom == {"drainPhantom", "sweep"} \cup Swept
AfterFinal == {"drainFinalizable", "phantom"} \cup AfterPhantom
AfterWeak == {"finalizable"} \cup AfterFinal
AfterSoft == {"weak"} \cup AfterWeak
AfterMark == {"soft"} \cup AfterSoft

PhaseInv ==
  /\ pc # "roots" => roots \subseteq mark
  /\ pc \in AfterMark \ Draining => stack = {}
  /\ pc \in {"soft", "weak", "finalizable"} => listed \subseteq latched
  /\ pc \notin AfterSoft /\ soft = "none" => \A r \in listed : kind[r] # "soft"
  /\ pc \in AfterSoft => \A r \in latched : kind[r] = "soft" => Settled(r)
  /\ pc \in AfterWeak => \A r \in latched : kind[r] = "weak" => Settled(r)
  /\ pc \in AfterPhantom => \A r \in latched : kind[r] = "phantom" => Settled(r)
  /\ pc \in AfterFinal => finalizable \subseteq mark
  /\ pending \subseteq mark /\ operations \subseteq mark
  /\ pc \in Swept => objs = mark

Inv == TypeOK /\ ColourInv /\ WalkInv /\ PhaseInv

-----------------------------------------------------------------------------
\* scanObject marks all that the object points to, or lists it; what it marks
\* behind the finger it pushes.
LEMMA ScanFacts ==
  ASSUME TypeOK, NEW o \in Obj, ScanObject(o), UNCHANGED <<strong, kind, referent>>
  PROVE  /\ mark \subseteq mark' /\ mark' \subseteq Obj
         /\ strong[o] \subseteq mark'
         /\ scanned' = scanned \cup {o}
         /\ listed \subseteq listed' /\ listed' \subseteq listed \cup {o}
         /\ kind[o] # "plain" => Settled(o)' \/ o \in listed'
         /\ \A x \in mark' : x \notin mark /\ x < finger => x \in stack'
         /\ stack \ {o} \subseteq stack'
         /\ stack' \subseteq (stack \ {o}) \cup (mark' \ mark)
         /\ kind[o] = "soft" /\ soft = "none" => listed' = listed
<1>1. PICK keep \in BOOLEAN :
        LET follow == Unsettled(o) /\ Follow(o, keep)
            new == (strong[o] \cup (IF follow THEN {referent[o]} ELSE {})) \ mark
        IN /\ mark' = mark \cup new
           /\ scanned' = scanned \cup {o}
           /\ stack' = (stack \ {o}) \cup {x \in new : x < finger}
           /\ listed' = IF Unsettled(o) /\ ~follow THEN listed \cup {o} ELSE listed
  BY DEF ScanObject
<1>2. strong[o] \subseteq Obj /\ mark \subseteq Obj /\ referent[o] \in Obj \cup {NULL}
  BY DEF TypeOK
<1>3. Settled(o)' <=> (referent[o] = NULL \/ referent[o] \in mark')
  BY DEF Settled
<1>4. CASE Unsettled(o) /\ Follow(o, keep)
  <2>1. referent[o] # NULL
    BY <1>4 DEF Unsettled
  <2>2. QED
    BY <1>1, <1>2, <1>3, <1>4, <2>1
<1>5. CASE Unsettled(o) /\ ~Follow(o, keep)
  <2>1. ~(kind[o] = "soft" /\ soft = "none")
    BY <1>5 DEF Follow
  <2>2. QED
    BY <1>1, <1>2, <1>3, <1>5, <2>1
<1>6. CASE ~Unsettled(o)
  <2>1. kind[o] # "plain" => referent[o] = NULL \/ referent[o] \in mark \cup strong[o]
    BY <1>6 DEF Unsettled
  <2>2. QED
    BY <1>1, <1>2, <1>3, <1>6, <2>1
<1>7. QED
  BY <1>4, <1>5, <1>6

-----------------------------------------------------------------------------
\* The words of the walk are records of addresses.
LEMMA WalkFacts ==
  /\ Len(Walk) \in Nat
  /\ \A i \in 1 .. Len(Walk) :
       Walk[i].lo \in Nat /\ Walk[i].hi \in Nat /\ Walk[i].end \in Nat
<1> DEFINE W == [lo : Nat, hi : Nat, last : BOOLEAN, end : Nat]
<1>1. Walk \in Seq(W)
  BY SweepAssumption
<1>2. \A w \in W : w.lo \in Nat /\ w.hi \in Nat /\ w.end \in Nat
  OBVIOUS
<1> HIDE DEF W
<1>3. Len(Walk) \in Nat /\ \A i \in 1 .. Len(Walk) : Walk[i] \in W
  BY ONLY <1>1
<1>4. QED
  BY <1>2, <1>3

\* The state has its type in every step.
LEMMA TypeStep == TypeOK /\ [Next]_vars => TypeOK'
<1> SUFFICES ASSUME TypeOK, [Next]_vars PROVE TypeOK'
  OBVIOUS
<1> USE DEF TypeOK, graph, walking, tables, Draining
<1>1. CASE UNCHANGED vars
  BY <1>1 DEF vars
<1>2. CASE MarkRootSet
  BY <1>2 DEF MarkRootSet
<1>3. CASE WalkWord
  <2>1. Walk[word].hi \in Nat /\ Walk[word].end \in Nat
    BY <1>3, WalkFacts DEF WalkWord
  <2>2. word + 1 \in Nat \ {0}
    OBVIOUS
  <2>3. /\ buffer' \subseteq Obj
        /\ pc' \in {"scan", "walk"}
        /\ finger' \in {Walk[word].hi, Walk[word].end, finger}
    BY <1>3 DEF WalkWord
  <2>4. finger' \in Nat
    BY <2>1, <2>3
  <2>5. QED
    BY <1>3, <2>2, <2>3, <2>4 DEF WalkWord
<1>4. CASE ScanBuffered
  <2>1. PICK o \in buffer : /\ ScanObject(o)
                            /\ buffer' = buffer \ {o}
                            /\ pc' = IF buffer = {o} THEN "walk" ELSE "scan"
    BY <1>4 DEF ScanBuffered
  <2>2. /\ mark' \subseteq Obj /\ scanned' \subseteq Obj /\ stack' \subseteq Obj
        /\ listed' \subseteq Obj
    BY <1>4, <2>1, ScanFacts DEF ScanBuffered
  <2>3. QED
    BY <1>4, <2>1, <2>2 DEF ScanBuffered
<1>5. CASE WalkDone
  BY <1>5, SweepAssumption DEF WalkDone
<1>6. CASE ProcessMarkStack
  <2>1. PICK o \in stack : ScanObject(o)
    BY <1>6 DEF ProcessMarkStack
  <2>2. /\ mark' \subseteq Obj /\ scanned' \subseteq Obj /\ stack' \subseteq Obj
        /\ listed' \subseteq Obj
    BY <1>6, <2>1, ScanFacts DEF ProcessMarkStack
  <2>3. QED
    BY <1>6, <2>2 DEF ProcessMarkStack
<1>7. CASE Drained
  <2>1. pc' \in {"soft", "phantom", "sweep"}
    BY <1>7 DEF Drained
  <2>2. QED
    BY <1>7, <2>1 DEF Drained
<1>8. CASE HandleSoft
  BY <1>8 DEF HandleSoft, ClearReferences, Dead
<1>9. CASE HandleWeak
  BY <1>9 DEF HandleWeak, ClearReferences, Dead
<1>10. CASE ScheduleFinalizations
  BY <1>10 DEF ScheduleFinalizations
<1>11. CASE HandlePhantom
  <2> DEFINE new == {referent[r] : r \in Dead("phantom")}
  <2>1. Dead("phantom") \subseteq Obj /\ new \subseteq Obj
    BY DEF Dead
  <2>2. scheduled' \subseteq Obj
    BY <1>11, <2>1 DEF HandlePhantom
  <2>3. QED
    BY <1>11, <2>1, <2>2 DEF HandlePhantom
<1>12. CASE Sweep
  BY <1>12 DEF Sweep
<1>13. CASE Done
  BY <1>13 DEF Done, vars
<1>14. QED
  BY <1>1, <1>2, <1>3, <1>4, <1>5, <1>6, <1>7, <1>8, <1>9, <1>10, <1>11, <1>12,
     <1>13 DEF Next

-----------------------------------------------------------------------------
\* No word is missed: an object at or past the finger is in a word to come.
LEMMA AheadOfFinger ==
  ASSUME GoodWalk, TypeOK, WalkInv, pc # "roots", pc # "walk",
         NEW o \in Obj, ~(o < finger)
  PROVE  Ahead(o)
<1>1. CASE pc = "scan"
  <2>1. PICK j \in 1 .. Len(Walk) : Walk[j].lo <= o /\ o < Walk[j].hi
    BY DEF GoodWalk
  <2>2. o \in Nat /\ finger \in Nat /\ word \in Nat /\ j \in Nat
    BY SweepAssumption, WalkFacts DEF TypeOK
  <2>3. ~(j < word)
    <3>1. j < word => Walk[j].hi <= finger
      BY <1>1 DEF WalkInv
    <3>2. Walk[j].hi \in Nat
      BY WalkFacts
    <3>3. QED
      BY <2>1, <2>2, <3>1, <3>2
  <2>4. j >= word
    BY <2>2, <2>3
  <2>5. QED
    BY <2>1, <2>4 DEF Ahead
<1>2. CASE pc # "scan"
  BY <1>2, SweepAssumption DEF WalkInv
<1>3. QED
  BY <1>1, <1>2

\* The walk's own bookkeeping.
LEMMA WalkStep == GoodWalk /\ TypeOK /\ WalkInv /\ [Next]_vars => WalkInv'
<1> SUFFICES ASSUME GoodWalk, TypeOK, WalkInv, [Next]_vars PROVE WalkInv'
  OBVIOUS
<1> USE DEF WalkInv, graph, walking, tables, Draining
<1>1. CASE UNCHANGED vars
  BY <1>1 DEF vars
<1>2. CASE MarkRootSet
  BY <1>2 DEF MarkRootSet
<1>3. CASE WalkWord
  <2> DEFINE w == Walk[word]
             bits == {o \in mark : w.lo <= o /\ o < w.hi}
  <2>1. /\ word \in 1 .. Len(Walk) /\ word' = word + 1 /\ word' - 1 = word
        /\ word' \in 1 .. Len(Walk) + 1 /\ word' # 1
    BY <1>3, WalkFacts DEF WalkWord, TypeOK
  <2>2. pc' \in {"walk", "scan"}
    BY <1>3 DEF WalkWord
  <2>3. ASSUME pc' = "walk", Walk[word].last PROVE buffer' = {}
    BY <1>3, <2>3 DEF WalkWord
  <2>4. ASSUME pc' = "scan", NEW j \in 1 .. Len(Walk), j < word'
        PROVE Walk[j].hi <= finger'
    <3>1. finger' \in {w.hi, w.end}
      BY <1>3, <2>4 DEF WalkWord
    <3>2. w.hi \in Nat /\ w.end \in Nat /\ w.hi <= w.end /\ Walk[j].hi \in Nat
      BY <2>1, WalkFacts DEF GoodWalk
    <3>3. Walk[j].hi <= w.hi
      <4>1. CASE j = word
        BY <4>1, <3>2
      <4>2. CASE j # word
        <5>1. j < word
          BY <2>1, <2>4, <4>2, WalkFacts
        <5>2. QED
          BY <2>1, <5>1 DEF GoodWalk
      <4>3. QED
        BY <4>1, <4>2
    <3>4. QED
      BY <3>1, <3>2, <3>3
  <2>5. QED
    BY <2>1, <2>2, <2>3, <2>4
<1>4. CASE ScanBuffered
  <2>1. /\ pc = "scan" /\ pc' \in {"walk", "scan"}
        /\ pc' = "walk" => buffer' = {}
        /\ word' = word /\ finger' = finger
    BY <1>4 DEF ScanBuffered
  <2>2. QED
    BY <2>1
<1>5. CASE WalkDone
  <2>1. /\ pc = "walk" /\ pc' = "drain" /\ word' = word /\ buffer' = buffer
        /\ finger' = EndOfMemory
    BY <1>5 DEF WalkDone
  <2>2. word = Len(Walk) + 1
    BY <1>5, WalkFacts DEF WalkDone
  <2>3. word = 1 \/ Walk[word - 1].last
    <3>1. CASE Len(Walk) = 0
      BY <3>1, <2>2
    <3>2. CASE Len(Walk) # 0
      <4>1. Walk # <<>>
        BY <3>2
      <4>2. word - 1 = Len(Walk)
        BY <2>2, WalkFacts
      <4>3. QED
        BY <4>1, <4>2 DEF GoodWalk
    <3>3. QED
      BY <3>1, <3>2
  <2>4. QED
    BY <2>1, <2>2, <2>3
<1>6. CASE ProcessMarkStack
  BY <1>6 DEF ProcessMarkStack
<1>7. CASE Drained
  BY <1>7 DEF Drained
<1>8. CASE HandleSoft
  BY <1>8 DEF HandleSoft
<1>9. CASE HandleWeak
  BY <1>9 DEF HandleWeak
<1>10. CASE ScheduleFinalizations
  BY <1>10 DEF ScheduleFinalizations
<1>11. CASE HandlePhantom
  BY <1>11 DEF HandlePhantom
<1>12. CASE Sweep
  BY <1>12 DEF Sweep
<1>13. CASE Done
  BY <1>13 DEF Done, vars
<1>14. QED
  BY <1>1, <1>2, <1>3, <1>4, <1>5, <1>6, <1>7, <1>8, <1>9, <1>10, <1>11, <1>12,
     <1>13 DEF Next

-----------------------------------------------------------------------------
\* Scanning an object keeps the colours.
LEMMA ScanKeepsColours ==
  ASSUME GoodWalk, TypeOK, ColourInv, WalkInv, pc # "roots", pc # "walk",
         NEW o \in mark, ScanObject(o),
         UNCHANGED <<strong, kind, referent, word, latched>>,
         buffer' = buffer \/ buffer' = buffer \ {o}
  PROVE  ColourInv'
<1>o. o \in Obj
  BY DEF TypeOK
<1>a. /\ mark \subseteq mark' /\ mark' \subseteq Obj
      /\ strong[o] \subseteq mark'
      /\ scanned' = scanned \cup {o}
      /\ listed \subseteq listed' /\ listed' \subseteq listed \cup {o}
      /\ kind[o] # "plain" => Settled(o)' \/ o \in listed'
      /\ \A x \in mark' : x \notin mark /\ x < finger => x \in stack'
      /\ stack \ {o} \subseteq stack'
      /\ stack' \subseteq (stack \ {o}) \cup (mark' \ mark)
  BY <1>o, ScanFacts
<1>1. ASSUME NEW x \in mark'
      PROVE (x \in scanned \/ x \in stack \/ x \in buffer \/ Ahead(x))'
  <2>1. CASE x \in mark
    BY <1>a, <2>1 DEF ColourInv, Ahead
  <2>2. CASE x \notin mark /\ x < finger
    BY <1>a, <2>2
  <2>3. CASE x \notin mark /\ ~(x < finger)
    <3>1. Ahead(x)
      BY <1>a, <2>3, AheadOfFinger
    <3>2. QED
      BY <3>1 DEF Ahead
  <2>4. QED
    BY <2>1, <2>2, <2>3
<1>2. ASSUME NEW x \in scanned'
      PROVE /\ x \in mark' /\ strong'[x] \subseteq mark'
            /\ kind'[x] # "plain" => Settled(x)' \/ x \in listed'
  <2>1. CASE x = o
    BY <1>a, <2>1
  <2>2. CASE x # o
    <3>1. x \in scanned
      BY <1>a, <2>2
    <3>2. Settled(x) => Settled(x)'
      BY <1>a DEF Settled
    <3>3. QED
      BY <1>a, <3>1, <3>2 DEF ColourInv
  <2>3. QED
    BY <2>1, <2>2
<1>3. /\ (buffer \subseteq mark)' /\ (stack \subseteq mark)'
      /\ (listed \subseteq scanned)' /\ (latched \subseteq listed)'
  BY <1>a DEF ColourInv
<1>4. QED
  BY <1>1, <1>2, <1>3 DEF ColourInv

\* Marking more objects, all of which are pushed, keeps the colours.
LEMMA MarkKeepsColours ==
  ASSUME ColourInv, NEW new,
         mark' = mark \cup new, stack' = stack \cup new,
         UNCHANGED <<strong, kind, referent, scanned, word, buffer, listed, latched>>
  PROVE  ColourInv'
<1>1. \A x : (Settled(x) => Settled(x)') /\ (Ahead(x) => Ahead(x)')
  BY DEF Settled, Ahead
<1>2. QED
  BY <1>1 DEF ColourInv

\* Clearing references keeps the colours.
LEMMA ClearKeepsColours ==
  ASSUME TypeOK, ColourInv, NEW k, ClearReferences(k),
         UNCHANGED <<strong, kind, mark, scanned, stack, word, buffer, listed, latched>>
  PROVE  ColourInv'
<1>1. \A x \in Obj : Settled(x) => Settled(x)'
  BY DEF Settled, ClearReferences, TypeOK
<1>2. \A x : Ahead(x) => Ahead(x)'
  BY DEF Ahead
<1>3. scanned \subseteq Obj
  BY DEF TypeOK
<1>4. QED
  BY <1>1, <1>2, <1>3 DEF ColourInv

\* Below the end of memory everything marked is pushed.
LEMMA AllPushed ==
  ASSUME TypeOK, WalkInv, pc \notin {"roots", "walk", "scan"},
         NEW new, new \subseteq Obj
  PROVE  {x \in new : x < finger} = new
BY SweepAssumption DEF WalkInv

LEMMA ColourStep ==
  GoodWalk /\ TypeOK /\ ColourInv /\ WalkInv /\ [Next]_vars => ColourInv'
<1> SUFFICES ASSUME GoodWalk, TypeOK, ColourInv, WalkInv, [Next]_vars
             PROVE ColourInv'
  OBVIOUS
<1> USE DEF graph, walking, tables, Draining
<1>s. ASSUME UNCHANGED <<strong, kind, referent, mark, scanned, stack, word,
                         buffer, listed, latched>>
      PROVE ColourInv'
  BY <1>s DEF ColourInv, Settled, Ahead
<1>1. CASE UNCHANGED vars
  BY <1>1, <1>s DEF vars
<1>2. CASE MarkRootSet
  <2>1. /\ word = 1 /\ word' = 1 /\ scanned' = {} /\ listed' = {} /\ stack' = {}
        /\ buffer' = {} /\ latched' = latched /\ mark' = roots
    BY <1>2 DEF MarkRootSet, WalkInv
  <2>2. ASSUME NEW o \in roots PROVE Ahead(o)'
    <3>1. PICK j \in 1 .. Len(Walk) : Walk[j].lo <= o /\ o < Walk[j].hi
      BY DEF GoodWalk, TypeOK
    <3>2. j >= 1
      BY WalkFacts
    <3>3. QED
      BY <2>1, <3>1, <3>2 DEF Ahead
  <2>3. latched = {}
    BY <1>2 DEF ColourInv, WalkInv, MarkRootSet
  <2>4. QED
    BY <2>1, <2>2, <2>3 DEF ColourInv
<1>3. CASE WalkWord
  <2>1. /\ buffer' = buffer \cup {o \in mark : Walk[word].lo <= o /\ o < Walk[word].hi}
        /\ word' = word + 1
        /\ UNCHANGED <<strong, kind, referent, mark, scanned, stack, listed, latched>>
    BY <1>3 DEF WalkWord
  <2>2. ASSUME NEW o \in mark, Ahead(o) PROVE Ahead(o)' \/ o \in buffer'
    <3>1. PICK j \in 1 .. Len(Walk) : j >= word /\ Walk[j].lo <= o /\ o < Walk[j].hi
      BY <2>2 DEF Ahead
    <3>2. j = word \/ j >= word + 1
      BY <3>1, WalkFacts DEF TypeOK
    <3>3. QED
      BY <2>1, <3>1, <3>2 DEF Ahead
  <2>3. \A x : Settled(x) => Settled(x)'
    BY <2>1 DEF Settled
  <2>4. QED
    BY <2>1, <2>2, <2>3 DEF ColourInv
<1>4. CASE ScanBuffered
  <2>1. PICK o \in buffer : ScanObject(o) /\ buffer' = buffer \ {o}
    BY <1>4 DEF ScanBuffered
  <2>2. /\ pc # "roots" /\ pc # "walk" /\ o \in mark
        /\ UNCHANGED <<strong, kind, referent, word, latched>>
    BY <1>4 DEF ScanBuffered, ColourInv
  <2>3. QED
    BY <2>1, <2>2, ScanKeepsColours
<1>5. CASE WalkDone
  BY <1>5, <1>s DEF WalkDone
<1>6. CASE ProcessMarkStack
  <2>1. PICK o \in stack : ScanObject(o)
    BY <1>6 DEF ProcessMarkStack
  <2>2. /\ pc # "roots" /\ pc # "walk" /\ o \in mark /\ buffer' = buffer
        /\ UNCHANGED <<strong, kind, referent, word, latched>>
    BY <1>6 DEF ProcessMarkStack, ColourInv
  <2>3. QED
    BY <2>1, <2>2, ScanKeepsColours
<1>7. CASE Drained
  <2>1. /\ latched' \subseteq listed
        /\ UNCHANGED <<strong, kind, referent, mark, scanned, stack, word, buffer,
                       listed>>
    BY <1>7 DEF Drained, ColourInv
  <2>2. \A x : (Settled(x) => Settled(x)') /\ (Ahead(x) => Ahead(x)')
    BY <2>1 DEF Settled, Ahead
  <2>3. QED
    BY <2>1, <2>2 DEF ColourInv
<1>8. CASE HandleSoft
  <2>1. CASE soft = "none"
    BY <1>8, <2>1, <1>s DEF HandleSoft
  <2>2. CASE soft # "none"
    BY <1>8, <2>2, ClearKeepsColours DEF HandleSoft
  <2>3. QED
    BY <2>1, <2>2
<1>9. CASE HandleWeak
  BY <1>9, ClearKeepsColours DEF HandleWeak
<1>10. CASE ScheduleFinalizations
  <2> DEFINE new == finalizable \ mark
  <2>1. {x \in new : x < finger} = new
    BY <1>10, AllPushed DEF ScheduleFinalizations, TypeOK
  <2>2. QED
    BY <1>10, <2>1, MarkKeepsColours DEF ScheduleFinalizations
<1>11. CASE HandlePhantom
  <2> DEFINE new == {referent[r] : r \in Dead("phantom")}
  <2>1. new \subseteq Obj
    BY DEF Dead, TypeOK
  <2>2. {x \in new : x < finger} = new
    <3> HIDE DEF new
    <3>1. QED
      BY <1>11, <2>1, AllPushed DEF HandlePhantom
  <2>3. QED
    BY <1>11, <2>2, MarkKeepsColours DEF HandlePhantom
<1>12. CASE Sweep
  BY <1>12, <1>s DEF Sweep
<1>13. CASE Done
  BY <1>13, <1>s DEF Done, vars
<1>14. QED
  BY <1>1, <1>2, <1>3, <1>4, <1>5, <1>6, <1>7, <1>8, <1>9, <1>10, <1>11, <1>12,
     <1>13 DEF Next

-----------------------------------------------------------------------------
\* What a phase has settled stays settled while marks are only added.
LEMMA MarkingKeepsPhases ==
  ASSUME PhaseInv, mark \subseteq mark',
         UNCHANGED <<pc, objs, kind, referent, roots, finalizable, pending,
                     operations, soft, latched>>,
         pc \in Draining,
         pc \notin AfterSoft /\ soft = "none" => \A r \in listed' : kind[r] # "soft"
  PROVE  PhaseInv'
<1>1. \A r : Settled(r) => Settled(r)'
  BY DEF Settled
<1>2. QED
  BY <1>1 DEF PhaseInv, AfterMark, AfterSoft, AfterWeak, AfterFinal, AfterPhantom,
              Swept, Draining

\* Clearing the dead references of one kind settles that kind and unsettles
\* none.
LEMMA ClearSettles ==
  ASSUME TypeOK, ColourInv, NEW k, ClearReferences(k), UNCHANGED <<mark, kind>>
  PROVE  /\ \A r \in latched : Settled(r) => Settled(r)'
         /\ \A r \in latched : kind[r] = k => Settled(r)'
         /\ operations' \subseteq operations \cup mark
<1>1. latched \subseteq Obj /\ latched \subseteq mark
  BY DEF TypeOK, ColourInv
<1>2. QED
  BY <1>1 DEF ClearReferences, Dead, Settled, TypeOK

LEMMA PhaseStep ==
  TypeOK /\ ColourInv /\ WalkInv /\ PhaseInv /\ [Next]_vars => PhaseInv'
<1> SUFFICES ASSUME TypeOK, ColourInv, WalkInv, PhaseInv, [Next]_vars
             PROVE PhaseInv'
  OBVIOUS
<1> USE DEF graph, walking, tables, Draining, AfterMark, AfterSoft, AfterWeak,
            AfterFinal, AfterPhantom, Swept
<1>1. CASE UNCHANGED vars
  BY <1>1 DEF vars, PhaseInv, Settled
<1>2. CASE MarkRootSet
  <2>1. pending = {} /\ operations = {}
    BY <1>2 DEF MarkRootSet, PhaseInv, WalkInv
  <2>2. QED
    BY <1>2, <2>1 DEF MarkRootSet, PhaseInv, WalkInv
<1>3. CASE WalkWord
  <2>1. pc = "walk" /\ pc' \in {"walk", "scan"}
    BY <1>3 DEF WalkWord
  <2>2. QED
    BY <1>3, <2>1 DEF WalkWord, PhaseInv
<1>4. CASE ScanBuffered
  <2>1. PICK o \in buffer : ScanObject(o) /\ pc' \in {"walk", "scan"}
    BY <1>4 DEF ScanBuffered
  <2>2. /\ mark \subseteq mark' /\ listed' \subseteq listed \cup {o}
        /\ kind[o] = "soft" /\ soft = "none" => listed' = listed
    BY <1>4, <2>1, ScanFacts DEF ScanBuffered, TypeOK
  <2>3. QED
    BY <1>4, <2>1, <2>2 DEF ScanBuffered, PhaseInv
<1>5. CASE WalkDone
  BY <1>5 DEF WalkDone, PhaseInv
<1>6. CASE ProcessMarkStack
  <2>1. PICK o \in stack : ScanObject(o)
    BY <1>6 DEF ProcessMarkStack
  <2>2. /\ mark \subseteq mark' /\ listed' \subseteq listed \cup {o}
        /\ kind[o] = "soft" /\ soft = "none" => listed' = listed
    BY <1>6, <2>1, ScanFacts DEF ProcessMarkStack, TypeOK
  <2>3. pc \notin AfterSoft /\ soft = "none" => \A r \in listed' : kind[r] # "soft"
    BY <2>2 DEF PhaseInv
  <2>4. QED
    BY <1>6, <2>2, <2>3, MarkingKeepsPhases DEF ProcessMarkStack
<1>7. CASE Drained
  <2>1. \A r : Settled(r) => Settled(r)'
    BY <1>7 DEF Drained, Settled
  <2>2. CASE pc = "drain"
    BY <1>7, <2>2 DEF Drained, PhaseInv
  <2>3. CASE pc = "drainFinalizable"
    BY <1>7, <2>1, <2>3 DEF Drained, PhaseInv
  <2>4. CASE pc = "drainPhantom"
    BY <1>7, <2>1, <2>4 DEF Drained, PhaseInv
  <2>5. QED
    BY <1>7, <2>2, <2>3, <2>4 DEF Drained
<1>8. CASE HandleSoft
  <2>1. CASE soft = "none"
    <3>1. \A r \in latched : kind[r] # "soft"
      BY <1>8, <2>1 DEF HandleSoft, PhaseInv, ColourInv
    <3>2. QED
      BY <1>8, <2>1, <3>1 DEF HandleSoft, PhaseInv
  <2>2. CASE soft # "none"
    <3>1. /\ \A r \in latched : kind[r] = "soft" => Settled(r)'
          /\ operations' \subseteq operations \cup mark
      BY <1>8, <2>2, ClearSettles DEF HandleSoft
    <3>2. QED
      BY <1>8, <3>1 DEF HandleSoft, PhaseInv
  <2>3. QED
    BY <2>1, <2>2
<1>9. CASE HandleWeak
  <2>1. /\ \A r \in latched : Settled(r) => Settled(r)'
        /\ \A r \in latched : kind[r] = "weak" => Settled(r)'
        /\ operations' \subseteq operations \cup mark
    BY <1>9, ClearSettles DEF HandleWeak
  <2>2. QED
    BY <1>9, <2>1 DEF HandleWeak, PhaseInv
<1>10. CASE ScheduleFinalizations
  <2> DEFINE new == finalizable \ mark
  <2>1. /\ pc = "finalizable" /\ pc' \in {"phantom", "drainFinalizable"}
        /\ mark' = mark \cup new /\ pending' = pending \cup new
        /\ finalizable' = finalizable \ new
        /\ pc' = "phantom" => new = {}
    BY <1>10 DEF ScheduleFinalizations
  <2>2. \A r : Settled(r) => Settled(r)'
    BY <1>10 DEF ScheduleFinalizations, Settled
  <2>3. pc' = "phantom" => stack' = {}
    BY <1>10, <2>1 DEF ScheduleFinalizations, PhaseInv
  <2>4. QED
    BY <1>10, <2>1, <2>2, <2>3 DEF ScheduleFinalizations, PhaseInv
<1>11. CASE HandlePhantom
  <2> DEFINE new == {referent[r] : r \in Dead("phantom")}
  <2>1. /\ pc = "phantom" /\ pc' \in {"sweep", "drainPhantom"}
        /\ mark' = mark \cup new /\ operations' = operations \cup Dead("phantom")
        /\ stack' = stack \cup {x \in new : x < finger}
        /\ pc' = "sweep" => new = {}
    BY <1>11 DEF HandlePhantom
  <2>2. \A r \in latched : Settled(r) => Settled(r)'
    BY <1>11 DEF HandlePhantom, Settled
  <2>3. \A r \in latched : kind[r] = "phantom" => Settled(r)'
    BY <1>11 DEF HandlePhantom, Settled, Dead
  <2>4. Dead("phantom") \subseteq mark
    BY DEF Dead, ColourInv
  <2>5. pc' = "sweep" => stack' = {}
    BY <2>1 DEF PhaseInv
  <2>6. QED
    BY <1>11, <2>1, <2>2, <2>3, <2>4, <2>5 DEF HandlePhantom, PhaseInv
<1>12. CASE Sweep
  BY <1>12 DEF Sweep, PhaseInv, Settled
<1>13. CASE Done
  BY <1>13 DEF Done, vars, PhaseInv, Settled
<1>14. QED
  BY <1>1, <1>2, <1>3, <1>4, <1>5, <1>6, <1>7, <1>8, <1>9, <1>10, <1>11, <1>12,
     <1>13 DEF Next

-----------------------------------------------------------------------------
\* A collection starts with nothing marked.
LEMMA InitInv == Init => Inv
<1> SUFFICES ASSUME Init PROVE Inv
  OBVIOUS
<1>1. TypeOK
  BY HeapAssumption DEF Init, TypeOK, NULL
<1>2. ColourInv
  BY DEF Init, ColourInv
<1>3. WalkInv
  BY WalkFacts DEF Init, WalkInv
<1>4. PhaseInv
  BY DEF Init, PhaseInv, AfterMark, AfterSoft, AfterWeak, AfterFinal,
         AfterPhantom, Swept, Draining
<1>5. QED
  BY <1>1, <1>2, <1>3, <1>4 DEF Inv

\* In every state of a collection whose walk is in order the colours hold.
THEOREM Invariance == GoodWalk => (Spec => []Inv)
<1> SUFFICES ASSUME GoodWalk PROVE Spec => []Inv
  OBVIOUS
<1>1. Inv /\ [Next]_vars => Inv'
  BY TypeStep, ColourStep, WalkStep, PhaseStep DEF Inv
<1>2. QED
  BY InitInv, <1>1, PTL DEF Spec

\* At the end every survivor was scanned, and every listed reference settled.
LEMMA InvIsWhole == Inv => SurvivorsAreWhole
<1> SUFFICES ASSUME Inv, pc = "done", Late = {} PROVE Whole
  BY DEF SurvivorsAreWhole
<1>1. /\ objs = mark /\ stack = {} /\ buffer = {} /\ word = Len(Walk) + 1
      /\ roots \subseteq mark /\ pending \subseteq mark
      /\ operations \subseteq mark /\ finalizable \subseteq mark
  BY DEF Inv, PhaseInv, WalkInv, AfterMark, AfterSoft, AfterWeak, AfterFinal,
         AfterPhantom, Swept, Draining
<1>2. \A o : ~Ahead(o)
  BY <1>1, WalkFacts DEF Ahead
<1>3. mark \subseteq scanned
  BY <1>1, <1>2 DEF Inv, ColourInv
<1>4. \A r \in listed : kind[r] # "plain" => Settled(r)
  <2>1. listed \subseteq latched
    BY DEF Late
  <2>2. \A r \in latched : kind[r] \in {"soft", "weak", "phantom"} => Settled(r)
    BY DEF Inv, PhaseInv, AfterSoft, AfterWeak, AfterFinal, AfterPhantom, Swept
  <2>3. \A r \in latched : kind[r] \in Kind
    BY DEF Inv, TypeOK
  <2>4. QED
    BY <2>1, <2>2, <2>3 DEF Kind
<1>5. \A o \in mark : /\ strong[o] \subseteq mark
                      /\ kind[o] # "plain" => Settled(o)
  BY <1>3, <1>4 DEF Inv, ColourInv
<1>6. QED
  BY <1>1, <1>5 DEF Whole, Settled

\* dvmCollectGarbageInternal, for every heap and every layout of bitmaps that
\* dvmHeapBitmapWalkList visits in order: when no reference was listed late,
\* nothing that is kept points to freed memory.
THEOREM CollectionIsSafe == GoodWalk => (Spec => []SurvivorsAreWhole)
<1> SUFFICES ASSUME GoodWalk PROVE Spec => []SurvivorsAreWhole
  OBVIOUS
<1>1. Spec => []Inv
  BY Invariance
<1>2. QED
  BY <1>1, InvIsWhole, PTL

\* dvmHeapHandleReferences clears every soft and weak reference to an object
\* that is not kept, for every heap and layout as above.
THEOREM ClearingIsComplete == GoodWalk => (Spec => []ClearedTogether)
<1> SUFFICES ASSUME GoodWalk PROVE Spec => []ClearedTogether
  OBVIOUS
<1>1. Spec => []Inv
  BY Invariance
<1>2. ASSUME Inv, pc = "finalizable",
             NEW r \in mark, kind[r] \in {"soft", "weak"}, referent[r] # NULL
      PROVE referent[r] \in mark
  <2>1. stack = {} /\ buffer = {} /\ word = Len(Walk) + 1 /\ listed \subseteq latched
    BY <1>2 DEF Inv, PhaseInv, WalkInv, AfterMark, AfterSoft, AfterWeak, Draining
  <2>2. r \in scanned
    BY <2>1, WalkFacts, <1>2 DEF Ahead, Inv, ColourInv
  <2>3. r \in latched => Settled(r)
    BY <1>2 DEF Inv, PhaseInv, AfterSoft, AfterWeak
  <2>4. Settled(r)
    BY <1>2, <2>1, <2>2, <2>3 DEF Inv, ColourInv
  <2>5. QED
    BY <1>2, <2>4 DEF Settled
<1>3. Inv => ClearedTogether
  BY <1>2 DEF ClearedTogether
<1>4. QED
  BY <1>1, <1>3, PTL
-----------------------------------------------------------------------------
(* What the marks mean: nothing is marked that the program cannot reach.   *)

\* The edges along which marks have come: fields, and the referents of soft
\* references and of references scheduled before.
MarkedEdges ==
  [o \in Obj |-> strong[o] \cup
                   (IF kind[o] = "soft" \/ o \in scheduled
                    THEN {referent[o]} \cap mark ELSE {})]

\* Until objects are marked for their finalizers, every mark has come from a
\* root, and what was scheduled before is followed and never listed.
OriginInv ==
  /\ \A r \in scheduled : kind[r] # "plain"
  /\ pc \notin AfterFinal =>
       /\ mark \subseteq Reach(roots, MarkedEdges)
       /\ pending = {}
       /\ \A r \in scanned \cap scheduled : Settled(r)

\* What is queued for finalisation, and what is left on finalizableRefs.
FinalInv ==
  pc \in {"drainFinalizable", "phantom"} =>
    finalizable \subseteq Reachable /\ pending \cap Reachable = {}

\* Reach grows with the edges.
LEMMA ReachGrows ==
  ASSUME NEW S, NEW E, NEW F, \A o \in Obj : E[o] \subseteq F[o]
  PROVE  Reach(S, E) \subseteq Reach(S, F)
BY DEF Reach

\* Reach contains where it starts, and is closed.
LEMMA ReachClosed ==
  ASSUME NEW S \in SUBSET Obj, NEW E \in [Obj -> SUBSET Obj]
  PROVE  /\ S \subseteq Reach(S, E)
         /\ \A o \in Reach(S, E) : E[o] \subseteq Reach(S, E)
BY DEF Reach

\* Reach is the least such set.
LEMMA ReachLeast ==
  ASSUME NEW S, NEW E, NEW T \in SUBSET Obj, S \subseteq T,
         \A x \in T : E[x] \subseteq T
  PROVE  Reach(S, E) \subseteq T
BY DEF Reach

\* Scanning a marked object marks along the edges, and settles a reference
\* scheduled before.
LEMMA ScanKeepsOrigin ==
  ASSUME TypeOK, OriginInv, pc \notin AfterFinal,
         NEW o \in mark, ScanObject(o), pc' \notin AfterFinal,
         UNCHANGED <<strong, kind, referent, roots, scheduled, pending>>
  PROVE  OriginInv'
<1>1. o \in Obj /\ markAllReferents = FALSE
  BY DEF TypeOK, markAllReferents, AfterFinal
<1>2. PICK keep \in BOOLEAN :
        LET follow == Unsettled(o) /\ Follow(o, keep)
            new == (strong[o] \cup (IF follow THEN {referent[o]} ELSE {})) \ mark
        IN /\ mark' = mark \cup new
           /\ scanned' = scanned \cup {o}
           /\ listed' = IF Unsettled(o) /\ ~follow THEN listed \cup {o} ELSE listed
  BY DEF ScanObject
<1> DEFINE follow == Unsettled(o) /\ Follow(o, keep)
           E == MarkedEdges
           F == MarkedEdges'
<1>3. /\ strong \in [Obj -> SUBSET Obj] /\ referent \in [Obj -> Obj \cup {NULL}]
      /\ mark \subseteq Obj /\ mark \subseteq mark' /\ roots \subseteq Obj
      /\ NULL \notin Obj
  BY <1>2, SweepAssumption DEF TypeOK
<1>4. /\ E \in [Obj -> SUBSET Obj] /\ F \in [Obj -> SUBSET Obj]
      /\ \A x \in Obj : E[x] \subseteq F[x]
  <2>1. mark' \subseteq Obj
    BY <1>1, ScanFacts
  <2>2. \A x \in Obj : strong[x] \subseteq Obj
    BY <1>3
  <2>3. E \in [Obj -> SUBSET Obj] /\ F \in [Obj -> SUBSET Obj]
    BY <1>3, <2>1, <2>2 DEF MarkedEdges
  <2>4. \A x \in Obj : E[x] \subseteq F[x]
    BY <1>3 DEF MarkedEdges
  <2> QED BY <2>3, <2>4
<1>5. mark' \subseteq mark \cup F[o]
  <2>1. CASE follow
    <3>1. kind[o] = "soft" \/ o \in scheduled
      BY <1>1, <2>1 DEF Follow
    <3>2. mark' = mark \cup strong[o] \cup {referent[o]}
      BY <1>2, <2>1
    <3> QED BY <3>1, <3>2, <1>1 DEF MarkedEdges
  <2>2. CASE ~follow
    BY <1>1, <1>2, <2>2 DEF MarkedEdges
  <2> QED BY <2>1, <2>2
<1>6. mark' \subseteq Reach(roots, F)
  <2> HIDE DEF E, F
  <2>1. mark \subseteq Reach(roots, E)
    BY DEF OriginInv, E
  <2>2. mark \subseteq Reach(roots, F)
    BY <2>1, <1>4, ReachGrows
  <2>3. F[o] \subseteq Reach(roots, F)
    BY <2>2, <1>3, <1>4, ReachClosed
  <2> QED BY <2>2, <2>3, <1>5
<1>7. ASSUME NEW r \in scanned' \cap scheduled'
      PROVE  Settled(r)'
  <2>1. CASE r # o
    BY <1>2, <1>3, <2>1 DEF OriginInv, Settled
  <2>2. CASE r = o /\ Unsettled(o)
    <3>1. follow
      BY <2>2 DEF Follow
    <3> QED BY <3>1, <2>2, <1>2 DEF Settled
  <2>3. CASE r = o /\ ~Unsettled(o)
    BY <2>3, <1>2 DEF Settled, Unsettled, OriginInv
  <2> QED BY <2>1, <2>2, <2>3
<1> QED
  BY <1>6, <1>7 DEF OriginInv, Reach

\* Clearing references to unmarked objects changes no edge a mark came along.
LEMMA ClearKeepsOrigin ==
  ASSUME TypeOK, OriginInv, pc \notin AfterFinal, latched \subseteq scanned,
         NEW k \in {"soft", "weak"}, ClearReferences(k), pc' \notin AfterFinal,
         UNCHANGED <<strong, kind, roots, pending, mark, scanned, latched>>
  PROVE  OriginInv'
<1> DEFINE D == Dead(k)
<1>1. /\ referent' = [o \in Obj |-> IF o \in D THEN NULL ELSE referent[o]]
      /\ scheduled' = scheduled \cup D
      /\ D \subseteq Obj
      /\ \A r \in D : kind[r] = k /\ referent[r] \notin mark
  BY DEF ClearReferences, Dead, TypeOK
<1>2. NULL \notin mark
  BY SweepAssumption DEF TypeOK
<1> HIDE DEF D
<1>3. \A o \in Obj : MarkedEdges'[o] = MarkedEdges[o]
  BY <1>1, <1>2 DEF MarkedEdges
<1>4. Reach(roots, MarkedEdges) \subseteq Reach(roots, MarkedEdges')
  BY <1>3, ReachGrows
<1>5. mark' \subseteq Reach(roots', MarkedEdges')
  BY <1>4 DEF OriginInv
<1>6. \A r \in scheduled' : kind[r] # "plain"
  BY <1>1 DEF OriginInv
<1>7. \A r \in scanned' \cap scheduled' : referent'[r] = NULL \/ referent'[r] \in mark'
  BY <1>1 DEF OriginInv, Settled, TypeOK
<1> QED
  BY <1>5, <1>6, <1>7 DEF OriginInv, Settled, Reach

\* Where the marks have come from, in every step.
LEMMA OriginStep == Inv /\ OriginInv /\ [Next]_vars => OriginInv'
<1> SUFFICES ASSUME Inv, OriginInv, [Next]_vars PROVE OriginInv'
  OBVIOUS
<1> USE DEF graph, walking, tables
<1>0. TypeOK /\ ColourInv
  BY DEF Inv
<1>1. CASE UNCHANGED <<strong, kind, referent, scheduled, roots, mark, scanned, pending>>
           /\ (pc \in AfterFinal => pc' \in AfterFinal)
  BY <1>1 DEF OriginInv, MarkedEdges, Reach, Settled
<1>2. CASE MarkRootSet
  <2>1. scanned = {} /\ pc \notin AfterFinal
    BY <1>2 DEF MarkRootSet, Inv, WalkInv, AfterFinal, AfterPhantom, Swept
  <2>2. roots \subseteq Reach(roots, MarkedEdges')
    BY <1>0 DEF Reach, TypeOK
  <2> QED BY <1>2, <2>1, <2>2 DEF MarkRootSet, OriginInv, Reach
<1>3. CASE ScanBuffered
  <2>1. PICK o \in buffer : ScanObject(o)
    BY <1>3 DEF ScanBuffered
  <2>2. pc \notin AfterFinal /\ pc' \notin AfterFinal
    BY <1>3 DEF ScanBuffered, AfterFinal, AfterPhantom, Swept
  <2>3. o \in mark
    BY <1>0 DEF ColourInv
  <2> QED BY <1>0, <1>3, <2>1, <2>2, <2>3, ScanKeepsOrigin DEF ScanBuffered
<1>4. CASE ProcessMarkStack
  <2>1. PICK o \in stack : ScanObject(o)
    BY <1>4 DEF ProcessMarkStack
  <2>2. CASE pc \in AfterFinal
    BY <1>4, <2>2 DEF ProcessMarkStack, OriginInv
  <2>3. CASE pc \notin AfterFinal
    <3>1. o \in mark
      BY <1>0 DEF ColourInv
    <3> QED BY <1>0, <1>4, <2>1, <2>3, <3>1, ScanKeepsOrigin DEF ProcessMarkStack
  <2> QED BY <2>2, <2>3
<1>5. CASE HandleSoft
  <2>1. /\ pc \notin AfterFinal /\ pc' \notin AfterFinal
        /\ latched \subseteq scanned
    BY <1>0, <1>5 DEF HandleSoft, ColourInv, AfterFinal, AfterPhantom, Swept
  <2>2. CASE ClearReferences("soft")
    BY <1>0, <1>5, <2>1, <2>2, ClearKeepsOrigin DEF HandleSoft
  <2>3. CASE UNCHANGED <<referent, scheduled, operations>>
    BY <1>1, <1>5, <2>1, <2>3 DEF HandleSoft
  <2> QED BY <1>5, <2>2, <2>3 DEF HandleSoft
<1>6. CASE HandleWeak
  <2>1. /\ pc \notin AfterFinal /\ pc' \notin AfterFinal
        /\ latched \subseteq scanned
    BY <1>0, <1>6 DEF HandleWeak, ColourInv, AfterFinal, AfterPhantom, Swept
  <2> QED BY <1>0, <1>6, <2>1, ClearKeepsOrigin DEF HandleWeak
<1>7. CASE ScheduleFinalizations
  BY <1>7 DEF ScheduleFinalizations, OriginInv, AfterFinal
<1>8. CASE HandlePhantom
  <2>1. pc' \in AfterFinal /\ UNCHANGED kind
    BY <1>8 DEF HandlePhantom, AfterFinal, AfterPhantom
  <2>2. PICK first \in [{referent[r] : r \in Dead("phantom")} -> Dead("phantom")] :
          scheduled' = scheduled \cup
                       {first[x] : x \in {referent[r] : r \in Dead("phantom")}}
    BY <1>8 DEF HandlePhantom
  <2>3. scheduled' \subseteq scheduled \cup Dead("phantom")
    BY <2>2
  <2>4. \A r \in Dead("phantom") : kind[r] = "phantom"
    BY DEF Dead
  <2> QED BY <2>1, <2>3, <2>4 DEF OriginInv
<1>9. CASE WalkWord
  BY <1>1, <1>9 DEF WalkWord, AfterFinal, AfterPhantom, Swept
<1>10. CASE WalkDone
  BY <1>1, <1>10 DEF WalkDone, AfterFinal, AfterPhantom, Swept
<1>11. CASE Drained
  BY <1>1, <1>11 DEF Drained, Draining, AfterFinal, AfterPhantom, Swept
<1>12. CASE Sweep
  BY <1>1, <1>12 DEF Sweep, AfterFinal, AfterPhantom, Swept
<1>13. CASE UNCHANGED vars
  BY <1>1, <1>13 DEF vars
<1> QED
  BY <1>2, <1>3, <1>4, <1>5, <1>6, <1>7, <1>8, <1>9, <1>10, <1>11, <1>12, <1>13
  DEF Next, Done

\* When the strong marking is over the marks are exactly what is reachable.
LEMMA MarksAreReachable ==
  Inv /\ OriginInv /\ pc \in {"weak", "finalizable"} => mark = Reachable
<1> SUFFICES ASSUME Inv, OriginInv, pc \in {"weak", "finalizable"}
             PROVE  mark = Reachable
  OBVIOUS
<1> DEFINE E == [o \in Obj |-> strong[o] \cup
                  (IF kind[o] = "soft" \/ o \in scheduled
                   THEN {referent[o]} \ {NULL} ELSE {})]
<1>0. TypeOK /\ ColourInv /\ WalkInv /\ PhaseInv
  BY DEF Inv
<1>1. pc \notin AfterFinal /\ pc \in AfterSoft /\ pc \in AfterMark \ Draining
  BY DEF AfterFinal, AfterPhantom, Swept, AfterSoft, AfterWeak, AfterMark, Draining
<1>2. NULL \notin mark /\ mark \subseteq Obj
  BY <1>0, SweepAssumption DEF TypeOK
<1>3. \A o \in Obj : MarkedEdges[o] \subseteq E[o]
  BY <1>2 DEF MarkedEdges
<1>4. Reach(roots, MarkedEdges) \subseteq Reach(roots, E)
  BY <1>3, ReachGrows
<1>5. \A x \in mark : E[x] \subseteq mark
  <2> SUFFICES ASSUME NEW x \in mark PROVE E[x] \subseteq mark
    OBVIOUS
  <2>1. word = Len(Walk) + 1 /\ buffer = {} /\ stack = {}
    BY <1>0, <1>1 DEF WalkInv, PhaseInv
  <2>2. ~Ahead(x)
    BY <2>1, WalkFacts DEF Ahead
  <2>3. x \in scanned /\ strong[x] \subseteq mark
    BY <1>0, <2>1, <2>2 DEF ColourInv
  <2>4. kind[x] = "soft" => Settled(x)
    BY <1>0, <1>1, <2>3 DEF ColourInv, PhaseInv
  <2>5. x \in scheduled => Settled(x)
    BY <1>1, <2>3 DEF OriginInv
  <2> QED BY <1>2, <2>3, <2>4, <2>5 DEF Settled
<1>6. roots \subseteq mark
  BY <1>0 DEF PhaseInv
<1> HIDE DEF E
<1>7. Reach(roots, E) \subseteq mark
  BY <1>2, <1>5, <1>6, ReachLeast
<1>8. mark \subseteq Reach(roots, E)
  BY <1>1, <1>4 DEF OriginInv
<1>9. Reachable = Reach(roots, E)
  BY DEF Reachable, E
<1> QED BY <1>7, <1>8, <1>9

\* What is queued for finalisation was not reachable, in every step.
LEMMA FinalStep == Inv /\ OriginInv /\ FinalInv /\ [Next]_vars => FinalInv'
<1> SUFFICES ASSUME Inv, OriginInv, FinalInv, [Next]_vars,
                    pc' \in {"drainFinalizable", "phantom"}
             PROVE  (finalizable \subseteq Reachable /\ pending \cap Reachable = {})'
  BY DEF FinalInv
<1> USE DEF graph, walking, tables
<1>1. CASE /\ pc \in {"drainFinalizable", "phantom"}
           /\ UNCHANGED <<strong, kind, referent, scheduled, roots, finalizable, pending>>
  <2>1. Reachable' = Reachable
    BY <1>1 DEF Reachable, Reach
  <2> QED BY <1>1, <2>1 DEF FinalInv
<1>2. CASE ScheduleFinalizations
  <2>1. mark = Reachable /\ pending = {}
    BY <1>2, MarksAreReachable
    DEF ScheduleFinalizations, OriginInv, AfterFinal, AfterPhantom, Swept
  <2>2. Reachable' = Reachable
    BY <1>2 DEF ScheduleFinalizations, Reachable, Reach
  <2> QED BY <1>2, <2>1, <2>2 DEF ScheduleFinalizations
<1>3. CASE ProcessMarkStack
  BY <1>1, <1>3 DEF ProcessMarkStack, Draining
<1>4. CASE Drained
  BY <1>1, <1>4 DEF Drained, Draining
<1>5. CASE UNCHANGED vars
  BY <1>1, <1>5 DEF vars
<1> QED
  BY <1>2, <1>3, <1>4, <1>5
  DEF Next, MarkRootSet, WalkWord, ScanBuffered, WalkDone, HandleSoft, HandleWeak,
      HandlePhantom, Sweep, Done

-----------------------------------------------------------------------------
(* Every object is scanned at most once.                                   *)

\* What the walk has still to visit was not met otherwise: the finger has not
\* passed it, so whoever marked it has left it to the walk.
OnceInv ==
  /\ \A o \in Obj : Ahead(o) => o \notin scanned \cup stack \cup buffer
  /\ pc \in {"roots", "walk", "scan"} =>
       \A j \in 1 .. Len(Walk) : j >= word => finger <= Walk[j].lo
  /\ finger <= EndOfMemory
  /\ ScannedOnce

\* Scanning what waits in the buffer or on the stack takes it from there, and
\* pushes only what was not marked and the walk will not visit.
LEMMA ScanKeepsOnce ==
  ASSUME Inv, OnceInv, NEW o \in buffer \cup stack, ScanObject(o),
         UNCHANGED <<strong, kind, referent, word, finger>>,
         buffer' = buffer \ {o}, pc \in {"scan"} \cup Draining,
         pc' \in {"roots", "walk", "scan"} => pc = "scan"
  PROVE  OnceInv'
<1>0. TypeOK /\ ColourInv /\ WalkInv
  BY DEF Inv
<1>1. o \in mark /\ o \in Obj /\ scanned \subseteq mark
  BY <1>0 DEF ColourInv, TypeOK
<1>2. /\ scanned' = scanned \cup {o}
      /\ stack' \subseteq (stack \ {o}) \cup (mark' \ mark)
      /\ mark' \subseteq Obj
  BY <1>0, <1>1, ScanFacts
<1>3. \A x \in stack' \ stack : x \notin mark /\ x < finger /\ x \in Obj
  BY <1>2 DEF ScanObject
<1>4. \A x \in Obj : Ahead(x)' <=> Ahead(x)
  BY DEF Ahead
<1>5. \A x \in stack' \ stack : ~Ahead(x)
  <2> SUFFICES ASSUME NEW x \in stack' \ stack, Ahead(x) PROVE FALSE
    OBVIOUS
  <2>1. PICK j \in 1 .. Len(Walk) : j >= word /\ Walk[j].lo <= x
    BY DEF Ahead
  <2>2. pc = "scan"
    BY <1>0, <2>1, WalkFacts DEF WalkInv, Draining
  <2>3. finger <= Walk[j].lo
    BY <2>1, <2>2 DEF OnceInv
  <2>4. x \in Nat /\ finger \in Nat /\ Walk[j].lo \in Nat
    BY <1>0, <1>3, <2>1, WalkFacts, SweepAssumption DEF TypeOK
  <2> QED BY <1>3, <2>1, <2>3, <2>4
<1>6. ~Ahead(o)
  BY <1>1 DEF OnceInv
<1>7. \A x \in Obj : Ahead(x)' => x \notin scanned' \cup stack' \cup buffer'
  BY <1>2, <1>4, <1>5, <1>6 DEF OnceInv
<1>8. ScannedOnce'
  <2>1. buffer \subseteq mark
    BY <1>0 DEF ColourInv
  <2> QED BY <1>1, <1>2, <1>3, <2>1 DEF OnceInv, ScannedOnce
<1> QED BY <1>7, <1>8 DEF OnceInv

\* Marking outside the scan, when the walk is over.
LEMMA MarkKeepsOnce ==
  ASSUME Inv, OnceInv, NEW new, new \cap mark = {},
         stack' = stack \cup {x \in new : x < finger},
         pc \notin {"roots", "walk", "scan"}, pc' \notin {"roots", "walk", "scan"},
         UNCHANGED <<scanned, word, buffer, finger>>
  PROVE  OnceInv'
<1>0. ColourInv /\ WalkInv
  BY DEF Inv
<1>1. word = Len(Walk) + 1 /\ buffer = {} /\ scanned \subseteq mark
  BY <1>0 DEF WalkInv, ColourInv
<1>2. \A x \in Obj : ~Ahead(x)'
  BY <1>1, WalkFacts DEF Ahead
<1>3. ScannedOnce'
  BY <1>1 DEF OnceInv, ScannedOnce
<1> QED BY <1>2, <1>3 DEF OnceInv

\* While it walks, the walk is at one of its words.
LEMMA AtWord ==
  ASSUME TypeOK, WalkWord
  PROVE  word \in 1 .. Len(Walk) /\ word' = word + 1 /\ pc = "walk"
<1>1. word \in Nat \ {0}
  BY DEF TypeOK
<1>2. word <= Len(Walk) /\ word' = word + 1 /\ pc = "walk"
  BY DEF WalkWord
<1> QED BY ONLY <1>1, <1>2, WalkFacts

\* No object is met twice, in every step.
LEMMA OnceStep ==
  ASSUME GoodWalk, OrderedWalk, Inv, OnceInv, [Next]_vars
  PROVE  OnceInv'
<1> USE DEF graph, walking, tables
<1>0. TypeOK /\ ColourInv /\ WalkInv /\ PhaseInv
  BY DEF Inv
<1>1. CASE /\ UNCHANGED <<scanned, stack, buffer, word, finger>>
           /\ pc' \in {"roots", "walk", "scan"} => pc \in {"roots", "walk", "scan"}
  <2>1. \A x \in Obj : Ahead(x)' <=> Ahead(x)
    BY <1>1 DEF Ahead
  <2> QED BY <1>1, <2>1 DEF OnceInv, ScannedOnce
<1>2. CASE MarkRootSet
  BY <1>1, <1>2 DEF MarkRootSet
<1>3. CASE WalkWord
  <2> DEFINE w == Walk[word]
             bits == {o \in mark : w.lo <= o /\ o < w.hi}
  <2>1. word \in 1 .. Len(Walk) /\ word' = word + 1 /\ pc = "walk"
    BY <1>0, <1>3, AtWord
  <2>2. /\ buffer' = buffer \cup bits
        /\ finger' \in {finger, w.hi} \/ (w.last /\ finger' = w.end)
        /\ UNCHANGED <<scanned, stack>>
    BY <1>3 DEF WalkWord
  <2>3. \A j \in 1 .. Len(Walk) :
          Walk[j].lo \in Nat /\ Walk[j].hi \in Nat /\ Walk[j].end \in Nat
    BY WalkFacts
  <2>4. finger \in Nat /\ Obj \subseteq Nat /\ EndOfMemory \in Nat /\ mark \subseteq Obj
    BY <1>0, SweepAssumption DEF TypeOK
  <2>6. \A j \in 1 .. Len(Walk) : j >= word' => finger' <= Walk[j].lo
    <3> SUFFICES ASSUME NEW j \in 1 .. Len(Walk), j >= word'
                 PROVE  finger' <= Walk[j].lo
      OBVIOUS
    <3>1. word < j /\ j >= word
      BY <2>1, WalkFacts
    <3>2. finger <= Walk[j].lo /\ w.hi <= Walk[j].lo
      BY <2>1, <3>1 DEF OnceInv, OrderedWalk
    <3>3. w.last => w.end <= Walk[j].lo
      BY <2>1, <3>1 DEF OrderedWalk
    <3> QED BY <2>2, <3>2, <3>3
  <2>7. \A x \in Obj : Ahead(x)' => Ahead(x) /\ x \notin bits
    <3> SUFFICES ASSUME NEW x \in Obj, Ahead(x)' PROVE Ahead(x) /\ x \notin bits
      OBVIOUS
    <3>1. PICK j \in 1 .. Len(Walk) : j >= word' /\ Walk[j].lo <= x /\ x < Walk[j].hi
      BY DEF Ahead
    <3>2. word < j /\ j >= word
      BY <2>1, <3>1, WalkFacts
    <3>3. w.hi <= Walk[j].lo
      BY <2>1, <3>2 DEF OrderedWalk
    <3>4. x >= w.hi
      BY <2>1, <2>3, <2>4, <3>1, <3>3
    <3> QED BY <2>1, <2>3, <2>4, <3>1, <3>2, <3>4 DEF Ahead
  <2>8. \A x \in bits : x \in Obj /\ Ahead(x)
    BY <2>1, <2>4 DEF Ahead
  <2> HIDE DEF bits
  <2>9. \A x \in Obj : Ahead(x)' => x \notin scanned' \cup stack' \cup buffer'
    BY <2>2, <2>7 DEF OnceInv
  <2>10. ScannedOnce'
    BY <2>2, <2>8 DEF OnceInv, ScannedOnce
  <2>11. finger' <= EndOfMemory
    BY <2>1, <2>2, <2>3, <2>4 DEF OnceInv, OrderedWalk, GoodWalk
  <2> QED BY <2>6, <2>9, <2>10, <2>11 DEF OnceInv
<1>4. CASE ScanBuffered
  <2>1. PICK o \in buffer : /\ ScanObject(o) /\ buffer' = buffer \ {o}
                            /\ pc = "scan"
    BY <1>4 DEF ScanBuffered
  <2> QED BY <1>4, <2>1, ScanKeepsOnce DEF ScanBuffered
<1>5. CASE WalkDone
  <2>1. /\ word > Len(Walk) /\ finger' = EndOfMemory /\ pc' = "drain"
        /\ UNCHANGED <<word, scanned, stack, buffer>>
    BY <1>5 DEF WalkDone
  <2>2. \A x \in Obj : ~Ahead(x)'
    <3>1. word \in Nat
      BY <1>0 DEF TypeOK
    <3> QED BY ONLY <2>1, <3>1, WalkFacts DEF Ahead
  <2>3. finger' <= EndOfMemory
    BY <2>1, SweepAssumption
  <2> QED BY <2>1, <2>2, <2>3 DEF OnceInv, ScannedOnce
<1>6. CASE ProcessMarkStack
  <2>1. PICK o \in stack : ScanObject(o)
    BY <1>6 DEF ProcessMarkStack
  <2>2. pc \notin {"roots", "walk", "scan"} /\ UNCHANGED pc
    BY <1>6 DEF ProcessMarkStack, Draining
  <2>3. buffer = {}
    BY <1>0, <2>2 DEF WalkInv
  <2> QED BY <1>6, <2>1, <2>2, <2>3, ScanKeepsOnce DEF ProcessMarkStack
<1>7. CASE Drained
  BY <1>1, <1>7 DEF Drained, Draining
<1>8. CASE HandleSoft \/ HandleWeak \/ Sweep \/ UNCHANGED vars
  BY <1>1, <1>8 DEF HandleSoft, HandleWeak, Sweep, vars
<1>9. CASE ScheduleFinalizations
  <2> DEFINE new == finalizable \ mark
  <2>1. /\ new \cap mark = {} /\ stack' = stack \cup {x \in new : x < finger}
        /\ pc = "finalizable" /\ pc' \in {"phantom", "drainFinalizable"}
        /\ UNCHANGED <<scanned, word, buffer, finger>>
    BY <1>9 DEF ScheduleFinalizations
  <2> HIDE DEF new
  <2> QED BY <2>1, MarkKeepsOnce
<1>10. CASE HandlePhantom
  <2> DEFINE new == {referent[r] : r \in Dead("phantom")}
  <2>1. new \cap mark = {}
    BY DEF Dead
  <2>2. /\ stack' = stack \cup {x \in new : x < finger}
        /\ pc = "phantom" /\ pc' \in {"sweep", "drainPhantom"}
        /\ UNCHANGED <<scanned, word, buffer, finger>>
    BY <1>10 DEF HandlePhantom
  <2> HIDE DEF new
  <2> QED BY <2>1, <2>2, MarkKeepsOnce
<1> QED
  BY <1>2, <1>3, <1>4, <1>5, <1>6, <1>7, <1>8, <1>9, <1>10 DEF Next, Done

-----------------------------------------------------------------------------
\* Where the marks come from, in every state of a collection in order.
THEOREM MarksHaveOrigins == GoodWalk => (Spec => [](Inv /\ OriginInv /\ FinalInv))
<1> SUFFICES ASSUME GoodWalk PROVE Spec => [](Inv /\ OriginInv /\ FinalInv)
  OBVIOUS
<1>1. Spec => []Inv
  BY Invariance
<1>2. Init => OriginInv /\ FinalInv
  <2> SUFFICES ASSUME Init PROVE OriginInv /\ FinalInv
    OBVIOUS
  <2>1. \A r \in scheduled : kind[r] # "plain"
    BY HeapAssumption DEF Init
  <2> QED BY <2>1 DEF Init, OriginInv, FinalInv
<1>3. Inv /\ OriginInv /\ FinalInv /\ [Next]_vars => (OriginInv /\ FinalInv)'
  BY OriginStep, FinalStep
<1>4. QED
  BY <1>1, <1>2, <1>3, PTL DEF Spec

\* dvmHeapScanMarkedObjects and the handling of soft references mark exactly
\* what is reachable, for every heap, every buffer size, and every layout of
\* bitmaps that is walked in order.
THEOREM MarkingIsExact == GoodWalk => (Spec => []StrongMarkIsExact)
<1> SUFFICES ASSUME GoodWalk PROVE Spec => []StrongMarkIsExact
  OBVIOUS
<1>1. Spec => [](Inv /\ OriginInv /\ FinalInv)
  BY MarksHaveOrigins
<1>2. Inv /\ OriginInv /\ FinalInv => StrongMarkIsExact
  BY MarksAreReachable DEF StrongMarkIsExact
<1>3. QED
  BY <1>1, <1>2, PTL

\* dvmHeapScheduleFinalizations queues exactly the finalizable objects that
\* are not reachable, for every heap and layout as above.
THEOREM FinalizationIsExact == GoodWalk => (Spec => []FinalizesTheUnreachable)
<1> SUFFICES ASSUME GoodWalk PROVE Spec => []FinalizesTheUnreachable
  OBVIOUS
<1>1. Spec => [](Inv /\ OriginInv /\ FinalInv)
  BY MarksHaveOrigins
<1>2. Inv /\ OriginInv /\ FinalInv => FinalizesTheUnreachable
  BY DEF FinalizesTheUnreachable, FinalInv
<1>3. QED
  BY <1>1, <1>2, PTL

\* Nothing waits twice, in every state of a collection in order.
THEOREM OnceInvariance == GoodWalk /\ OrderedWalk => (Spec => [](Inv /\ OnceInv))
<1> SUFFICES ASSUME GoodWalk, OrderedWalk PROVE Spec => [](Inv /\ OnceInv)
  OBVIOUS
<1>1. Spec => []Inv
  BY Invariance
<1>2. Init => OnceInv
  <2> SUFFICES ASSUME Init PROVE OnceInv
    OBVIOUS
  <2>1. \A j \in 1 .. Len(Walk) : 0 <= Walk[j].lo
    BY WalkFacts
  <2>2. 0 <= EndOfMemory
    BY SweepAssumption
  <2> QED BY <2>1, <2>2 DEF Init, OnceInv, ScannedOnce, NULL
<1>3. Inv /\ OnceInv /\ [Next]_vars => OnceInv'
  BY OnceStep
<1>4. QED
  BY <1>1, <1>2, <1>3, PTL DEF Spec

\* scanObject never meets an object it has scanned ("object was already
\* scanned this generation"), when the words of the walk do not overlap.
THEOREM ObjectsAreScannedOnce ==
  GoodWalk /\ OrderedWalk => (Spec => []ScannedOnce)
<1> SUFFICES ASSUME GoodWalk, OrderedWalk PROVE Spec => []ScannedOnce
  OBVIOUS
<1>1. Spec => [](Inv /\ OnceInv)
  BY OnceInvariance
<1>2. Inv /\ OnceInv => ScannedOnce
  BY DEF OnceInv
<1>3. QED
  BY <1>1, <1>2, PTL

\* "finger will increase monotonically": scanBitmapCallback's assertion holds
\* of every walk in order.
THEOREM FingerNeverGoesBack ==
  GoodWalk /\ OrderedWalk => (Spec => FingerIsMonotonic)
<1> SUFFICES ASSUME GoodWalk, OrderedWalk PROVE Spec => FingerIsMonotonic
  OBVIOUS
<1>1. Spec => [](Inv /\ OnceInv)
  BY OnceInvariance
<1>2. Inv /\ OnceInv /\ [Next]_vars => [finger' >= finger]_vars
  <2> SUFFICES ASSUME Inv, OnceInv, Next PROVE finger' >= finger
    BY DEF vars
  <2>0. finger \in Nat /\ EndOfMemory \in Nat
    BY SweepAssumption DEF Inv, TypeOK
  <2>1. CASE UNCHANGED finger
    BY <2>0, <2>1
  <2>2. CASE WalkWord
    <3>1. word \in 1 .. Len(Walk) /\ pc = "walk"
      BY <2>2, AtWord DEF Inv
    <3>2. finger' \in {finger, Walk[word].hi, Walk[word].end}
      BY <2>2 DEF WalkWord
    <3>3. /\ finger <= Walk[word].lo /\ Walk[word].lo <= Walk[word].hi
          /\ Walk[word].hi <= Walk[word].end
      BY <3>1 DEF OnceInv, OrderedWalk, GoodWalk
    <3>4. Walk[word].lo \in Nat /\ Walk[word].hi \in Nat /\ Walk[word].end \in Nat
      BY <3>1, WalkFacts
    <3> QED BY <2>0, <3>2, <3>3, <3>4
  <2>3. CASE WalkDone
    BY <2>0, <2>3 DEF WalkDone, OnceInv
  <2> QED
    BY <2>1, <2>2, <2>3
    DEF Next, MarkRootSet, ScanBuffered, ProcessMarkStack, Drained, HandleSoft,
        HandleWeak, ScheduleFinalizations, HandlePhantom, Sweep, Done, vars
<1>3. QED
  BY <1>1, <1>2, PTL DEF Spec, FingerIsMonotonic
=============================================================================
