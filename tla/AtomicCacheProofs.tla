------------------------- MODULE AtomicCacheProofs --------------------------
(***************************************************************************)
(* For any number of threads, any classes and any version width:           *)
(* ATOMIC_CACHE_LOOKUP answers what isInstanceof computes, and             *)
(* dvmUpdateAtomicCache has one writer at a time.                          *)
(***************************************************************************)
EXTENDS AtomicCache, TLAPS

\* What the entry says is right, for every pair that would match it.
Consistent ==
  \A p \in Pair : key1 = Low[p[1]] /\ key2 = Low[p[2]] => value = Calc[p]

\* A writer has the flag, alone, and the version tells how far it is.
WriterInv ==
  /\ \A t, u \in Thread : pc[t] \in Owning /\ pc[u] \in Owning => t = u
  /\ ~locked => version % 2 = 0
  /\ \A t \in Thread :
       /\ pc[t] # "abort"
       /\ pc[t] \in Owning =>
            locked /\ firstVersion[t] % 2 = 0 /\ result[t] = Calc[arg[t]]
       /\ pc[t] = "increment" => version = firstVersion[t]
       /\ pc[t] \in Changing => version = firstVersion[t] + 1
       /\ pc[t] = "unlock" => version = firstVersion[t] + 2
       /\ pc[t] \in {"writeKey2", "writeValue", "incrementAgain"}
            => key1 = Low[arg[t][1]]
       /\ pc[t] \in {"writeValue", "incrementAgain"} => key2 = Low[arg[t][2]]
       /\ pc[t] = "incrementAgain" => value = result[t]

\* The thread's first version is still the version, and no write is under way.
Unchanged(t) == firstVersion[t] = version /\ version % 2 = 0

\* Then what a reader has read is what the entry holds.
ReaderInv ==
  \A t \in Thread :
    /\ firstVersion[t] <= version
    /\ (pc[t] \in {"readKey2", "readValue", "check"} /\ Unchanged(t))
         => key1 = Low[arg[t][1]]
    /\ (pc[t] \in {"readValue", "check"} /\ Unchanged(t))
         => key2 = Low[arg[t][2]]
    /\ (pc[t] = "check" /\ Unchanged(t)) => result[t] = value

Inv ==
  /\ TypeOK
  /\ WriterInv
  /\ ReaderInv
  /\ version % 2 = 0 => Consistent
  /\ RightAnswer

-----------------------------------------------------------------------------
\* A pair is known by the low words of its classes, as the (u4) casts of
\* ATOMIC_CACHE_LOOKUP assume.
LEMMA PairByLowWords ==
  ASSUME NEW p \in Pair, NEW q \in Pair,
         Low[p[1]] = Low[q[1]], Low[p[2]] = Low[q[2]]
  PROVE  p = q
<1>1. p \in Ptr \X Ptr /\ q \in Ptr \X Ptr
  BY CacheAssumption
<1>2. p[1] = q[1] /\ p[2] = q[2]
  BY <1>1, LowIsInjective
<1>3. QED
  BY <1>1, <1>2

\* The zeroed entry that dvmAllocAtomicCache leaves matches no pair.
LEMMA InitInv == Init => Inv
<1> SUFFICES ASSUME Init PROVE Inv
  OBVIOUS
<1>a. /\ key1 = 0 /\ key2 = 0 /\ value = 0 /\ version = 0
      /\ pc = [t \in Thread |-> "idle"]
      /\ arg \in [Thread -> Pair]
      /\ firstVersion = [t \in Thread |-> 0]
      /\ result = [t \in Thread |-> 0]
  BY DEF Init
<1>b. locked \in BOOLEAN
  BY DEF Init
<1>1. TypeOK
  BY <1>a, <1>b DEF TypeOK, Reading, Owning, Changing
<1>2. WriterInv
  BY <1>a DEF WriterInv, Owning, Changing
<1>3. ReaderInv
  <2>1. \A t \in Thread : pc[t] = "idle"
    BY <1>a
  <2>2. \A t \in Thread : firstVersion[t] <= version
    <3>1. \A t \in Thread : firstVersion[t] = 0
      BY <1>a
    <3>2. version = 0 /\ 0 <= 0
      BY <1>a
    <3>3. QED
      BY <3>1, <3>2
  <2>3. QED
    BY <2>1, <2>2 DEF ReaderInv
<1>4. Consistent
  <2> SUFFICES ASSUME NEW p \in Pair, key1 = Low[p[1]], key2 = Low[p[2]]
               PROVE FALSE
    BY DEF Consistent
  <2>1. p \in Ptr \X Ptr /\ p[1] # p[2]
    BY CacheAssumption
  <2>2. Low[p[1]] = Low[p[2]]
    BY <1>a
  <2>3. QED
    BY <2>1, <2>2, LowIsInjective
<1>5. RightAnswer
  BY <1>a DEF RightAnswer, At
<1>6. QED
  BY <1>1, <1>2, <1>3, <1>4, <1>5 DEF Inv

-----------------------------------------------------------------------------
(* A step keeps the invariant: one step per action, one per conjunct.      *)

\* TypeOK does not depend on the other conjuncts.
LEMMA TypeStep == TypeOK /\ [Next]_vars => TypeOK'
<1> SUFFICES ASSUME TypeOK, [Next]_vars PROVE TypeOK'
  OBVIOUS
<1>A. \A p \in Pair : Calc[p] \in 0 .. 1
  BY CacheAssumption
<1>B. \A p \in Pair : Low[p[1]] \in Nat /\ Low[p[2]] \in Nat
  BY CacheAssumption
<1>C. \A n \in Nat : n % VersionSpan \in Nat
  BY CacheAssumption
<1> USE DEF TypeOK, Reading, Owning, Changing, entry, local, Goto
<1>1. CASE UNCHANGED vars
  BY <1>1 DEF vars
<1>2. ASSUME NEW t \in Thread, Lookup(t)
      PROVE TypeOK'
  <2>1. CASE Start(t)
    BY <2>1, <1>A, <1>C DEF Start
  <2>2. CASE ReadKey1(t)
    BY <2>2, <1>A, <1>C DEF ReadKey1
  <2>3. CASE ReadKey2(t)
    BY <2>3, <1>A, <1>C DEF ReadKey2
  <2>4. CASE ReadValue(t)
    BY <2>4, <1>A, <1>C DEF ReadValue
  <2>5. CASE Check(t)
    BY <2>5, <1>A, <1>C DEF Check
  <2>6. QED
    BY <1>2, <2>1, <2>2, <2>3, <2>4, <2>5 DEF Lookup
<1>3. ASSUME NEW t \in Thread, Update(t)
      PROVE TypeOK'
  <2>1. CASE TryLock(t)
    BY <2>1, <1>A, <1>B DEF TryLock
  <2>2. CASE Increment(t)
    BY <2>2, <1>A, <1>B DEF Increment
  <2>3. CASE WriteKey1(t)
    BY <2>3, <1>A, <1>B DEF WriteKey1
  <2>4. CASE WriteKey2(t)
    BY <2>4, <1>A, <1>B DEF WriteKey2
  <2>5. CASE WriteValue(t)
    BY <2>5, <1>A, <1>B DEF WriteValue
  <2>6. CASE IncrementAgain(t)
    BY <2>6, <1>A, <1>B DEF IncrementAgain
  <2>7. CASE Unlock(t)
    BY <2>7, <1>A, <1>B DEF Unlock
  <2>8. QED
    BY <1>3, <2>1, <2>2, <2>3, <2>4, <2>5, <2>6, <2>7 DEF Update
<1>4. QED
  BY <1>1, <1>2, <1>3 DEF Next

\* The writer owns the entry, and only the writer changes it.
LEMMA WriterStep == Inv /\ [Next]_vars => WriterInv'
<1> SUFFICES ASSUME Inv, [Next]_vars PROVE WriterInv'
  OBVIOUS
<1> USE DEF Inv, TypeOK, WriterInv, Reading, Owning, Changing, entry, local,
            Goto, At
<1>1. CASE UNCHANGED vars
  BY <1>1 DEF vars
<1>2. ASSUME NEW t \in Thread, Lookup(t)
      PROVE WriterInv'
  <2>1. CASE Start(t)
    BY <2>1 DEF Start
  <2>2. CASE ReadKey1(t)
    BY <2>2 DEF ReadKey1
  <2>3. CASE ReadKey2(t)
    BY <2>3 DEF ReadKey2
  <2>4. CASE ReadValue(t)
    BY <2>4 DEF ReadValue
  <2>5. CASE Check(t)
    BY <2>5 DEF Check
  <2>6. QED
    BY <1>2, <2>1, <2>2, <2>3, <2>4, <2>5 DEF Lookup
<1>3. ASSUME NEW t \in Thread, Update(t)
      PROVE WriterInv'
  <2>1. CASE TryLock(t)
    BY <2>1 DEF TryLock
  <2>2. CASE Increment(t)
    BY <2>2 DEF Increment
  <2>3. CASE WriteKey1(t)
    BY <2>3 DEF WriteKey1
  <2>4. CASE WriteKey2(t)
    BY <2>4 DEF WriteKey2
  <2>5. CASE WriteValue(t)
    BY <2>5 DEF WriteValue
  <2>6. CASE IncrementAgain(t)
    BY <2>6 DEF IncrementAgain
  <2>7. CASE Unlock(t)
    BY <2>7 DEF Unlock
  <2>8. QED
    BY <1>3, <2>1, <2>2, <2>3, <2>4, <2>5, <2>6, <2>7 DEF Update
<1>4. QED
  BY <1>1, <1>2, <1>3 DEF Next

\* An entry that changes has a version no reader has seen.
LEMMA ReaderStep == Inv /\ [Next]_vars => ReaderInv'
<1> SUFFICES ASSUME Inv, [Next]_vars PROVE ReaderInv'
  OBVIOUS
<1>A. \A n \in Nat : n % VersionSpan \in Nat /\ n % VersionSpan <= n
  BY CacheAssumption
<1> USE DEF Inv, TypeOK, WriterInv, ReaderInv, Unchanged, Reading, Owning,
            Changing, entry, local, Goto, At
<1>1. CASE UNCHANGED vars
  BY <1>1 DEF vars
<1>2. ASSUME NEW t \in Thread, Lookup(t)
      PROVE ReaderInv'
  <2>1. CASE Start(t)
    BY <2>1, <1>A DEF Start
  <2>2. CASE ReadKey1(t)
    BY <2>2, <1>A DEF ReadKey1
  <2>3. CASE ReadKey2(t)
    BY <2>3, <1>A DEF ReadKey2
  <2>4. CASE ReadValue(t)
    BY <2>4, <1>A DEF ReadValue
  <2>5. CASE Check(t)
    BY <2>5, <1>A DEF Check
  <2>6. QED
    BY <1>2, <2>1, <2>2, <2>3, <2>4, <2>5 DEF Lookup
<1>3. ASSUME NEW t \in Thread, Update(t)
      PROVE ReaderInv'
  <2>1. CASE TryLock(t)
    BY <2>1 DEF TryLock
  <2>2. CASE Increment(t)
    BY <2>2 DEF Increment
  <2>3. CASE WriteKey1(t)
    BY <2>3 DEF WriteKey1
  <2>4. CASE WriteKey2(t)
    BY <2>4 DEF WriteKey2
  <2>5. CASE WriteValue(t)
    BY <2>5 DEF WriteValue
  <2>6. CASE IncrementAgain(t)
    BY <2>6 DEF IncrementAgain
  <2>7. CASE Unlock(t)
    BY <2>7 DEF Unlock
  <2>8. QED
    BY <1>3, <2>1, <2>2, <2>3, <2>4, <2>5, <2>6, <2>7 DEF Update
<1>4. QED
  BY <1>1, <1>2, <1>3 DEF Next

\* The entry is consistent whenever no write is under way: the writer leaves
\* the answer for the one pair its keys match.
LEMMA ConsistentStep ==
  Inv /\ [Next]_vars => (version % 2 = 0 => Consistent)'
<1> SUFFICES ASSUME Inv, [Next]_vars, (version % 2 = 0)' PROVE Consistent'
  OBVIOUS
<1> USE DEF Inv, TypeOK, WriterInv, Changing, Owning, entry, local, Goto, At
<1>1. CASE UNCHANGED entry
  BY <1>1 DEF Consistent
<1>2. ASSUME NEW t \in Thread, TryLock(t) \/ Unlock(t)
      PROVE Consistent'
  BY <1>2 DEF TryLock, Unlock, Consistent
<1>3. ASSUME NEW t \in Thread, Increment(t)
      PROVE FALSE
  BY <1>3 DEF Increment
<1>4. ASSUME NEW t \in Thread, WriteKey1(t) \/ WriteKey2(t) \/ WriteValue(t)
      PROVE FALSE
  BY <1>4 DEF WriteKey1, WriteKey2, WriteValue
<1>5. ASSUME NEW t \in Thread, IncrementAgain(t)
      PROVE Consistent'
  <2>1. /\ key1 = Low[arg[t][1]] /\ key2 = Low[arg[t][2]]
        /\ value = Calc[arg[t]]
        /\ arg[t] \in Pair
        /\ UNCHANGED <<key1, key2, value>>
    BY <1>5 DEF IncrementAgain
  <2>2. ASSUME NEW p \in Pair, key1 = Low[p[1]], key2 = Low[p[2]]
        PROVE value = Calc[p]
    <3>1. arg[t] \in Pair /\ Low[p[1]] = Low[arg[t][1]]
                         /\ Low[p[2]] = Low[arg[t][2]]
      BY <2>1, <2>2
    <3>2. p = arg[t]
      BY ONLY <3>1, p \in Pair, PairByLowWords
    <3>3. QED
      BY <2>1, <3>2
  <2>3. QED
    BY <2>1, <2>2 DEF Consistent
<1>6. ASSUME NEW t \in Thread, Lookup(t)
      PROVE UNCHANGED entry
  BY <1>6 DEF Lookup, Start, ReadKey1, ReadKey2, ReadValue, Check
<1>7. QED
  BY <1>1, <1>2, <1>3, <1>4, <1>5, <1>6 DEF Next, Update, vars

\* A lookup ends with Calc, by computing it or by a read that Check accepts.
LEMMA AnswerStep == Inv /\ [Next]_vars => RightAnswer'
<1> SUFFICES ASSUME Inv, [Next]_vars PROVE RightAnswer'
  OBVIOUS
<1> USE DEF Inv, TypeOK, RightAnswer, Reading, Owning, Changing, entry, local,
            Goto, At
<1>1. CASE UNCHANGED vars
  BY <1>1 DEF vars
<1>2. ASSUME NEW t \in Thread, Check(t)
      PROVE RightAnswer'
  <2>1. ASSUME Stable(t) PROVE result[t] = Calc[arg[t]]
    <3>1. Unchanged(t)
      BY <2>1 DEF Stable, Unchanged
    <3>2. key1 = Low[arg[t][1]] /\ key2 = Low[arg[t][2]] /\ result[t] = value
      BY <1>2, <3>1 DEF Check, ReaderInv
    <3>3. Consistent /\ arg[t] \in Pair
      BY <3>1 DEF Unchanged
    <3>4. QED
      BY <3>2, <3>3 DEF Consistent
  <2>2. result'[t] = Calc[arg[t]]
    BY <1>2, <2>1 DEF Check
  <2>3. QED
    BY <1>2, <2>2 DEF Check
<1>3. ASSUME NEW t \in Thread,
             Start(t) \/ ReadKey1(t) \/ ReadKey2(t) \/ ReadValue(t)
      PROVE RightAnswer'
  BY <1>3 DEF Start, ReadKey1, ReadKey2, ReadValue
<1>4. ASSUME NEW t \in Thread, TryLock(t)
      PROVE RightAnswer'
  BY <1>4 DEF TryLock
<1>5. ASSUME NEW t \in Thread,
             \/ Increment(t) \/ WriteKey1(t) \/ WriteKey2(t)
             \/ WriteValue(t) \/ IncrementAgain(t)
      PROVE RightAnswer'
  BY <1>5 DEF Increment, WriteKey1, WriteKey2, WriteValue, IncrementAgain
<1>6. ASSUME NEW t \in Thread, Unlock(t)
      PROVE RightAnswer'
  BY <1>6 DEF Unlock, WriterInv
<1>7. QED
  BY <1>1, <1>2, <1>3, <1>4, <1>5, <1>6 DEF Next, Lookup, Update

-----------------------------------------------------------------------------
\* The invariant holds in every state: a reader that sees one even version
\* twice has read one consistent entry.
THEOREM Invariance == Spec => []Inv
<1>1. Inv /\ [Next]_vars => Inv'
  <2> SUFFICES ASSUME Inv, [Next]_vars PROVE Inv'
    OBVIOUS
  <2>1. TypeOK'
    BY TypeStep DEF Inv
  <2>2. QED
    BY <2>1, WriterStep, ReaderStep, ConsistentStep, AnswerStep DEF Inv
<1>2. QED
  BY InitInv, <1>1, PTL DEF Spec

\* Every ATOMIC_CACHE_LOOKUP gives the answer isInstanceof computes, whatever
\* the updates of the entry in between.
THEOREM LookupsAreRight == Spec => []RightAnswer
<1>1. Inv => RightAnswer
  BY DEF Inv
<1>2. QED
  BY Invariance, <1>1, PTL

\* dvmUpdateAtomicCache has one writer, finds an even version and always
\* clears its own flag: neither its assert nor its dvmAbort is reached.
THEOREM WritersExclude == Spec => []OneWriter
<1>1. Inv => OneWriter
  BY DEF Inv, WriterInv, OneWriter
<1>2. QED
  BY Invariance, <1>1, PTL
=============================================================================
