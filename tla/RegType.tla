------------------------------- MODULE RegType ------------------------------
(***************************************************************************)
(* Register types of the bytecode verifier and how they merge              *)
(* (vm/analysis/CodeVerify.c).  A type is a word: below kRegTypeMAX a      *)
(* simple type, otherwise an initialized reference, as the address of its  *)
(* class.  Arrays and uninitialized references are left out.               *)
(***************************************************************************)
EXTENDS Integers, Sequences, FiniteSets

CONSTANTS
  Class,       \* classes and interfaces
  Interface,   \* those that are interfaces
  Super,       \* clazz->super; an interface's is Object
  Implements,  \* dvmImplements: pairs <<class, interface>>, inherited included
  Address,     \* where the ClassObject of each class is
  RegTypeBits  \* the width of a RegType, a u4

Simple == <<"_", "U", "X", "F", "0", "1", "Z", "b", "B", "s", "S", "C", "I",
            "J", "j", "D", "d">>
kRegTypeMAX == Len(Simple)

\* Row and column in the order of Simple.
gDvmMergeTab == <<
  <<"_","X","X","X","X","X","X","X","X","X","X","X","X","X","X","X","X">>,
  <<"X","U","X","X","X","X","X","X","X","X","X","X","X","X","X","X","X">>,
  <<"X","X","X","X","X","X","X","X","X","X","X","X","X","X","X","X","X">>,
  <<"X","X","X","F","F","F","F","F","F","F","F","F","F","X","X","X","X">>,
  <<"X","X","X","F","0","Z","Z","b","B","s","S","C","I","X","X","X","X">>,
  <<"X","X","X","F","Z","1","Z","b","B","s","S","C","I","X","X","X","X">>,
  <<"X","X","X","F","Z","Z","Z","b","B","s","S","C","I","X","X","X","X">>,
  <<"X","X","X","F","b","b","b","b","B","s","S","C","I","X","X","X","X">>,
  <<"X","X","X","F","B","B","B","B","B","S","S","I","I","X","X","X","X">>,
  <<"X","X","X","F","s","s","s","s","S","s","S","C","I","X","X","X","X">>,
  <<"X","X","X","F","S","S","S","S","S","S","S","I","I","X","X","X","X">>,
  <<"X","X","X","F","C","C","C","C","I","C","I","C","I","X","X","X","X">>,
  <<"X","X","X","F","I","I","I","I","I","I","I","I","I","X","X","X","X">>,
  <<"X","X","X","X","X","X","X","X","X","X","X","X","X","J","X","J","X">>,
  <<"X","X","X","X","X","X","X","X","X","X","X","X","X","X","j","X","j">>,
  <<"X","X","X","X","X","X","X","X","X","X","X","X","X","J","X","D","X">>,
  <<"X","X","X","X","X","X","X","X","X","X","X","X","X","X","j","X","d">> >>

\* The simple type under a letter of the table.
kRegType(letter) == (CHOOSE i \in DOMAIN Simple : Simple[i] = letter) - 1
IsSimple(t) == t < kRegTypeMAX

\* A RegType is narrower than a pointer of this port.  Types stand for classes
\* only if no ClassObject lies outside what a RegType can address; an address
\* is even, and not that of a simple type.
ASSUME AddressesFit ==
  /\ \A c \in Class : /\ Address[c] \in kRegTypeMAX + 1 .. 2^RegTypeBits - 1
                      /\ Address[c] % 2 = 0
  /\ \A c, d \in Class : Address[c] = Address[d] => c = d

\* The cut of a pointer to a word, and the word taken for a pointer again.
regTypeFromClass(c) == Address[c] % 2^RegTypeBits
regTypeInitializedReferenceToClass(t) == CHOOSE c \in Class : Address[c] = t

\* getClassDepth, and the superclass a number of steps up.
Ancestor[c \in Class, n \in Nat] ==
  IF n = 0 THEN c ELSE Ancestor[Super[c], n - 1]
Depth(c) == CHOOSE n \in 0 .. Cardinality(Class) : Super[Ancestor[c, n]] = "none"

\* digForSuperclass: the deeper one is pulled up, then both go up in step.
digForSuperclass(c1, c2) ==
  LET least == IF Depth(c1) < Depth(c2) THEN Depth(c1) ELSE Depth(c2)
      Up(c, d) == Ancestor[c, Depth(c) - d]
      common == CHOOSE d \in 0 .. least :
                  /\ Up(c1, d) = Up(c2, d)
                  /\ \A e \in d + 1 .. least : Up(c1, e) # Up(c2, e)
  IN Up(c1, common)

findCommonSuperclass(c1, c2) ==
  CASE c1 = c2 -> c1
    [] c1 # c2 /\ c1 \in Interface /\ <<c2, c1>> \in Implements -> c1
    [] c1 # c2 /\ c2 \in Interface /\ <<c1, c2>> \in Implements -> c2
    [] OTHER -> digForSuperclass(c1, c2)

mergeTypes(t1, t2) ==
  CASE t1 = t2 -> t1
    [] t1 # t2 /\ IsSimple(t1) /\ IsSimple(t2) ->
         kRegType(gDvmMergeTab[t1 + 1][t2 + 1])
    [] IsSimple(t1) /\ ~IsSimple(t2) ->
         IF t1 = kRegType("0") THEN t2 ELSE kRegType("X")
    [] ~IsSimple(t1) /\ IsSimple(t2) ->
         IF t2 = kRegType("0") THEN t1 ELSE kRegType("X")
    [] t1 # t2 /\ ~IsSimple(t1) /\ ~IsSimple(t2) ->
         regTypeFromClass(findCommonSuperclass(
           regTypeInitializedReferenceToClass(t1),
           regTypeInitializedReferenceToClass(t2)))
=============================================================================
