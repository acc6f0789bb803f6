--------------------------- MODULE CodeFlowProofs ---------------------------
(***************************************************************************)
(* The data-flow pass types every method it accepts soundly, for every     *)
(* merge that gives upper bounds, every set of opcodes and methods of any  *)
(* length, with registers kept at branch targets (the default).            *)
(***************************************************************************)
EXTENDS CodeFlow, TLAPS

\* -Xgenregmap is off: no registers are kept for garbage collection points.
OnlyBranches == \A p \in Programs : p.gcPoint = {}

Following(i) == {i + 1 : k \in {i} \cap prog.continue}

\* Registers r that flow to j are accounted for there, or will be.
Delivered(r, j) ==
  IF j \in BranchTarget
  THEN j \in visited \cup changed /\ LeqLine(r, line[j])
  ELSE j \in changed \/ (j \in visited /\ seen[j] = r)

Busy == pc \in {"verify", "update", "refused"}

\* An instruction that has been verified and is not being verified again.
EdgeInv ==
  \A i \in visited : ~(Busy /\ i = insnIdx) =>
    /\ Out(i) # Reject
    /\ Following(i) \subseteq Insns
    /\ \A j \in Jumps(i) \cup Following(i) : Delivered(Out(i), j)
    /\ \A j \in prog.catch[i] : Delivered(seen[i], j)

\* The instruction between VerifyInstruction and MarkVisited.
UpdateInv ==
  pc = "update" =>
    /\ Out(insnIdx) # Reject
    /\ workRegs = Out(insnIdx)
    /\ Following(insnIdx) \subseteq Insns
    /\ insnIdx \in prog.continue => startGuess = insnIdx + 1
    /\ \A j \in Jumps(insnIdx) \cup Following(insnIdx) :
         Delivered(Out(insnIdx), j) \/ [to |-> j, regs |-> Out(insnIdx)] \in todo
    /\ \A j \in prog.catch[insnIdx] :
         Delivered(seen[insnIdx], j) \/ [to |-> j, regs |-> seen[insnIdx]] \in todo
    /\ \A u \in todo :
         \/ u.to \in Jumps(insnIdx) \cup Following(insnIdx)
              /\ u.regs = Out(insnIdx)
         \/ u.to \in prog.catch[insnIdx] /\ u.regs = seen[insnIdx]

\* The table still holds what a branch target was last verified with, but for
\* what a branch to itself has merged in.
Stable(i) ==
  \/ line[i] = seen[i]
  \/ i \in Jumps(i) /\ line[i] = MergeLines(seen[i], Out(i))

StableInv ==
  /\ \A i \in BranchTarget : i \in visited \ changed => Stable(i)
  /\ insnIdx \in BranchTarget =>
       /\ pc = "verify" => line[insnIdx] = seen[insnIdx]
       /\ pc = "update" => Stable(insnIdx)

\* Flags outside the branch targets stay with the registers carried over.
CarryInv ==
  /\ pc = "find" => \A k \in changed \ BranchTarget :
       /\ k = startGuess /\ k - 1 \in visited \cap prog.continue
       /\ workRegs = Out(k - 1)
  /\ pc = "verify" => /\ seen[insnIdx] = workRegs
                      /\ changed \ BranchTarget \subseteq {insnIdx}
  /\ pc = "update" => changed \ BranchTarget
                        \subseteq {insnIdx} \cup Following(insnIdx)
  /\ Busy => /\ insnIdx \in changed
             /\ insnIdx \notin BranchTarget =>
                  /\ insnIdx - 1 \in visited \cap prog.continue
                  /\ seen[insnIdx] = Out(insnIdx - 1)

EndInv ==
  /\ 0 \in visited \cup changed /\ LeqLine(Signature, line[0])
  /\ pc = "done" => changed = {}

TypeInv == prog \in Programs /\ TypeOK
Inv == TypeInv /\ EdgeInv /\ UpdateInv /\ StableInv /\ CarryInv /\ EndInv
-----------------------------------------------------------------------------
\* What a method is made of.
LEMMA ProgFacts ==
  ASSUME OnlyBranches, prog \in Programs
  PROVE  /\ prog.size \in Nat \ {0} /\ Insns \subseteq Int /\ 0 \in Insns
         /\ prog.continue \subseteq Insns
         /\ \A i \in Insns : /\ Jumps(i) \subseteq Insns
                             /\ prog.catch[i] \subseteq Insns
                             /\ Jumps(i) \subseteq BranchTarget
                             /\ prog.catch[i] \subseteq BranchTarget
                             /\ prog.branch[i] \subseteq Jumps(i)
         /\ BranchTarget \subseteq Insns
         /\ Tracked = BranchTarget
<1>1. prog.size \in Nat \ {0} /\ prog \in Method(prog.size)
  BY MethodAssumption
<1>2. /\ prog.continue \subseteq Insns
      /\ prog.branch \in [Insns -> SUBSET Insns]
      /\ prog.switch \in [Insns -> SUBSET Insns]
      /\ prog.catch \in [Insns -> SUBSET Insns]
      /\ prog.handlers \subseteq Insns
  BY <1>1 DEF Method, Insns
<1>3. Tracked = BranchTarget
  BY DEF OnlyBranches, Tracked
<1>4. Insns \subseteq Int /\ 0 \in Insns
  BY <1>1 DEF Insns
<1>5. \A i \in Insns : Jumps(i) \subseteq Insns /\ prog.catch[i] \subseteq Insns
                         /\ prog.branch[i] \subseteq Jumps(i)
  BY <1>2 DEF Jumps
<1>6. \A i \in Insns : Jumps(i) \subseteq BranchTarget
                         /\ prog.catch[i] \subseteq BranchTarget
  BY MethodAssumption DEF BranchTarget, Insns
<1>7. BranchTarget \subseteq Insns
  BY <1>2, <1>4, <1>5 DEF BranchTarget
<1> QED BY <1>1, <1>2, <1>3, <1>4, <1>5, <1>6, <1>7

\* What depends only on the method, and on the registers last seen.
LEMMA SameMethod ==
  ASSUME prog' = prog, seen' = seen
  PROVE  /\ BranchTarget' = BranchTarget /\ Insns' = Insns
         /\ \A i : /\ Out(i)' = Out(i) /\ Following(i)' = Following(i)
                   /\ Jumps(i)' = Jumps(i)
BY DEF BranchTarget, Insns, Jumps, Out, Following

\* A merge is a line, and an upper bound of both; merging in what is already
\* there changes nothing.
LEMMA MergeFacts ==
  ASSUME NEW l \in Line, NEW m \in Line
  PROVE  /\ MergeLines(l, m) \in Line /\ MergeLines(l, l) = l
         /\ LeqLine(l, l)
         /\ LeqLine(l, MergeLines(l, m)) /\ LeqLine(m, MergeLines(l, m))
         /\ MergeLines(MergeLines(l, m), m) = MergeLines(l, m)
         /\ MergeLines(l, m) = l => LeqLine(m, l)
BY TypesMerge DEF Line, MergeLines, LeqLine, Leq

LEMMA LeqTransitive ==
  ASSUME NEW l \in Line, NEW m \in Line, NEW n \in Line,
         LeqLine(l, m), LeqLine(m, n)
  PROVE  LeqLine(l, n)
BY TypesMerge DEF Line, LeqLine

\* Every step keeps the variables well typed.
LEMMA TypeStep ==
  ASSUME OnlyBranches, TypeInv, [Next]_vars
  PROVE  TypeInv' /\ prog' = prog /\ Insns' = Insns
           /\ BranchTarget' = BranchTarget
<1> USE DEF TypeInv
<1>0. prog' = prog
  BY DEF Next, Find, NoneFound, VerifyInstruction, Refuse, UpdateRegisters,
         MarkVisited, Ended, vars
<1>1. Insns' = Insns /\ BranchTarget' = BranchTarget /\ Tracked' = Tracked
  BY <1>0 DEF Insns, BranchTarget, Tracked, Jumps
<1>2. TypeOK'
  <2> USE ProgFacts
  <2>1. CASE Find
    <3>1. PICK i \in changed :
            /\ insnIdx' = i
            /\ workRegs' = IF i \in BranchTarget THEN line[i] ELSE workRegs
            /\ seen' = [seen EXCEPT ![i] = workRegs']
      BY <2>1 DEF Find
    <3>2. workRegs' \in Line
      BY <3>1 DEF TypeOK
    <3> QED BY <2>1, <3>1, <3>2, <1>1 DEF Find, TypeOK
  <2>2. CASE NoneFound
    BY <2>2, <1>1 DEF NoneFound, TypeOK
  <2>3. CASE VerifyInstruction
    <3> DEFINE after == Effect(prog.op[insnIdx], workRegs)
               next == {insnIdx + 1 : i \in {insnIdx} \cap prog.continue}
    <3>0. prog.op[insnIdx] \in Op
      BY MethodAssumption DEF Method, Insns, TypeOK
    <3>1. after \in Line /\ next \subseteq Insns
      BY <2>3, <3>0, EffectType DEF VerifyInstruction, TypeOK
    <3>2. /\ workRegs' = after
          /\ todo' = [to : (next \cap Tracked) \cup Jumps(insnIdx), regs : {after}]
                       \cup [to : prog.catch[insnIdx], regs : {workRegs}]
          /\ changed' = changed \cup (next \ Tracked)
      BY <2>3 DEF VerifyInstruction
    <3>3. todo' \subseteq [to : Tracked, regs : Line]
      BY <3>1, <3>2 DEF TypeOK
    <3>4. startGuess' \in Insns
      <4>1. CASE insnIdx \in prog.continue
        BY <2>3, <3>1, <4>1 DEF VerifyInstruction
      <4>2. CASE insnIdx \notin prog.continue
        BY <2>3, <4>2 DEF VerifyInstruction, TypeOK
      <4> QED BY <4>1, <4>2
    <3> QED BY <2>3, <3>1, <3>2, <3>3, <3>4, <1>1 DEF VerifyInstruction, TypeOK
  <2>4. CASE Refuse
    BY <2>4, <1>1 DEF Refuse, TypeOK
  <2>5. ASSUME NEW u \in todo, UpdateRegisters(u) PROVE TypeOK'
    <3>1. u.to \in Insns /\ u.regs \in Line /\ line[u.to] \in Line
      BY DEF TypeOK
    <3>2. MergeLines(line[u.to], u.regs) \in Line
      BY <3>1, MergeFacts
    <3> QED BY <2>5, <3>1, <3>2, <1>1 DEF UpdateRegisters, TypeOK
  <2>6. CASE MarkVisited
    BY <2>6, <1>1 DEF MarkVisited, TypeOK
  <2>7. CASE UNCHANGED vars
    BY <2>7, <1>1 DEF vars, TypeOK
  <2> QED BY <2>1, <2>2, <2>3, <2>4, <2>5, <2>6, <2>7 DEF Next, Ended
<1> QED BY <1>0, <1>1, <1>2

\* What flows into an instruction stays accounted for there.  MarkVisited
\* apart, no step clears a flag; a merge only goes up.
LEMMA UpdateDelivers ==
  ASSUME OnlyBranches, TypeInv, NEW u \in todo, UpdateRegisters(u)
  PROVE  /\ \A j \in Insns, r \in Line : Delivered(r, j) => Delivered(r, j)'
         /\ u.to \in BranchTarget => Delivered(u.regs, u.to)'
<1> USE DEF TypeInv
<1>0. /\ u.to \in Insns /\ u.regs \in Line /\ line[u.to] \in Line
      /\ line \in [Insns -> Line]
  BY ProgFacts DEF TypeOK
<1>1. BranchTarget' = BranchTarget /\ prog' = prog /\ visited' = visited
        /\ seen' = seen /\ changed \subseteq changed'
  BY DEF UpdateRegisters, BranchTarget, Insns, Jumps
<1> DEFINE fresh == u.to \notin visited \cup changed
           regs == IF fresh THEN u.regs ELSE MergeLines(line[u.to], u.regs)
<1>2. /\ line' = [line EXCEPT ![u.to] = regs]
      /\ changed' = IF fresh \/ regs # line[u.to]
                    THEN changed \cup {u.to} ELSE changed
  BY DEF UpdateRegisters
<1>3. line'[u.to] = regs /\ \A j \in Insns : j # u.to => line'[j] = line[j]
  BY <1>0, <1>2
<1>4. LeqLine(u.regs, regs) /\ (~fresh => LeqLine(line[u.to], regs)) /\ regs \in Line
  BY <1>0, MergeFacts
<1>5. u.to \in visited \cup changed'
  BY <1>2
<1>6. ASSUME NEW j \in Insns, NEW r \in Line, Delivered(r, j)
      PROVE  Delivered(r, j)'
  <2>1. CASE j \notin BranchTarget
    BY <1>1, <1>6, <2>1 DEF Delivered
  <2>2. CASE j \in BranchTarget /\ j # u.to
    BY <1>1, <1>3, <1>6, <2>2 DEF Delivered, LeqLine
  <2>3. CASE j \in BranchTarget /\ j = u.to
    <3>1. j \in visited \cup changed /\ LeqLine(r, line[j])
      BY <1>6, <2>3 DEF Delivered
    <3>2. LeqLine(r, line'[j])
      BY <3>1, <1>0, <1>3, <1>4, <2>3, LeqTransitive
    <3> QED BY <3>1, <3>2, <1>1, <2>3 DEF Delivered, LeqLine
  <2> QED BY <2>1, <2>2, <2>3
<1>7. ASSUME u.to \in BranchTarget PROVE Delivered(u.regs, u.to)'
  <2>1. LeqLine(u.regs, line'[u.to])
    BY <1>3, <1>4
  <2> QED BY <1>1, <1>5, <1>7, <2>1 DEF Delivered, LeqLine
<1> QED BY <1>6, <1>7

\* Loading the registers of the instruction found.
LEMMA FindStep ==
  ASSUME OnlyBranches, Inv, Find, TypeInv'
  PROVE  Inv'
<1> USE DEF Inv, TypeInv
<1> USE ProgFacts
<1>1. PICK i \in changed :
        /\ i >= startGuess
        /\ \A j \in changed : j >= startGuess => i <= j
        /\ insnIdx' = i
        /\ workRegs' = IF i \in BranchTarget THEN line[i] ELSE workRegs
        /\ seen' = [seen EXCEPT ![i] = workRegs']
  BY DEF Find
<1>2. /\ pc = "find" /\ pc' = "verify" /\ prog' = prog /\ line' = line
      /\ changed' = changed /\ visited' = visited
  BY DEF Find
<1>3. BranchTarget' = BranchTarget /\ Insns' = Insns
  BY <1>2 DEF BranchTarget, Insns, Jumps
<1>4. /\ i \in Insns /\ changed \subseteq Insns /\ startGuess \in Insns
      /\ visited \subseteq Insns
      /\ seen'[i] = workRegs' /\ \A j \in Insns : j # i => seen'[j] = seen[j]
  BY <1>1 DEF TypeOK
<1>5. \A j \in Insns : j # i => Out(j)' = Out(j)
  BY <1>2, <1>4 DEF Out
<1>6. \A k \in changed \ BranchTarget : k = i
  <2> SUFFICES ASSUME NEW k \in changed \ BranchTarget PROVE k = i
    OBVIOUS
  <2>1. k = startGuess
    BY <1>2 DEF CarryInv
  <2> QED BY <2>1, <1>1, <1>4
<1>7. EdgeInv'
  <2> SUFFICES ASSUME NEW j \in visited, j # i
               PROVE  /\ Out(j)' # Reject
                      /\ Following(j)' \subseteq Insns
                      /\ \A n \in Jumps(j) \cup Following(j) : Delivered(Out(j), n)'
                      /\ \A n \in prog.catch[j] : Delivered(seen[j], n)'
    BY <1>1, <1>2, <1>3, <1>4, <1>5 DEF EdgeInv, Busy, Jumps, Following, Delivered, Out
  <2>1. /\ Out(j) # Reject /\ Following(j) \subseteq Insns
        /\ \A n \in Jumps(j) \cup Following(j) : Delivered(Out(j), n)
        /\ \A n \in prog.catch[j] : Delivered(seen[j], n)
    BY <1>2 DEF EdgeInv, Busy
  <2>2. \A r, n : n \in Insns /\ Delivered(r, n) =>
          IF n \in BranchTarget
          THEN n \in visited \cup changed /\ LeqLine(r, line[n])
          ELSE n \in changed \/ (n \in visited /\ seen'[n] = r)
    BY <1>1, <1>4 DEF Delivered
  <2>3. Jumps(j) \subseteq Insns /\ prog.catch[j] \subseteq Insns
    BY <1>4
  <2> QED BY <2>1, <2>2, <2>3, <1>2, <1>3, <1>4, <1>5
          DEF Delivered, LeqLine, Following, Out
<1>8. UpdateInv'
  BY <1>2 DEF UpdateInv
<1>9. StableInv'
  <2>1. \A j \in BranchTarget : j \in visited \ changed => Stable(j)'
    <3> SUFFICES ASSUME NEW j \in BranchTarget, j \in visited \ changed
                 PROVE  Stable(j)'
      OBVIOUS
    <3>1. j # i /\ j \in Insns /\ Stable(j)
      BY <1>1 DEF StableInv
    <3> QED BY <3>1, <1>2, <1>4, <1>5 DEF Stable, Jumps
  <2>2. i \in BranchTarget => line'[i] = seen'[i]
    BY <1>1, <1>2, <1>4
  <2> QED BY <2>1, <2>2, <1>1, <1>2, <1>3 DEF StableInv
<1>10. CarryInv'
  <2>1. i \notin BranchTarget => /\ i - 1 \in visited \cap prog.continue
                                 /\ seen'[i] = Out(i - 1)'
    BY <1>1, <1>2, <1>4, <1>5 DEF CarryInv
  <2> QED BY <2>1, <1>1, <1>2, <1>3, <1>4, <1>6 DEF CarryInv
<1>11. EndInv'
  BY <1>2 DEF EndInv, LeqLine
<1> QED BY <1>7, <1>8, <1>9, <1>10, <1>11

\* Verifying an instruction: its successors are still to be updated.
LEMMA VerifyStep ==
  ASSUME OnlyBranches, Inv, VerifyInstruction, TypeInv'
  PROVE  Inv'
<1> USE DEF Inv, TypeInv
<1> USE ProgFacts
<1>1. /\ pc = "verify" /\ pc' = "update" /\ prog' = prog /\ line' = line
      /\ visited' = visited /\ seen' = seen /\ insnIdx' = insnIdx
      /\ insnIdx \in Insns /\ changed \subseteq Insns /\ visited \subseteq Insns
  BY DEF VerifyInstruction, TypeOK
<1>2. /\ BranchTarget' = BranchTarget /\ Insns' = Insns
      /\ \A i : /\ Out(i)' = Out(i) /\ Following(i)' = Following(i)
                /\ Jumps(i)' = Jumps(i)
  BY <1>1, SameMethod
<1>3. seen[insnIdx] = workRegs
  BY <1>1 DEF CarryInv
<1>4. /\ Out(insnIdx) # Reject /\ Following(insnIdx) \subseteq Insns
      /\ workRegs' = Out(insnIdx)
      /\ todo' = [to : (Following(insnIdx) \cap BranchTarget) \cup Jumps(insnIdx),
                  regs : {Out(insnIdx)}]
                   \cup [to : prog.catch[insnIdx], regs : {seen[insnIdx]}]
      /\ changed' = changed \cup (Following(insnIdx) \ BranchTarget)
      /\ insnIdx \in prog.continue => startGuess' \in Following(insnIdx)
  BY <1>3 DEF VerifyInstruction, Following, Out
<1>5. \A r, j : Delivered(r, j) => Delivered(r, j)'
  BY <1>1, <1>2, <1>4 DEF Delivered, LeqLine
<1>6. EdgeInv'
  BY <1>1, <1>2, <1>5 DEF EdgeInv, Busy
<1>7. UpdateInv'
  <2>1. \A j \in Following(insnIdx) \ BranchTarget : Delivered(Out(insnIdx), j)'
    BY <1>2, <1>4 DEF Delivered
  <2>2. \A j \in Jumps(insnIdx) \cup (Following(insnIdx) \cap BranchTarget) :
          [to |-> j, regs |-> Out(insnIdx)] \in todo'
    BY <1>4
  <2>3. \A j \in prog.catch[insnIdx] : [to |-> j, regs |-> seen[insnIdx]] \in todo'
    BY <1>4
  <2>4. \A u \in todo' :
          \/ u.to \in Jumps(insnIdx) \cup Following(insnIdx) /\ u.regs = Out(insnIdx)
          \/ u.to \in prog.catch[insnIdx] /\ u.regs = seen[insnIdx]
    BY <1>4
  <2>5. insnIdx \in prog.continue => startGuess' = insnIdx + 1
    BY <1>4 DEF Following
  <2> QED BY <2>1, <2>2, <2>3, <2>4, <2>5, <1>1, <1>2, <1>4 DEF UpdateInv
<1>8. StableInv'
  BY <1>1, <1>2, <1>4 DEF StableInv, Stable
<1>9. CarryInv'
  BY <1>1, <1>2, <1>4 DEF CarryInv, Busy
<1>10. EndInv'
  BY <1>1, <1>4 DEF EndInv, LeqLine
<1> QED BY <1>6, <1>7, <1>8, <1>9, <1>10

\* One call of updateRegisters.
LEMMA UpdateStep ==
  ASSUME OnlyBranches, Inv, NEW u \in todo, UpdateRegisters(u), TypeInv'
  PROVE  Inv'
<1> USE DEF Inv, TypeInv
<1> USE ProgFacts
<1> DEFINE fresh == u.to \notin visited \cup changed
           regs == IF fresh THEN u.regs ELSE MergeLines(line[u.to], u.regs)
<1>1. /\ pc = "update" /\ pc' = pc /\ prog' = prog /\ visited' = visited
      /\ seen' = seen /\ insnIdx' = insnIdx /\ workRegs' = workRegs
      /\ startGuess' = startGuess /\ todo' = todo \ {u}
      /\ line' = [line EXCEPT ![u.to] = regs]
      /\ changed' = IF fresh \/ regs # line[u.to]
                    THEN changed \cup {u.to} ELSE changed
  BY DEF UpdateRegisters
<1>2. /\ insnIdx \in Insns /\ visited \subseteq Insns /\ u.to \in BranchTarget
      /\ u = [to |-> u.to, regs |-> u.regs] /\ u.regs \in Line
      /\ line \in [Insns -> Line] /\ seen \in [Insns -> Line]
      /\ changed \subseteq Insns /\ prog.op \in [Insns -> Op]
  BY MethodAssumption DEF TypeOK, Method, Insns
<1>3. /\ BranchTarget' = BranchTarget /\ Insns' = Insns
      /\ \A i : /\ Out(i)' = Out(i) /\ Following(i)' = Following(i)
                /\ Jumps(i)' = Jumps(i)
  BY <1>1, SameMethod
<1>4. /\ \A j \in Insns, r \in Line : Delivered(r, j) => Delivered(r, j)'
      /\ Delivered(u.regs, u.to)'
  BY <1>2, UpdateDelivers
<1>5. \A i \in Insns : seen[i] \in Line /\ (Out(i) # Reject => Out(i) \in Line)
  BY <1>2, EffectType DEF Out
<1>6. EdgeInv'
  <2> SUFFICES ASSUME NEW i \in visited, i # insnIdx
               PROVE  /\ Out(i) # Reject /\ Following(i) \subseteq Insns
                      /\ \A j \in Jumps(i) \cup Following(i) : Delivered(Out(i), j)'
                      /\ \A j \in prog.catch[i] : Delivered(seen[i], j)'
    BY <1>1, <1>3 DEF EdgeInv, Busy
  <2>1. /\ Out(i) # Reject /\ Following(i) \subseteq Insns
        /\ \A j \in Jumps(i) \cup Following(i) : Delivered(Out(i), j)
        /\ \A j \in prog.catch[i] : Delivered(seen[i], j)
    BY <1>1 DEF EdgeInv, Busy
  <2>2. Jumps(i) \subseteq Insns /\ prog.catch[i] \subseteq Insns
    BY <1>2
  <2>3. Out(i) \in Line /\ seen[i] \in Line
    BY <2>1, <1>2, <1>5
  <2>4. ASSUME NEW r \in Line, r = Out(i), NEW j \in Jumps(i) \cup Following(i)
        PROVE  Delivered(Out(i), j)'
    <3>1. Delivered(r, j)'
      BY <2>1, <2>2, <2>4, <1>4
    <3>2. Out(i)' = r
      BY <2>4, <1>3
    <3> QED BY ONLY <3>1, <3>2 DEF Delivered, LeqLine
  <2>5. ASSUME NEW r \in Line, r = seen[i], NEW j \in prog.catch[i]
        PROVE  Delivered(seen[i], j)'
    <3>1. Delivered(r, j)'
      BY <2>1, <2>2, <2>5, <1>4
    <3>2. seen'[i] = r
      BY <2>5, <1>1
    <3> QED BY ONLY <3>1, <3>2 DEF Delivered, LeqLine
  <2> QED BY <2>1, <2>3, <2>4, <2>5
<1>7. UpdateInv'
  <2>1. /\ Out(insnIdx) # Reject /\ Following(insnIdx) \subseteq Insns
        /\ Out(insnIdx) \in Line /\ seen[insnIdx] \in Line
        /\ Jumps(insnIdx) \subseteq Insns /\ prog.catch[insnIdx] \subseteq Insns
    BY <1>1, <1>2, <1>5 DEF UpdateInv
  <2>2. ASSUME NEW j \in Insns, NEW r \in Line,
               Delivered(r, j) \/ [to |-> j, regs |-> r] \in todo
        PROVE  Delivered(r, j)' \/ [to |-> j, regs |-> r] \in todo'
    <3>1. CASE Delivered(r, j)
      BY <3>1, <1>4
    <3>2. CASE [to |-> j, regs |-> r] = u
      BY <3>2, <1>4
    <3>3. CASE [to |-> j, regs |-> r] \in todo \ {u}
      BY <3>3, <1>1
    <3> QED BY <2>2, <3>1, <3>2, <3>3
  <2>3. \A r \in Line : r = Out(insnIdx) =>
          \A j \in Jumps(insnIdx) \cup Following(insnIdx) :
            Delivered(r, j)' \/ [to |-> j, regs |-> r] \in todo'
    BY <2>1, <2>2, <1>1 DEF UpdateInv
  <2>4. \A r \in Line : r = seen[insnIdx] =>
          \A j \in prog.catch[insnIdx] :
            Delivered(r, j)' \/ [to |-> j, regs |-> r] \in todo'
    BY <2>1, <2>2, <1>1 DEF UpdateInv
  <2>5. \A j \in Jumps(insnIdx) \cup Following(insnIdx) :
          (Delivered(Out(insnIdx), j) \/ [to |-> j, regs |-> Out(insnIdx)] \in todo)'
    BY <2>1, <2>3, <1>1, <1>3 DEF Delivered
  <2>6. \A j \in prog.catch[insnIdx] :
          (Delivered(seen[insnIdx], j) \/ [to |-> j, regs |-> seen[insnIdx]] \in todo)'
    BY <2>1, <2>4, <1>1, <1>3 DEF Delivered
  <2> QED BY <2>5, <2>6, <1>1, <1>3 DEF UpdateInv
<1>8. StableInv'
  <2>1. ASSUME NEW i \in BranchTarget, i \in visited \ changed'
        PROVE  Stable(i)'
    <3>1. i \in visited \ changed /\ Stable(i)
      BY <2>1, <1>1 DEF StableInv
    <3>2. line'[i] = line[i]
      BY <3>1, <2>1, <1>1, <1>2
    <3> QED BY <3>1, <3>2, <1>1, <1>3 DEF Stable
  <2>2. ASSUME insnIdx \in BranchTarget PROVE Stable(insnIdx)'
    <3>1. Stable(insnIdx) /\ insnIdx \in changed
      BY <2>2, <1>1 DEF StableInv, CarryInv, Busy
    <3>2. CASE u.to # insnIdx
      BY <3>1, <3>2, <1>1, <1>2, <1>3 DEF Stable
    <3>3. CASE u.to = insnIdx
      <4>1. line'[insnIdx] = MergeLines(line[insnIdx], u.regs)
        BY <3>1, <3>3, <1>1, <1>2
      <4>2. insnIdx \notin Following(insnIdx)
        BY <1>2 DEF Following
      <4>3. CASE insnIdx \in Jumps(insnIdx)
        <5>1. prog.catch[insnIdx] = {}
          BY <4>3, <1>2, MethodAssumption DEF Jumps, Insns
        <5>2. u.regs = Out(insnIdx) /\ Out(insnIdx) \in Line
          BY <5>1, <1>1, <1>2 DEF UpdateInv
        <5>3. line'[insnIdx] = MergeLines(seen[insnIdx], Out(insnIdx))
          BY <3>1, <4>1, <5>2, <1>2, <1>5, MergeFacts DEF Stable
        <5> QED BY <4>3, <5>3, <1>1, <1>3 DEF Stable
      <4>4. CASE insnIdx \notin Jumps(insnIdx)
        <5>1. u.regs = seen[insnIdx] /\ line[insnIdx] = seen[insnIdx]
          BY <3>1, <3>3, <4>2, <4>4, <1>1 DEF UpdateInv, Stable
        <5>2. line'[insnIdx] = seen[insnIdx]
          BY <4>1, <5>1, <1>2, <1>5, MergeFacts
        <5> QED BY <5>2, <1>1 DEF Stable
      <4> QED BY <4>3, <4>4
    <3> QED BY <3>2, <3>3
  <2> QED BY <2>1, <2>2, <1>1, <1>3 DEF StableInv
<1>9. CarryInv'
  BY <1>1, <1>2, <1>3 DEF CarryInv, Busy
<1>10. EndInv'
  <2>1. 0 \in BranchTarget /\ Signature \in Line
    BY EffectType DEF BranchTarget
  <2>2. Delivered(Signature, 0)
    BY <2>1 DEF EndInv, Delivered
  <2>3. Delivered(Signature, 0)'
    BY <2>1, <2>2, <1>4
  <2> QED BY <2>1, <2>3, <1>1, <1>3 DEF EndInv, Delivered
<1> QED BY <1>6, <1>7, <1>8, <1>9, <1>10

\* The flags of the instruction verified.
LEMMA MarkStep ==
  ASSUME OnlyBranches, Inv, MarkVisited, TypeInv'
  PROVE  Inv'
<1> USE DEF Inv, TypeInv
<1> USE ProgFacts
<1>1. /\ pc = "update" /\ pc' = "find" /\ prog' = prog /\ line' = line
      /\ seen' = seen /\ insnIdx' = insnIdx /\ workRegs' = workRegs
      /\ startGuess' = startGuess /\ todo = {}
      /\ visited' = visited \cup {insnIdx} /\ changed' = changed \ {insnIdx}
  BY DEF MarkVisited
<1>2. /\ insnIdx \in Insns /\ visited \subseteq Insns /\ changed \subseteq Insns
  BY DEF TypeOK
<1>3. /\ BranchTarget' = BranchTarget /\ Insns' = Insns
      /\ \A i : /\ Out(i)' = Out(i) /\ Following(i)' = Following(i)
                /\ Jumps(i)' = Jumps(i)
  BY <1>1, SameMethod
<1>4. \A r, j : (j # insnIdx \/ j \in BranchTarget) /\ Delivered(r, j)
                  => Delivered(r, j)'
  BY <1>1, <1>3 DEF Delivered, LeqLine
<1>5. insnIdx \notin BranchTarget => Delivered(Out(insnIdx - 1), insnIdx)'
  BY <1>1, <1>3 DEF Delivered, CarryInv, Busy
<1>6. \A i \in Insns : insnIdx \in Following(i) => i = insnIdx - 1
  BY <1>2 DEF Following
<1>7. ASSUME NEW i \in Insns,
             \A j \in Jumps(i) \cup Following(i) : Delivered(Out(i), j),
             \A j \in prog.catch[i] : Delivered(seen[i], j)
      PROVE  /\ \A j \in Jumps(i) \cup Following(i) : Delivered(Out(i), j)'
             /\ \A j \in prog.catch[i] : Delivered(seen[i], j)'
  <2>1. Jumps(i) \subseteq BranchTarget /\ prog.catch[i] \subseteq BranchTarget
    OBVIOUS
  <2>2. \A r : /\ r = Out(i) =>
                    \A j \in Jumps(i) \cup Following(i) :
                      j # insnIdx \/ j \in BranchTarget => Delivered(r, j)'
               /\ r = seen[i] => \A j \in prog.catch[i] : Delivered(r, j)'
    BY <2>1, <1>4, <1>7
  <2>3. \A j \in Jumps(i) \cup Following(i) :
          j = insnIdx /\ j \notin BranchTarget => i = insnIdx - 1
    BY <2>1, <1>6
  <2>4. \A j \in prog.catch[i] : Delivered(seen[i], j)'
    BY <2>2, <1>1 DEF Delivered
  <2>5. ASSUME NEW j \in Jumps(i) \cup Following(i)
        PROVE  Delivered(Out(i), j)'
    <3>1. CASE j # insnIdx \/ j \in BranchTarget
      BY <3>1, <2>2, <1>3 DEF Delivered
    <3>2. CASE j = insnIdx /\ j \notin BranchTarget
      <4>1. i = insnIdx - 1
        BY <3>2, <2>3
      <4> QED BY <3>2, <4>1, <1>1, <1>5
    <3> QED BY <3>1, <3>2
  <2> QED BY <2>4, <2>5, <1>1, <1>3
<1>8. EdgeInv'
  <2> SUFFICES ASSUME NEW i \in visited \cup {insnIdx}
               PROVE  /\ Out(i) # Reject /\ Following(i) \subseteq Insns
                      /\ \A j \in Jumps(i) \cup Following(i) : Delivered(Out(i), j)
                      /\ \A j \in prog.catch[i] : Delivered(seen[i], j)
    BY <1>1, <1>2, <1>3, <1>7 DEF EdgeInv
  <2>1. CASE i = insnIdx
    BY <2>1, <1>1 DEF UpdateInv
  <2>2. CASE i # insnIdx
    BY <2>2, <1>1 DEF EdgeInv
  <2> QED BY <2>1, <2>2
<1>9. UpdateInv'
  BY <1>1 DEF UpdateInv
<1>10. StableInv'
  BY <1>1, <1>3 DEF StableInv, Stable
<1>11. CarryInv'
  <2> SUFFICES ASSUME NEW k \in (changed \ {insnIdx}) \ BranchTarget
               PROVE  /\ k = startGuess
                      /\ k - 1 \in (visited \cup {insnIdx}) \cap prog.continue
                      /\ workRegs = Out(k - 1)
    BY <1>1, <1>3 DEF CarryInv, Busy
  <2>1. k \in Following(insnIdx)
    BY <1>1 DEF CarryInv
  <2>2. k = insnIdx + 1 /\ insnIdx \in prog.continue
    BY <2>1 DEF Following
  <2>3. startGuess = insnIdx + 1 /\ workRegs = Out(insnIdx)
    BY <2>2, <1>1 DEF UpdateInv
  <2>4. k - 1 = insnIdx
    BY <2>2, <1>2
  <2> QED BY <2>2, <2>3, <2>4
<1>12. EndInv'
  BY <1>1 DEF EndInv, LeqLine
<1> QED BY <1>8, <1>9, <1>10, <1>11, <1>12

LEMMA InitInv ==
  ASSUME OnlyBranches, Init
  PROVE  Inv
<1>1. prog \in Programs
  BY DEF Init
<1> USE ProgFacts
<1>2. [r \in Reg |-> Unknown] \in Line /\ Signature \in Line
  BY TypesMerge, EffectType DEF Line
<1>3. TypeOK /\ line[0] = Signature
  BY <1>1, <1>2 DEF Init, TypeOK
<1>4. LeqLine(Signature, line[0])
  BY <1>2, <1>3, MergeFacts
<1>5. 0 \in BranchTarget
  BY DEF BranchTarget
<1> QED BY <1>1, <1>3, <1>4, <1>5
        DEF Init, Inv, TypeInv, EdgeInv, UpdateInv, StableInv, CarryInv, EndInv, Busy

\* Edges are looked at through the flags and registers alone.
LEMMA SameEdges ==
  ASSUME EdgeInv, prog' = prog, line' = line, seen' = seen, insnIdx' = insnIdx,
         visited' = visited, changed' = changed, Busy' = Busy
  PROVE  EdgeInv'
<1>1. /\ BranchTarget' = BranchTarget /\ Insns' = Insns
      /\ \A i : /\ Out(i)' = Out(i) /\ Following(i)' = Following(i)
                /\ Jumps(i)' = Jumps(i)
  BY SameMethod
<1>2. \A r, j : Delivered(r, j)' = Delivered(r, j)
  BY <1>1 DEF Delivered, LeqLine
<1> QED BY <1>1, <1>2 DEF EdgeInv, Delivered

\* The steps that touch neither flags nor registers.
LEMMA OtherStep ==
  ASSUME OnlyBranches, Inv, NoneFound \/ Refuse \/ UNCHANGED vars, TypeInv'
  PROVE  Inv'
<1> USE DEF Inv, TypeInv
<1> USE ProgFacts
<1>1. /\ prog' = prog /\ line' = line /\ seen' = seen /\ insnIdx' = insnIdx
      /\ visited' = visited /\ changed' = changed /\ workRegs' = workRegs
      /\ todo' = todo
  BY DEF NoneFound, Refuse, vars
<1>2. /\ BranchTarget' = BranchTarget /\ Insns' = Insns
      /\ \A i : /\ Out(i)' = Out(i) /\ Following(i)' = Following(i)
                /\ Jumps(i)' = Jumps(i)
  BY <1>1, SameMethod
<1>3. CASE UNCHANGED vars
  <2>1. pc' = pc /\ startGuess' = startGuess
    BY <1>3 DEF vars
  <2>2. EdgeInv'
    BY <1>1, <2>1, SameEdges DEF Busy
  <2>3. UpdateInv'
    BY <1>1, <1>2, <2>1 DEF UpdateInv, Delivered, LeqLine
  <2>4. StableInv'
    BY <1>1, <1>2, <2>1 DEF StableInv, Stable
  <2>5. CarryInv'
    BY <1>1, <1>2, <2>1 DEF CarryInv, Busy
  <2>6. EndInv'
    BY <1>1, <2>1 DEF EndInv, LeqLine
  <2> QED BY <2>2, <2>3, <2>4, <2>5, <2>6
<1>4. CASE NoneFound
  <2>1. pc = "find" /\ pc' \in {"find", "done"} /\ startGuess' = 0
    BY <1>4 DEF NoneFound
  <2>2. \A k \in changed : k \in BranchTarget
    BY <1>4, <2>1 DEF NoneFound, CarryInv, TypeOK
  <2>3. pc' = "done" => changed = {}
    <3> SUFFICES ASSUME pc' = "done", NEW k \in changed PROVE FALSE
      OBVIOUS
    <3>1. startGuess = 0 /\ k < startGuess
      BY <1>4 DEF NoneFound
    <3> QED BY <3>1 DEF TypeOK, Insns
  <2>4. EdgeInv'
    BY <1>1, <2>1, SameEdges DEF Busy
  <2>5. StableInv'
    BY <1>1, <1>2, <2>1 DEF StableInv, Stable
  <2>6. CarryInv' /\ UpdateInv'
    BY <1>1, <1>2, <2>1, <2>2 DEF CarryInv, UpdateInv, Busy
  <2>7. EndInv'
    BY <1>1, <2>1, <2>3 DEF EndInv, LeqLine
  <2> QED BY <2>4, <2>5, <2>6, <2>7
<1>5. CASE Refuse
  <2>1. pc = "verify" /\ pc' = "refused"
    BY <1>5 DEF Refuse
  <2>2. EdgeInv'
    BY <1>1, <2>1, SameEdges DEF Busy
  <2>3. StableInv' /\ UpdateInv'
    BY <1>1, <1>2, <2>1 DEF StableInv, Stable, UpdateInv
  <2>4. CarryInv'
    BY <1>1, <1>2, <2>1 DEF CarryInv, Busy
  <2>5. EndInv'
    BY <1>1, <2>1 DEF EndInv, LeqLine
  <2> QED BY <2>2, <2>3, <2>4, <2>5
<1> QED BY <1>3, <1>4, <1>5

\* When no flag is left the table and the registers last seen are a typing.
LEMMA InvIsTyped ==
  ASSUME OnlyBranches, Inv
  PROVE  AcceptedIsTyped /\ NoStrayFlag
<1> USE DEF Inv, TypeInv
<1> USE ProgFacts
<1>1. NoStrayFlag
  BY DEF NoStrayFlag, CarryInv, Busy
<1>2. ASSUME pc = "done" PROVE AcceptedIsTyped
  <2>1. changed = {} /\ 0 \in visited /\ LeqLine(Signature, line[0])
    BY <1>2 DEF EndInv
  <2>2. /\ visited \subseteq Insns /\ seen \in [Insns -> Line]
        /\ line \in [Insns -> Line]
    BY DEF TypeOK
  <2>3. ASSUME NEW i \in visited
        PROVE  /\ Out(i) # Reject /\ Effect(prog.op[i], Known(i)) = Out(i)
               /\ prog.catch[i] = {} \/ Known(i) = seen[i]
    <3>1. Out(i) # Reject
      BY <1>2 DEF EdgeInv, Busy
    <3>2. CASE i \notin BranchTarget \/ line[i] = seen[i]
      BY <3>1, <3>2 DEF Known, Out
    <3>3. CASE /\ i \in BranchTarget /\ i \in Jumps(i)
               /\ line[i] = MergeLines(seen[i], Out(i))
      <4>1. i \in 0 .. prog.size - 1 /\ seen[i] \in Line
        BY <2>2 DEF Insns
      <4>2. Known(i) = MergeLines(seen[i], Out(i))
        BY <3>3 DEF Known
      <4>3. /\ prog.catch[i] = {}
            /\ Effect(prog.op[i], MergeLines(seen[i], Out(i))) = Out(i)
        BY <3>1, <3>3, <4>1, MethodAssumption DEF Out, Jumps
      <4> QED BY <3>1, <4>2, <4>3
    <3> QED BY <3>2, <3>3, <2>1 DEF StableInv, Stable
  <2>4. ASSUME NEW r \in Line, NEW j \in Insns, Delivered(r, j)
        PROVE  j \in visited /\ LeqLine(r, Known(j))
    BY <2>1, <2>4, MergeFacts DEF Delivered, Known
  <2>5. ASSUME NEW i \in visited
        PROVE  /\ \A j \in Jumps(i) \cup Following(i) :
                    j \in visited /\ LeqLine(Out(i), Known(j))
               /\ \A j \in prog.catch[i] :
                    j \in visited /\ LeqLine(seen[i], Known(j))
    <3>1. /\ Following(i) \subseteq Insns
          /\ \A j \in Jumps(i) \cup Following(i) : Delivered(Out(i), j)
          /\ \A j \in prog.catch[i] : Delivered(seen[i], j)
      BY <1>2 DEF EdgeInv, Busy
    <3>2. prog.op[i] \in Op
      BY <2>2, MethodAssumption DEF Method, Insns
    <3>3. Out(i) \in Line /\ seen[i] \in Line
      BY <3>2, <2>2, <2>3, EffectType DEF Out
    <3>4. Jumps(i) \subseteq Insns /\ prog.catch[i] \subseteq Insns
      BY <2>2
    <3> QED BY <3>1, <3>3, <3>4, <2>4
  <2> QED BY <2>1, <2>3, <2>5 DEF AcceptedIsTyped, Following
<1> QED BY <1>1, <1>2 DEF AcceptedIsTyped
-----------------------------------------------------------------------------
\* The inductive invariant: what every instruction verified leaves in the
\* registers has been delivered to its successors, or a flag is still set.
THEOREM Invariance == OnlyBranches => (Spec => []Inv)
<1> SUFFICES ASSUME OnlyBranches PROVE Spec => []Inv
  OBVIOUS
<1>1. Init => Inv
  BY InitInv
<1>2. Inv /\ [Next]_vars => Inv'
  <2> SUFFICES ASSUME Inv, [Next]_vars PROVE Inv'
    OBVIOUS
  <2>1. TypeInv'
    BY TypeStep DEF Inv
  <2>2. CASE Find
    BY <2>1, <2>2, FindStep
  <2>3. CASE VerifyInstruction
    BY <2>1, <2>3, VerifyStep
  <2>4. ASSUME NEW u \in todo, UpdateRegisters(u) PROVE Inv'
    BY <2>1, <2>4, UpdateStep
  <2>5. CASE MarkVisited
    BY <2>1, <2>5, MarkStep
  <2>6. CASE NoneFound \/ Refuse \/ UNCHANGED vars
    BY <2>1, <2>6, OtherStep
  <2> QED BY <2>2, <2>3, <2>4, <2>5, <2>6 DEF Next, Ended
<1> QED BY <1>1, <1>2, PTL DEF Spec

\* A method doCodeVerification accepts is typed soundly, whatever the opcodes
\* do and check, whatever the length and the branches of the method.
THEOREM VerifierIsSound == OnlyBranches => (Spec => []AcceptedIsTyped)
<1> SUFFICES ASSUME OnlyBranches PROVE Spec => []AcceptedIsTyped
  OBVIOUS
<1>1. Inv => AcceptedIsTyped
  BY InvIsTyped
<1> QED BY <1>1, Invariance, PTL

\* "We should never have a situation where we have a stray changed flag":
\* registers carried over are always those of the predecessor.
THEOREM FlagsStayTogether == OnlyBranches => (Spec => []NoStrayFlag)
<1> SUFFICES ASSUME OnlyBranches PROVE Spec => []NoStrayFlag
  OBVIOUS
<1>1. Inv => NoStrayFlag
  BY InvIsTyped
<1> QED BY <1>1, Invariance, PTL
=============================================================================
