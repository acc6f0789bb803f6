------------------------------- MODULE CodeFlow -----------------------------
(***************************************************************************)
(* The data-flow pass of the bytecode verifier (vm/analysis/CodeVerify.c,  *)
(* doCodeVerification): the registers of one method are typed by going     *)
(* through instructions marked "changed", merging what an instruction      *)
(* leaves in the registers into those of its successors, until no flag is  *)
(* set.  What a single opcode checks and does to the registers is a        *)
(* parameter; which registers are kept, where they are merged, when an     *)
(* instruction is looked at again and in which order is not.               *)
(***************************************************************************)
EXTENDS Integers

CONSTANTS
  Reg,                 \* registers, the result register included
  Type, Unknown,       \* RegType and kRegTypeUnknown
  Merge(_, _),         \* mergeTypes
  Op, Effect(_, _),    \* verifyInstruction's switch: the registers after it
  Reject,              \* ... or that the opcode is refused
  OP_MOVE_EXCEPTION,   \* the opcode only a throw may lead to
  Signature,           \* the registers a method starts with (setTypesFromSignature)
  Programs             \* methods

Line == [Reg -> Type]
MergeLines(l, m) == [r \in Reg |-> Merge(l[r], m[r])]

\* t says no more than u: u already accounts for a register of type t.
Leq(t, u) == Merge(u, t) = u
LeqLine(l, m) == \A r \in Reg : Leq(l[r], m[r])

Method(n) == [size : {n}, op : [0 .. n - 1 -> Op], continue : SUBSET (0 .. n - 1),
              branch : [0 .. n - 1 -> SUBSET (0 .. n - 1)],
              switch : [0 .. n - 1 -> SUBSET (0 .. n - 1)],
              catch : [0 .. n - 1 -> SUBSET (0 .. n - 1)],
              handlers : SUBSET (0 .. n - 1),
              gcPoint : SUBSET (0 .. n - 1)]

ASSUME TypesMerge ==
  /\ Unknown \in Type
  /\ \A t, u \in Type :
       /\ Merge(t, u) \in Type
       /\ Merge(t, t) = t
       /\ Leq(t, Merge(t, u)) /\ Leq(u, Merge(t, u))
  /\ \A t, u, v \in Type : Leq(t, u) /\ Leq(u, v) => Leq(t, v)

ASSUME EffectType ==
  /\ Reject \notin Line /\ Signature \in Line
  /\ \A o \in Op, l \in Line : Effect(o, l) \in Line \cup {Reject}

\* What an instruction throws is caught by a handler of the method's table.  A
\* goto has one target, a conditional branch one besides the next
\* instruction; an instruction that may branch to itself does not throw, and
\* what it leaves in the registers is not changed by merging that in again.
ASSUME MethodAssumption ==
  \A p \in Programs :
    /\ p.size \in Nat \ {0} /\ p \in Method(p.size)
    /\ \A i \in 0 .. p.size - 1 : p.catch[i] \subseteq p.handlers
    /\ \A i \in 0 .. p.size - 1 : i \in p.branch[i] \cup p.switch[i] =>
         /\ p.catch[i] = {}
         /\ \A l \in Line : Effect(p.op[i], l) # Reject =>
              Effect(p.op[i], MergeLines(l, Effect(p.op[i], l)))
                = Effect(p.op[i], l)

VARIABLES
  pc,
  prog,          \* the method
  line,          \* regTable
  changed,       \* instructions with the "changed" flag
  visited,       \* instructions with the "visited" flag
  workRegs, insnIdx, startGuess,
  todo,          \* updateRegisters calls verifyInstruction has still to make
  seen           \* history: the registers an instruction was last verified with

vars == <<pc, prog, line, changed, visited, workRegs, insnIdx, startGuess,
          todo, seen>>

Insns == 0 .. prog.size - 1
Jumps(i) == prog.branch[i] \cup prog.switch[i]

\* The "branch target" flags of the static checks: every handler of the table
\* (dvmSetTryFlags), the first instruction (verifyInstructions) and the targets
\* of branches and switches (dvmCheckBranchTarget, dvmCheckSwitchTargets).
BranchTarget == {0} \cup prog.handlers \cup UNION {Jumps(i) : i \in Insns}

\* checkMoveException
checkMoveException(i) == prog.op[i] # OP_MOVE_EXCEPTION

\* initRegisterTable: the addresses whose registers are kept.
Tracked == BranchTarget \cup prog.gcPoint

\* The registers an instruction leaves, given those it was verified with.
Out(i) == Effect(prog.op[i], seen[i])

Init ==
  /\ prog \in Programs
  /\ pc = "find" /\ changed = {0} /\ visited = {} /\ todo = {}
  /\ insnIdx = 0 /\ startGuess = 0
  /\ line = [i \in Insns |-> IF i = 0 THEN Signature
                             ELSE [r \in Reg |-> Unknown]]
  /\ workRegs = Signature
  /\ seen = line

\* Mutant: the scan always starts from the top.
FindFromTop ==
  /\ pc = "find"
  /\ \E i \in changed :
       /\ \A j \in changed : i <= j
       /\ insnIdx' = i
       /\ workRegs' = IF i \in BranchTarget THEN line[i] ELSE workRegs
       /\ seen' = [seen EXCEPT ![i] = workRegs']
  /\ pc' = "verify"
  /\ UNCHANGED <<prog, line, changed, visited, startGuess, todo>>

\* The scan from startGuess, and the load of the registers of a branch target.
Find ==
  /\ pc = "find"
  /\ \E i \in changed :
       /\ i >= startGuess
       /\ \A j \in changed : j >= startGuess => i <= j
       /\ insnIdx' = i
       /\ workRegs' = IF i \in BranchTarget THEN line[i] ELSE workRegs
       /\ seen' = [seen EXCEPT ![i] = workRegs']
  /\ pc' = "verify"
  /\ UNCHANGED <<prog, line, changed, visited, startGuess, todo>>

\* Nothing from startGuess on: once more from the top, or the end.
NoneFound ==
  /\ pc = "find"
  /\ \A i \in changed : i < startGuess
  /\ IF startGuess # 0 THEN pc' = "find" ELSE pc' = "done"
  /\ startGuess' = 0
  /\ UNCHANGED <<prog, line, changed, visited, workRegs, insnIdx, todo, seen>>

VerifyInstruction ==
  /\ pc = "verify"
  /\ LET after == Effect(prog.op[insnIdx], workRegs)
         continues == insnIdx \in prog.continue
         next == {insnIdx + 1 : i \in {insnIdx} \cap prog.continue}
     IN /\ after # Reject /\ next \subseteq Insns
        /\ \A i \in next \cup Jumps(insnIdx) : checkMoveException(i)
        /\ workRegs' = after
        /\ todo' = [to : (next \cap Tracked) \cup Jumps(insnIdx), regs : {after}]
                     \cup [to : prog.catch[insnIdx], regs : {workRegs}]
        /\ changed' = changed \cup (next \ Tracked)
        /\ startGuess' \in
             IF continues THEN next
             ELSE IF prog.branch[insnIdx] # {} THEN prog.branch[insnIdx]
             ELSE {startGuess}
  /\ pc' = "update"
  /\ UNCHANGED <<prog, line, visited, insnIdx, seen>>

\* An opcode the verifier refuses, the end of the code run over, or a
\* move-exception reached without a throw.
Refuse ==
  /\ pc = "verify"
  /\ \/ Effect(prog.op[insnIdx], workRegs) = Reject
     \/ /\ insnIdx \in prog.continue
        /\ insnIdx + 1 \notin Insns \/ ~checkMoveException(insnIdx + 1)
     \/ \E i \in Jumps(insnIdx) : ~checkMoveException(i)
  /\ pc' = "refused"
  /\ UNCHANGED <<prog, line, changed, visited, workRegs, insnIdx, startGuess,
                 todo, seen>>

\* Mutants: registers that wait to be looked at are taken for fresh ones; the
\* flag is set whether or not the merge changed anything.
UpdateRegistersUnvisited(u) ==
  /\ pc = "update" /\ u \in todo
  /\ todo' = todo \ {u}
  /\ LET fresh == u.to \notin visited
         regs == IF fresh THEN u.regs ELSE MergeLines(line[u.to], u.regs)
     IN /\ line' = [line EXCEPT ![u.to] = regs]
        /\ changed' = IF fresh \/ regs # line[u.to]
                      THEN changed \cup {u.to} ELSE changed
  /\ UNCHANGED <<pc, prog, visited, workRegs, insnIdx, startGuess, seen>>
UpdateRegistersAlways(u) ==
  /\ pc = "update" /\ u \in todo
  /\ todo' = todo \ {u}
  /\ line' = [line EXCEPT ![u.to] = IF u.to \notin visited \cup changed THEN u.regs
                                    ELSE MergeLines(line[u.to], u.regs)]
  /\ changed' = changed \cup {u.to}
  /\ UNCHANGED <<pc, prog, visited, workRegs, insnIdx, startGuess, seen>>

\* One call of updateRegisters: copy into fresh registers, else merge.
UpdateRegisters(u) ==
  /\ pc = "update" /\ u \in todo
  /\ todo' = todo \ {u}
  /\ LET fresh == u.to \notin visited \cup changed
         regs == IF fresh THEN u.regs ELSE MergeLines(line[u.to], u.regs)
     IN /\ line' = [line EXCEPT ![u.to] = regs]
        /\ changed' = IF fresh \/ regs # line[u.to]
                      THEN changed \cup {u.to} ELSE changed
  /\ UNCHANGED <<pc, prog, visited, workRegs, insnIdx, startGuess, seen>>

\* The flags of the instruction, once verifyInstruction is through with it.
MarkVisited ==
  /\ pc = "update" /\ todo = {}
  /\ visited' = visited \cup {insnIdx}
  /\ changed' = changed \ {insnIdx}
  /\ pc' = "find"
  /\ UNCHANGED <<prog, line, workRegs, insnIdx, startGuess, todo, seen>>

Ended == pc \in {"done", "refused"} /\ UNCHANGED vars

Next ==
  \/ Find \/ NoneFound \/ VerifyInstruction \/ Refuse
  \/ \E u \in todo : UpdateRegisters(u)
  \/ MarkVisited \/ Ended

Spec == Init /\ [][Next]_vars
FairSpec == Spec /\ WF_vars(Next)
-----------------------------------------------------------------------------
(* Properties.                                                             *)

\* The state is of the expected shape.
TypeOK ==
  /\ pc \in {"find", "verify", "update", "done", "refused"}
  /\ changed \subseteq Insns /\ visited \subseteq Insns
  /\ line \in [Insns -> Line] /\ seen \in [Insns -> Line]
  /\ workRegs \in Line
  /\ insnIdx \in Insns /\ startGuess \in Insns
  /\ todo \subseteq [to : Tracked, regs : Line]

\* The types an accepted method is known by: those in the table, and between
\* branch targets those the instruction was last verified with.
Known(i) == IF i \in BranchTarget THEN line[i] ELSE seen[i]

\* A method doCodeVerification accepts is typed soundly: the types known at
\* every instruction reached pass the checks of its opcode, and account for
\* whatever any predecessor leaves in the registers - after a branch, at the
\* next instruction, and in a handler, which sees the registers as they were
\* before the instruction that throws - however often, and in whatever order,
\* instructions were looked at again.
AcceptedIsTyped ==
  pc = "done" =>
    /\ 0 \in visited /\ LeqLine(Signature, line[0])
    /\ \A i \in visited :
         LET after == Effect(prog.op[i], Known(i))
         IN /\ after # Reject
            /\ \A j \in Jumps(i) \cup {i + 1 : k \in {i} \cap prog.continue} :
                 j \in visited /\ LeqLine(after, Known(j))
            /\ \A j \in prog.catch[i] :
                 j \in visited /\ LeqLine(Known(i), Known(j))

\* "We should never have a situation where we have a stray changed flag set
\* on an instruction that isn't a branch target": registers carried over from
\* the last instruction verified are those of the predecessor, and where the
\* table has a line for the instruction they have not diverged from it.
NoStrayFlag ==
  pc = "verify" /\ insnIdx \notin BranchTarget =>
    /\ insnIdx - 1 \in visited \cap prog.continue
    /\ workRegs = Out(insnIdx - 1)
    /\ insnIdx \in Tracked => workRegs = line[insnIdx]

\* Every method is accepted or refused in the end: each time an instruction
\* is marked again its types have lost information.
Terminates == <>(pc \in {"done", "refused"})
=============================================================================
