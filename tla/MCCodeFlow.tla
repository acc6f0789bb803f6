------------------------------ MODULE MCCodeFlow ----------------------------
(* Methods of four instructions over one register and the result register. *)
EXTENDS CodeFlow, RegType, TLC

MCSuper == [Object |-> "none", Base |-> "Object", Left |-> "Base",
            Right |-> "Base", Face |-> "Object"]
MCClass == DOMAIN MCSuper
MCInterface == {"Face"}
MCImplements == {<<"Left", "Face">>}
MCAddress == [Object |-> 32, Base |-> 40, Left |-> 48, Right |-> 56, Face |-> 62]

\* A register holding a letter's simple type, or an instance of a class.
Reference == {regTypeFromClass(c) : c \in Class}
MCType == Reference \cup {kRegType(letter) : letter \in {"_", "X", "0", "I"}}
MCReject == [r \in {} |-> 0]
MCReg == {"v", "result"}
MCSignature == [v |-> regTypeFromClass("Right"), result |-> kRegType("_")]

\* Opcodes by what they do to v and to the result register; an invoke takes
\* a Base in v and returns a Left.
MCEffect(op, l) ==
  LET Set(t) == [v |-> t, result |-> kRegType("_")]
      base == regTypeFromClass("Base")
      left == regTypeFromClass("Left")
  IN CASE op = "const"  -> Set(kRegType("0"))
       [] op = "int"    -> Set(kRegType("I"))
       [] op = "new"    -> Set(left)
       [] op = "invoke" -> IF mergeTypes(base, l["v"]) = base
                           THEN [l EXCEPT !["result"] = left]
                           ELSE MCReject
       [] op = "move-result" -> IF l["result"] \in Reference
                                THEN Set(l["result"])
                                ELSE MCReject
       [] op = "move-exception" -> Set(regTypeFromClass("Right"))
       [] op = "other"  -> Set(l["v"])
MCOp == {"const", "int", "new", "invoke", "move-result", "move-exception",
         "other"}

\* Instructions: opcodes that go on, and may be in a try block when they can
\* throw; if, goto, switch and return.
Size == 4
Insn(o, c, b, s, h) == [op |-> o, continue |-> c, branch |-> b, switch |-> s,
                        catch |-> h]
Plain == {Insn(o, TRUE, {}, {}, {}) : o \in MCOp \ {"move-exception"}}
MoveException == {Insn("move-exception", TRUE, {}, {}, {})}
Throwing == {Insn(o, TRUE, {}, {}, {h}) : o \in {"new", "invoke"}, h \in {0, 2, 3}}
If == {Insn("other", TRUE, {t}, {}, {}) : t \in 0 .. Size - 1}
Goto == {Insn("other", FALSE, {t}, {}, {}) : t \in 0 .. Size - 1}
Switch == {Insn("other", TRUE, {}, {0, 3}, {})}
Return == {Insn("other", FALSE, {}, {}, {})}

MethodOf(code, unused, gc) ==
  [size |-> Size,
   op |-> [i \in 0 .. Size - 1 |-> code[i].op],
   continue |-> {i \in 0 .. Size - 1 : code[i].continue},
   branch |-> [i \in 0 .. Size - 1 |-> code[i].branch],
   switch |-> [i \in 0 .. Size - 1 |-> code[i].switch],
   catch |-> [i \in 0 .. Size - 1 |-> code[i].catch],
   handlers |-> unused \cup UNION {code[i].catch : i \in 0 .. Size - 1},
   gcPoint |-> gc]

\* With registers kept at branch targets, and at every instruction that is a
\* garbage collection point besides (-Xgenregmap): those that branch, throw
\* or return.  The table may name a handler that nothing is thrown to.
MCPrograms ==
  LET Codes == {(0 :> a) @@ (1 :> b) @@ (2 :> c) @@ (3 :> d) :
                  a \in Plain \cup {Insn("invoke", TRUE, {}, {}, {3})},
                  b \in Plain \cup Throwing \cup If \cup Switch,
                  c \in Plain \cup MoveException \cup If \cup Goto,
                  d \in Return \cup Goto}
      GcPoints(code) == {i \in 0 .. Size - 1 : \/ code[i].op \in {"new", "invoke"}
                                               \/ code[i] \in If \cup Goto \cup Switch
                                               \/ code[i] \in Return}
  IN {MethodOf(code, unused, {}) : code \in Codes, unused \in {{}, {2}}}
       \cup {MethodOf(code, {}, GcPoints(code)) : code \in Codes}

\* The merge laws hold for the whole table, and mergeTypes is symmetric.
ASSUME WholeTable ==
  LET All == Reference \cup 0 .. kRegTypeMAX - 1
  IN \A t, u \in All :
       /\ mergeTypes(t, u) = mergeTypes(u, t)
       /\ mergeTypes(t, mergeTypes(t, u)) = mergeTypes(t, u)
       /\ \A v \in All : mergeTypes(u, t) = u /\ mergeTypes(v, u) = v
                          => mergeTypes(v, t) = v

\* findCommonSuperclass gives classes their closest common superclass.
ASSUME CommonSuperclass ==
  LET Above(c) == {Ancestor[c, n] : n \in 0 .. Depth(c)}
  IN \A c, d \in Class \ Interface :
       LET common == findCommonSuperclass(c, d)
       IN /\ common \in Above(c) \cap Above(d)
          /\ Above(c) \cap Above(d) = Above(common)
=============================================================================
