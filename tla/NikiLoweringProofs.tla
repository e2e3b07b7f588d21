-------------------------- MODULE NikiLoweringProofs ---------------------------
(***************************************************************************)
(* What lowering makes of an IR is safe to run, for IRs of any size, when  *)
(* the builder keeps its promises and verifier and lowering find nothing   *)
(* to refuse; safe code that leaves the heap alone is what the theorems    *)
(* about the VM assume of a program.                                       *)
(*                                                                         *)
(* Lowering is a loop over blocks and their instructions.  It is followed  *)
(* by induction with the invariant Writing, which says of every            *)
(* instruction written so far what it will need when the jumps are         *)
(* patched, and Ended, which holds behind a terminator.                    *)
(***************************************************************************)
EXTENDS NikiBackend, TLAPS, SequenceTheorems, WellFoundedInduction

-----------------------------------------------------------------------------
(***************************************************************************)
(* Induction on numbers, for a set instead of a predicate, and what the    *)
(* two recursive functions of lowering compute.                            *)
(***************************************************************************)
LEMMA SmallerIsRelated == \A x, y \in Nat : x < y => <<x, y>> \in OpToRel(<, Nat)
  BY DEF OpToRel

LEMMA Descent ==
  \E R : IsWellFoundedOn(R, Nat) /\ \A x, y \in Nat : x < y => <<x, y>> \in R
  BY SmallerIsRelated, NatLessThanWellFounded, Zenon

\* A set that has 0 and the successor of each of its numbers has all numbers.
LEMMA Induction ==
  ASSUME NEW S, 0 \in S, \A n \in Nat : n \in S => n + 1 \in S
  PROVE  Nat \subseteq S
<1> DEFINE T == Nat \ S
<1> SUFFICES ASSUME T # {} PROVE FALSE
  OBVIOUS
<1>1. PICK R : IsWellFoundedOn(R, Nat) /\ \A x, y \in Nat : x < y => <<x, y>> \in R
  BY Descent
<1>2. PICK x \in T : \A y \in T : <<y, x>> \notin R
  <2>1. T \subseteq Nat
    OBVIOUS
  <2> QED
    BY <1>1, <2>1, WFMin
<1>3. x # 0 /\ x \in Nat /\ x - 1 \in Nat /\ x - 1 < x
  OBVIOUS
<1>4. x - 1 \notin T
  <2> DEFINE y == x - 1
  <2> HIDE DEF y
  <2>1. <<y, x>> \in R
    BY <1>1, <1>3, Zenon DEF y
  <2> QED
    BY <1>2, <2>1, Zenon DEF y
<1>5. x - 1 \in S /\ (x - 1) + 1 = x
  BY <1>3, <1>4
<1> QED
  BY <1>3, <1>5

\* g is the writer after each instruction of a block, up to the n-th.
WritesBlock(g, b, w, block, n) ==
  g = [k \in 0..n |-> IF k = 0 THEN enterBlock(w) ELSE lowerInst(g[k - 1], b.insts[block.begin + k])]

LEMMA BlockWriterExists ==
  ASSUME NEW b, NEW w, NEW block, NEW N \in Nat
  PROVE  \E g : WritesBlock(g, b, w, block, N)
<1> DEFINE inst(k) == b.insts[block.begin + k]
           S == {n \in Nat : \E g : WritesBlock(g, b, w, block, n)}
<1>1. 0 \in S
  <2> DEFINE g == [k \in 0..0 |-> enterBlock(w)]
  <2>1. WritesBlock(g, b, w, block, 0)
    BY DEF WritesBlock
  <2> QED
    BY <2>1
<1>2. ASSUME NEW n \in Nat, n \in S
      PROVE  n + 1 \in S
  <2>1. PICK g : WritesBlock(g, b, w, block, n)
    BY <1>2
  <2> DEFINE h == [k \in 0..(n + 1) |-> IF k = n + 1 THEN lowerInst(g[n], inst(n + 1)) ELSE g[k]]
  <2>2. \A k \in 0..(n + 1) : h[k] = IF k = 0 THEN enterBlock(w) ELSE lowerInst(h[k - 1], inst(k))
    <3> TAKE k \in 0..(n + 1)
    <3>1. CASE k = 0
      BY <3>1, <2>1 DEF WritesBlock
    <3>2. CASE k = n + 1
      <4>1. h[n] = g[n]
        OBVIOUS
      <4> QED
        BY <3>2, <4>1
    <3>3. CASE k # 0 /\ k # n + 1
      <4>1. k \in 0..n /\ k - 1 \in 0..n /\ k - 1 # n + 1
        BY <3>3
      <4>2. h[k] = g[k] /\ h[k - 1] = g[k - 1]
        BY <4>1, <3>3
      <4>3. g[k] = lowerInst(g[k - 1], inst(k))
        BY <4>1, <3>3, <2>1 DEF WritesBlock
      <4> QED
        BY <4>2, <4>3, <3>3
    <3> QED
      BY <3>1, <3>2, <3>3
  <2>3. WritesBlock(h, b, w, block, n + 1)
    BY <2>2 DEF WritesBlock
  <2> QED
    BY <2>3
<1>3. Nat \subseteq S
  <2> HIDE DEF S
  <2> QED
    BY <1>1, <1>2, Induction
<1> QED
  BY <1>3

\* lowerBlock is the last writer of such a function.
LEMMA LowerBlockIs ==
  ASSUME NEW b, NEW w, NEW block, block.count \in Nat
  PROVE  \E g : WritesBlock(g, b, w, block, block.count) /\ lowerBlock(b, w, block) = g[block.count]
<1> DEFINE g == CHOOSE g : g = [k \in 0..block.count |->
                  IF k = 0 THEN enterBlock(w) ELSE lowerInst(g[k - 1], b.insts[block.begin + k])]
<1>1. WritesBlock(g, b, w, block, block.count)
  <2>1. PICK h : WritesBlock(h, b, w, block, block.count)
    BY BlockWriterExists
  <2> QED
    BY <2>1 DEF WritesBlock
<1>2. lowerBlock(b, w, block) = g[block.count]
  BY DEF lowerBlock
<1> QED
  BY <1>1, <1>2

\* g is the writer after each block of a function, up to the n-th.
WritesBlocks(g, b, func, n) ==
  g = [k \in 0..n |-> IF k = 0 THEN Blank ELSE lowerBlock(b, g[k - 1], BlockOf(b, func, k))]

LEMMA FunctionWriterExists ==
  ASSUME NEW b, NEW func, NEW N \in Nat
  PROVE  \E g : WritesBlocks(g, b, func, N)
<1> DEFINE S == {n \in Nat : \E g : WritesBlocks(g, b, func, n)}
<1>1. 0 \in S
  <2> DEFINE g == [k \in 0..0 |-> Blank]
  <2>1. WritesBlocks(g, b, func, 0)
    BY DEF WritesBlocks
  <2> QED
    BY <2>1
<1>2. ASSUME NEW n \in Nat, n \in S
      PROVE  n + 1 \in S
  <2>1. PICK g : WritesBlocks(g, b, func, n)
    BY <1>2
  <2> DEFINE h == [k \in 0..(n + 1) |->
                     IF k = n + 1 THEN lowerBlock(b, g[n], BlockOf(b, func, n + 1)) ELSE g[k]]
  <2>2. \A k \in 0..(n + 1) : h[k] = IF k = 0 THEN Blank ELSE lowerBlock(b, h[k - 1], BlockOf(b, func, k))
    <3> TAKE k \in 0..(n + 1)
    <3>1. CASE k = 0
      BY <3>1, <2>1 DEF WritesBlocks
    <3>2. CASE k = n + 1
      <4>1. h[n] = g[n]
        OBVIOUS
      <4> QED
        BY <3>2, <4>1
    <3>3. CASE k # 0 /\ k # n + 1
      <4>1. k \in 0..n /\ k - 1 \in 0..n /\ k - 1 # n + 1
        BY <3>3
      <4>2. h[k] = g[k] /\ h[k - 1] = g[k - 1]
        BY <4>1, <3>3
      <4>3. g[k] = lowerBlock(b, g[k - 1], BlockOf(b, func, k))
        BY <4>1, <3>3, <2>1 DEF WritesBlocks
      <4> QED
        BY <4>2, <4>3, <3>3
    <3> QED
      BY <3>1, <3>2, <3>3
  <2>3. WritesBlocks(h, b, func, n + 1)
    BY <2>2 DEF WritesBlocks
  <2> QED
    BY <2>3
<1>3. Nat \subseteq S
  <2> HIDE DEF S
  <2> QED
    BY <1>1, <1>2, Induction
<1> QED
  BY <1>3

\* lowerBlocks is the last writer of such a function.
LEMMA LowerBlocksIs ==
  ASSUME NEW b, NEW func, func.count \in Nat
  PROVE  \E g : WritesBlocks(g, b, func, func.count) /\ lowerBlocks(b, func) = g[func.count]
<1> DEFINE g == CHOOSE g : g = [k \in 0..func.count |->
                  IF k = 0 THEN Blank ELSE lowerBlock(b, g[k - 1], BlockOf(b, func, k))]
<1>1. WritesBlocks(g, b, func, func.count)
  <2>1. PICK h : WritesBlocks(h, b, func, func.count)
    BY FunctionWriterExists
  <2> QED
    BY <2>1 DEF WritesBlocks
<1>2. lowerBlocks(b, func) = g[func.count]
  BY DEF lowerBlocks
<1> QED
  BY <1>1, <1>2

-----------------------------------------------------------------------------
(***************************************************************************)
(* One instruction.                                                        *)
(***************************************************************************)
\* An instruction of the n-th block that was promised, verified and found to
\* have an encoding.
Checked(func, n, i) ==
  /\ PromisedInst(func, n, i)
  /\ Encodable(i)
  /\ \A slot \in SlotsOfInst(i) : InRange(func, slot)

\* What it may become while jumps still hold the blocks they lead to.
Raw(func, n, i) ==
  /\ i \in Instr
  /\ \A r \in RegisterOperands(i) \cup HeapRegisters(i) : r < func.next_vreg
  /\ i.op \notin {"LOOP", "JZ", "DEFINE_GLOBAL", "SET_GLOBAL"}
  /\ i.op = "JMP" => i.a < func.count
  /\ i.op = "JNZ" => i.b < func.count /\ i.b >= n

LEMMA BinaryKinds ==
  /\ DOMAIN mapBinaryOpcode = {"Add", "Sub", "Mul", "Div", "Mod", "Dice", "CmpEq", "CmpNe", "CmpLt", "CmpLe",
                               "CmpGt", "CmpGe", "LogicAnd", "LogicOr"}
  /\ \A kind \in DOMAIN mapBinaryOpcode : mapBinaryOpcode[kind] \in BinaryOp
<1>1. DOMAIN mapBinaryOpcode = {"Add", "Sub", "Mul", "Div", "Mod", "Dice", "CmpEq", "CmpNe", "CmpLt", "CmpLe",
                                "CmpGt", "CmpGe", "LogicAnd", "LogicOr"}
  BY DEF mapBinaryOpcode
<1>2. \A kind \in DOMAIN mapBinaryOpcode : mapBinaryOpcode[kind] \in BinaryOp
  BY <1>1 DEF mapBinaryOpcode, BinaryOp, IntArith, IntCompare
<1> QED
  BY <1>1, <1>2

LEMMA OtherKinds ==
  /\ DOMAIN mapOtherOpcode = {"Move", "Neg", "LogicNot", "PushArray", "SetMap", "GetIndex", "Free"}
  /\ mapOtherOpcode["Move"] = "MOVE" /\ mapOtherOpcode["Neg"] = "NEG" /\ mapOtherOpcode["LogicNot"] = "NOT"
  /\ mapOtherOpcode["PushArray"] = "PUSH_ARRAY" /\ mapOtherOpcode["SetMap"] = "SET_MAP"
  /\ mapOtherOpcode["GetIndex"] = "GET_ARRAY" /\ mapOtherOpcode["Free"] = "FREE"
BY DEF mapOtherOpcode

\* The registers of each kind.
LEMMA RegistersAre ==
  ASSUME NEW i
  PROVE  /\ i.kind \in {"Constant", "NewArray", "NewMap", "LoadGlobal", "Free"} => Registers(i) = <<i.dst>>
         /\ i.kind \in {"Move", "Neg", "LogicNot"} => Registers(i) = <<i.dst, i.a>>
         /\ i.kind \in DOMAIN mapBinaryOpcode \cup {"GetIndex"} => Registers(i) = <<i.dst, i.a, i.b>>
         /\ i.kind = "PushArray" => Registers(i) = <<i.a, i.b>>
         /\ i.kind = "SetMap" => Registers(i) = <<i.a, i.b, i.c>>
         /\ i.kind = "Call" /\ i.b.kind = "Invalid" => Registers(i) = <<i.dst, i.a>>
         /\ i.kind = "Call" /\ i.b.kind # "Invalid" => Registers(i) = <<i.dst, i.a, i.b>>
         /\ i.kind = "Branch" => Registers(i) = <<i.a>>
         /\ i.kind = "Return" /\ i.a.kind = "VReg" => Registers(i) = <<i.a>>
         /\ i.kind = "Return" /\ i.a.kind # "VReg" => Registers(i) = <<>>
         /\ i.kind = "Jump" => Registers(i) = <<>>
BY BinaryKinds DEF Registers

LEMMA SupportedKinds ==
  ASSUME NEW i, i.kind \in Supported
  PROVE  \/ i.kind \in {"Constant", "NewArray", "NewMap", "LoadGlobal", "Free"}
         \/ i.kind \in {"Move", "Neg", "LogicNot"}
         \/ i.kind \in DOMAIN mapBinaryOpcode \cup {"GetIndex"}
         \/ i.kind \in {"PushArray", "SetMap", "Call", "Jump", "Branch", "Return"}
BY OtherKinds DEF Supported, Terminators

\* The registers of a checked instruction are those of its function.
LEMMA RegisterBytes ==
  ASSUME NEW func, NEW n, NEW i, Checked(func, n, i), func.next_vreg \in Nat,
         NEW k \in DOMAIN Registers(i)
  PROVE  /\ Registers(i)[k].kind = "VReg"
         /\ Registers(i)[k].value \in 0..MaxByte
         /\ Registers(i)[k].value < func.next_vreg
<1>1. Registers(i)[k].kind = "VReg" /\ Registers(i)[k].value =< MaxByte
  BY DEF Checked, Encodable, requireVReg
<1>2. Registers(i)[k] \in SlotsOfInst(i)
  <2>1. i.kind \in Supported
    BY DEF Checked, Encodable
  <2>2. CASE i.kind \in {"Constant", "NewArray", "NewMap", "LoadGlobal", "Free"}
    BY <2>2, RegistersAre DEF SlotsOfInst
  <2>3. CASE i.kind \in {"Move", "Neg", "LogicNot"}
    BY <2>3, RegistersAre DEF SlotsOfInst
  <2>4. CASE i.kind \in DOMAIN mapBinaryOpcode \cup {"GetIndex"}
    BY <2>4, RegistersAre DEF SlotsOfInst
  <2>5. CASE i.kind \in {"PushArray", "SetMap", "Call", "Jump", "Branch", "Return"}
    BY <2>5, RegistersAre DEF SlotsOfInst
  <2> QED
    BY <2>1, <2>2, <2>3, <2>4, <2>5, SupportedKinds
<1>3. Registers(i)[k].value \in Nat /\ Registers(i)[k].value < func.next_vreg
  BY <1>1, <1>2 DEF Checked, PromisedInst, InRange
<1> QED
  BY <1>1, <1>3 DEF MaxByte

LEMMA OpcodesAre ==
  /\ {"LOAD_CONST", "MOVE", "JMP", "JNZ", "GET_GLOBAL", "CALL", "RETURN"} \cup UnaryOp \cup BinaryOp
       \subseteq Opcode
  /\ "NEG" \in UnaryOp /\ "NOT" \in UnaryOp
  /\ BinaryOp \cap ({"LOAD_CONST", "GET_GLOBAL", "SET_GLOBAL", "TRUE", "FALSE", "NIL", "JZ", "JNZ", "JMP", "LOOP",
                     "CALL", "RETURN", "MOVE", "DEFINE_GLOBAL"} \cup UnaryOp \cup HeapOp) = {}
BY DEF Opcode, UnaryOp, BinaryOp, IntArith, IntCompare, FloatCompare, FloatArith, BitOps, HeapOp

\* The registers of the instructions that lowering writes.
LEMMA OperandsAre ==
  ASSUME NEW op, NEW a, NEW b, NEW c, NEW d
  PROVE  LET regs == RegisterOperands(I(op, a, b, c, d)) \cup HeapRegisters(I(op, a, b, c, d)) IN
         /\ op \in {"LOAD_CONST", "GET_GLOBAL", "JNZ", "NEW_ARRAY", "NEW_MAP", "FREE"} => regs = {a}
         /\ op \in {"MOVE", "NEG", "NOT", "PUSH_ARRAY"} => regs = {a, b}
         /\ op \in BinaryOp \cup {"GET_ARRAY", "SET_MAP"} => regs = {a, b, c}
         /\ op = "CALL" => regs = {a, b} \cup c..(c + d - 1) \cup {c}
         /\ op \in {"JMP", "RETURN", "LOOP"} => regs = {}
<1> DEFINE i == I(op, a, b, c, d)
<1>1. i.op = op /\ i.a = a /\ i.b = b /\ i.c = c /\ i.d = d
  BY DEF I
<1> HIDE DEF i
<1>2. op \in {"LOAD_CONST", "GET_GLOBAL", "JNZ"} => RegisterOperands(i) = {a} /\ HeapRegisters(i) = {}
  BY <1>1 DEF RegisterOperands, HeapRegisters, UnaryOp, BinaryOp, IntArith, IntCompare, FloatCompare, FloatArith, BitOps
<1>3. op \in {"NEW_ARRAY", "NEW_MAP", "FREE"} => RegisterOperands(i) = {} /\ HeapRegisters(i) = {a}
  BY <1>1 DEF RegisterOperands, HeapRegisters, UnaryOp, BinaryOp, IntArith, IntCompare, FloatCompare, FloatArith, BitOps
<1>4. op \in {"MOVE", "NEG", "NOT"} => RegisterOperands(i) = {a, b} /\ HeapRegisters(i) = {}
  BY <1>1 DEF RegisterOperands, HeapRegisters, UnaryOp, BinaryOp, IntArith, IntCompare, FloatCompare, FloatArith, BitOps
<1>5. op = "PUSH_ARRAY" => RegisterOperands(i) = {} /\ HeapRegisters(i) = {a, b}
  BY <1>1 DEF RegisterOperands, HeapRegisters, UnaryOp, BinaryOp, IntArith, IntCompare, FloatCompare, FloatArith, BitOps
<1>6. op \in BinaryOp => RegisterOperands(i) = {a, b, c} /\ HeapRegisters(i) = {}
  BY <1>1, OpcodesAre DEF RegisterOperands, HeapRegisters, HeapOp
<1>7. op \in {"GET_ARRAY", "SET_MAP"} => RegisterOperands(i) = {} /\ HeapRegisters(i) = {a, b, c}
  BY <1>1 DEF RegisterOperands, HeapRegisters, UnaryOp, BinaryOp, IntArith, IntCompare, FloatCompare, FloatArith, BitOps
<1>8. op = "CALL" => RegisterOperands(i) = {a, b} \cup c..(c + d - 1) \cup {c} /\ HeapRegisters(i) = {}
  BY <1>1 DEF RegisterOperands, HeapRegisters, UnaryOp, BinaryOp, IntArith, IntCompare, FloatCompare, FloatArith, BitOps
<1>9. op \in {"JMP", "RETURN", "LOOP"} => RegisterOperands(i) = {} /\ HeapRegisters(i) = {}
  BY <1>1 DEF RegisterOperands, HeapRegisters, UnaryOp, BinaryOp, IntArith, IntCompare, FloatCompare, FloatArith, BitOps
<1> QED
  BY <1>2, <1>3, <1>4, <1>5, <1>6, <1>7, <1>8, <1>9 DEF i

\* One instruction becomes one or two raw ones; only LoadGlobal reads a constant
\* for a name, and a terminator ends in a jump or a return.
EncodedAs(func, n, i, c, x) ==
  /\ Raw(func, n, x)
  /\ x.op = "GET_GLOBAL" => i.kind = "LoadGlobal" /\ x.b = c

LEMMA EncodeIs ==
  ASSUME NEW func, NEW n \in Nat, NEW i, NEW c \in Nat, Checked(func, n, i), func.next_vreg \in Nat
  PROVE  \/ \E x : /\ Encode(i, c) = <<x>> /\ EncodedAs(func, n, i, c, x)
                   /\ i.kind \in Terminators => x.op \in {"JMP", "RETURN"}
         \/ \E x, y : /\ Encode(i, c) = <<x, y>> /\ EncodedAs(func, n, i, c, x) /\ EncodedAs(func, n, i, c, y)
                      /\ y.op \in {"JMP", "RETURN"}
<1> DEFINE r == [k \in 1..3 |-> IF k \in DOMAIN Registers(i) THEN Registers(i)[k].value ELSE 0]
           low(k) == r[k] \in Nat /\ r[k] < func.next_vreg
<1>1. /\ r[1] \in Nat /\ r[2] \in Nat /\ r[3] \in Nat
      /\ 1 \in DOMAIN Registers(i) => low(1)
      /\ 2 \in DOMAIN Registers(i) => low(2)
      /\ 3 \in DOMAIN Registers(i) => low(3)
      /\ 3 \notin DOMAIN Registers(i) => r[3] = 0
  <2>1. \A k \in DOMAIN Registers(i) : Registers(i)[k].value \in Nat /\ Registers(i)[k].value < func.next_vreg
    BY RegisterBytes
  <2> QED
    BY <2>1
<1>2. i.kind \in Supported /\ i.aux \in Nat
  BY DEF Checked, Encodable, PromisedInst
<1>3. i.aux % (MaxByte + 1) \in Nat /\ i.aux % (MaxByte + 1) =< i.aux
  BY <1>2 DEF MaxByte
<1>4. \A op, x, y, z, w : op \in Opcode \cup HeapOp /\ x \in Nat /\ y \in Nat /\ z \in Nat /\ w \in Nat
        => I(op, x, y, z, w) \in Instr
  BY DEF I, Instr
<1>5. Encode(i, c) =
        CASE i.kind = "Constant"   -> <<I("LOAD_CONST", r[1], c, 0, 0)>>
          [] i.kind = "LoadGlobal" -> <<I("GET_GLOBAL", r[1], c, 0, 0)>>
          [] i.kind = "NewArray"   -> <<I("NEW_ARRAY", r[1], i.aux % (MaxByte + 1), 0, 0)>>
          [] i.kind = "NewMap"     -> <<I("NEW_MAP", r[1], i.aux % (MaxByte + 1), 0, 0)>>
          [] i.kind = "Call"       -> <<I("CALL", r[1], r[2], r[3], i.aux % (MaxByte + 1))>>
          [] i.kind = "Jump"       -> <<I("JMP", i.a.value, 0, 0, 0)>>
          [] i.kind = "Branch"     -> <<I("JNZ", r[1], i.b.value, 0, 0), I("JMP", i.c.value, 0, 0, 0)>>
          [] i.kind = "Return"     -> ReturnCode(r[1])
          [] OTHER                 -> <<I(RegisterOpcode(i.kind), r[1], r[2], r[3], 0)>>
  BY Zenon DEF Encode
<1> HIDE DEF r
<1>6. \A op, x, y, z, w : I(op, x, y, z, w).op = op /\ I(op, x, y, z, w).a = x /\ I(op, x, y, z, w).b = y
  BY DEF I
<1>7. CASE i.kind = "Constant"
  <2> DEFINE x == I("LOAD_CONST", r[1], c, 0, 0)
  <2>1. Encode(i, c) = <<x>>
    BY <1>5, <1>7
  <2>2. low(1)
    BY <1>1, <1>7, RegistersAre
  <2>3. x \in Instr
    BY <1>1, <1>4, OpcodesAre
  <2>4. RegisterOperands(x) \cup HeapRegisters(x) = {r[1]}
    BY OperandsAre
  <2>5. x.op = "LOAD_CONST"
    BY <1>6
  <2> HIDE DEF x
  <2> QED
    BY <1>7, <2>1, <2>2, <2>3, <2>4, <2>5 DEF EncodedAs, Raw, Terminators
<1>8. CASE i.kind \in {"NewArray", "NewMap", "LoadGlobal"}
  <2> DEFINE op == IF i.kind = "NewArray" THEN "NEW_ARRAY" ELSE IF i.kind = "NewMap" THEN "NEW_MAP" ELSE "GET_GLOBAL"
             y  == IF i.kind = "LoadGlobal" THEN c ELSE i.aux % (MaxByte + 1)
             x  == I(op, r[1], y, 0, 0)
  <2>1. Encode(i, c) = <<x>>
    BY <1>5, <1>8
  <2>2. low(1)
    BY <1>1, <1>8, RegistersAre
  <2>3. x \in Instr
    BY <1>1, <1>3, <1>4, OpcodesAre DEF HeapOp
  <2>4. RegisterOperands(x) \cup HeapRegisters(x) = {r[1]}
    BY OperandsAre
  <2>5. x.op = op /\ x.b = y
    BY <1>6
  <2> HIDE DEF x
  <2> QED
    BY <1>8, <2>1, <2>2, <2>3, <2>4, <2>5 DEF EncodedAs, Raw, Terminators
<1>9. CASE i.kind = "Call"
  <2> DEFINE d == i.aux % (MaxByte + 1)
             x == I("CALL", r[1], r[2], r[3], d)
  <2>1. Encode(i, c) = <<x>>
    BY <1>5, <1>9
  <2>2. low(1) /\ low(2)
    BY <1>1, <1>9, RegistersAre
  <2>3. x \in Instr
    BY <1>1, <1>3, <1>4, OpcodesAre
  <2>4. r[3] \in Nat /\ r[3] < func.next_vreg /\ (d > 0 => r[3] + d =< func.next_vreg)
    <3>1. CASE i.b.kind = "Invalid"
      <4>1. r[3] = 0
        BY <1>1, <1>9, <3>1, RegistersAre
      <4>2. i.aux = 0
        BY <1>9, <3>1 DEF Checked, PromisedInst
      <4> QED
        BY <1>3, <2>2, <4>1, <4>2
    <3>2. CASE i.b.kind # "Invalid"
      <4>1. Registers(i) = <<i.dst, i.a, i.b>>
        BY <1>9, <3>2, RegistersAre
      <4>2. low(3) /\ r[3] = i.b.value
        BY <1>1, <4>1 DEF r
      <4>3. i.b.kind = "VReg"
        BY <4>1, RegisterBytes
      <4>4. i.b.value + i.aux =< func.next_vreg
        BY <1>9, <4>3 DEF Checked, PromisedInst
      <4> QED
        BY <1>2, <1>3, <4>2, <4>4
    <3> QED
      BY <3>1, <3>2
  <2>5. RegisterOperands(x) \cup HeapRegisters(x) = {r[1], r[2]} \cup r[3]..(r[3] + d - 1) \cup {r[3]}
    BY OperandsAre
  <2>6. d \in Nat
    BY <1>3
  <2>7. x.op = "CALL"
    BY <1>6
  <2> HIDE DEF x, d
  <2>8. \A q \in RegisterOperands(x) \cup HeapRegisters(x) : q < func.next_vreg
    <3> SUFFICES ASSUME NEW q \in r[3]..(r[3] + d - 1)
                 PROVE  q < func.next_vreg
      BY <2>2, <2>4, <2>5
    <3> QED
      BY <2>4, <2>6
  <2> QED
    BY <1>9, <2>1, <2>3, <2>7, <2>8 DEF EncodedAs, Raw, Terminators
<1>10. CASE i.kind = "Jump"
  <2> DEFINE x == I("JMP", i.a.value, 0, 0, 0)
  <2>1. Encode(i, c) = <<x>>
    BY <1>5, <1>10
  <2>2. i.a.value \in Nat /\ i.a.value < func.count
    BY <1>10 DEF Checked, Encodable, PromisedInst, InRange, SlotsOfInst
  <2>3. x \in Instr
    BY <1>4, <2>2, OpcodesAre
  <2>4. RegisterOperands(x) \cup HeapRegisters(x) = {}
    BY OperandsAre
  <2>5. x.op = "JMP" /\ x.a = i.a.value
    BY <1>6
  <2> HIDE DEF x
  <2> QED
    BY <1>10, <2>1, <2>2, <2>3, <2>4, <2>5 DEF EncodedAs, Raw
<1>11. CASE i.kind = "Branch"
  <2> DEFINE x == I("JNZ", r[1], i.b.value, 0, 0)
             y == I("JMP", i.c.value, 0, 0, 0)
  <2>1. Encode(i, c) = <<x, y>>
    BY <1>5, <1>11
  <2>2. i.b.value \in Nat /\ i.b.value < func.count /\ i.c.value \in Nat /\ i.c.value < func.count
    BY <1>11 DEF Checked, Encodable, PromisedInst, InRange, SlotsOfInst
  <2>3. i.b.value >= n
    BY <1>11, <2>2 DEF Checked, PromisedInst, Unset
  <2>4. low(1)
    BY <1>1, <1>11, RegistersAre
  <2>5. x \in Instr /\ y \in Instr
    BY <1>1, <1>4, <2>2, OpcodesAre
  <2>6. RegisterOperands(x) \cup HeapRegisters(x) = {r[1]} /\ RegisterOperands(y) \cup HeapRegisters(y) = {}
    BY OperandsAre
  <2>7. x.op = "JNZ" /\ x.b = i.b.value /\ y.op = "JMP" /\ y.a = i.c.value
    BY <1>6
  <2> HIDE DEF x, y
  <2> QED
    BY <2>1, <2>2, <2>3, <2>4, <2>5, <2>6, <2>7 DEF EncodedAs, Raw
<1>12. CASE i.kind = "Return"
  <2> DEFINE x == I("MOVE", 0, r[1], 0, 0)
             y == I("RETURN", 0, 0, 0, 0)
  <2>1. y \in Instr /\ y.op = "RETURN" /\ RegisterOperands(y) \cup HeapRegisters(y) = {}
    BY <1>4, <1>6, OpcodesAre, OperandsAre
  <2>2. CASE r[1] = 0
    <3>1. Encode(i, c) = <<y>>
      BY <1>5, <1>12, <2>2 DEF ReturnCode
    <3> HIDE DEF y
    <3> QED
      BY <2>1, <3>1 DEF EncodedAs, Raw
  <2>3. CASE r[1] # 0
    <3>1. Encode(i, c) = <<x, y>>
      BY <1>5, <1>12, <2>3 DEF ReturnCode
    <3>2. 1 \in DOMAIN Registers(i)
      BY <2>3 DEF r
    <3>3. x \in Instr /\ x.op = "MOVE" /\ RegisterOperands(x) \cup HeapRegisters(x) = {0, r[1]}
      BY <1>1, <1>4, <1>6, OpcodesAre, OperandsAre
    <3>4. 0 < func.next_vreg /\ r[1] < func.next_vreg
      BY <1>1, <3>2
    <3> HIDE DEF x, y
    <3> QED
      BY <2>1, <3>1, <3>3, <3>4 DEF EncodedAs, Raw
  <2> QED
    BY <2>2, <2>3
<1>13. CASE i.kind \in DOMAIN mapBinaryOpcode
  <2> DEFINE x == I(mapBinaryOpcode[i.kind], r[1], r[2], r[3], 0)
  <2>1. i.kind \notin {"Constant", "LoadGlobal", "NewArray", "NewMap", "Call", "Jump", "Branch", "Return"}
    BY <1>13, BinaryKinds
  <2>2. Encode(i, c) = <<x>>
    BY <1>5, <1>13, <2>1 DEF RegisterOpcode
  <2>3. mapBinaryOpcode[i.kind] \in BinaryOp
    BY <1>13, BinaryKinds
  <2>4. low(1) /\ low(2) /\ low(3)
    BY <1>1, <1>13, RegistersAre
  <2>5. x \in Instr
    BY <1>1, <1>4, <2>3, OpcodesAre
  <2>6. RegisterOperands(x) \cup HeapRegisters(x) = {r[1], r[2], r[3]}
    BY <2>3, OperandsAre
  <2>7. x.op \notin {"GET_GLOBAL", "LOOP", "JZ", "DEFINE_GLOBAL", "SET_GLOBAL", "JMP", "JNZ"}
    BY <1>6, <2>3, OpcodesAre
  <2> HIDE DEF x
  <2> QED
    BY <2>1, <2>2, <2>4, <2>5, <2>6, <2>7 DEF EncodedAs, Raw, Terminators
<1>14. CASE i.kind \in DOMAIN mapOtherOpcode
  <2> DEFINE op == mapOtherOpcode[i.kind]
             x == I(op, r[1], r[2], r[3], 0)
  <2>1. i.kind \in {"Move", "Neg", "LogicNot", "PushArray", "SetMap", "GetIndex", "Free"}
    BY <1>14, OtherKinds
  <2>2. i.kind \notin DOMAIN mapBinaryOpcode
    BY <2>1, BinaryKinds
  <2>3. Encode(i, c) = <<x>>
    BY <1>5, <2>1, <2>2 DEF RegisterOpcode
  <2>4. /\ i.kind \in {"Move", "Neg", "LogicNot", "PushArray"} =>
             op \in {"MOVE", "NEG", "NOT", "PUSH_ARRAY"} /\ low(1) /\ low(2)
        /\ i.kind \in {"SetMap", "GetIndex"} => op \in {"SET_MAP", "GET_ARRAY"} /\ low(1) /\ low(2) /\ low(3)
        /\ i.kind = "Free" => op = "FREE" /\ low(1)
    BY <1>1, OtherKinds, RegistersAre
  <2>5. op \in Opcode \cup HeapOp
    BY <2>1, <2>4, OpcodesAre DEF HeapOp
  <2>6. x \in Instr
    BY <1>1, <1>4, <2>5
  <2>7. x.op = op
    BY <1>6
  <2>8. \A q \in RegisterOperands(x) \cup HeapRegisters(x) : q < func.next_vreg
    BY <2>1, <2>4, OperandsAre
  <2>9. op \notin {"GET_GLOBAL", "LOOP", "JZ", "DEFINE_GLOBAL", "SET_GLOBAL", "JMP", "JNZ"}
    BY <2>1, <2>4
  <2> HIDE DEF x, op
  <2> QED
    BY <2>1, <2>3, <2>6, <2>7, <2>8, <2>9 DEF EncodedAs, Raw, Terminators
<1> QED
  BY <1>2, <1>7, <1>8, <1>9, <1>10, <1>11, <1>12, <1>13, <1>14 DEF Supported, Terminators

\* The same as a sequence.
LEMMA EncodedSequence ==
  ASSUME NEW func, NEW n \in Nat, NEW i, NEW c \in Nat, Checked(func, n, i), func.next_vreg \in Nat
  PROVE  LET e == Encode(i, c) IN
         /\ e \in Seq(Instr) /\ Len(e) \in Nat /\ Len(e) >= 1
         /\ \A k \in 1..Len(e) : EncodedAs(func, n, i, c, e[k])
         /\ i.kind \in Terminators => e[Len(e)].op \in {"JMP", "RETURN"}
<1>1. CASE \E x : /\ Encode(i, c) = <<x>> /\ EncodedAs(func, n, i, c, x)
                  /\ i.kind \in Terminators => x.op \in {"JMP", "RETURN"}
  <2>1. PICK x : /\ Encode(i, c) = <<x>> /\ EncodedAs(func, n, i, c, x)
                 /\ i.kind \in Terminators => x.op \in {"JMP", "RETURN"}
    BY <1>1
  <2>2. x \in Instr
    BY <2>1 DEF EncodedAs, Raw
  <2>3. /\ <<x>> \in Seq(Instr) /\ Len(<<x>>) = 1
        /\ \A k \in 1..Len(<<x>>) : <<x>>[k] = x
    BY <2>2
  <2> QED
    BY <2>1, <2>3
<1>2. CASE \E x, y : /\ Encode(i, c) = <<x, y>> /\ EncodedAs(func, n, i, c, x) /\ EncodedAs(func, n, i, c, y)
                     /\ y.op \in {"JMP", "RETURN"}
  <2>1. PICK x, y : /\ Encode(i, c) = <<x, y>> /\ EncodedAs(func, n, i, c, x) /\ EncodedAs(func, n, i, c, y)
                    /\ y.op \in {"JMP", "RETURN"}
    BY <1>2
  <2>2. x \in Instr /\ y \in Instr
    BY <2>1 DEF EncodedAs, Raw
  <2>3. /\ <<x, y>> \in Seq(Instr) /\ Len(<<x, y>>) = 2 /\ <<x, y>>[2] = y
        /\ \A k \in 1..Len(<<x, y>>) : <<x, y>>[k] = x \/ <<x, y>>[k] = y
    BY <2>2
  <2> QED
    BY <2>1, <2>3
<1> QED
  BY <1>1, <1>2, EncodeIs

\* The constant of an instruction is a value, and the one of a LoadGlobal a name.
LEMMA ConstantIs ==
  ASSUME NEW func, NEW n, NEW i, Checked(func, n, i), NameId \subseteq IntRange
  PROVE  LET k == ConstantOf(i) IN
         /\ k \in Seq(Value)
         /\ i.kind = "LoadGlobal" => Len(k) = 1 /\ isInteger(k[1]) /\ k[1].as \in NameId
<1>1. CASE i.kind = "Constant"
  <2>1. lowerImmediateToValue(i.a) \in Value
    BY <1>1 DEF Checked, PromisedInst, Encodable
  <2>2. ConstantOf(i) = <<lowerImmediateToValue(i.a)>>
    BY <1>1 DEF ConstantOf
  <2> QED
    BY <1>1, <2>1, <2>2
<1>2. CASE i.kind = "LoadGlobal"
  <2>1. i.a.value \in NameId
    BY <1>2 DEF Checked, PromisedInst
  <2>2. ConstantOf(i) = <<makeInt(i.a.value)>>
    BY <1>2 DEF ConstantOf
  <2>3. makeInt(i.a.value) \in Value
    BY <2>1 DEF Value
  <2>4. isInteger(makeInt(i.a.value)) /\ makeInt(i.a.value).as = i.a.value
    BY DEF isInteger, makeInt
  <2> HIDE DEF ConstantOf
  <2> QED
    BY <2>1, <2>2, <2>3, <2>4
<1>3. CASE i.kind \notin {"Constant", "LoadGlobal"}
  BY <1>3 DEF ConstantOf
<1> QED
  BY <1>1, <1>2, <1>3

\* Every instruction of a function that was promised, verified and found to have
\* an encoding is checked, and its blocks end in their only terminator.
CheckedBlock(b, func, n) ==
  LET block == BlockOf(b, func, n) IN
  /\ block.count \in Nat /\ block.count >= 1
  /\ \A k \in 1..block.count : Checked(func, n, b.insts[block.begin + k])
  /\ b.insts[block.begin + block.count].kind \in Terminators

LEMMA FunctionIsChecked ==
  ASSUME NEW b, NEW func, PromisedFunc(b, func), FunctionIssues(b, func) = {}, FunctionLowers(b, func)
  PROVE  /\ func.count \in Nat /\ func.count >= 1
         /\ \A n \in 1..func.count : CheckedBlock(b, func, n)
<1>1. func.count \in Nat /\ func.count # 0
  BY DEF PromisedFunc, FunctionIssues
<1>2. ASSUME NEW n \in 1..func.count
      PROVE  CheckedBlock(b, func, n)
  <2> DEFINE block == BlockOf(b, func, n)
  <2>1. BlockIssues(b, func, block) = {}
    BY DEF FunctionIssues
  <2>2. block.count \in Nat /\ block.begin \in Int
    BY DEF PromisedFunc, Unset
  <2>3. block.count # 0
    BY <2>1 DEF BlockIssues
  <2>4. \A k \in InstsOf(block) : InstIssues(b, func, block, k) = {}
    BY <2>1, <2>2, <2>3 DEF BlockIssues
  <2>5. \A k \in InstsOf(block) : PromisedInst(func, n, b.insts[k]) /\ Encodable(b.insts[k])
    BY DEF PromisedFunc, FunctionLowers
  <2>6. \A k \in InstsOf(block) : \A slot \in SlotsOfInst(b.insts[k]) : InRange(func, slot)
    BY <2>4, Zenon DEF InstIssues
  <2>7. \A k \in InstsOf(block) : k = block.begin + block.count => b.insts[k].kind \in Terminators
    BY <2>4 DEF InstIssues
  <2>8. \A k \in 1..block.count : block.begin + k \in InstsOf(block)
    BY <2>2 DEF InstsOf
  <2> HIDE DEF block
  <2>9. block.count >= 1 /\ block.begin + block.count \in InstsOf(block)
    BY <2>2, <2>3, <2>8
  <2>10. \A k \in 1..block.count : Checked(func, n, b.insts[block.begin + k])
    BY <2>5, <2>6, <2>8 DEF Checked
  <2> QED
    BY <2>2, <2>7, <2>9, <2>10 DEF CheckedBlock, block
<1> QED
  BY <1>1, <1>2

-----------------------------------------------------------------------------
(***************************************************************************)
(* The writer while a function is lowered.                                 *)
(***************************************************************************)
Writer == [code : Seq(Instr), constants : Seq(Value), entry : Seq(Nat)]

\* The p-th instruction written while the entry blocks of a function were
\* entered.  A lookup names its constant as long as the index has room.
Placed(func, w, n, p) ==
  LET i == w.code[p] IN
  /\ Raw(func, 0, i)
  /\ i.op = "JNZ" => \A j \in 1..n : j = i.b + 1 => w.entry[j] >= p
  /\ i.op = "GET_GLOBAL" /\ Len(w.constants) =< Uint16 =>
       /\ i.b + 1 \in 1..Len(w.constants)
       /\ isInteger(w.constants[i.b + 1]) /\ w.constants[i.b + 1].as \in NameId

\* The writer after n blocks were entered and the last was left, or is at work.
Writing(func, w, n) ==
  /\ w \in Writer
  /\ Len(w.entry) = n
  /\ \A p \in 1..Len(w.code) : Placed(func, w, n, p)
  /\ \A j \in 1..n : w.entry[j] =< Len(w.code)

\* It ended the last block, and so entered none at the end of the code.
Ended(w, n) ==
  /\ Len(w.code) >= 1
  /\ w.code[Len(w.code)].op \in {"JMP", "RETURN"}
  /\ \A j \in 1..n : w.entry[j] < Len(w.code)

LEMMA LowerInstKeeps ==
  ASSUME NEW func, NEW n \in Nat, NEW w, NEW i, Writing(func, w, n), Checked(func, n, i),
         func.next_vreg \in Nat, NameId \subseteq IntRange
  PROVE  LET v == lowerInst(w, i) IN
         /\ Writing(func, v, n)
         /\ v.entry = w.entry
         /\ i.kind \in Terminators => Ended(v, n)
<1> DEFINE c == Len(w.constants) % Uint16
           e == Encode(i, c)
           k == ConstantOf(i)
           v == [code |-> w.code \o e, constants |-> w.constants \o k, entry |-> w.entry]
<1>1. /\ w.code \in Seq(Instr) /\ w.constants \in Seq(Value) /\ w.entry \in Seq(Nat)
      /\ Len(w.code) \in Nat /\ Len(w.constants) \in Nat
  BY DEF Writing, Writer
<1>2. c \in Nat /\ (Len(w.constants) < Uint16 => c = Len(w.constants))
  <2>1. \A x \in Nat : x % Uint16 \in Nat /\ (x < Uint16 => x % Uint16 = x)
    BY DEF Uint16
  <2> QED
    BY <1>1, <2>1
<1>3. /\ e \in Seq(Instr) /\ Len(e) \in Nat /\ Len(e) >= 1
      /\ \A q \in 1..Len(e) : EncodedAs(func, n, i, c, e[q])
      /\ i.kind \in Terminators => e[Len(e)].op \in {"JMP", "RETURN"}
  BY <1>2, EncodedSequence
<1>4. /\ k \in Seq(Value) /\ Len(k) \in Nat
      /\ i.kind = "LoadGlobal" => Len(k) = 1 /\ isInteger(k[1]) /\ k[1].as \in NameId
  BY ConstantIs
<1>5. lowerInst(w, i) = v
  BY DEF lowerInst
<1> HIDE DEF c, e, k
<1>6. v.code = w.code \o e /\ v.constants = w.constants \o k /\ v.entry = w.entry /\ v \in Writer
  BY <1>1, <1>3, <1>4 DEF Writer
<1> HIDE DEF v
<1>7. /\ Len(v.code) = Len(w.code) + Len(e)
      /\ \A p \in 1..Len(w.code) : v.code[p] = w.code[p]
      /\ \A p \in 1..Len(e) : v.code[Len(w.code) + p] = e[p]
  BY <1>1, <1>3, <1>6
<1>8. /\ Len(v.constants) = Len(w.constants) + Len(k)
      /\ \A p \in 1..Len(w.constants) : v.constants[p] = w.constants[p]
      /\ \A p \in 1..Len(k) : v.constants[Len(w.constants) + p] = k[p]
  BY <1>1, <1>4, <1>6
<1>9. \A j \in 1..n : w.entry[j] \in Nat /\ w.entry[j] =< Len(w.code)
  BY <1>1 DEF Writing
<1>10. ASSUME NEW p \in 1..Len(v.code)
       PROVE  Placed(func, v, n, p)
  <2>1. CASE p =< Len(w.code)
    <3>1. p \in 1..Len(w.code) /\ v.code[p] = w.code[p]
      BY <1>7, <2>1
    <3>2. Placed(func, w, n, p)
      BY <3>1 DEF Writing
    <3>3. ASSUME w.code[p].op = "GET_GLOBAL", Len(v.constants) =< Uint16
          PROVE  /\ w.code[p].b + 1 \in 1..Len(v.constants)
                 /\ v.constants[w.code[p].b + 1] = w.constants[w.code[p].b + 1]
      <4>1. w.code[p].b + 1 \in 1..Len(w.constants)
        BY <1>1, <1>4, <1>8, <3>2, <3>3 DEF Placed, Uint16
      <4>2. \A z \in 1..Len(w.constants) : z \in 1..Len(v.constants) /\ v.constants[z] = w.constants[z]
        BY <1>1, <1>4, <1>8
      <4> QED
        BY <4>1, <4>2, Zenon
    <3>4. Len(v.constants) =< Uint16 => Len(w.constants) =< Uint16
      BY <1>1, <1>4, <1>8 DEF Uint16
    <3> QED
      BY <1>6, <3>1, <3>2, <3>3, <3>4 DEF Placed
  <2>2. CASE p > Len(w.code)
    <3> DEFINE q == p - Len(w.code)
    <3>1. q \in 1..Len(e) /\ p = Len(w.code) + q
      BY <1>1, <1>3, <1>7, <2>2
    <3>2. v.code[p] = e[q]
      BY <1>7, <3>1
    <3> DEFINE x == e[q]
    <3>3. EncodedAs(func, n, i, c, x)
      BY <1>3, <3>1
    <3> HIDE DEF x, q
    <3>4. Raw(func, 0, x)
      BY <3>3 DEF EncodedAs, Raw, Instr
    <3>5. x.op = "JNZ" => \A j \in 1..n : j # x.b + 1
      BY <3>3 DEF EncodedAs, Raw, Instr
    <3>6. ASSUME x.op = "GET_GLOBAL", Len(v.constants) =< Uint16
          PROVE  /\ x.b + 1 \in 1..Len(v.constants)
                 /\ isInteger(v.constants[x.b + 1]) /\ v.constants[x.b + 1].as \in NameId
      <4>1. i.kind = "LoadGlobal" /\ x.b = c
        BY <3>3, <3>6 DEF EncodedAs
      <4>2. Len(k) = 1 /\ isInteger(k[1]) /\ k[1].as \in NameId
        BY <1>4, <4>1
      <4>3. Len(v.constants) = Len(w.constants) + 1 /\ x.b = Len(w.constants)
        BY <1>1, <1>2, <1>8, <3>6, <4>1, <4>2 DEF Uint16
      <4>4. v.constants[x.b + 1] = k[1]
        BY <1>8, <4>2, <4>3
      <4> QED
        BY <1>1, <4>2, <4>3, <4>4
    <3> QED
      BY <3>2, <3>4, <3>5, <3>6 DEF Placed, x
  <2> QED
    BY <1>1, <1>3, <1>7, <2>1, <2>2
<1>11. \A j \in 1..n : v.entry[j] < Len(v.code)
  BY <1>1, <1>3, <1>6, <1>7, <1>9
<1>12. Writing(func, v, n)
  <2>1. Len(v.entry) = n
    BY <1>6 DEF Writing
  <2>2. \A j \in 1..n : v.entry[j] =< Len(v.code)
    BY <1>1, <1>3, <1>6, <1>7, <1>9
  <2> QED
    BY <1>6, <1>10, <2>1, <2>2 DEF Writing
<1>13. i.kind \in Terminators => Ended(v, n)
  <2>1. Len(e) \in 1..Len(e)
    BY <1>3
  <2>2. v.code[Len(w.code) + Len(e)] = e[Len(e)]
    BY <1>7, <2>1
  <2>3. v.code[Len(v.code)] = e[Len(e)] /\ Len(v.code) >= 1
    BY <1>1, <1>3, <1>7, <2>2
  <2> QED
    BY <1>3, <1>11, <2>3 DEF Ended
<1> QED
  BY <1>5, <1>6, <1>12, <1>13

LEMMA EnterBlockKeeps ==
  ASSUME NEW func, NEW n \in Nat, NEW w, Writing(func, w, n)
  PROVE  Writing(func, enterBlock(w), n + 1)
<1> DEFINE v == enterBlock(w)
<1>1. /\ w.code \in Seq(Instr) /\ w.constants \in Seq(Value) /\ w.entry \in Seq(Nat)
      /\ Len(w.code) \in Nat /\ Len(w.entry) = n
  BY DEF Writing, Writer
<1>2. v = [code |-> w.code, constants |-> w.constants, entry |-> Append(w.entry, Len(w.code))]
  <2>1. w \in [code : Seq(Instr), constants : Seq(Value), entry : Seq(Nat)]
    BY DEF Writing, Writer
  <2> DEFINE e == Append(w.entry, Len(w.code))
  <2>2. v = [w EXCEPT !.entry = e]
    BY DEF enterBlock
  <2> HIDE DEF e, v
  <2>3. v = [code |-> w.code, constants |-> w.constants, entry |-> e]
    BY <2>1, <2>2
  <2> QED
    BY <2>3 DEF e
<1> HIDE DEF v
<1>3. v.code = w.code /\ v.constants = w.constants /\ v.entry = Append(w.entry, Len(w.code)) /\ v \in Writer
  BY <1>1, <1>2 DEF Writer
<1>4. /\ Len(v.entry) = n + 1
      /\ v.entry[n + 1] = Len(w.code)
      /\ \A j \in 1..n : v.entry[j] = w.entry[j]
  BY <1>1, <1>3
<1>5. \A j \in 1..(n + 1) : v.entry[j] =< Len(v.code)
  <2> TAKE j \in 1..(n + 1)
  <2>1. CASE j = n + 1
    BY <1>1, <1>3, <1>4, <2>1
  <2>2. CASE j # n + 1
    <3>1. j \in 1..n
      BY <2>2
    <3>2. w.entry[j] =< Len(w.code)
      BY <3>1 DEF Writing
    <3> QED
      BY <1>3, <1>4, <3>1, <3>2
  <2> QED
    BY <2>1, <2>2
<1>6. ASSUME NEW p \in 1..Len(v.code)
      PROVE  Placed(func, v, n + 1, p)
  <2>1. p \in 1..Len(w.code) /\ v.code[p] = w.code[p]
    BY <1>3
  <2>2. Placed(func, w, n, p)
    BY <2>1 DEF Writing
  <2>3. w.code[p].op = "JNZ" => \A j \in 1..(n + 1) : j = w.code[p].b + 1 => v.entry[j] >= p
    <3> SUFFICES ASSUME w.code[p].op = "JNZ", NEW j \in 1..(n + 1), j = w.code[p].b + 1
                 PROVE  v.entry[j] >= p
      OBVIOUS
    <3>1. CASE j = n + 1
      BY <1>1, <1>4, <2>1, <3>1
    <3>2. CASE j # n + 1
      <4>1. j \in 1..n
        BY <3>2
      <4>2. w.entry[j] >= p
        BY <2>2, <4>1 DEF Placed
      <4> QED
        BY <1>4, <4>1, <4>2
    <3> QED
      BY <3>1, <3>2
  <2> QED
    BY <1>3, <2>1, <2>2, <2>3 DEF Placed
<1> QED
  BY <1>3, <1>4, <1>5, <1>6 DEF Writing, v

LEMMA LowerBlockKeeps ==
  ASSUME NEW b, NEW func, NEW n \in Nat, NEW w, Writing(func, w, n), CheckedBlock(b, func, n + 1),
         func.next_vreg \in Nat, NameId \subseteq IntRange
  PROVE  LET v == lowerBlock(b, w, BlockOf(b, func, n + 1)) IN
         Writing(func, v, n + 1) /\ Ended(v, n + 1)
<1> DEFINE block == BlockOf(b, func, n + 1)
           N == block.count
           inst(k) == b.insts[block.begin + k]
<1>1. /\ N \in Nat /\ N >= 1
      /\ \A k \in 1..N : Checked(func, n + 1, inst(k))
      /\ inst(N).kind \in Terminators
  BY DEF CheckedBlock
<1>2. PICK g : WritesBlock(g, b, w, block, N) /\ lowerBlock(b, w, block) = g[N]
  BY <1>1, LowerBlockIs
<1>3. g[0] = enterBlock(w) /\ \A k \in 1..N : g[k] = lowerInst(g[k - 1], inst(k))
  BY <1>1, <1>2 DEF WritesBlock
<1> HIDE DEF inst, block, N
<1> DEFINE S == {k \in Nat : k =< N => Writing(func, g[k], n + 1)}
<1>4. 0 \in S
  BY <1>3, EnterBlockKeeps
<1>5. ASSUME NEW k \in Nat, k + 1 =< N, Writing(func, g[k], n + 1)
      PROVE  /\ Writing(func, g[k + 1], n + 1)
             /\ inst(k + 1).kind \in Terminators => Ended(g[k + 1], n + 1)
  <2>1. k + 1 \in 1..N /\ (k + 1) - 1 = k
    BY <1>1, <1>5
  <2>2. Checked(func, n + 1, inst(k + 1)) /\ g[k + 1] = lowerInst(g[k], inst(k + 1))
    <3>1. g[k + 1] = lowerInst(g[(k + 1) - 1], inst(k + 1))
      BY <1>3, <2>1
    <3> QED
      BY <1>1, <2>1, <3>1
  <2> HIDE DEF inst
  <2> QED
    BY <1>5, <2>2, LowerInstKeeps
<1>6. Nat \subseteq S
  <2>1. \A k \in Nat : k \in S => k + 1 \in S
    BY <1>1, <1>5
  <2> HIDE DEF S
  <2> QED
    BY <1>4, <2>1, Induction
<1>7. N - 1 \in Nat /\ N - 1 =< N /\ (N - 1) + 1 = N
  BY <1>1
<1>8. Writing(func, g[N - 1], n + 1)
  BY <1>6, <1>7
<1>9. Writing(func, g[N], n + 1) /\ Ended(g[N], n + 1)
  <2>1. (N - 1) + 1 =< N
    BY <1>1
  <2>2. /\ Writing(func, g[(N - 1) + 1], n + 1)
        /\ inst((N - 1) + 1).kind \in Terminators => Ended(g[(N - 1) + 1], n + 1)
    BY <1>5, <1>7, <1>8, <2>1, Zenon
  <2> QED
    BY <1>1, <1>7, <2>2
<1> QED
  BY <1>2, <1>9 DEF block

\* The writer of a whole function.
LEMMA LowerBlocksKeep ==
  ASSUME NEW b, NEW func, func.count \in Nat, func.count >= 1, func.next_vreg \in Nat,
         \A n \in 1..func.count : CheckedBlock(b, func, n), NameId \subseteq IntRange
  PROVE  LET w == lowerBlocks(b, func) IN Writing(func, w, func.count) /\ Ended(w, func.count)
<1> DEFINE N == func.count
<1>1. PICK g : WritesBlocks(g, b, func, N) /\ lowerBlocks(b, func) = g[N]
  BY LowerBlocksIs
<1>2. g[0] = Blank /\ \A n \in 1..N : g[n] = lowerBlock(b, g[n - 1], BlockOf(b, func, n))
  BY <1>1 DEF WritesBlocks
<1> HIDE DEF N
<1> DEFINE S == {n \in Nat : n =< N => Writing(func, g[n], n)}
<1>3. 0 \in S
  <2>1. Blank.code = <<>> /\ Blank.constants = <<>> /\ Blank.entry = <<>>
    BY DEF Blank
  <2>2. Blank \in Writer
    BY DEF Blank, Writer
  <2>3. Writing(func, Blank, 0)
    BY <2>1, <2>2 DEF Writing
  <2> QED
    BY <1>2, <2>3
<1>4. ASSUME NEW n \in Nat, n + 1 =< N, Writing(func, g[n], n)
      PROVE  Writing(func, g[n + 1], n + 1) /\ Ended(g[n + 1], n + 1)
  <2>1. n + 1 \in 1..N /\ (n + 1) - 1 = n
    BY <1>4 DEF N
  <2>2. g[n + 1] = lowerBlock(b, g[(n + 1) - 1], BlockOf(b, func, n + 1))
    BY <1>2, <2>1
  <2>3. CheckedBlock(b, func, n + 1)
    BY <2>1 DEF N
  <2> QED
    BY <1>4, <2>1, <2>2, <2>3, LowerBlockKeeps
<1>5. Nat \subseteq S
  <2>1. \A n \in Nat : n \in S => n + 1 \in S
    BY <1>4 DEF N
  <2> HIDE DEF S
  <2> QED
    BY <1>3, <2>1, Induction
<1>6. N - 1 \in Nat /\ N - 1 =< N /\ (N - 1) + 1 = N
  BY DEF N
<1>7. Writing(func, g[N - 1], N - 1)
  BY <1>5, <1>6
<1>8. Writing(func, g[N], N) /\ Ended(g[N], N)
  <2>1. (N - 1) + 1 =< N
    BY <1>6
  <2>2. Writing(func, g[(N - 1) + 1], (N - 1) + 1) /\ Ended(g[(N - 1) + 1], (N - 1) + 1)
    BY <1>4, <1>6, <1>7, <2>1, Zenon
  <2> QED
    BY <1>6, <2>2
<1> QED
  BY <1>1, <1>8 DEF N

-----------------------------------------------------------------------------
(***************************************************************************)
(* The jumps of a function, and its image.                                 *)
(***************************************************************************)
\* A patched jump leads to where its block was entered, and a branch forwards.
LEMMA PatchedInstr ==
  ASSUME NEW func, func.count \in Nat, NEW w, Writing(func, w, func.count), Ended(w, func.count),
         NEW k \in 1..Len(w.code)
  PROVE  LET x == Patched(w.code, w.entry)[k] IN
         /\ x \in Instr
         /\ \A r \in RegisterOperands(x) \cup HeapRegisters(x) : r < func.next_vreg
         /\ x.op \in {"JMP", "LOOP", "JZ", "JNZ"} => Target(x, k) \in 1..Len(w.code)
         /\ x.op \notin {"DEFINE_GLOBAL", "SET_GLOBAL"}
         /\ x.op = "GET_GLOBAL" => x = w.code[k]
         /\ w.code[k].op = "JMP" => x.op \in {"JMP", "LOOP"}
         /\ w.code[k].op = "RETURN" => x.op = "RETURN"
<1> DEFINE i == w.code[k]
           x == Patched(w.code, w.entry)[k]
           t == IF i.op = "JNZ" THEN w.entry[i.b + 1] ELSE w.entry[i.a + 1]
           d == IF t < k THEN k - t ELSE t - k
<1>1. /\ w.code \in Seq(Instr) /\ w.entry \in Seq(Nat) /\ Len(w.code) \in Nat
      /\ Len(w.entry) = func.count
  BY DEF Writing, Writer
<1>2. Placed(func, w, func.count, k) /\ i \in Instr
  BY DEF Writing, Placed, Raw
<1>3. i.a \in Nat /\ i.b \in Nat /\ i.c \in Nat /\ i.d \in Nat /\ i.op \in Opcode \cup HeapOp
  <2> HIDE DEF i
  <2> QED
    BY <1>2 DEF Instr
<1>4. \A j \in 1..func.count : w.entry[j] \in Nat /\ w.entry[j] < Len(w.code)
  BY <1>1 DEF Ended
<1>5. x = CASE i.op = "JNZ" -> I("JNZ", i.a, d, 0, 0)
            [] i.op = "JMP" -> I(IF t < k THEN "LOOP" ELSE "JMP", d, 0, 0, 0)
            [] OTHER -> i
  <2>1. k \in DOMAIN w.code
    BY <1>1
  <2>2. x = LET distance(id) == IF w.entry[id + 1] < k THEN k - w.entry[id + 1] ELSE w.entry[id + 1] - k IN
            CASE i.op = "JNZ" -> I("JNZ", i.a, distance(i.b), 0, 0)
              [] i.op = "JMP" -> I(IF w.entry[i.a + 1] < k THEN "LOOP" ELSE "JMP", distance(i.a), 0, 0, 0)
              [] OTHER -> i
    BY <2>1 DEF Patched
  <2> HIDE DEF x, i
  <2> QED
    BY <2>2
<1>6. \A op, y, z : /\ I(op, y, z, 0, 0).op = op /\ I(op, y, z, 0, 0).a = y /\ I(op, y, z, 0, 0).b = z
                    /\ op \in Opcode /\ y \in Nat /\ z \in Nat => I(op, y, z, 0, 0) \in Instr
  BY DEF I, Instr
<1>7. {"JMP", "LOOP", "JNZ"} \subseteq Opcode
  BY DEF Opcode
<1>8. CASE i.op = "JNZ"
  <2>1. i.b + 1 \in 1..func.count
    BY <1>2, <1>3, <1>8 DEF Placed, Raw
  <2>2. t \in Nat /\ t < Len(w.code)
    BY <1>4, <1>8, <2>1
  <2>3. t >= k
    BY <1>2, <1>8, <2>1 DEF Placed
  <2>4. d \in Nat /\ d = t - k
    BY <2>2, <2>3
  <2>5. x = I("JNZ", i.a, d, 0, 0)
    BY <1>5, <1>8
  <2>6. i.a < func.next_vreg
    <3>0. Raw(func, 0, i)
      BY <1>2 DEF Placed
    <3> HIDE DEF i
    <3>1. RegisterOperands(i) = {i.a}
      BY <1>8 DEF RegisterOperands, UnaryOp, BinaryOp, IntArith, IntCompare, FloatCompare, FloatArith, BitOps
    <3> QED
      BY <3>0, <3>1 DEF Raw
  <2> HIDE DEF i, d, t
  <2>7. RegisterOperands(x) \cup HeapRegisters(x) = {i.a}
    BY <2>5, OperandsAre
  <2>8. x \in Instr /\ x.op = "JNZ" /\ x.b = d
    BY <1>3, <1>6, <1>7, <2>4, <2>5
  <2> HIDE DEF x
  <2>9. Target(x, k) = t + 1
    <3>1. Target(x, k) = k + 1 + d
      BY <2>8 DEF Target
    <3> QED
      BY <2>2, <2>4, <3>1
  <2>10. Target(x, k) \in 1..Len(w.code)
    BY <1>1, <2>2, <2>9
  <2> QED
    BY <1>8, <2>6, <2>7, <2>8, <2>10 DEF i, x
<1>9. CASE i.op = "JMP"
  <2>1. i.a + 1 \in 1..func.count
    BY <1>2, <1>3, <1>9 DEF Placed, Raw
  <2>2. t \in Nat /\ t < Len(w.code)
    BY <1>4, <1>9, <2>1
  <2>3. d \in Nat /\ (t < k => d = k - t) /\ (~(t < k) => d = t - k)
    BY <2>2
  <2> DEFINE op == IF t < k THEN "LOOP" ELSE "JMP"
  <2>4. x = I(op, d, 0, 0, 0)
    BY <1>5, <1>9
  <2> HIDE DEF i, d, t
  <2>5. RegisterOperands(x) \cup HeapRegisters(x) = {}
    BY <2>4, OperandsAre
  <2>6. x \in Instr /\ x.op = op /\ x.a = d
    BY <1>6, <1>7, <2>3, <2>4
  <2> HIDE DEF x
  <2>7. Target(x, k) = t + 1
    <3>1. CASE t < k
      <4>1. Target(x, k) = k + 1 - d
        BY <2>6, <3>1 DEF Target
      <4> QED
        BY <2>2, <2>3, <3>1, <4>1
    <3>2. CASE ~(t < k)
      <4>1. Target(x, k) = k + 1 + d
        BY <2>6, <3>2 DEF Target
      <4> QED
        BY <2>2, <2>3, <3>2, <4>1
    <3> QED
      BY <3>1, <3>2
  <2>8. Target(x, k) \in 1..Len(w.code)
    BY <1>1, <2>2, <2>7
  <2> QED
    BY <1>9, <2>5, <2>6, <2>8 DEF i, x
<1>10. CASE i.op \notin {"JNZ", "JMP"}
  <2>1. x = i
    BY <1>5, <1>10
  <2>2. Raw(func, 0, i)
    BY <1>2 DEF Placed
  <2> HIDE DEF i, x
  <2>3. /\ i \in Instr
        /\ \A r \in RegisterOperands(i) \cup HeapRegisters(i) : r < func.next_vreg
        /\ i.op \notin {"JMP", "LOOP", "JZ", "JNZ"}
        /\ i.op \notin {"DEFINE_GLOBAL", "SET_GLOBAL"}
    BY <1>10, <2>2 DEF Raw
  <2> QED
    BY <2>1, <2>3 DEF i, x
<1> QED
  BY <1>8, <1>9, <1>10

LEMMA PatchedCode ==
  ASSUME NEW func, func.count \in Nat, NEW w, Writing(func, w, func.count), Ended(w, func.count)
  PROVE  LET code == Patched(w.code, w.entry) IN
         /\ code \in Seq(Instr)
         /\ DOMAIN code = 1..Len(w.code)
         /\ Closed(code)
<1> DEFINE code == Patched(w.code, w.entry)
<1>1. /\ w.code \in Seq(Instr) /\ Len(w.code) \in Nat /\ Len(w.code) >= 1
      /\ DOMAIN w.code = 1..Len(w.code) /\ Len(w.code) \in 1..Len(w.code)
  BY DEF Writing, Writer, Ended
<1>2. DOMAIN code = 1..Len(w.code) /\ code = [k \in 1..Len(w.code) |-> code[k]]
  BY <1>1 DEF Patched
<1>3. \A k \in 1..Len(w.code) : code[k] \in Instr
  BY PatchedInstr
<1>4. \A k \in 1..Len(w.code) : code[k].op \in {"JMP", "LOOP", "JZ", "JNZ"} => Target(code[k], k) \in 1..Len(w.code)
  BY PatchedInstr
<1>5. code[Len(w.code)].op \in {"JMP", "LOOP", "RETURN"}
  BY <1>1, PatchedInstr DEF Ended
<1> HIDE DEF code
<1>6. code \in Seq(Instr) /\ Len(code) = Len(w.code)
  BY <1>1, <1>2, <1>3
<1>7. code # <<>>
  BY <1>1, <1>6
<1>8. Closed(code)
  BY <1>2, <1>4, <1>5, <1>6, <1>7 DEF Closed
<1> QED
  BY <1>2, <1>6, <1>8 DEF code

-----------------------------------------------------------------------------
(***************************************************************************)
(* The image.                                                              *)
(***************************************************************************)
\* A function has no more registers than a byte can name: every register is a
\* parameter or named by an instruction.
LEMMA RegistersFit ==
  ASSUME NEW b, NEW func, PromisedFunc(b, func), FunctionLowers(b, func)
  PROVE  /\ func.next_vreg \in Nat /\ func.next_vreg =< MaxByte + 1
         /\ func.arity \in Nat /\ func.arity =< func.next_vreg
<1>1. func.next_vreg \in Nat /\ func.arity \in 0..func.next_vreg /\ func.arity =< MaxByte
  BY DEF PromisedFunc, FunctionLowers
<1>2. ASSUME func.next_vreg > MaxByte + 1
      PROVE  FALSE
  <2> DEFINE r == func.next_vreg - 1
  <2>1. r \in (func.arity)..(func.next_vreg - 1) /\ ~(r =< MaxByte)
    BY <1>1, <1>2 DEF MaxByte
  <2> HIDE DEF r
  <2>2. PICK n \in 1..func.count : \E k \in InstsOf(BlockOf(b, func, n)) :
               VReg(r) \in NamedBy(b.insts[k])
    BY <2>1 DEF PromisedFunc
  <2>3. PICK k \in InstsOf(BlockOf(b, func, n)) : VReg(r) \in NamedBy(b.insts[k])
    BY <2>2
  <2>4. requireVReg(VReg(r))
    <3>1. Encodable(b.insts[k])
      BY DEF FunctionLowers
    <3>2. b.insts[k].kind # "GetMember"
      BY <3>1, BinaryKinds, OtherKinds DEF Encodable, Supported, Terminators
    <3>3. PICK j \in DOMAIN Registers(b.insts[k]) : Registers(b.insts[k])[j] = VReg(r)
      BY <2>3, <3>2 DEF NamedBy
    <3>4. \A z \in DOMAIN Registers(b.insts[k]) : requireVReg(Registers(b.insts[k])[z])
      BY <3>1 DEF Encodable
    <3> QED
      BY <3>3, <3>4
  <2> QED
    BY <2>1, <2>4 DEF requireVReg, VReg, Operand
<1> QED
  BY <1>1, <1>2 DEF MaxByte

LEMMA OperandsAreNumbers ==
  ASSUME NEW i \in Instr
  PROVE  RegisterOperands(i) \cup HeapRegisters(i) \subseteq Int
<1>1. i.a \in Int /\ i.b \in Int /\ i.c \in Int /\ i.d \in Int
  BY DEF Instr
<1>2. HeapRegisters(i) \subseteq {i.a, i.b, i.c}
  BY DEF HeapRegisters
<1>3. RegisterOperands(i) \subseteq {i.a, i.b, i.c} \cup Int
  BY DEF RegisterOperands, UnaryOp, BinaryOp, IntArith, IntCompare, FloatCompare, FloatArith, BitOps
<1> QED
  BY <1>1, <1>2, <1>3

\* Lowering is safe (lowerModuleToChunk): when the builder keeps its promises,
\* the verifier finds no issue and no check of lowering fails, every function
\* becomes an image the VM can rely on.  The window holds every register any
\* instruction names, after the operands were narrowed to bytes; a lookup names a
\* name among the constants, whose indices have 16 bits; every jump, resolved
\* after the code was laid out and turned into a LOOP when it leads backwards,
\* leads to an instruction, and the code ends in one that does not go on.
THEOREM LoweredIsSafe ==
  ASSUME NEW b, NEW f \in DOMAIN b.funcs, NEW module \in Module,
         Promised(b), verifyModuleIRFlat(b) = {}, Lowerable(b),
         Len(lowerBlocks(b, b.funcs[f]).constants) =< Uint16,
         NameId \subseteq IntRange, MaxByte < StackCapacity, DefaultSlots =< StackCapacity
  PROVE  SafeImage(lowerModuleToChunk(b, module)[f])
<1> DEFINE func  == b.funcs[f]
           w     == lowerBlocks(b, func)
           code  == Patched(w.code, w.entry)
           image == lowerModuleToChunk(b, module)[f]
<1>1. PromisedFunc(b, func) /\ FunctionIssues(b, func) = {} /\ FunctionLowers(b, func)
  BY DEF Promised, verifyModuleIRFlat, Lowerable
<1>2. /\ func.next_vreg \in Nat /\ func.next_vreg =< MaxByte + 1
      /\ func.arity \in Nat /\ func.arity =< func.next_vreg
      /\ func.name \in NameId
  <2>1. func.name \in NameId
    BY <1>1 DEF PromisedFunc
  <2> HIDE DEF func
  <2> QED
    BY <1>1, <2>1, RegistersFit
<1>3. /\ func.count \in Nat /\ func.count >= 1
      /\ \A n \in 1..func.count : CheckedBlock(b, func, n)
  <2> HIDE DEF func
  <2> QED
    BY <1>1, FunctionIsChecked
<1>4. Writing(func, w, func.count) /\ Ended(w, func.count)
  <2>1. func.next_vreg \in Nat
    BY <1>2
  <2> HIDE DEF func
  <2> QED
    BY <1>3, <2>1, LowerBlocksKeep
<1>5. image = [arity |-> func.arity, max_registers |-> func.next_vreg, name_id |-> func.name,
               module_id |-> module, constants |-> w.constants, code |-> code]
  BY DEF lowerModuleToChunk, lowerOneFunction
<1>6. Len(w.constants) =< Uint16
  OBVIOUS
<1> HIDE DEF func, w, image
<1>7. code \in Seq(Instr) /\ DOMAIN code = 1..Len(w.code) /\ Closed(code)
  BY <1>3, <1>4, PatchedCode
<1>8. \A k \in 1..Len(w.code) :
        /\ code[k] \in Instr
        /\ \A r \in RegisterOperands(code[k]) \cup HeapRegisters(code[k]) : r < func.next_vreg
        /\ code[k].op \notin {"DEFINE_GLOBAL", "SET_GLOBAL"}
        /\ code[k].op = "GET_GLOBAL" => code[k] = w.code[k]
  BY <1>3, <1>4, PatchedInstr
<1> HIDE DEF code
<1>9. w.constants \in Seq(Value)
  BY <1>4 DEF Writing, Writer
<1>10. /\ image.arity = func.arity /\ image.max_registers = func.next_vreg
       /\ image.constants = w.constants /\ image.code = code
  BY <1>5
<1>11. image \in FuncImage
  <2>1. func.arity \in Nat /\ func.next_vreg \in Nat
    BY <1>2
  <2> QED
    BY <1>2, <1>5, <1>7, <1>9, <2>1 DEF FuncImage
<1>12. /\ SlotsOf(image) \in 1..StackCapacity
       /\ func.next_vreg =< SlotsOf(image)
       /\ image.arity =< SlotsOf(image)
  BY <1>2, <1>10, SizeAssumption DEF SlotsOf, MaxByte
<1>13. ASSUME NEW k \in 1..Len(w.code)
       PROVE  /\ \A r \in RegisterOperands(code[k]) \cup HeapRegisters(code[k]) : r < SlotsOf(image)
              /\ code[k].op \notin {"DEFINE_GLOBAL", "SET_GLOBAL"}
              /\ code[k].op = "GET_GLOBAL" =>
                   \A v \in ConstantAt(image, code[k].b) : isInteger(v) /\ v.as \in NameId
  <2> DEFINE i == code[k]
  <2>1. \A r \in RegisterOperands(i) \cup HeapRegisters(i) : r \in Int /\ r < func.next_vreg
    BY <1>8, OperandsAreNumbers
  <2>2. \A r \in RegisterOperands(i) \cup HeapRegisters(i) : r < SlotsOf(image)
    <3>1. func.next_vreg \in Int /\ SlotsOf(image) \in Int /\ func.next_vreg =< SlotsOf(image)
      BY <1>2, <1>12, SizeAssumption
    <3> QED
      BY <2>1, <3>1
  <2>3. ASSUME i.op = "GET_GLOBAL", NEW z \in DOMAIN w.constants, z = i.b + 1
        PROVE  isInteger(w.constants[z]) /\ w.constants[z].as \in NameId
    <3>1. Placed(func, w, func.count, k) /\ i = w.code[k]
      BY <1>4, <1>8, <2>3 DEF Writing
    <3> QED
      BY <1>6, <2>3, <3>1 DEF Placed
  <2>4. i.op \notin {"DEFINE_GLOBAL", "SET_GLOBAL"}
    BY <1>8
  <2>5. i.op = "GET_GLOBAL" => \A v \in ConstantAt(image, i.b) : isInteger(v) /\ v.as \in NameId
    BY <1>10, <2>3 DEF ConstantAt
  <2> HIDE DEF i
  <2> QED
    BY <2>2, <2>4, <2>5 DEF i
<1>14. DOMAIN image.code = 1..Len(w.code) /\ image.code = code
  BY <1>7, <1>10
<1>15. WellFormed(image)
  BY <1>11, <1>12, <1>13, <1>14 DEF WellFormed
<1> QED
  BY <1>7, <1>14, <1>15 DEF SafeImage, image

\* The init chunk of a module (makeInitChunk) is safe too, as long as objects are
\* what it defines, also when their number outgrows the index.
THEOREM InitChunkIsSafe ==
  ASSUME NEW objects \in Seq(Obj), NEW module \in Module, 0 \in NameId
  PROVE  SafeImage(makeInitChunk(objects, module))
<1> DEFINE image == makeInitChunk(objects, module)
           defs  == [k \in DOMAIN objects |-> I("DEFINE_GLOBAL", (k - 1) % Uint16, 0, 0, 0)]
           last  == I("RETURN", 0, 0, 0, 0)
           N     == Len(objects)
           code  == Append(defs, last)
           constants == [k \in DOMAIN objects |-> makeObject(objects[k])]
<1>1. N \in Nat /\ DOMAIN objects = 1..N
  OBVIOUS
<1>2. {"DEFINE_GLOBAL", "RETURN"} \subseteq Opcode
  BY DEF Opcode
<1>3. \A z \in Nat : z % Uint16 \in Nat
  BY DEF Uint16
<1>4. \A z \in 1..N : (z - 1) % Uint16 \in Nat
  <2>1. \A z \in 1..N : z - 1 \in Nat
    BY <1>1
  <2> QED
    BY <1>3, <2>1, Zenon
<1>5. \A op, y : op \in Opcode /\ y \in Nat => I(op, y, 0, 0, 0) \in Instr
  BY DEF I, Instr
<1>6. \A op, y : I(op, y, 0, 0, 0).op = op
  BY DEF I
<1>7. /\ last \in Instr /\ last.op = "RETURN"
      /\ \A k \in 1..N : defs[k] \in Instr /\ defs[k].op = "DEFINE_GLOBAL"
  <2>1. \A k \in 1..N : defs[k] = I("DEFINE_GLOBAL", (k - 1) % Uint16, 0, 0, 0)
    BY <1>1
  <2> QED
    BY <1>2, <1>4, <1>5, <1>6, <2>1
<1>8. defs \in Seq(Instr) /\ Len(defs) = N
  <2>1. DOMAIN defs = 1..N /\ defs = [k \in 1..N |-> defs[k]]
    BY <1>1
  <2> HIDE DEF defs
  <2> QED
    BY <1>1, <1>7, <2>1
<1>9. constants \in Seq(Value) /\ \A k \in DOMAIN constants : constants[k].type = "Object"
  <2>1. \A k \in 1..N : makeObject(objects[k]) \in Value /\ makeObject(objects[k]).type = "Object"
    BY <1>1 DEF Value, makeObject
  <2> QED
    BY <1>1, <2>1
<1>10. image = [arity |-> 0, max_registers |-> 1, name_id |-> 0, module_id |-> module,
                constants |-> constants, code |-> code]
  BY DEF makeInitChunk
<1> HIDE DEF defs, last, constants, N, image
<1>11. /\ code \in Seq(Instr) /\ Len(code) = N + 1 /\ DOMAIN code = 1..(N + 1)
       /\ code[N + 1] = last
       /\ \A k \in 1..N : code[k] = defs[k]
  BY <1>1, <1>7, <1>8
<1> HIDE DEF code
<1>12. \A k \in DOMAIN code : code[k].op \in {"DEFINE_GLOBAL", "RETURN"}
  <2> TAKE k \in DOMAIN code
  <2>1. CASE k \in 1..N
    BY <1>7, <1>11, <2>1
  <2>2. CASE k = N + 1
    BY <1>7, <1>11, <2>2
  <2> QED
    BY <1>1, <1>11, <2>1, <2>2
<1>13. Closed(code)
  <2>1. code # <<>>
    BY <1>1, <1>11
  <2> QED
    BY <1>7, <1>11, <1>12, <2>1 DEF Closed
<1>14. /\ SlotsOf(image) = 1 /\ image.arity = 0 /\ image.code = code /\ image.constants = constants
       /\ image \in FuncImage
  <2>1. /\ image.arity = 0 /\ image.max_registers = 1 /\ image.code = code /\ image.constants = constants
    BY <1>10
  <2>2. image \in FuncImage
    <3>1. code \in Seq(Instr) /\ constants \in Seq(Value)
      BY <1>9, <1>11
    <3> HIDE DEF code
    <3> QED
      BY <1>10, <3>1 DEF FuncImage
  <2> QED
    BY <2>1, <2>2 DEF SlotsOf
<1>15. ASSUME NEW k \in DOMAIN code
       PROVE  /\ RegisterOperands(code[k]) \cup HeapRegisters(code[k]) = {}
              /\ code[k].op \notin {"GET_GLOBAL", "SET_GLOBAL"}
  <2> DEFINE i == code[k]
  <2>1. i.op \in {"DEFINE_GLOBAL", "RETURN"}
    BY <1>12
  <2> HIDE DEF i
  <2>2. RegisterOperands(i) = {} /\ HeapRegisters(i) = {}
    BY <2>1 DEF RegisterOperands, HeapRegisters, UnaryOp, BinaryOp, IntArith, IntCompare, FloatCompare, FloatArith,
                BitOps
  <2>3. i.op \notin {"GET_GLOBAL", "SET_GLOBAL"}
    BY <2>1
  <2> QED
    BY <2>2, <2>3 DEF i
<1>16. \A index : \A v \in ConstantAt(image, index) : v.type = "Object"
  <2>1. \A k \in DOMAIN image.constants : image.constants[k].type = "Object"
    BY <1>9, <1>14
  <2> QED
    BY <2>1 DEF ConstantAt
<1>17. WellFormed(image)
  <2>1. 1 \in 1..StackCapacity
    BY SizeAssumption
  <2> QED
    BY <1>14, <1>15, <1>16, <2>1 DEF WellFormed
<1> QED
  BY <1>13, <1>14, <1>17 DEF SafeImage, image
================================================================================
