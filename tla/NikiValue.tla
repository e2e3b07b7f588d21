------------------------------ MODULE NikiValue ------------------------------
(***************************************************************************)
(* The tagged Value of the VM (value.hpp) and the opcodes that compute one *)
(* Value from one or two others (vm.cpp, VM::run), without the heap: what  *)
(* an object holds is the matter of the modules that model the heap.       *)
(*                                                                         *)
(* Abstractions.  Integers range over IntRange, a two's complement word of *)
(* any width; a signed overflow, undefined in C++, yields any word.  The   *)
(* result of a bit operator is any word.  A float is a NaN or a member of  *)
(* FloatNum, on which only the order is exact: arithmetic rounds to any    *)
(* float.                                                                  *)
(***************************************************************************)
EXTENDS Integers

CONSTANTS
  IntMax,     \* the largest integer; 2^63 - 1 in the code
  FloatNum,   \* the floats other than NaN, in their order
  NaN,        \* the float that is unordered and unequal to itself
  Func,       \* function objects (ObjFunction), script chunks included
  StructDef,  \* struct blueprints (ObjStructDef)
  HeapObj,    \* strings, arrays, maps and instances, opaque here
  NameId      \* names: indices into the string pool

ASSUME IntMaxAssumption == IntMax \in Nat \ {0}

ASSUME NameAssumption == NameId \subseteq Nat

ASSUME FloatAssumption ==
  /\ FloatNum \subseteq Int
  /\ 0 \in FloatNum
  /\ \A x \in FloatNum : -x \in FloatNum
  /\ NaN \notin FloatNum

-----------------------------------------------------------------------------
IntMin   == -IntMax - 1
IntRange == IntMin..IntMax
Float    == FloatNum \cup {NaN}
Obj      == Func \cup StructDef \cup HeapObj

makeNil       == [type |-> "Nil", as |-> 0]
makeBool(b)   == [type |-> "Bool", as |-> IF b THEN 1 ELSE 0]
makeInt(i)    == [type |-> "Integer", as |-> i]
makeFloat(x)  == [type |-> "Float", as |-> x]
makeObject(o) == [type |-> "Object", as |-> o]

Value ==
  {makeNil} \cup {makeBool(b) : b \in BOOLEAN} \cup {makeInt(i) : i \in IntRange}
    \cup {makeFloat(x) : x \in Float} \cup {makeObject(o) : o \in Obj}

isInteger(v)   == v.type = "Integer"
isFloat(v)     == v.type = "Float"
isFunction(v)  == v.type = "Object" /\ v.as \in Func
isStructDef(v) == v.type = "Object" /\ v.as \in StructDef

\* What an opcode ends in when it computes no value: RUNTIME_ERROR, or the
\* death of the process (a division the hardware refuses).
Error   == [type |-> "RUNTIME_ERROR", as |-> 0]
Trap    == [type |-> "SIGFPE", as |-> 0]
Outcome == Value \cup {Error, Trap}

-----------------------------------------------------------------------------
(***************************************************************************)
(* Integer arithmetic: both operands must be Integer (requireInt64).       *)
(***************************************************************************)
Magnitude(i) == IF i < 0 THEN -i ELSE i

\* C++ division truncates toward zero and the remainder takes the sign of
\* the dividend.
Quotient(i, j) ==
  LET q == Magnitude(i) \div Magnitude(j)
  IN  IF (i < 0) # (j < 0) THEN -q ELSE q
\* Mutant: the remainder of floor division.
FloorRemainder(i, j) == i % Magnitude(j)

Remainder(i, j) == i - j * Quotient(i, j)

AnyInt     == {makeInt(i) : i \in IntRange}
Word(i)    == IF i \in IntRange THEN {makeInt(i)} ELSE AnyInt

\* OP_DICE adds up i rolls of a die with j sides.
Rolled(i, j) ==
  IF i < 0 \/ j < 1 THEN {Error}
  ELSE IF i * j \in IntRange THEN {makeInt(n) : n \in i..(i * j)} ELSE AnyInt

\* Mutant: the zero divisor is not refused.
UncheckedDivided(op, i, j) ==
  IF j = 0 \/ (i = IntMin /\ j = -1) THEN AnyInt \cup {Trap}
  ELSE {makeInt(IF op = "IDIV" THEN Quotient(i, j) ELSE Remainder(i, j))}

\* A zero divisor is refused; the smallest word has no quotient by -1, which
\* is undefined in C++ and faults on the machine if it is computed at all.
Divided(op, i, j) ==
  IF j = 0 THEN {Error}
  ELSE IF i = IntMin /\ j = -1 THEN AnyInt \cup {Trap}
  ELSE {makeInt(IF op = "IDIV" THEN Quotient(i, j) ELSE Remainder(i, j))}

IntArith == {"IADD", "ISUB", "IMUL", "IDIV", "IMOD", "DICE"}

IntArithOutcomes(op, i, j) ==
  CASE op = "IADD" -> Word(i + j)
    [] op = "ISUB" -> Word(i - j)
    [] op = "IMUL" -> Word(i * j)
    [] op \in {"IDIV", "IMOD"} -> Divided(op, i, j)
    [] OTHER -> Rolled(i, j)

(***************************************************************************)
(* Comparisons.  A NaN is unordered, so it differs from every float.       *)
(***************************************************************************)
IntCompare   == {"IEQ", "INE", "ILT", "IGT", "ILE", "IGE"}
FloatCompare == {"FEQ", "FNE", "FLT", "FGT", "FLE", "FGE"}

Holds(op, x, y) ==
  CASE op \in {"IEQ", "FEQ"} -> x = y
    [] op \in {"INE", "FNE"} -> x # y
    [] op \in {"ILT", "FLT"} -> x < y
    [] op \in {"IGT", "FGT"} -> x > y
    [] op \in {"ILE", "FLE"} -> x =< y
    [] OTHER -> x >= y

\* Mutant: floats are compared by their bits.
BitwiseFloatHolds(op, x, y) ==
  IF NaN \in {x, y} THEN (x = y) = (op \in {"FEQ", "FLE", "FGE"})
  ELSE Holds(op, x, y)

FloatHolds(op, x, y) == IF NaN \in {x, y} THEN op = "FNE" ELSE Holds(op, x, y)

FloatArith == {"FADD", "FSUB", "FMUL", "FDIV"}

FloatArithOutcomes(op, x, y) ==
  IF op = "FDIV" /\ y = 0 THEN {Error}
  ELSE IF NaN \in {x, y} THEN {makeFloat(NaN)}
  ELSE {makeFloat(z) : z \in Float}

-----------------------------------------------------------------------------
(***************************************************************************)
(* Truthiness.  Five opcodes take a Value for true or for false, and each  *)
(* has code of its own for that.                                           *)
(***************************************************************************)
\* OP_JZ.
JzFalse(v) ==
  \/ v.type \in {"Bool", "Integer"} /\ v.as = 0
  \/ v.type = "Nil"

\* Mutant: OP_JNZ without its last branch.
JnzNumber(v) == v.type \in {"Bool", "Integer"} /\ v.as # 0

\* OP_JNZ: what is none of the three is true.
JnzTrue(v) ==
  \/ v.type \in {"Bool", "Integer"} /\ v.as # 0
  \/ v.type \notin {"Bool", "Integer", "Nil"}

\* OP_NOT.
NotFalse(v) ==
  \/ v.type = "Nil"
  \/ v.type \in {"Bool", "Integer"} /\ v.as = 0

\* OP_AND and OP_OR: what is neither is false.
AndTrue(v) == v.type \in {"Bool", "Integer"} /\ v.as # 0
OrTrue(v)  == v.type \in {"Bool", "Integer"} /\ v.as # 0

BitOps   == {"BIT_AND", "BIT_OR", "BIT_XOR", "BIT_SHL", "BIT_SHR"}
BinaryOp == IntArith \cup IntCompare \cup FloatCompare \cup FloatArith
              \cup BitOps \cup {"AND", "OR"}

BinaryOutcomes(op, l, r) ==
  CASE op = "AND" -> {makeBool(AndTrue(l) /\ AndTrue(r))}
    [] op = "OR"  -> {makeBool(OrTrue(l) \/ OrTrue(r))}
    [] op \in FloatArith \cup FloatCompare ->
         IF ~(isFloat(l) /\ isFloat(r)) THEN {Error}
         ELSE IF op \in FloatArith THEN FloatArithOutcomes(op, l.as, r.as)
         ELSE {makeBool(FloatHolds(op, l.as, r.as))}
    [] OTHER ->
         IF ~(isInteger(l) /\ isInteger(r)) THEN {Error}
         ELSE IF op \in IntArith THEN IntArithOutcomes(op, l.as, r.as)
         ELSE IF op \in IntCompare THEN {makeBool(Holds(op, l.as, r.as))}
         ELSE AnyInt

UnaryOp == {"NEG", "FNEG", "NOT", "BIT_NOT"}

UnaryOutcomes(op, v) ==
  CASE op = "NOT"  -> {makeBool(NotFalse(v))}
    [] op = "FNEG" -> IF ~isFloat(v) THEN {Error}
                      ELSE {makeFloat(IF v.as = NaN THEN NaN ELSE -v.as)}
    [] op = "NEG"  -> IF isInteger(v) THEN Word(-v.as) ELSE {Error}
    [] OTHER       -> IF isInteger(v) THEN {makeInt(-v.as - 1)} ELSE {Error}
=============================================================================
