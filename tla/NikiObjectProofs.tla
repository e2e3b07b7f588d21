---------------------------- MODULE NikiObjectProofs ---------------------------
(***************************************************************************)
(* The opcodes of NikiValue compute Values, fail or trap, for every width  *)
(* of integer and every set of floats, and the containers of NikiObject    *)
(* keep inside their blocks, for every capacity below the wrap.            *)
(***************************************************************************)
EXTENDS NikiObject, SequenceTheorems, FiniteSetTheorems, TLAPS

-----------------------------------------------------------------------------
(***************************************************************************)
(* What a Value is.                                                        *)
(***************************************************************************)
\* A Value is of exactly the shape its type says.
LEMMA ValueShapes ==
  ASSUME NEW v \in Value
  PROVE  /\ v.type = "Integer" => v.as \in IntRange
         /\ v.type = "Float" => v.as \in Float
         /\ v.type = "Object" => v.as \in Obj
  BY DEF Value, makeNil, makeBool, makeInt, makeFloat, makeObject

\* Every constructor makes a Value.
LEMMA MadeValues ==
  /\ makeNil \in Value
  /\ \A b \in BOOLEAN : makeBool(b) \in Value
  /\ \A i \in IntRange : makeInt(i) \in Value
  /\ \A x \in Float : makeFloat(x) \in Value
  /\ \A o \in Obj : makeObject(o) \in Value
  BY DEF Value

-----------------------------------------------------------------------------
(***************************************************************************)
(* Truncating division.                                                    *)
(***************************************************************************)
\* Dividing magnitudes leaves a remainder below the divisor.
LEMMA MagnitudeDivision ==
  ASSUME NEW a \in Nat, NEW b \in Nat \ {0}
  PROVE  /\ a \div b \in Nat
         /\ a % b \in 0..(b - 1)
         /\ a = b * (a \div b) + (a % b)
         /\ a \div b =< a
         /\ b >= 2 => 2 * (a \div b) =< a
<1>1. a \div b \in Int /\ a % b \in 0..(b - 1) /\ a = b * (a \div b) + (a % b)
  BY SMT
<1> DEFINE q == a \div b
<1>2. q >= 0
  BY <1>1, SMT
<1>3. b * q =< a
  BY <1>1, SMT
<1>4. b >= 1 /\ q >= 0 => q =< b * q
  BY <1>1, SMT
<1>5. b >= 2 /\ q >= 0 => 2 * q =< b * q
  BY <1>1, SMT
<1> QED
  BY <1>1, <1>2, <1>3, <1>4, <1>5

\* A quotient that is not the undefined one is a word.
LEMMA QuotientIsWord ==
  ASSUME NEW i \in IntRange, NEW j \in IntRange, j # 0, ~(i = IntMin /\ j = -1)
  PROVE  Quotient(i, j) \in IntRange
<1> DEFINE a == Magnitude(i)
           b == Magnitude(j)
           q == a \div b
<1>1. i \in Int /\ j \in Int /\ IntMax \in Nat \ {0} /\ IntMin = -IntMax - 1
  BY IntMaxAssumption DEF IntRange, IntMin
<1>2. a \in Nat /\ b \in Nat \ {0} /\ a =< IntMax + 1
  BY <1>1 DEF Magnitude, IntRange, IntMin
<1>3. q \in Nat /\ q =< a /\ (b >= 2 => 2 * q =< a)
  BY <1>2, MagnitudeDivision
<1>4. q =< IntMax + 1
  BY <1>1, <1>2, <1>3
<1>5. CASE (i < 0) # (j < 0)
  <2>1. Quotient(i, j) = -q
    BY <1>5 DEF Quotient
  <2> QED
    BY <2>1, <1>1, <1>3, <1>4 DEF IntRange
<1>6. CASE ~((i < 0) # (j < 0))
  <2>1. Quotient(i, j) = q
    BY <1>6 DEF Quotient
  <2>2. q =< IntMax
    <3>1. CASE b >= 2
      BY <3>1, <1>1, <1>2, <1>3
    <3>2. CASE b = 1 /\ j = 1
      BY <3>2, <1>6, <1>1, <1>2, <1>3 DEF Magnitude, IntRange
    <3>3. CASE b = 1 /\ j = -1
      BY <3>3, <1>1, <1>2, <1>3 DEF Magnitude, IntRange
    <3> QED
      BY <3>1, <3>2, <3>3, <1>1, <1>2 DEF Magnitude
  <2> QED
    BY <2>1, <2>2, <1>1, <1>3 DEF IntRange
<1> QED
  BY <1>5, <1>6

\* Every remainder is smaller than its divisor, hence a word.
LEMMA RemainderIsWord ==
  ASSUME NEW i \in IntRange, NEW j \in IntRange, j # 0
  PROVE  Remainder(i, j) \in IntRange
<1> DEFINE a == Magnitude(i)
           b == Magnitude(j)
           q == a \div b
           r == a % b
<1>1. i \in Int /\ j \in Int /\ IntMax \in Nat \ {0} /\ IntMin = -IntMax - 1
  BY IntMaxAssumption DEF IntRange, IntMin
<1>2. a \in Nat /\ b \in Nat \ {0} /\ b =< IntMax + 1
  BY <1>1 DEF Magnitude, IntRange, IntMin
<1>3. q \in Nat /\ r \in 0..(b - 1) /\ a = b * q + r
  BY <1>2, MagnitudeDivision
<1>4. r =< IntMax
  BY <1>1, <1>2, <1>3
<1>5. Remainder(i, j) = r \/ Remainder(i, j) = -r
  <2> HIDE DEF q, r
  <2>1. CASE i >= 0 /\ j > 0
    <3>1. a = i /\ b = j /\ Quotient(i, j) = q
      BY <2>1, <1>1 DEF Magnitude, Quotient, q
    <3> QED
      BY <3>1, <1>1, <1>3 DEF Remainder
  <2>2. CASE i >= 0 /\ j < 0
    <3>1. a = i /\ b = -j /\ Quotient(i, j) = -q
      BY <2>2, <1>1 DEF Magnitude, Quotient, q
    <3>2. j * (-q) = b * q
      BY <3>1, <1>1, <1>3
    <3> QED
      BY <3>1, <3>2, <1>1, <1>2, <1>3 DEF Remainder
  <2>3. CASE i < 0 /\ j > 0
    <3>1. a = -i /\ b = j /\ Quotient(i, j) = -q
      BY <2>3, <1>1 DEF Magnitude, Quotient, q
    <3>2. j * (-q) = -(b * q)
      BY <3>1, <1>1, <1>3
    <3> QED
      BY <3>1, <3>2, <1>1, <1>2, <1>3 DEF Remainder
  <2>4. CASE i < 0 /\ j < 0
    <3>1. a = -i /\ b = -j /\ Quotient(i, j) = q
      BY <2>4, <1>1 DEF Magnitude, Quotient, q
    <3>2. j * q = -(b * q)
      BY <3>1, <1>1, <1>3
    <3> QED
      BY <3>1, <3>2, <1>1, <1>2, <1>3 DEF Remainder
  <2> QED
    BY <2>1, <2>2, <2>3, <2>4, <1>1
<1> QED
  BY <1>1, <1>3, <1>4, <1>5 DEF IntRange

-----------------------------------------------------------------------------
(***************************************************************************)
(* Every opcode ends in a Value, an error or a trap.                       *)
(***************************************************************************)
\* A word, or any integer.
LEMMA WordsAreValues == AnyInt \subseteq Value /\ \A i \in Int : Word(i) \subseteq Value
  BY MadeValues DEF AnyInt, Word

\* A sum of dice is a word, unless it overflows, when any word may come out.
LEMMA RolledOutcomes ==
  ASSUME NEW i \in IntRange, NEW j \in IntRange
  PROVE  Rolled(i, j) \subseteq Outcome
<1>1. i \in Int /\ j \in Int /\ i * j \in Int /\ IntMax \in Nat /\ IntMin =< 0 /\ IntMin \in Int
  BY IntMaxAssumption DEF IntRange, IntMin
<1>2. CASE i < 0 \/ j < 1
  BY <1>2 DEF Rolled, Outcome
<1>3. CASE i >= 0 /\ j >= 1 /\ i * j \in IntRange
  <2>1. i..(i * j) \subseteq IntRange
    BY <1>1, <1>3 DEF IntRange
  <2>2. Rolled(i, j) = {makeInt(n) : n \in i..(i * j)}
    BY <1>1, <1>3 DEF Rolled
  <2> QED
    BY <2>1, <2>2, MadeValues DEF Outcome
<1>4. CASE i >= 0 /\ j >= 1 /\ i * j \notin IntRange
  BY <1>1, <1>4, WordsAreValues DEF Rolled, Outcome
<1> QED
  BY <1>1, <1>2, <1>3, <1>4

\* A division is refused, traps, or yields a word.
LEMMA DividedOutcomes ==
  ASSUME NEW op, NEW i \in IntRange, NEW j \in IntRange
  PROVE  Divided(op, i, j) \subseteq Outcome
<1>1. CASE j = 0
  BY <1>1 DEF Divided, Outcome
<1>2. CASE j # 0 /\ i = IntMin /\ j = -1
  BY <1>2, WordsAreValues DEF Divided, Outcome
<1>3. CASE j # 0 /\ ~(i = IntMin /\ j = -1)
  <2>1. Quotient(i, j) \in IntRange /\ Remainder(i, j) \in IntRange
    BY <1>3, QuotientIsWord, RemainderIsWord
  <2>2. Divided(op, i, j) = {makeInt(IF op = "IDIV" THEN Quotient(i, j) ELSE Remainder(i, j))}
    BY <1>3 DEF Divided
  <2> QED
    BY <2>1, <2>2, MadeValues DEF Outcome
<1> QED
  BY <1>1, <1>2, <1>3

\* Integer arithmetic.
LEMMA IntArithTyped ==
  ASSUME NEW op, NEW i \in IntRange, NEW j \in IntRange
  PROVE  IntArithOutcomes(op, i, j) \subseteq Outcome
<1>1. i \in Int /\ j \in Int
  BY IntMaxAssumption DEF IntRange, IntMin
<1>2. i + j \in Int /\ i - j \in Int /\ i * j \in Int
  BY <1>1
<1>3. Word(i + j) \subseteq Outcome /\ Word(i - j) \subseteq Outcome /\ Word(i * j) \subseteq Outcome
  BY <1>2, WordsAreValues DEF Outcome
<1>4. Divided(op, i, j) \subseteq Outcome /\ Rolled(i, j) \subseteq Outcome
  BY DividedOutcomes, RolledOutcomes
<1> QED
  BY <1>3, <1>4, Zenon DEF IntArithOutcomes

\* Float arithmetic.
LEMMA FloatArithTyped ==
  ASSUME NEW op, NEW x \in Float, NEW y \in Float
  PROVE  FloatArithOutcomes(op, x, y) \subseteq Outcome
<1>1. {makeFloat(NaN)} \subseteq Outcome /\ {makeFloat(z) : z \in Float} \subseteq Outcome
  BY MadeValues DEF Outcome, Float
<1>2. {Error} \subseteq Outcome
  BY DEF Outcome
<1> QED
  BY <1>1, <1>2 DEF FloatArithOutcomes

\* A comparison or a logic operator yields a Boolean, whatever it is taken of.
LEMMA BoolsAreOutcomes ==
  ASSUME NEW p
  PROVE  {makeBool(p)} \subseteq Outcome
<1>1. CASE p
  <2>1. makeBool(p) = makeBool(TRUE)
    BY <1>1 DEF makeBool
  <2> QED
    BY <2>1, MadeValues DEF Outcome
<1>2. CASE ~p
  <2>1. makeBool(p) = makeBool(FALSE)
    BY <1>2 DEF makeBool
  <2> QED
    BY <2>1, MadeValues DEF Outcome
<1> QED
  BY <1>1, <1>2

\* OP_IADD ... OP_OR, as far as they take two registers: no operands of
\* whatever types make them leave the Values, the errors and the trap.
THEOREM BinaryTyped ==
  ASSUME NEW op, NEW l \in Value, NEW r \in Value
  PROVE  BinaryOutcomes(op, l, r) \subseteq Outcome
<1>1. {Error} \subseteq Outcome
  BY DEF Outcome
<1>2. AnyInt \subseteq Outcome
  BY WordsAreValues DEF Outcome
<1>3. CASE op \in {"AND", "OR"}
  <2> DEFINE both == makeBool(AndTrue(l) /\ AndTrue(r))
             either == makeBool(OrTrue(l) \/ OrTrue(r))
  <2>1. {both} \subseteq Outcome /\ {either} \subseteq Outcome
    BY BoolsAreOutcomes
  <2>2. op = "AND" => BinaryOutcomes(op, l, r) = {both}
    BY SMT DEF BinaryOutcomes, FloatArith, FloatCompare, makeBool, AndTrue
  <2>3. op = "OR" => BinaryOutcomes(op, l, r) = {either}
    BY SMT DEF BinaryOutcomes, FloatArith, FloatCompare, makeBool, OrTrue
  <2> QED
    BY <1>3, <2>1, <2>2, <2>3, Zenon
<1>4. CASE op \notin {"AND", "OR"} /\ op \in FloatArith \cup FloatCompare
  <2>1. CASE ~(isFloat(l) /\ isFloat(r))
    BY <1>1, <1>4, <2>1 DEF BinaryOutcomes
  <2>2. CASE isFloat(l) /\ isFloat(r)
    <3>1. l.as \in Float /\ r.as \in Float
      BY <2>2, ValueShapes DEF isFloat
    <3>2. FloatArithOutcomes(op, l.as, r.as) \subseteq Outcome
      BY <3>1, FloatArithTyped
    <3>3. {makeBool(FloatHolds(op, l.as, r.as))} \subseteq Outcome
      BY BoolsAreOutcomes
    <3> QED
      BY <1>4, <2>2, <3>2, <3>3 DEF BinaryOutcomes
  <2> QED
    BY <2>1, <2>2
<1>5. CASE op \notin {"AND", "OR"} /\ op \notin FloatArith \cup FloatCompare
  <2>1. CASE ~(isInteger(l) /\ isInteger(r))
    BY <1>1, <1>5, <2>1 DEF BinaryOutcomes
  <2>2. CASE isInteger(l) /\ isInteger(r)
    <3>1. l.as \in IntRange /\ r.as \in IntRange
      BY <2>2, ValueShapes DEF isInteger
    <3>2. IntArithOutcomes(op, l.as, r.as) \subseteq Outcome
      BY <3>1, IntArithTyped
    <3>3. {makeBool(Holds(op, l.as, r.as))} \subseteq Outcome
      BY BoolsAreOutcomes
    <3> QED
      BY <1>2, <1>5, <2>2, <3>2, <3>3 DEF BinaryOutcomes
  <2> QED
    BY <2>1, <2>2
<1> QED
  BY <1>3, <1>4, <1>5

\* OP_NEG, OP_FNEG, OP_NOT and OP_BIT_NOT likewise.
THEOREM UnaryTyped ==
  ASSUME NEW op, NEW v \in Value
  PROVE  UnaryOutcomes(op, v) \subseteq Outcome
<1>1. {Error} \subseteq Outcome
  BY DEF Outcome
<1>2. CASE op = "NOT"
  BY <1>2, BoolsAreOutcomes DEF UnaryOutcomes
<1>3. CASE op = "FNEG"
  <2>1. CASE isFloat(v)
    <3>1. (IF v.as = NaN THEN NaN ELSE -v.as) \in Float
      BY <2>1, ValueShapes, FloatAssumption DEF isFloat, Float
    <3>2. {makeFloat(IF v.as = NaN THEN NaN ELSE -v.as)} \subseteq Outcome
      BY <3>1, MadeValues DEF Outcome
    <3> QED
      BY <1>3, <2>1, <3>2 DEF UnaryOutcomes
  <2>2. CASE ~isFloat(v)
    BY <1>1, <1>3, <2>2 DEF UnaryOutcomes
  <2> QED
    BY <2>1, <2>2
<1>4. CASE op \notin {"NOT", "FNEG"}
  <2>1. CASE isInteger(v)
    <3>1. v.as \in IntRange /\ v.as \in Int
      BY <2>1, ValueShapes, IntMaxAssumption DEF isInteger, IntRange, IntMin
    <3>2. -v.as \in Int /\ -v.as - 1 \in IntRange
      BY <3>1, IntMaxAssumption DEF IntRange, IntMin
    <3>3. Word(-v.as) \subseteq Outcome /\ {makeInt(-v.as - 1)} \subseteq Outcome
      BY <3>2, WordsAreValues, MadeValues DEF Outcome
    <3> QED
      BY <1>4, <2>1, <3>3 DEF UnaryOutcomes
  <2>2. CASE ~isInteger(v)
    BY <1>1, <1>4, <2>2 DEF UnaryOutcomes
  <2> QED
    BY <2>1, <2>2
<1> QED
  BY <1>2, <1>3, <1>4
-----------------------------------------------------------------------------
(***************************************************************************)
(* What opcodes make of one value together.                                *)
(***************************************************************************)
\* No opcode of one operand traps.
LEMMA UnaryNeverTraps ==
  ASSUME NEW op, NEW v
  PROVE  Trap \notin UnaryOutcomes(op, v)
<1>1. \A i : makeInt(i) # Trap /\ makeFloat(i) # Trap /\ makeBool(i) # Trap /\ Error # Trap
  BY DEF makeInt, makeFloat, makeBool, Error, Trap
<1>2. \A i : Trap \notin Word(i)
  BY <1>1 DEF Word, AnyInt
<1> QED
  BY <1>1, <1>2, Zenon DEF UnaryOutcomes

\* A trap is a division of the smallest word by -1: a zero divisor, an operand of
\* another type and an overflow of any other operator are no trap.
THEOREM OnlyDivisionTraps ==
  ASSUME NEW op, NEW l \in Value, NEW r \in Value, Trap \in BinaryOutcomes(op, l, r)
  PROVE  op \in {"IDIV", "IMOD"} /\ l = makeInt(IntMin) /\ r = makeInt(-1)
<1>1. \A i : makeInt(i) # Trap /\ makeFloat(i) # Trap /\ makeBool(i) # Trap /\ Error # Trap
  BY DEF makeInt, makeFloat, makeBool, Error, Trap
<1>2. Trap \notin AnyInt /\ \A i : Trap \notin Word(i)
  BY <1>1 DEF Word, AnyInt
<1>3. \A i, j : Trap \notin Rolled(i, j)
  BY <1>1, <1>2 DEF Rolled
<1>4. \A x, y : Trap \notin FloatArithOutcomes(op, x, y)
  BY <1>1 DEF FloatArithOutcomes
<1>5. isInteger(l) /\ isInteger(r) /\ op \in IntArith /\ Trap \in IntArithOutcomes(op, l.as, r.as)
  BY <1>1, <1>2, <1>4, Zenon DEF BinaryOutcomes
<1>6. op \in {"IDIV", "IMOD"} /\ Trap \in Divided(op, l.as, r.as)
  BY <1>2, <1>3, <1>5 DEF IntArithOutcomes, IntArith
<1>7. l.as = IntMin /\ r.as = -1
  BY <1>1, <1>6, Zenon DEF Divided
<1>8. l = makeInt(l.as) /\ r = makeInt(r.as)
  BY <1>5 DEF Value, isInteger, makeNil, makeBool, makeInt, makeFloat, makeObject
<1> QED
  BY <1>6, <1>7, <1>8

\* The remainder lies between zero and the dividend.
LEMMA RemainderTowardsZero ==
  ASSUME NEW i \in IntRange, NEW j \in IntRange, j # 0
  PROVE  (i >= 0 => Remainder(i, j) \in 0..i) /\ (i < 0 => Remainder(i, j) \in i..0)
<1> DEFINE a == Magnitude(i)
           b == Magnitude(j)
           q == a \div b
           r == a % b
<1>1. i \in Int /\ j \in Int
  BY IntMaxAssumption DEF IntRange, IntMin
<1>2. a \in Nat /\ b \in Nat \ {0}
  BY <1>1 DEF Magnitude
<1>3. q \in Nat /\ r \in Nat /\ a = b * q + r
  <2>1. q \in Nat /\ r \in 0..(b - 1) /\ a = b * q + r
    BY <1>2, MagnitudeDivision
  <2> HIDE DEF a, b, q, r
  <2> QED
    BY <1>2, <2>1
<1>4. b * q \in Nat
  BY <1>2, <1>3
<1>5. r =< a
  BY <1>2, <1>3, <1>4
<1>6. CASE i >= 0
  <2>1. a = i /\ Remainder(i, j) = r
    <3>1. a = i
      BY <1>1, <1>6 DEF Magnitude
    <3>2. CASE j > 0
      <4>1. b = j /\ Quotient(i, j) = q
        BY <1>1, <1>6, <3>2 DEF Magnitude, Quotient
      <4> HIDE DEF q, r
      <4> QED
        BY <1>1, <1>3, <1>4, <3>1, <4>1 DEF Remainder
    <3>3. CASE j < 0
      <4>1. b = -j /\ Quotient(i, j) = -q
        BY <1>1, <1>6, <3>3 DEF Magnitude, Quotient
      <4> HIDE DEF q, r
      <4>2. j * (-q) = b * q
        BY <1>1, <1>3, <4>1
      <4> QED
        BY <1>1, <1>3, <1>4, <3>1, <4>1, <4>2 DEF Remainder
    <3> QED
      BY <1>1, <3>1, <3>2, <3>3
  <2> QED
    BY <1>1, <1>3, <1>5, <1>6, <2>1
<1>7. CASE i < 0
  <2>1. a = -i /\ Remainder(i, j) = -r
    <3>1. a = -i
      BY <1>1, <1>7 DEF Magnitude
    <3>2. CASE j > 0
      <4>1. b = j /\ Quotient(i, j) = -q
        BY <1>1, <1>7, <3>2 DEF Magnitude, Quotient
      <4> HIDE DEF q, r
      <4>2. j * (-q) = -(b * q)
        BY <1>1, <1>3, <4>1
      <4> QED
        BY <1>1, <1>3, <1>4, <3>1, <4>1, <4>2 DEF Remainder
    <3>3. CASE j < 0
      <4>1. b = -j /\ Quotient(i, j) = q
        BY <1>1, <1>7, <3>3 DEF Magnitude, Quotient
      <4> HIDE DEF q, r
      <4>2. j * q = -(b * q)
        BY <1>1, <1>3, <4>1
      <4> QED
        BY <1>1, <1>3, <1>4, <3>1, <4>1, <4>2 DEF Remainder
    <3> QED
      BY <1>1, <3>1, <3>2, <3>3
  <2> QED
    BY <1>1, <1>3, <1>5, <1>7, <2>1
<1> QED
  BY <1>1, <1>6, <1>7

\* OP_IDIV, OP_IMOD, OP_IMUL and OP_IADD fit together for words of any width and
\* either sign: wherever the quotient is defined, quotient times divisor plus
\* remainder overflows nowhere and is the dividend.
THEOREM DivisionFits ==
  ASSUME NEW i \in IntRange, NEW j \in IntRange, j # 0, ~(i = IntMin /\ j = -1)
  PROVE  LET q == Quotient(i, j)
             r == Remainder(i, j)
         IN  /\ BinaryOutcomes("IDIV", makeInt(i), makeInt(j)) = {makeInt(q)}
             /\ BinaryOutcomes("IMOD", makeInt(i), makeInt(j)) = {makeInt(r)}
             /\ BinaryOutcomes("IMUL", makeInt(q), makeInt(j)) = {makeInt(q * j)}
             /\ BinaryOutcomes("IADD", makeInt(q * j), makeInt(r)) = {makeInt(i)}
<1> DEFINE q == Quotient(i, j)
           r == Remainder(i, j)
<1>1. i \in Int /\ j \in Int /\ IntMax \in Nat \ {0} /\ IntMin = -IntMax - 1 /\ IntMin \in Int
  BY IntMaxAssumption DEF IntRange, IntMin
<1>2. q \in IntRange /\ r \in IntRange /\ q \in Int /\ r \in Int
  BY <1>1, QuotientIsWord, RemainderIsWord DEF IntRange
<1>3. (i >= 0 => r \in 0..i) /\ (i < 0 => r \in i..0)
  BY RemainderTowardsZero
<1>4. r = i - j * q
  BY DEF Remainder
<1> HIDE DEF q, r
<1>5. q * j = i - r /\ q * j \in Int
  BY <1>1, <1>2, <1>4
<1>6. q * j \in IntRange
  BY <1>1, <1>2, <1>3, <1>5 DEF IntRange
<1>7. (q * j) + r = i
  BY <1>1, <1>2, <1>5
<1>8. \A op, x, y : op \in IntArith =>
        BinaryOutcomes(op, makeInt(x), makeInt(y)) = IntArithOutcomes(op, x, y)
  BY DEF BinaryOutcomes, IntArith, FloatArith, FloatCompare, isInteger, makeInt
<1>9. Divided("IDIV", i, j) = {makeInt(q)} /\ Divided("IMOD", i, j) = {makeInt(r)}
  BY DEF Divided, q, r
<1>10. IntArithOutcomes("IMUL", q, j) = {makeInt(q * j)}
  BY <1>6 DEF IntArithOutcomes, Word
<1>11. IntArithOutcomes("IADD", q * j, r) = {makeInt(i)}
  BY <1>7 DEF IntArithOutcomes, Word
<1>12. IntArithOutcomes("IDIV", i, j) = {makeInt(q)} /\ IntArithOutcomes("IMOD", i, j) = {makeInt(r)}
  BY <1>9 DEF IntArithOutcomes
<1> QED
  BY <1>8, <1>10, <1>11, <1>12 DEF IntArith, q, r

\* What OP_NOT gives, and OP_AND and OP_OR of a value with itself.
LEMMA TruthComputed ==
  ASSUME NEW v
  PROVE  /\ UnaryOutcomes("NOT", v) = {makeBool(NotFalse(v))}
         /\ BinaryOutcomes("AND", v, v) = {makeBool(AndTrue(v))}
         /\ BinaryOutcomes("OR", v, v) = {makeBool(OrTrue(v))}
<1>1. UnaryOutcomes("NOT", v) = {makeBool(NotFalse(v))}
  BY DEF UnaryOutcomes
<1>2. BinaryOutcomes("AND", v, v) = {makeBool(AndTrue(v))}
  BY SMT DEF BinaryOutcomes, FloatArith, FloatCompare, makeBool, AndTrue
<1>3. BinaryOutcomes("OR", v, v) = {makeBool(OrTrue(v))}
  BY SMT DEF BinaryOutcomes, FloatArith, FloatCompare, makeBool, OrTrue
<1> QED
  BY <1>1, <1>2, <1>3, Zenon

\* The five opcodes that ask whether a value is true, each with code of its own
\* (OP_JZ, OP_JNZ, OP_NOT, OP_AND and OP_OR of vm.cpp): OP_JNZ jumps where OP_JZ does
\* not, OP_NOT gives what makes OP_JZ jump, OP_AND and OP_OR agree, and the three
\* agree with the two on every value but the floats and objects, on none of which
\* they do.
THEOREM TruthSitesDiffer ==
  ASSUME NEW v \in Value
  PROVE  /\ JnzTrue(v) <=> ~JzFalse(v)
         /\ UnaryOutcomes("NOT", v) = {makeBool(JzFalse(v))}
         /\ BinaryOutcomes("AND", v, v) = BinaryOutcomes("OR", v, v)
         /\ BinaryOutcomes("AND", v, v) = {makeBool(JnzTrue(v))} <=> v.type \notin {"Float", "Object"}
<1>1. v.type \in {"Nil", "Bool", "Integer", "Float", "Object"}
  BY DEF Value, makeNil, makeBool, makeInt, makeFloat, makeObject
<1>2. JnzTrue(v) <=> ~JzFalse(v)
  BY <1>1 DEF JnzTrue, JzFalse
<1>3. NotFalse(v) <=> JzFalse(v)
  BY <1>1 DEF NotFalse, JzFalse
<1>4. AndTrue(v) <=> OrTrue(v)
  BY DEF AndTrue, OrTrue
<1>5. (AndTrue(v) <=> JnzTrue(v)) <=> v.type \notin {"Float", "Object"}
  BY <1>1 DEF AndTrue, JnzTrue
<1>6. {makeBool(AndTrue(v))} = {makeBool(JnzTrue(v))} <=> (AndTrue(v) <=> JnzTrue(v))
  <2>1. makeBool(AndTrue(v)).as = makeBool(JnzTrue(v)).as => (AndTrue(v) <=> JnzTrue(v))
    BY SMT DEF makeBool, AndTrue, JnzTrue
  <2>2. (AndTrue(v) <=> JnzTrue(v)) => makeBool(AndTrue(v)) = makeBool(JnzTrue(v))
    BY DEF makeBool
  <2> QED
    BY <2>1, <2>2, Zenon
<1>7. /\ makeBool(NotFalse(v)) = makeBool(JzFalse(v))
      /\ makeBool(AndTrue(v)) = makeBool(OrTrue(v))
  BY <1>3, <1>4 DEF makeBool
<1> QED
  BY <1>2, <1>5, <1>6, <1>7, TruthComputed, Zenon

\* Of <, > and == of two floats exactly one holds, and none if one is a NaN; >= and
\* <= are their disjunctions and != is the negation of ==, NaN or not.
THEOREM FloatsAreOrdered ==
  ASSUME NEW x \in Float, NEW y \in Float
  PROVE  LET holds(op) == FloatHolds(op, x, y) IN
         /\ NaN \notin {x, y} <=> holds("FLT") \/ holds("FGT") \/ holds("FEQ")
         /\ ~(holds("FLT") /\ holds("FGT")) /\ ~(holds("FLT") /\ holds("FEQ"))
         /\ ~(holds("FGT") /\ holds("FEQ"))
         /\ holds("FLE") <=> holds("FLT") \/ holds("FEQ")
         /\ holds("FGE") <=> holds("FGT") \/ holds("FEQ")
         /\ holds("FNE") <=> ~holds("FEQ")
<1>1. CASE NaN \in {x, y}
  BY <1>1 DEF FloatHolds
<1>2. CASE NaN \notin {x, y}
  <2>1. x \in Int /\ y \in Int
    BY <1>2, FloatAssumption DEF Float
  <2> QED
    BY <1>2, <2>1 DEF FloatHolds, Holds
<1> QED
  BY <1>1, <1>2

-----------------------------------------------------------------------------
(***************************************************************************)
(* Containers: an array or a map whose capacity doubles below the wrap of  *)
(* std::uint32_t.                                                          *)
(***************************************************************************)
\* A container that is full asks for more than it has, if the double fits the word.
LEMMA GrownIsMore ==
  ASSUME NEW n \in Nat, 2 * n < Uint32
  PROVE  Grown(n) \in Nat /\ Grown(n) > n
<1>1. MinCapacity \in Nat \ {0} /\ Uint32 \in Nat
  BY CapacityAssumption
<1>2. n * 2 \in Nat /\ Uint32 \in Nat \ {0} /\ n * 2 < Uint32
  BY <1>1
<1>3. (n * 2) % Uint32 = n * 2
  <2> DEFINE x == n * 2
  <2>1. x \in Nat /\ Uint32 \in Nat \ {0} /\ x < Uint32
    BY <1>2
  <2> HIDE DEF x
  <2>2. x \div Uint32 \in Nat /\ x % Uint32 \in 0..(Uint32 - 1) /\ x = Uint32 * (x \div Uint32) + (x % Uint32)
    BY <2>1, MagnitudeDivision
  <2> DEFINE q == x \div Uint32
  <2>3. q \in Nat /\ x % Uint32 \in Nat /\ x = Uint32 * q + (x % Uint32)
    BY <2>2
  <2> HIDE DEF q
  <2>4. q >= 1 => Uint32 * q >= Uint32
    BY <2>1, <2>3, SMT
  <2>5. q = 0
    BY <2>1, <2>3, <2>4, SMT
  <2>6. x % Uint32 = x
    BY <2>1, <2>3, <2>5, SMT
  <2> QED
    BY <2>6 DEF x
<1>4. CASE n < MinCapacity
  BY <1>1, <1>4 DEF Grown
<1>5. CASE ~(n < MinCapacity)
  <2>1. Grown(n) = n * 2
    BY <1>3, <1>5 DEF Grown
  <2>2. n > 0
    BY <1>1, <1>5
  <2> QED
    BY <2>1, <2>2
<1> QED
  BY <1>4, <1>5

\* The table has room for one element more, and everything in its place.
LEMMA MakeRoomIs ==
  ASSUME NEW a \in ArrayObj, DOMAIN a.elements = 1..a.capacity, a.count =< a.capacity,
         2 * a.count < Uint32,
         NEW r, r = MakeRoom(a)
  PROVE  /\ r \in ArrayObj
         /\ r.count = a.count /\ r.count < r.capacity /\ r.capacity >= a.capacity
         /\ DOMAIN r.elements = 1..r.capacity
         /\ \A i \in 1..a.capacity : r.elements[i] = a.elements[i]
         /\ \A i \in (a.capacity + 1)..r.capacity : r.elements[i] = makeNil
<1>1. a.count \in Nat /\ a.capacity \in Nat /\ a.elements \in Seq(Value)
  BY DEF ArrayObj
<1>2. CASE a.count < a.capacity
  <2>1. r = a
    BY <1>1, <1>2 DEF MakeRoom
  <2> QED
    BY <1>1, <1>2, <2>1
<1>3. CASE ~(a.count < a.capacity)
  <2> DEFINE c == Grown(a.capacity)
             e == Resized(a.elements, c, makeNil)
  <2>1. c \in Nat /\ c > a.capacity
    BY <1>1, <1>3, GrownIsMore
  <2>2. r = [a EXCEPT !.capacity = c, !.elements = e]
    BY <1>1, <1>3, <2>1 DEF MakeRoom, expandArray
  <2>3. /\ e \in [1..c -> Value]
        /\ \A i \in 1..c : e[i] = IF i \in 1..a.capacity THEN a.elements[i] ELSE makeNil
    <3>1. \A i \in 1..a.capacity : a.elements[i] \in Value
      BY <1>1
    <3>2. makeNil \in Value
      BY MadeValues
    <3> HIDE DEF c
    <3> QED
      BY <1>1, <3>1, <3>2 DEF Resized
  <2> HIDE DEF c, e
  <2>4. e \in Seq(Value) /\ DOMAIN e = 1..c
    BY <2>1, <2>3, SeqDef
  <2>5. /\ r \in ArrayObj /\ r.count = a.count /\ r.capacity = c /\ r.elements = e
    BY <2>1, <2>2, <2>4 DEF ArrayObj
  <2> QED
    BY <1>1, <1>3, <2>1, <2>3, <2>4, <2>5
<1> QED
  BY <1>2, <1>3

\* The table of entries has room for one more, and every entry in its place: it
\* was full if it grew, so that an entry's rank is its slot.
LEMMA ExpandedIs ==
  ASSUME NEW m \in MapObj, DOMAIN m.entries = 1..m.capacity,
         \A i \in 1..m.capacity : m.entries[i].occupied,
         NEW c \in Nat, c > m.capacity,
         NEW r, r = expandMap(m, c)
  PROVE  /\ r \in MapObj
         /\ r.count = m.count /\ r.capacity = c
         /\ DOMAIN r.entries = 1..c
         /\ \A i \in 1..m.capacity : r.entries[i] = m.entries[i]
         /\ \A i \in (m.capacity + 1)..c : r.entries[i] = Blank
<1> DEFINE Moved(n) == {i \in Occupied(m) : Rank(m, i) = n}
           e == [n \in 1..c |-> IF Moved(n) = {} THEN Blank ELSE m.entries[Least(Moved(n))]]
<1>1. m.capacity \in Nat /\ m.count \in Nat /\ m.entries \in Seq(Slot)
  BY DEF MapObj
<1>2. Occupied(m) = 1..m.capacity
  BY DEF Occupied
<1>3. ASSUME NEW i \in 1..m.capacity PROVE Rank(m, i) = i
  <2>1. {j \in Occupied(m) : j =< i} = 1..i
    BY <1>1, <1>2
  <2>2. Cardinality(1..i) = i
    BY <1>1, FS_Interval
  <2> QED
    BY <2>1, <2>2 DEF Rank
<1>4. \A n \in 1..m.capacity : Moved(n) = {n}
  BY <1>2, <1>3
<1>5. \A n \in (m.capacity + 1)..c : Moved(n) = {}
  BY <1>1, <1>2, <1>3
<1>6. \A n \in 1..m.capacity : Least(Moved(n)) = n
  <2>1. \A n \in 1..m.capacity : Least({n}) = n
    BY <1>1 DEF Least
  <2> HIDE DEF Moved
  <2> QED
    BY <1>4, <2>1
<1>7. /\ \A n \in 1..m.capacity : e[n] = m.entries[n]
      /\ \A n \in (m.capacity + 1)..c : e[n] = Blank
  <2>1. \A n \in 1..m.capacity : n \in 1..c
    BY <1>1
  <2>2. \A n \in (m.capacity + 1)..c : n \in 1..c
    BY <1>1
  <2> HIDE DEF Moved
  <2> QED
    BY <1>4, <1>5, <1>6, <2>1, <2>2
<1>8. e \in [1..c -> Slot]
  <2>1. Blank \in Slot
    BY MadeValues DEF Blank, Slot
  <2>2. \A n \in 1..m.capacity : m.entries[n] \in Slot
    BY <1>1
  <2>3. \A n \in 1..c : e[n] \in Slot
    <3>1. SUFFICES ASSUME NEW n \in 1..c PROVE e[n] \in Slot
      OBVIOUS
    <3>2. n \in 1..m.capacity \/ n \in (m.capacity + 1)..c
      BY <1>1
    <3> HIDE DEF e
    <3> QED
      BY <1>7, <2>1, <2>2, <3>2
  <2>4. e = [n \in 1..c |-> e[n]]
    OBVIOUS
  <2> HIDE DEF e
  <2> QED
    BY <2>3, <2>4
<1>9. r = [m EXCEPT !.capacity = c, !.entries = e]
  <2>1. ~(c =< m.capacity)
    BY <1>1
  <2> QED
    BY <2>1 DEF expandMap
<1> HIDE DEF e
<1>10. e \in Seq(Slot) /\ DOMAIN e = 1..c
  BY <1>8, SeqDef
<1>11. r \in MapObj /\ r.count = m.count /\ r.capacity = c /\ r.entries = e
  BY <1>9, <1>10 DEF MapObj
<1> QED
  BY <1>7, <1>10, <1>11

\* As mapSet leaves the table before it searches.
Roomy(m) == IF m.count >= m.capacity THEN expandMap(m, Grown(m.capacity)) ELSE m

LEMMA RoomyIs ==
  ASSUME NEW m \in MapObj, DOMAIN m.entries = 1..m.capacity, m.count =< m.capacity,
         2 * m.count < Uint32,
         \A i \in 1..m.count : m.entries[i].occupied,
         \A i \in (m.count + 1)..m.capacity : m.entries[i] = Blank,
         NEW r, r = Roomy(m)
  PROVE  /\ r \in MapObj
         /\ r.count = m.count /\ r.count < r.capacity /\ r.capacity >= m.capacity
         /\ DOMAIN r.entries = 1..r.capacity
         /\ \A i \in 1..m.count : r.entries[i] = m.entries[i] /\ r.entries[i].occupied
         /\ \A i \in (m.count + 1)..r.capacity : r.entries[i] = Blank
<1>1. m.count \in Nat /\ m.capacity \in Nat
  BY DEF MapObj
<1>2. CASE m.count < m.capacity
  <2>1. r = m
    BY <1>1, <1>2 DEF Roomy
  <2> QED
    BY <1>1, <1>2, <2>1
<1>3. CASE m.count = m.capacity
  <2> DEFINE c == Grown(m.capacity)
  <2>1. c \in Nat /\ c > m.capacity
    BY <1>1, <1>3, GrownIsMore
  <2>2. r = expandMap(m, c)
    BY <1>1, <1>3 DEF Roomy
  <2>3. \A i \in 1..m.capacity : m.entries[i].occupied
    BY <1>1, <1>3
  <2> HIDE DEF c
  <2> QED
    BY <1>1, <1>3, <2>1, <2>2, <2>3, ExpandedIs
<1> QED
  BY <1>1, <1>2, <1>3

\* A push writes the slot behind the elements, in an array with room for it.
LEMMA ArrayPushed ==
  ASSUME NEW a \in ArrayObj, InBlock(a), 2 * a.count < Uint32, NEW v \in Value,
         NEW b, b = pushArray(a, v)
  PROVE  b \in ArrayObj /\ InBlock(b)
<1> DEFINE r == MakeRoom(a)
           n == r.count + 1
           e == [r.elements EXCEPT ![n] = v]
<1>1. /\ a.type = "Array" /\ a.count \in Nat /\ a.capacity \in Nat /\ a.count =< a.capacity
      /\ DOMAIN a.elements = 1..a.capacity
      /\ \A i \in (a.count + 1)..a.capacity : a.elements[i] = makeNil
  BY DEF InBlock, ArrayObj
<1>2. /\ r \in ArrayObj
      /\ r.count = a.count /\ r.count < r.capacity /\ r.capacity >= a.capacity
      /\ DOMAIN r.elements = 1..r.capacity
      /\ \A i \in 1..a.capacity : r.elements[i] = a.elements[i]
      /\ \A i \in (a.capacity + 1)..r.capacity : r.elements[i] = makeNil
  BY <1>1, MakeRoomIs
<1>3. b = [r EXCEPT !.count = n, !.elements = e]
  BY DEF pushArray
<1> HIDE DEF r
<1>4. r.elements \in Seq(Value) /\ n \in 1..r.capacity /\ r.capacity \in Nat /\ n \in Nat /\ n = a.count + 1
  BY <1>1, <1>2 DEF ArrayObj
<1> HIDE DEF n
<1>5. /\ e \in Seq(Value) /\ DOMAIN e = 1..r.capacity
      /\ \A i \in 1..r.capacity : e[i] = IF i = n THEN v ELSE r.elements[i]
  BY <1>2, <1>4, ExceptSeq
<1> HIDE DEF e
<1>6. /\ b \in ArrayObj /\ b.type = "Array" /\ b.count = n /\ b.capacity = r.capacity
      /\ b.elements = e
  BY <1>2, <1>3, <1>4, <1>5 DEF ArrayObj
<1>7. \A i \in 1..r.capacity : i \in 1..a.capacity \/ i \in (a.capacity + 1)..r.capacity
  BY <1>1, <1>4
<1>8. \A i \in (n + 1)..r.capacity :
        i \in 1..r.capacity /\ i # n /\ (i \in 1..a.capacity => i \in (a.count + 1)..a.capacity)
  <2> DEFINE c == r.capacity
             p == a.capacity
             q == a.count
  <2>1. c \in Nat /\ p \in Nat /\ q \in Nat /\ n = q + 1 /\ n \in 1..c
    BY <1>1, <1>4
  <2> HIDE DEF c, p, q
  <2>2. \A i \in (n + 1)..c : i \in 1..c /\ i # n /\ (i \in 1..p => i \in (q + 1)..p)
    BY <2>1
  <2> QED
    BY <2>2 DEF c, p, q
<1>9. InBlock(b)
  <2>1. n =< r.capacity
    BY <1>4
  <2>2. \A i \in (n + 1)..r.capacity : e[i] = makeNil
    BY <1>1, <1>2, <1>5, <1>7, <1>8
  <2> QED
    BY <1>5, <1>6, <2>1, <2>2 DEF InBlock
<1> QED
  BY <1>6, <1>9

\* A read within the bounds finds a value of the array.
LEMMA ArrayRead ==
  ASSUME NEW a \in ArrayObj, InBlock(a), NEW i \in Int, InBounds(a, i)
  PROVE  getArray(a, i) \in Value
<1>1. /\ a.type = "Array" /\ a.count \in Nat /\ a.capacity \in Nat /\ a.count =< a.capacity
      /\ a.elements \in Seq(Value) /\ DOMAIN a.elements = 1..a.capacity
  BY DEF InBlock, ArrayObj
<1>2. i + 1 \in 1..a.capacity
  BY <1>1 DEF InBounds
<1> DEFINE n == i + 1
<1>3. n \in DOMAIN a.elements /\ getArray(a, i) = a.elements[n]
  BY <1>1, <1>2 DEF getArray
<1> HIDE DEF n
<1>4. a.elements[n] \in Value
  BY <1>1, <1>3, ElementOfSeq, LenProperties
<1> QED
  BY <1>3, <1>4

\* Keys are equal or not, whichever comes first.
LEMMA KeysSymmetric ==
  ASSUME NEW chars, NEW k, NEW l, valueKeyEquals(chars, k, l)
  PROVE  valueKeyEquals(chars, l, k)
  BY DEF valueKeyEquals, isString

\* Two keys that equal a third are equal.
LEMMA KeysShared ==
  ASSUME NEW chars, NEW j, NEW k, NEW l, valueKeyEquals(chars, j, l), valueKeyEquals(chars, k, l)
  PROVE  valueKeyEquals(chars, j, k)
  BY DEF valueKeyEquals, isString

\* With fewer strings no two keys become equal.
LEMMA FewerKeysEqual ==
  ASSUME NEW chars, NEW fewer, DOMAIN fewer \subseteq DOMAIN chars, \A o \in DOMAIN fewer : fewer[o] = chars[o],
         NEW k, NEW l, valueKeyEquals(fewer, k, l)
  PROVE  valueKeyEquals(chars, k, l)
  BY DEF valueKeyEquals, isString

\* The entries of a map in its block are its first slots.
LEMMA Entries ==
  ASSUME NEW m \in MapObj, InBlock(m)
  PROVE  /\ m.type = "Map" /\ m.count \in Nat /\ m.capacity \in Nat /\ m.count =< m.capacity
         /\ m.entries \in Seq(Slot) /\ DOMAIN m.entries = 1..m.capacity
         /\ \A i \in 1..m.count : m.entries[i].occupied
         /\ \A i \in (m.count + 1)..m.capacity : m.entries[i] = Blank
         /\ Occupied(m) = 1..m.count /\ Vacant(m) = (m.count + 1)..m.capacity
<1>1. /\ m.type = "Map" /\ m.count \in Nat /\ m.capacity \in Nat /\ m.count =< m.capacity
      /\ m.entries \in Seq(Slot) /\ DOMAIN m.entries = 1..m.capacity
      /\ \A i \in 1..m.capacity : IF i =< m.count THEN m.entries[i].occupied ELSE m.entries[i] = Blank
  BY DEF InBlock, MapObj
<1>2. \A i \in 1..m.count : i \in 1..m.capacity /\ i =< m.count
  BY <1>1
<1>3. \A i \in (m.count + 1)..m.capacity : i \in 1..m.capacity /\ ~(i =< m.count)
  BY <1>1
<1>4. \A i \in 1..m.capacity : i \in 1..m.count \/ i \in (m.count + 1)..m.capacity
  BY <1>1
<1>5. /\ \A i \in 1..m.count : m.entries[i].occupied
      /\ \A i \in (m.count + 1)..m.capacity : m.entries[i] = Blank
  BY <1>1, <1>2, <1>3
<1>6. Occupied(m) = 1..m.count
  BY <1>2, <1>4, <1>5 DEF Occupied, Blank
<1>7. Vacant(m) = (m.count + 1)..m.capacity
  BY <1>1, <1>6 DEF Vacant
<1> QED
  BY <1>1, <1>5, <1>6, <1>7

\* The two writes of mapSet.
ValuePut(m, i, v)    == [m EXCEPT !.entries[i].value = v]
EntryPut(m, i, k, v) == [m EXCEPT !.entries[i] = Entry(k, v), !.count = @ + 1]

\* A map with other entries.
Updated(m, e, n) == [m EXCEPT !.entries = e, !.count = n]

LEMMA MapUpdated ==
  ASSUME NEW m \in MapObj, NEW e \in Seq(Slot), NEW n \in Nat
  PROVE  /\ Updated(m, e, n) \in MapObj /\ Updated(m, e, n).type = "Map"
         /\ Updated(m, e, n).count = n /\ Updated(m, e, n).capacity = m.capacity
         /\ Updated(m, e, n).entries = e
  BY DEF MapObj, Updated

\* A write to the entry that has the key replaces its value.
LEMMA ValueReplaced ==
  ASSUME NEW chars, NEW m \in MapObj, InBlock(m), KeysApart(chars, m),
         NEW i \in 1..m.count, NEW v \in Value, NEW b, b = ValuePut(m, i, v)
  PROVE  b \in MapObj /\ InBlock(b) /\ KeysApart(chars, b)
<1> DEFINE y == m.entries[i]
           x == [y EXCEPT !.value = v]
           e == [m.entries EXCEPT ![i] = x]
<1>1. /\ m.count \in Nat /\ m.capacity \in Nat /\ m.count =< m.capacity
      /\ m.entries \in Seq(Slot) /\ DOMAIN m.entries = 1..m.capacity
      /\ \A j \in 1..m.count : m.entries[j].occupied
      /\ \A j \in (m.count + 1)..m.capacity : m.entries[j] = Blank
      /\ Occupied(m) = 1..m.count
  BY Entries
<1>2. i \in 1..m.capacity /\ y \in Slot
  BY <1>1
<1>3. b = Updated(m, e, m.count)
  <2>1. b = [m EXCEPT !.entries = e]
    BY DEF ValuePut
  <2> HIDE DEF e
  <2>2. [m EXCEPT !.entries = e] = [m EXCEPT !.entries = e, !.count = m.count]
    BY DEF MapObj
  <2> QED
    BY <2>1, <2>2 DEF Updated
<1> HIDE DEF y
<1>4. x \in Slot /\ x.occupied = y.occupied /\ x.key = y.key /\ x.value = v
  BY <1>2 DEF Slot
<1> HIDE DEF x
<1>5. /\ e \in Seq(Slot) /\ DOMAIN e = 1..m.capacity
      /\ \A j \in 1..m.capacity : e[j] = IF j = i THEN x ELSE m.entries[j]
  BY <1>1, <1>2, <1>4, ExceptSeq, LenProperties
<1> HIDE DEF e
<1>6. b \in MapObj /\ b.type = "Map" /\ b.count = m.count /\ b.capacity = m.capacity /\ b.entries = e
  <2>1. e \in Seq(Slot) /\ m.count \in Nat
    BY <1>1, <1>5
  <2>2. /\ Updated(m, e, m.count) \in MapObj /\ Updated(m, e, m.count).type = "Map"
        /\ Updated(m, e, m.count).count = m.count /\ Updated(m, e, m.count).capacity = m.capacity
        /\ Updated(m, e, m.count).entries = e
    BY <2>1, MapUpdated
  <2> QED
    BY <1>3, <2>2
<1>7. \A j \in 1..m.capacity : /\ e[j].occupied = m.entries[j].occupied
                               /\ e[j].key = m.entries[j].key
                               /\ e[j].value \in {m.entries[j].value, v}
  BY <1>4, <1>5 DEF y
<1>8. \A j \in 1..m.capacity : ~(j =< m.count) => j # i /\ j \in (m.count + 1)..m.capacity
  BY <1>1
<1>9. InBlock(b)
  <2>1. \A j \in 1..m.capacity : IF j =< m.count THEN e[j].occupied ELSE e[j] = Blank
    <3>1. \A j \in 1..m.capacity : j =< m.count => j \in 1..m.count
      BY <1>1
    <3> QED
      BY <1>1, <1>5, <1>7, <1>8, <3>1
  <2> QED
    BY <1>1, <1>5, <1>6, <2>1 DEF InBlock
<1>10. KeysApart(chars, b)
  <2>1. Occupied(b) = 1..m.count
    <3>1. Occupied(b) = 1..b.count
      BY <1>6, <1>9, Entries
    <3> QED
      BY <1>6, <3>1
  <2>2. \A j \in 1..m.count : j \in 1..m.capacity
    BY <1>1
  <2> QED
    BY <1>1, <1>6, <1>7, <2>1, <2>2 DEF KeysApart
<1> QED
  BY <1>6, <1>9, <1>10

\* A key that no entry has takes the slot behind the entries.
LEMMA KeyEntered ==
  ASSUME NEW chars, NEW m \in MapObj, InBlock(m), KeysApart(chars, m), m.count < m.capacity,
         NEW k \in Value, Hits(chars, m, k) = {}, NEW v \in Value, NEW n, n = m.count + 1,
         NEW b, b = EntryPut(m, n, k, v)
  PROVE  b \in MapObj /\ InBlock(b) /\ KeysApart(chars, b)
<1> DEFINE x == Entry(k, v)
           e == [m.entries EXCEPT ![n] = x]
<1>1. /\ m.count \in Nat /\ m.capacity \in Nat /\ m.count =< m.capacity
      /\ m.entries \in Seq(Slot) /\ DOMAIN m.entries = 1..m.capacity
      /\ \A j \in 1..m.count : m.entries[j].occupied
      /\ \A j \in (m.count + 1)..m.capacity : m.entries[j] = Blank
      /\ Occupied(m) = 1..m.count
  BY Entries
<1>2. n \in Nat /\ n \in 1..m.capacity /\ n =< m.capacity
  BY <1>1
<1>3. b = Updated(m, e, n)
  BY DEF EntryPut, Updated
<1>4. x \in Slot /\ x.occupied /\ x.key = k /\ x.value = v
  BY DEF Entry, Slot
<1> HIDE DEF x
<1>5. /\ e \in Seq(Slot) /\ DOMAIN e = 1..m.capacity
      /\ \A j \in 1..m.capacity : e[j] = IF j = n THEN x ELSE m.entries[j]
  BY <1>1, <1>2, <1>4, ExceptSeq, LenProperties
<1> HIDE DEF e
<1>6. b \in MapObj /\ b.type = "Map" /\ b.count = n /\ b.capacity = m.capacity /\ b.entries = e
  BY <1>2, <1>3, <1>5, MapUpdated
<1>7. /\ \A j \in 1..n : j = n \/ (j # n /\ j \in 1..m.count /\ j \in 1..m.capacity)
      /\ \A j \in 1..m.capacity : j =< n => j \in 1..n
      /\ \A j \in 1..m.capacity : ~(j =< n) => j # n /\ j \in (m.count + 1)..m.capacity
  <2> DEFINE c == m.capacity
             p == m.count
  <2>1. c \in Nat /\ p \in Nat /\ n = p + 1 /\ n \in 1..c
    BY <1>1, <1>2
  <2> HIDE DEF c, p
  <2>2. /\ \A j \in 1..n : j = n \/ (j # n /\ j \in 1..p /\ j \in 1..c)
        /\ \A j \in 1..c : j =< n => j \in 1..n
        /\ \A j \in 1..c : ~(j =< n) => j # n /\ j \in (p + 1)..c
    BY <2>1
  <2> QED
    BY <2>2 DEF c, p
<1>8. e[n] = x /\ \A j \in 1..m.count : j \in 1..m.capacity => e[j] = IF j = n THEN x ELSE m.entries[j]
  BY <1>2, <1>5
<1>9. InBlock(b)
  <2>1. \A j \in 1..m.capacity : IF j =< n THEN e[j].occupied ELSE e[j] = Blank
    <3>1. \A j \in 1..n : e[j].occupied
      BY <1>1, <1>4, <1>7, <1>8
    <3> QED
      BY <1>1, <1>5, <1>7, <3>1
  <2> QED
    BY <1>2, <1>5, <1>6, <2>1 DEF InBlock
<1>10. KeysApart(chars, b)
  <2>1. Occupied(b) = 1..n
    <3>1. Occupied(b) = 1..b.count
      BY <1>6, <1>9, Entries
    <3> QED
      BY <1>6, <3>1
  <2>2. \A j \in 1..m.count : ~valueKeyEquals(chars, m.entries[j].key, k)
    BY <1>1 DEF Hits
  <2>3. \A j \in 1..m.count : ~valueKeyEquals(chars, k, m.entries[j].key)
    BY <2>2, KeysSymmetric
  <2>4. \A j \in 1..m.count : j \in 1..m.capacity /\ j # n => e[j] = m.entries[j]
    BY <1>8
  <2>5. \A j, l \in 1..m.count : valueKeyEquals(chars, m.entries[j].key, m.entries[l].key) => j = l
    BY <1>1 DEF KeysApart
  <2>6. ASSUME NEW j \in 1..n, NEW l \in 1..n, valueKeyEquals(chars, e[j].key, e[l].key)
        PROVE  j = l
    <3>1. CASE j # n /\ l # n
      BY <1>7, <2>4, <2>5, <2>6, <3>1
    <3>2. CASE j # n /\ l = n
      BY <1>4, <1>7, <1>8, <2>2, <2>4, <2>6, <3>2
    <3>3. CASE j = n /\ l # n
      BY <1>4, <1>7, <1>8, <2>3, <2>4, <2>6, <3>3
    <3> QED
      BY <3>1, <3>2, <3>3
  <2> QED
    BY <1>6, <2>1, <2>6 DEF KeysApart
<1> QED
  BY <1>6, <1>9, <1>10

\* A write keeps the map, whether it grows first, finds the key or enters it.
LEMMA MapWritten ==
  ASSUME NEW chars, NEW m \in MapObj, InBlock(m), KeysApart(chars, m), 2 * m.count < Uint32,
         NEW k \in Value, NEW v \in Value, NEW b, b = mapSet(chars, m, k, v)
  PROVE  /\ b \in MapObj /\ InBlock(b) /\ KeysApart(chars, b)
<1> DEFINE r == Roomy(m)
<1>1. /\ m.count \in Nat /\ m.capacity \in Nat /\ m.count =< m.capacity
      /\ DOMAIN m.entries = 1..m.capacity
      /\ \A j \in 1..m.count : m.entries[j].occupied
      /\ \A j \in (m.count + 1)..m.capacity : m.entries[j] = Blank
      /\ Occupied(m) = 1..m.count
  BY Entries
<1>2. /\ r \in MapObj
      /\ r.count = m.count /\ r.count < r.capacity /\ r.capacity >= m.capacity
      /\ DOMAIN r.entries = 1..r.capacity
      /\ \A j \in 1..m.count : r.entries[j] = m.entries[j] /\ r.entries[j].occupied
      /\ \A j \in (m.count + 1)..r.capacity : r.entries[j] = Blank
  BY <1>1, RoomyIs
<1>3. b = IF Hits(chars, r, k) # {} THEN ValuePut(r, Least(Hits(chars, r, k)), v)
          ELSE IF Vacant(r) = {} THEN r
          ELSE EntryPut(r, Least(Vacant(r)), k, v)
  BY DEF mapSet, Roomy, ValuePut, EntryPut
<1> HIDE DEF r
<1>4. r.type = "Map" /\ r.count \in Nat /\ r.capacity \in Nat
  BY <1>2 DEF MapObj
<1>5. \A j \in 1..r.capacity :
        \/ j \in 1..m.count /\ j =< m.count
        \/ j \in (m.count + 1)..r.capacity /\ ~(j =< m.count)
  <2> DEFINE c == r.capacity
             p == m.count
  <2>1. c \in Nat /\ p \in Nat
    BY <1>1, <1>4
  <2> HIDE DEF c, p
  <2>2. \A j \in 1..c : \/ j \in 1..p /\ j =< p
                        \/ j \in (p + 1)..c /\ ~(j =< p)
    BY <2>1
  <2> QED
    BY <2>2 DEF c, p
<1>6. InBlock(r)
  BY <1>2, <1>4, <1>5 DEF InBlock
<1>7. /\ Occupied(r) = 1..m.count /\ Vacant(r) = (m.count + 1)..r.capacity
  BY <1>2, <1>6, Entries
<1>8. KeysApart(chars, r)
  BY <1>1, <1>2, <1>7 DEF KeysApart
<1>9. CASE Hits(chars, r, k) # {}
  <2> DEFINE S == Hits(chars, r, k)
             i == Least(S)
  <2>1. S # {} /\ S \subseteq 1..r.count
    BY <1>2, <1>7, <1>9 DEF Hits
  <2>2. i \in S
    <3>1. PICK j : j \in S
      BY <2>1
    <3>2. ASSUME NEW l \in S
          PROVE  l = j
      <4>1. /\ l \in Occupied(r) /\ j \in Occupied(r)
            /\ valueKeyEquals(chars, r.entries[l].key, k) /\ valueKeyEquals(chars, r.entries[j].key, k)
        BY <3>1, <3>2 DEF Hits
      <4>2. valueKeyEquals(chars, r.entries[l].key, r.entries[j].key)
        BY <4>1, KeysShared
      <4> QED
        BY <1>8, <4>1, <4>2 DEF KeysApart
    <3>3. S = {j} /\ j \in Int
      BY <1>1, <1>2, <2>1, <3>1, <3>2
    <3> HIDE DEF S
    <3>4. Least({j}) = j
      BY <3>3 DEF Least
    <3> QED
      BY <3>3, <3>4
  <2>3. b = ValuePut(r, i, v) /\ i \in 1..r.count
    BY <1>3, <1>9, <2>1, <2>2
  <2> HIDE DEF i, S
  <2>4. b \in MapObj /\ InBlock(b) /\ KeysApart(chars, b)
    BY <1>2, <1>6, <1>8, <2>3, ValueReplaced
  <2> QED
    BY <2>4
<1>10. CASE Hits(chars, r, k) = {}
  <2> DEFINE n == r.count + 1
  <2>1. n \in Vacant(r) /\ \A j \in Vacant(r) : n =< j
    BY <1>1, <1>2, <1>4, <1>7
  <2>2. Least(Vacant(r)) = n
    <3>1. \A j \in Vacant(r) : j \in Int
      BY <1>1, <1>4, <1>7
    <3> QED
      BY <2>1, <3>1 DEF Least
  <2>3. b = EntryPut(r, n, k, v)
    BY <1>3, <1>10, <2>1, <2>2
  <2>4. /\ r \in MapObj /\ InBlock(r) /\ KeysApart(chars, r) /\ n = r.count + 1 /\ r.count < r.capacity
        /\ Hits(chars, r, k) = {}
    BY <1>2, <1>6, <1>8, <1>10
  <2> HIDE DEF n
  <2>5. b \in MapObj /\ InBlock(b) /\ KeysApart(chars, b)
    BY <2>3, <2>4, KeyEntered
  <2> QED
    BY <2>5
<1> QED
  BY <1>9, <1>10

\* A fresh container has nothing in it.
LEMMA FreshContainers ==
  ASSUME NEW c \in Nat
  PROVE  /\ allocateArray(c) \in ArrayObj /\ InBlock(allocateArray(c))
         /\ allocateMap(c) \in MapObj /\ InBlock(allocateMap(c))
         /\ \A chars : KeysApart(chars, allocateMap(c))
<1> DEFINE d == IF c < MinCapacity THEN MinCapacity ELSE c
           e == [i \in 1..c |-> makeNil]
           t == [i \in 1..d |-> Blank]
           a == allocateArray(c)
           m == allocateMap(c)
<1>1. d \in Nat
  BY CapacityAssumption
<1>2. a = [type |-> "Array", capacity |-> c, count |-> 0, elements |-> e]
  BY DEF allocateArray, Resized
<1>3. m = [type |-> "Map", capacity |-> d, count |-> 0, entries |-> t]
  BY DEF allocateMap, Resized
<1>4. makeNil \in Value /\ Blank \in Slot /\ ~Blank.occupied
  BY MadeValues DEF Blank, Slot
<1>5. e \in Seq(Value) /\ t \in Seq(Slot)
  <2> HIDE DEF d
  <2>1. e \in [1..c -> Value] /\ t \in [1..d -> Slot]
    BY <1>4
  <2> HIDE DEF e, t
  <2> QED
    BY <1>1, <2>1, SeqDef
<1> HIDE DEF d, a, m
<1>6. a \in ArrayObj /\ m \in MapObj
  <2> HIDE DEF e, t
  <2> QED
    BY <1>1, <1>2, <1>3, <1>5 DEF ArrayObj, MapObj
<1>7. InBlock(a)
  BY <1>2 DEF InBlock
<1>8. InBlock(m)
  BY <1>1, <1>3 DEF InBlock
<1>9. Occupied(m) = {}
  BY <1>3, <1>4 DEF Occupied
<1>10. \A chars : KeysApart(chars, m)
  BY <1>9 DEF KeysApart
<1> QED
  BY <1>6, <1>7, <1>8, <1>10 DEF a, m
================================================================================
