------------------------------- MODULE MCNikiVM --------------------------------
(***************************************************************************)
(* NikiVM on small programs of two kinds.  Calls: an init chunk defines    *)
(* main and f, main calls f with one argument and a live local, and f is   *)
(* every code of at most MaxBody instructions over a small set that can    *)
(* call, recurse, branch, loop, fail and overwrite every register it may   *)
(* name.  Operands: straight-line and branching code over every pair of    *)
(* values of every type, which shows what several opcodes make of one      *)
(* value together; the two operands are its constants.                     *)
(***************************************************************************)
EXTENDS NikiVMContract, SequencesExt, TLC

CONSTANTS boot, main, f, s, h, m, MaxBody

MCFunc    == {boot, main, f}
MCScript  == {boot}
MCStruct  == {s}
MCHeap    == {h}
MCModule  == {m}
MCNameId  == 0..1
MCFloat   == -1..1

I(op, a, b, c, d) == [op |-> op, a |-> a, b |-> b, c |-> c, d |-> d]

Fn(arity, slots, name, constants, code) ==
  [arity |-> arity, max_registers |-> slots, name_id |-> name, module_id |-> m,
   constants |-> constants, code |-> code]

BootImage ==
  Fn(0, 1, 0, <<makeObject(main), makeObject(f)>>,
     <<I("DEFINE_GLOBAL", 0, 0, 0, 0), I("DEFINE_GLOBAL", 1, 0, 0, 0),
       I("RETURN", 0, 0, 0, 0)>>)

\* func main() { var x = 1; return x + f(x); }
MainImage ==
  Fn(0, 4, 0, <<makeInt(1), makeInt(1)>>,
     <<I("LOAD_CONST", 0, 0, 0, 0), I("GET_GLOBAL", 1, 1, 0, 0), I("MOVE", 2, 0, 0, 0),
       I("CALL", 3, 1, 2, 1), I("IADD", 0, 0, 3, 0), I("RETURN", 0, 0, 0, 0)>>)

Body ==
  {I("GET_GLOBAL", 1, 0, 0, 0),  \* r1 := f
   I("GET_GLOBAL", 1, 1, 0, 0),  \* r1 := main
   I("LOAD_CONST", 2, 1, 0, 0),  \* r2 := 0
   I("MOVE", 0, 2, 0, 0),
   I("CALL", 2, 1, 0, 1),        \* r2 := r1(r0), too many for main; the windows are one
   I("CALL", 0, 1, 2, 1),        \* r0 := r1(r2)
   I("CALL", 2, 1, 0, 0),        \* r2 := r1(), too few arguments for f
   I("JZ", 2, 1, 0, 0),
   I("LOOP", 2, 0, 0, 0),
   I("RETURN", 0, 0, 0, 0)}

CallPrograms ==
  {[goal |-> "calls", struct_name |-> s :> 0,
    func |-> boot :> BootImage @@ main :> MainImage
             @@ f :> Fn(1, 3, 1, <<makeInt(1), makeInt(0)>>, code)] : code \in BoundedSeq(Body, MaxBody)}

-----------------------------------------------------------------------------
Load   == <<I("LOAD_CONST", 0, 0, 0, 0), I("LOAD_CONST", 1, 1, 0, 0)>>
Return == <<I("RETURN", 0, 0, 0, 0)>>

\* One opcode on the two operands.
OneOp(op) == Load \o <<I(op, 0, 0, 1, 0)>> \o Return

\* (r0 / r1) * r1 + r0 % r1
DivMod ==
  Load \o <<I("IDIV", 2, 0, 1, 0), I("IMOD", 3, 0, 1, 0), I("IMUL", 2, 2, 1, 0), I("IADD", 0, 2, 3, 0)>>
       \o Return

\* r := whether the opcode takes r0 for true.
TruthSite == {"JZ", "JNZ", "NOT", "AND", "OR"}

Truth(site, r) ==
  CASE site = "JZ"  -> <<I("FALSE", r, 0, 0, 0), I("JZ", 0, 1, 0, 0), I("TRUE", r, 0, 0, 0)>>
    [] site = "JNZ" -> <<I("TRUE", r, 0, 0, 0), I("JNZ", 0, 1, 0, 0), I("FALSE", r, 0, 0, 0)>>
    [] site = "NOT" -> <<I("NOT", r, 0, 0, 0), I("NOT", r, r, 0, 0)>>
    [] OTHER        -> <<I(site, r, 0, 0, 0)>>

\* Do two opcodes agree on r0: both true or both false?
Agree(sites) ==
  <<I("LOAD_CONST", 0, 0, 0, 0)>> \o Truth(sites[1], 1) \o Truth(sites[2], 2)
    \o <<I("AND", 3, 1, 2, 0), I("OR", 4, 1, 2, 0), I("NOT", 4, 4, 0, 0), I("OR", 0, 3, 4, 0)>> \o Return

\* Is one of <, > and == true?
Ordered(lt, gt, eq) ==
  Load \o <<I(lt, 2, 0, 1, 0), I(gt, 3, 0, 1, 0), I(eq, 4, 0, 1, 0), I("OR", 2, 2, 3, 0), I("OR", 0, 2, 4, 0)>>
       \o Return

\* Define the object v under name 0, write w to name 0, read name 0.
DefineSetGet ==
  <<I("DEFINE_GLOBAL", 0, 0, 0, 0), I("LOAD_CONST", 0, 1, 0, 0), I("SET_GLOBAL", 0, 2, 0, 0),
    I("GET_GLOBAL", 0, 2, 0, 0)>> \o Return

\* Write v to name 0 and read it, or read an index or a name that is not there.
SetGet(name) == <<I("LOAD_CONST", 0, 0, 0, 0), I("SET_GLOBAL", 0, name, 0, 0), I("GET_GLOBAL", 0, name, 0, 0)>> \o Return

\* A jump of every kind that leaves the code or reaches its very end.
Astray ==
  {<<I(op, 0, 0, 0, 0)>> : op \in {"RETURN", "JMP"}}
    \cup {<<I("JMP", n, 0, 0, 0)>> \o Return : n \in 0..3}
    \cup {<<I("LOOP", n, 0, 0, 0)>> : n \in {2, 3}}
    \cup {<<I("LOAD_CONST", 0, 0, 0, 0), I(op, 0, n, 0, 0)>> \o Return : op \in {"JZ", "JNZ"}, n \in 0..3}
    \cup {<<I(op, 0, 7, 0, 0)>> \o Return : op \in {"LOAD_CONST", "GET_GLOBAL", "SET_GLOBAL"}}
    \cup {<<I("DEFINE_GLOBAL", 7, 0, 0, 0)>>, <<I("GET_GLOBAL", 0, 2, 0, 0)>>}

\* Whichever function the host starts, it is the code in question.
OperandPrograms ==
  LET One(goal, code, v, w) ==
        [goal |-> goal, struct_name |-> s :> 0,
         func |-> [fn \in MCFunc |-> Fn(0, 5, 0, <<v, w, makeInt(0)>>, code)]]
  IN  {One("op", OneOp(op), v, w) : op \in BinaryOp \cup UnaryOp \cup {"UNKNOWN"}, v \in Value, w \in Value}
        \cup {One("divmod", DivMod, v, w) : v \in Value, w \in Value}
        \cup {One("order", Ordered("ILT", "IGT", "IEQ"), v, w) : v \in AnyInt, w \in AnyInt}
        \cup {One("order", Ordered("FLT", "FGT", "FEQ"), makeFloat(x), makeFloat(y)) :
                x \in Float, y \in Float}
        \cup {One("global", DefineSetGet, makeObject(o), w) : o \in Obj, w \in Value}
        \cup {One("", SetGet(n), v, makeNil) : n \in {2, 7}, v \in Value}
        \cup {One("", code, v, makeNil) : code \in Astray, v \in Value}

TruthPrograms ==
  {[goal |-> "truth", struct_name |-> s :> 0, sites |-> sites,
    func |-> [fn \in MCFunc |-> Fn(0, 5, 0, <<v>>, Agree(sites))]] :
      sites \in TruthSite \X TruthSite, v \in Value}

MCProgram == CallPrograms \cup OperandPrograms \cup TruthPrograms

-----------------------------------------------------------------------------
Operand(k) == Image(boot).constants[k]

\* IDIV and IMOD fit together for every dividend and divisor they accept, of
\* either sign: quotient times divisor plus remainder is the dividend.  (The
\* smallest word by -1 has no defined quotient.)
DivModAgree ==
  prog.goal = "divmod" /\ status = "ok" =>
    result = Operand(1) \/ (Operand(1) = makeInt(IntMin) /\ Operand(2) = makeInt(-1))

\* The five opcodes that ask whether a value is true agree, two by two, on a value
\* of every type, but for one: a float (zero, too) or an object is true to OP_JZ,
\* OP_JNZ and OP_NOT, and false to OP_AND and OP_OR.
TruthSitesAgree ==
  prog.goal = "truth" /\ status = "ok" =>
    LET logic == {"AND", "OR"}
        alike == prog.sites[1] \in logic <=> prog.sites[2] \in logic
    IN  result = makeBool(alike \/ Operand(1).type \notin {"Float", "Object"})

\* Of two numbers one of <, > and == holds, unless one of them is a NaN.
ComparisonsTotal ==
  prog.goal = "order" /\ status = "ok" =>
    result = makeBool(makeFloat(NaN) \notin {Operand(1), Operand(2)})

\* What was last written under a name is what it reads as, whether by
\* OP_DEFINE_GLOBAL or OP_SET_GLOBAL, except that a function hides a struct of
\* its name even if that was written later: there are two tables.
GlobalReadsBack ==
  prog.goal = "global" /\ status = "ok" =>
    result = IF isStructDef(Operand(2)) /\ isFunction(Operand(1)) THEN Operand(1) ELSE Operand(2)
=============================================================================
