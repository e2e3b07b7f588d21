----------------------------- MODULE NikiBuilder ------------------------------
(***************************************************************************)
(* The IR builder (class IRBuilder): a unit's tree becomes a flat table of *)
(* instructions, cut into basic blocks, cut into functions.                *)
(*                                                                         *)
(* The code recurses over the tree.  todo is its call stack, the innermost *)
(* call first.  A frame is [step, node, arg, got]: what is to be done with *)
(* a node, the blocks, registers or names the call has settled before, and *)
(* the registers of the operands that are built.                           *)
(***************************************************************************)
EXTENDS NikiAst, NikiIR, SequencesExt

VARIABLES
  insts, blocks, funcs,   \* the tables of the code
  meta,                   \* the rest of the module: symbols, kits, components
  cur,                    \* the block the function is in
  locals,                 \* the register of each of its names
  open,                   \* its blocks that are open, the innermost last
  loops,                  \* its loops that are open, the innermost last
  decl,                   \* its declaration
  todo,
  errors,                 \* what was reported: the unit is thrown away then
  env                     \* frees: what the type checker left, block or function
                          \* id -> names; visible: the names visible in the unit

code        == <<insts, blocks, funcs>>
context     == <<cur, locals, open, loops, decl>>
builderVars == <<code, context, meta, todo, errors, env>>

\* What the stages behind the builder read.
ModuleIR ==
  [insts |-> insts, blocks |-> blocks, funcs |-> funcs, syms |-> meta.syms,
   kits |-> meta.kits, kits_items |-> meta.kits_items]

Frame(step, node, arg) == [step |-> step, node |-> node, arg |-> arg, got |-> <<>>]

Top == Head(todo)

-----------------------------------------------------------------------------
(***************************************************************************)
(* The call stack.                                                         *)
(***************************************************************************)
\* The expressions a call builds before it does anything else.
Operands(f) ==
  LET n == f.node
      expression(kind) == f.step = "Expr" /\ n.node = kind
      statement(kind)  == f.step = "Stmt" /\ n.node = kind
  IN  CASE expression("BinaryExpr") \/ expression("LogicalExpr") -> <<n.left, n.right>>
        [] expression("UnaryExpr")  -> <<n.operand>>
        [] expression("CallExpr")   -> <<n.callee>> \o n.args
        [] expression("IndexExpr")  -> <<n.target, n.index>>
        [] expression("MemberExpr") -> <<n.object>>
        [] f.step = "Element" -> <<n.elements[f.arg[2]]>>
        [] f.step = "Pair"    -> <<n.keys[f.arg[2]], n.values[f.arg[2]]>>
        [] f.step = "VarDecl" -> <<n.init>>
        [] f.step = "Assign"  -> <<n.value>>
        [] f.step = "Loop" /\ IsValid(n.cond) -> <<n.cond>>
        [] statement("ExpressionStmt") -> <<n.expression>>
        [] statement("IfStmt") -> <<n.cond>>
        [] statement("ReturnStmt") /\ IsValid(n.expression) -> <<n.expression>>
        [] OTHER -> <<>>

\* The innermost call is this one, with its operands built.
Doing(step) == todo # <<>> /\ Top.step = step /\ Len(Top.got) = Len(Operands(Top))
DoingNode(step, kinds) == Doing(step) /\ Top.node.node \in kinds

\* The call goes on as these, or returns.
Continue(calls) == todo' = calls \o Tail(todo)
EndCall == todo' = Tail(todo)

\* It returns a register to its caller.
Yield(r) == todo' = [Tail(todo) EXCEPT ![1].got = Append(@, r)]

\* A false is handed up to the statement or declaration that was being built;
\* what follows that one is built all the same.
Abandoned == {"Expr", "Element", "Pair", "Deliver", "Stmt", "VarDecl", "Assign", "Loop"}

error(what) ==
  /\ errors' = errors \cup {what}
  /\ todo' = LET stays == {k \in 2..Len(todo) : todo[k].step \notin Abandoned}
             IN  SubSeq(todo, Min(stays \cup {Len(todo) + 1}), Len(todo))
  /\ UNCHANGED <<code, context, meta, env>>

-----------------------------------------------------------------------------
(***************************************************************************)
(* The tables.                                                             *)
(***************************************************************************)
Function == Last(funcs)
Current  == Function.first + cur + 1
Fresh    == Function.next_vreg    \* what allocVReg hands out next
NewBlock == Function.count        \* what beginBlock hands out next

EmptyBlock == [begin |-> Unset, count |-> 0]

\* New registers and empty blocks for the function, and instructions for the
\* current block, which begins where its first instruction lands.
emit(fresh, more, is) ==
  /\ insts' = insts \o is
  /\ blocks' = [blocks EXCEPT ![Current] =
                  [begin |-> IF @.begin = Unset /\ is # <<>> THEN Len(insts) ELSE @.begin,
                   count |-> @.count + Len(is)]]
                 \o [k \in 1..more |-> EmptyBlock]
  /\ funcs' = [funcs EXCEPT ![Len(funcs)] =
                 [Function EXCEPT !.next_vreg = Fresh + fresh, !.count = NewBlock + more]]

Inst(kind, dst, a, b, c, aux) == [kind |-> kind, dst |-> dst, a |-> a, b |-> b, c |-> c, aux |-> aux]

MoveRegToReg(dst, src)        == Inst("Move", VReg(dst), VReg(src), Invalid, Invalid, 0)
Constant(dst, value)          == Inst("Constant", VReg(dst), value, Invalid, Invalid, 0)
UnaryReg(kind, dst, a)        == Inst(kind, VReg(dst), VReg(a), Invalid, Invalid, 0)
BinaryReg(kind, dst, a, b)    == Inst(kind, VReg(dst), VReg(a), VReg(b), Invalid, 0)
JumpToBlock(target)           == Inst("Jump", Invalid, Block(target), Invalid, Invalid, 0)
\* Mutant: the block a branch is in is taken for the first of the new ones.
BranchToItself(cond, yes, no) == Inst("Branch", Invalid, VReg(cond), Block(yes - 1), Block(no), 0)

BranchOnReg(cond, yes, no)    == Inst("Branch", Invalid, VReg(cond), Block(yes), Block(no), 0)
FreeReg(r)                    == Inst("Free", VReg(r), Invalid, Invalid, Invalid, 0)
ReturnValue(value)            == Inst("Return", Invalid, value, Invalid, Invalid, 0)

isCurrentBlockTerminated ==
  LET block == blocks[Current]
  IN  block.count > 0 /\ insts[block.begin + block.count].kind \in Terminators

bind(name, r) == locals' = [n \in DOMAIN locals \cup {name} |-> IF n = name THEN r ELSE locals[n]]

\* The value of an expression, in the last of some fresh registers.
Result(fresh, is) ==
  /\ emit(fresh, 0, is)
  /\ Yield(Fresh + fresh - 1)
  /\ UNCHANGED <<context, meta, errors, env>>

-----------------------------------------------------------------------------
(***************************************************************************)
(* Expressions.                                                            *)
(***************************************************************************)
BinaryInst ==
  [op \in {"+", "-", "*", "/", "%", "dice", "==", "!=", "<", "<=", ">", ">=", "&&", "||"} |->
     CASE op = "+"  -> "Add"   [] op = "-"  -> "Sub"   [] op = "*"  -> "Mul"
       [] op = "/"  -> "Div"   [] op = "%"  -> "Mod"   [] op = "dice" -> "Dice"
       [] op = "==" -> "CmpEq" [] op = "!=" -> "CmpNe" [] op = "<"  -> "CmpLt"
       [] op = "<=" -> "CmpLe" [] op = ">"  -> "CmpGt" [] op = ">=" -> "CmpGe"
       [] op = "&&" -> "LogicAnd" [] op = "||" -> "LogicOr"]

UnaryInst ==
  [op \in {"+", "-", "!"} |-> CASE op = "+" -> "Move" [] op = "-" -> "Neg" [] op = "!" -> "LogicNot"]

LiteralKind == [t \in {"Int", "Float", "Bool", "String"} |->
  CASE t = "Int" -> "ImmI64" [] t = "Float" -> "ImmF64Bits" [] t = "Bool" -> "ImmBool"
    [] t = "String" -> "StringId"]

buildOperand ==
  /\ todo # <<>> /\ Len(Top.got) < Len(Operands(Top))
  /\ todo' = <<Frame("Expr", Operands(Top)[Len(Top.got) + 1], <<>>)>> \o todo
  /\ UNCHANGED <<code, context, meta, errors, env>>

buildLiteral ==
  LET n == Top.node IN
  /\ DoingNode("Expr", {"LiteralExpr"})
  /\ \/ /\ n.type \in DOMAIN LiteralKind
        /\ Result(1, <<Constant(Fresh, Operand(LiteralKind[n.type], n.value))>>)
     \/ n.type \notin DOMAIN LiteralKind /\ error("unsupported literal")

\* A variable is its own register; any other visible name is a global.
buildIdentifier ==
  LET name == Top.node.name IN
  /\ DoingNode("Expr", {"IdentifierExpr"})
  /\ \/ /\ name \in DOMAIN locals
        /\ Yield(locals[name])
        /\ UNCHANGED <<code, context, meta, errors, env>>
     \/ /\ name \in DOMAIN env.visible \ DOMAIN locals
        /\ Result(1, <<Inst("LoadGlobal", VReg(Fresh), Operand("ImmI64", name), Invalid, Invalid, 0)>>)
     \/ name \notin DOMAIN env.visible \cup DOMAIN locals /\ error("unresolved identifier")

buildBinary ==
  LET op == Top.node.op IN
  /\ DoingNode("Expr", {"BinaryExpr", "LogicalExpr"})
  /\ \/ op \in DOMAIN BinaryInst /\ Result(1, <<BinaryReg(BinaryInst[op], Fresh, Top.got[1], Top.got[2])>>)
     \/ op \notin DOMAIN BinaryInst /\ error("unsupported binary operator")

buildUnary ==
  LET op == Top.node.op IN
  /\ DoingNode("Expr", {"UnaryExpr"})
  /\ \/ op \in DOMAIN UnaryInst /\ Result(1, <<UnaryReg(UnaryInst[op], Fresh, Top.got[1])>>)
     \/ op \notin DOMAIN UnaryInst /\ error("unsupported unary operator")

\* Callee and arguments are wherever they are; the arguments are moved to fresh
\* consecutive slots, and the result gets a register after the slots.
buildCall ==
  LET n    == Len(Top.got) - 1
      slot == IF n = 0 THEN Invalid ELSE VReg(Fresh)
  IN
  /\ DoingNode("Expr", {"CallExpr"})
  /\ Result(n + 1, [k \in 1..n |-> MoveRegToReg(Fresh + k - 1, Top.got[k + 1])]
                     \o <<Inst("Call", VReg(Fresh + n), VReg(Top.got[1]), slot, Invalid, n)>>)

\* A container is created first and filled element by element.
buildContainer(kind, size, fill) ==
  /\ emit(1, 0, <<Inst(kind, VReg(Fresh), Invalid, Invalid, Invalid, size)>>)
  /\ Continue(Append([k \in 1..size |-> Frame(fill, Top.node, <<Fresh, k>>)],
                     Frame("Deliver", Top.node, <<Fresh>>)))
  /\ UNCHANGED <<context, meta, errors, env>>

buildArray == DoingNode("Expr", {"ArrayExpr"}) /\ buildContainer("NewArray", Len(Top.node.elements), "Element")

buildMap ==
  LET n == Top.node IN
  /\ DoingNode("Expr", {"MapExpr"})
  /\ \/ Len(n.keys) = Len(n.values) /\ buildContainer("NewMap", Len(n.keys), "Pair")
     \/ Len(n.keys) # Len(n.values) /\ error("keys/values size mismatch")

\* An instruction without result ends a call.
Effect(is) == emit(0, 0, is) /\ EndCall /\ UNCHANGED <<context, meta, errors, env>>

pushElement ==
  /\ Doing("Element")
  /\ Effect(<<Inst("PushArray", Invalid, VReg(Top.arg[1]), VReg(Top.got[1]), Invalid, 0)>>)

setPair ==
  /\ Doing("Pair")
  /\ Effect(<<Inst("SetMap", Invalid, VReg(Top.arg[1]), VReg(Top.got[1]), VReg(Top.got[2]), 0)>>)

deliver == Doing("Deliver") /\ Yield(Top.arg[1]) /\ UNCHANGED <<code, context, meta, errors, env>>

buildIndex ==
  /\ DoingNode("Expr", {"IndexExpr"})
  /\ Result(1, <<BinaryReg("GetIndex", Fresh, Top.got[1], Top.got[2])>>)

buildMember ==
  /\ DoingNode("Expr", {"MemberExpr"})
  /\ Result(1, <<Inst("GetMember", VReg(Fresh), VReg(Top.got[1]), Operand("StringId", Top.node.field),
                      Invalid, 0)>>)

ExprNode == {"LiteralExpr", "IdentifierExpr", "BinaryExpr", "LogicalExpr", "UnaryExpr", "CallExpr",
             "ArrayExpr", "MapExpr", "IndexExpr", "MemberExpr"}

unsupportedExpr == Doing("Expr") /\ Top.node.node \notin ExprNode /\ error("unsupported expression")

buildExpr ==
  \/ buildOperand \/ buildLiteral \/ buildIdentifier \/ buildBinary \/ buildUnary
  \/ buildCall \/ buildArray \/ pushElement \/ buildMap \/ setPair \/ deliver
  \/ buildIndex \/ buildMember \/ unsupportedExpr

-----------------------------------------------------------------------------
(***************************************************************************)
(* Statements.                                                             *)
(***************************************************************************)
CompoundInst ==
  [op \in {"+=", "-=", "*=", "/=", "%="} |->
     CASE op = "+=" -> "Add" [] op = "-=" -> "Sub" [] op = "*=" -> "Mul"
       [] op = "/=" -> "Div" [] op = "%=" -> "Mod"]

\* The name is bound before its initializer is built.
declareVar ==
  LET n == Top.node IN
  /\ DoingNode("Stmt", {"VarDeclStmt"})
  /\ bind(n.name, Fresh)
  /\ \/ IsValid(n.init) /\ emit(1, 0, <<>>) /\ Continue(<<Frame("VarDecl", n, <<Fresh>>)>>)
     \/ ~IsValid(n.init) /\ emit(1, 0, <<Constant(Fresh, Invalid)>>) /\ EndCall
  /\ UNCHANGED <<cur, open, loops, decl, meta, errors, env>>

initVar == Doing("VarDecl") /\ Effect(<<MoveRegToReg(Top.arg[1], Top.got[1])>>)

\* Only a local can be assigned to.
resolveTarget ==
  LET target == Top.node.target
      known  == target.node = "IdentifierExpr" /\ target.name \in DOMAIN locals
  IN
  /\ DoingNode("Stmt", {"AssignmentStmt"})
  /\ \/ /\ known
        /\ Continue(<<Frame("Assign", Top.node, <<locals[target.name]>>)>>)
        /\ UNCHANGED <<code, context, meta, errors, env>>
     \/ ~known /\ error("assignment to what is no local")

assign ==
  LET op     == Top.node.op
      target == Top.arg[1]
  IN
  /\ Doing("Assign")
  /\ \/ op = "=" /\ Effect(<<MoveRegToReg(target, Top.got[1])>>)
     \/ /\ op \in DOMAIN CompoundInst
        /\ emit(1, 0, <<BinaryReg(CompoundInst[op], Fresh, target, Top.got[1]), MoveRegToReg(target, Fresh)>>)
        /\ EndCall
        /\ UNCHANGED <<context, meta, errors, env>>
     \/ op \notin DOMAIN CompoundInst \cup {"="} /\ error("unsupported compound assignment")

-----------------------------------------------------------------------------
\* What follows a terminator in a block is dropped.
openBlock ==
  LET n == Top.node IN
  /\ DoingNode("Stmt", {"BlockStmt"})
  /\ open' = Append(open, n)
  /\ Continue(Append([k \in DOMAIN n.stmts |-> Frame("InBlock", n.stmts[k], <<>>)],
                     Frame("LeaveBlock", n, <<>>)))
  /\ UNCHANGED <<code, cur, locals, loops, decl, meta, errors, env>>

\* Mutant: what follows a terminator is built as well.
NeverDropped ==
  /\ Doing("InBlock")
  /\ Continue(<<Frame("Stmt", Top.node, <<>>)>>)
  /\ UNCHANGED <<code, context, meta, errors, env>>

nextInBlock ==
  /\ Doing("InBlock")
  /\ Continue(IF isCurrentBlockTerminated THEN <<>> ELSE <<Frame("Stmt", Top.node, <<>>)>>)
  /\ UNCHANGED <<code, context, meta, errors, env>>

\* The names the checker left for a block or a function.
NamesToFree(n) == IF n.id \in DOMAIN env.frees THEN env.frees[n.id] ELSE <<>>

FreesOf(n) == Frame("Frees", n, NamesToFree(n))

\* A scope left by its end frees its names; left by a jump or a return, not.
closeBlock ==
  /\ Doing("LeaveBlock")
  /\ open' = Front(open)
  /\ Continue(IF isCurrentBlockTerminated THEN <<>> ELSE <<FreesOf(Top.node)>>)
  /\ UNCHANGED <<code, cur, locals, loops, decl, meta, errors, env>>

\* Names are freed in their registers, which are looked up in the one table of
\* locals, whatever block declared them.
freeNext ==
  LET name == Top.arg[1] IN
  /\ Doing("Frees")
  /\ \/ /\ Top.arg # <<>>
        /\ emit(0, 0, IF name \in DOMAIN locals THEN <<FreeReg(locals[name])>> ELSE <<>>)
        /\ Continue(<<[Top EXCEPT !.arg = Tail(@)]>>)
     \/ Top.arg = <<>> /\ EndCall /\ UNCHANGED code
  /\ UNCHANGED <<context, meta, errors, env>>

\* Mutant: a return leaves the innermost block and the function only.
FreeInnermost ==
  /\ DoingNode("Stmt", {"ReturnStmt"})
  /\ Continue(<<FreesOf(Last(open)), FreesOf(decl), Frame("Leave", Top.node, Top.got)>>)
  /\ UNCHANGED <<code, context, meta, errors, env>>

\* Before a return: every open block, innermost first, then the function.
buildReturn ==
  /\ DoingNode("Stmt", {"ReturnStmt"})
  /\ Continue([k \in 1..Len(open) |-> FreesOf(open[Len(open) + 1 - k])]
                \o <<FreesOf(decl), Frame("Leave", Top.node, Top.got)>>)
  /\ UNCHANGED <<code, context, meta, errors, env>>

leave == Doing("Leave") /\ Effect(<<ReturnValue(IF Top.arg = <<>> THEN Invalid ELSE VReg(Top.arg[1]))>>)

-----------------------------------------------------------------------------
\* Mutant: a condition that does not hold leads past the else.
PastTheElse ==
  LET n    == Top.node
      then == NewBlock
      join == then + 1
  IN
  /\ DoingNode("Stmt", {"IfStmt"})
  /\ emit(0, IF IsValid(n.else) THEN 3 ELSE 2, <<BranchOnReg(Top.got[1], then, join)>>)
  /\ Continue(<<Frame("Arm", n.then, <<then, join>>)>>
                \o (IF IsValid(n.else) THEN <<Frame("Arm", n.else, <<join + 1, join>>)>> ELSE <<>>)
                \o <<Frame("Switch", n, <<join>>)>>)
  /\ UNCHANGED <<context, meta, errors, env>>

\* Three blocks, then, join and else, or the first two.
buildIf ==
  LET n    == Top.node
      then == NewBlock
      join == then + 1
      else == IF IsValid(n.else) THEN then + 2 ELSE join
  IN
  /\ DoingNode("Stmt", {"IfStmt"})
  /\ emit(0, IF IsValid(n.else) THEN 3 ELSE 2, <<BranchOnReg(Top.got[1], then, else)>>)
  /\ Continue(<<Frame("Arm", n.then, <<then, join>>)>>
                \o (IF IsValid(n.else) THEN <<Frame("Arm", n.else, <<else, join>>)>> ELSE <<>>)
                \o <<Frame("Switch", n, <<join>>)>>)
  /\ UNCHANGED <<context, meta, errors, env>>

\* A statement in a block of its own, up to where it goes on.
enterArm ==
  /\ Doing("Arm")
  /\ cur' = Top.arg[1]
  /\ Continue(<<Frame("Stmt", Top.node, <<>>), Frame("JumpOn", Top.node, <<Top.arg[2]>>)>>)
  /\ UNCHANGED <<code, locals, open, loops, decl, meta, errors, env>>

jumpOn ==
  /\ Doing("JumpOn")
  /\ Effect(IF isCurrentBlockTerminated THEN <<>> ELSE <<JumpToBlock(Top.arg[1])>>)

switchBlock ==
  /\ Doing("Switch")
  /\ cur' = Top.arg[1]
  /\ EndCall
  /\ UNCHANGED <<code, locals, open, loops, decl, meta, errors, env>>

\* Three blocks: head, body and exit.
enterLoop ==
  LET head == NewBlock IN
  /\ DoingNode("Stmt", {"LoopStmt"})
  /\ emit(0, 3, <<JumpToBlock(head)>>)
  /\ loops' = Append(loops, [continue_target |-> head, breaks |-> {}])
  /\ cur' = head
  /\ Continue(<<Frame("Loop", Top.node, <<head, Len(loops) + 1>>)>>)
  /\ UNCHANGED <<locals, open, decl, meta, errors, env>>

\* A loop without condition goes straight to its body.
testLoop ==
  LET head == Top.arg[1]
      body == head + 1
      exit == head + 2
  IN
  /\ Doing("Loop")
  /\ emit(0, 0, <<IF IsValid(Top.node.cond) THEN BranchOnReg(Top.got[1], body, exit) ELSE JumpToBlock(body)>>)
  /\ Continue(<<Frame("Arm", Top.node.body, <<body, head>>), Frame("ExitLoop", Top.node, <<exit, Top.arg[2]>>)>>)
  /\ UNCHANGED <<context, meta, errors, env>>

\* The breaks of the loop get their target.
exitLoop ==
  LET exit == Top.arg[1] IN
  /\ Doing("ExitLoop")
  /\ insts' = [k \in DOMAIN insts |-> IF k \in Last(loops).breaks THEN [insts[k] EXCEPT !.a = Block(exit)]
                                                                  ELSE insts[k]]
  /\ loops' = Front(loops)
  /\ cur' = exit
  /\ EndCall
  /\ UNCHANGED <<blocks, funcs, locals, open, decl, meta, errors, env>>

\* break and continue jump out of the blocks they are in, and only that.
buildBreak ==
  /\ DoingNode("Stmt", {"BreakStmt"})
  /\ \/ /\ loops # <<>>
        /\ emit(0, 0, <<JumpToBlock(Unset)>>)
        /\ loops' = [loops EXCEPT ![Len(loops)].breaks = @ \cup {Len(insts) + 1}]
        /\ EndCall
        /\ UNCHANGED <<cur, locals, open, decl, meta, errors, env>>
     \/ loops = <<>> /\ error("break outside a loop")

buildContinue ==
  /\ DoingNode("Stmt", {"ContinueStmt"})
  /\ \/ loops # <<>> /\ Effect(<<JumpToBlock(Last(loops).continue_target)>>)
     \/ loops = <<>> /\ error("continue outside a loop")

\* The value of an expression statement is dropped; a statement of any other kind
\* builds nothing and is no error.
StmtNode == {"BlockStmt", "VarDeclStmt", "AssignmentStmt", "IfStmt", "LoopStmt", "BreakStmt",
             "ContinueStmt", "ReturnStmt"}

skipStmt ==
  Doing("Stmt") /\ Top.node.node \notin StmtNode /\ EndCall /\ UNCHANGED <<code, context, meta, errors, env>>

buildStmt ==
  \/ declareVar \/ initVar \/ resolveTarget \/ assign
  \/ openBlock \/ nextInBlock \/ closeBlock \/ freeNext \/ buildReturn \/ leave
  \/ buildIf \/ enterArm \/ jumpOn \/ switchBlock \/ enterLoop \/ testLoop \/ exitLoop
  \/ buildBreak \/ buildContinue \/ skipStmt

-----------------------------------------------------------------------------
(***************************************************************************)
(* Declarations, and those of the domain (src/l1_domain/ir.cpp), whose     *)
(* windows share one table of items.                                       *)
(***************************************************************************)
Decls(decls) == [k \in DOMAIN decls |-> Frame("Decl", decls[k], <<>>)]

\* Mutant: a list of exports says nothing of what is declared after it.
UpsertUnasked(m, name, kind, exported) ==
  LET at == {k \in DOMAIN m.syms : m.syms[k].name = name /\ m.syms[k].kind = kind}
      symbol(was) == [name |-> name, kind |-> kind, owner |-> m.module, exported |-> was \/ exported]
  IN  IF at = {} THEN [m EXCEPT !.syms = Append(@, symbol(FALSE))]
                 ELSE [m EXCEPT !.syms[Min(at)] = symbol(@.exported)]

\* One symbol per name and kind; exported once is exported for good.
upsertSymbol(m, name, kind, exported) ==
  LET at == {k \in DOMAIN m.syms : m.syms[k].name = name /\ m.syms[k].kind = kind}
      symbol(was) == [name |-> name, kind |-> kind, owner |-> m.module,
                      exported |-> was \/ exported \/ name \in m.exported]
  IN  IF at = {} THEN [m EXCEPT !.syms = Append(@, symbol(FALSE))]
                 ELSE [m EXCEPT !.syms[Min(at)] = symbol(@.exported)]

markExported(m, names) ==
  LET marked(s) == [s EXCEPT !.exported = @ \/ s.name \in names]
  IN  [m EXCEPT !.exported = @ \cup names, !.syms = [k \in DOMAIN @ |-> marked(@[k])]]

\* A function begins with an entry block and nothing else.
beginFunc ==
  LET d == Top.node IN
  /\ DoingNode("Decl", {"FunctionDecl"})
  /\ meta' = upsertSymbol(meta, d.name, "Func", TRUE)
  /\ funcs' = Append(funcs, [name |-> d.name, first |-> Len(blocks), count |-> 1,
                             next_vreg |-> 0, arity |-> 0])
  /\ blocks' = Append(blocks, EmptyBlock)
  /\ cur' = 0 /\ locals' = <<>> /\ open' = <<>> /\ loops' = <<>> /\ decl' = d
  /\ Continue([k \in DOMAIN d.params |-> Frame("Param", d, <<d.params[k][1]>>)]
                \o <<Frame("Stmt", d.body, <<>>), Frame("EndFunc", d, <<>>)>>)
  /\ UNCHANGED <<insts, errors, env>>

\* Parameters take the first registers, and are what arity counts.
bindParameter ==
  /\ Doing("Param")
  /\ funcs' = [funcs EXCEPT ![Len(funcs)] = [Function EXCEPT !.next_vreg = @ + 1, !.arity = @ + 1]]
  /\ bind(Top.arg[1], Fresh)
  /\ EndCall
  /\ UNCHANGED <<insts, blocks, cur, open, loops, decl, meta, errors, env>>

\* A body that falls off its end frees the function's names, returning nothing.
endFunc ==
  /\ Doing("EndFunc")
  /\ Continue(IF isCurrentBlockTerminated THEN <<>> ELSE <<FreesOf(decl), Frame("Leave", decl, <<>>)>>)
  /\ UNCHANGED <<code, context, meta, errors, env>>

Aliases(d) == {d.members[k].alias : k \in DOMAIN d.members}

\* Mutant: every window begins with the table.
KitsFromStart(m, d) ==
  [m EXCEPT !.kits_items = @ \o d.members,
            !.kits = Append(@, [name |-> d.name, owner |-> m.module, first |-> 0,
                                count |-> Len(d.members)])]

buildKitsDecl(m, d) ==
  [m EXCEPT !.kits_items = @ \o d.members,
            !.kits = Append(@, [name |-> d.name, owner |-> m.module, first |-> Len(m.kits_items),
                                count |-> Len(d.members)])]

\* Its source is a name: that there is such a struct was for the checker to say.
buildComponentDecl(m, d) ==
  [m EXCEPT !.components = Append(@, [name |-> d.name, owner |-> m.module, promoted |-> d.promoted])]

\* What becomes of the module by a declaration that holds no code.
buildOtherDecl(m, d) ==
  CASE d.node = "StructDecl"    -> upsertSymbol(m, d.name, "Struct", TRUE)
    [] d.node = "ComponentDecl" -> buildComponentDecl(upsertSymbol(m, d.name, "Component", FALSE), d)
    [] d.node = "KitsDecl"      -> buildKitsDecl(upsertSymbol(m, d.name, "Kits", FALSE), d)
    [] d.node \in {"SystemDecl", "FlowDecl"} -> upsertSymbol(m, d.name, "Func", FALSE)
    [] d.node = "TagDecl"       -> upsertSymbol(m, d.name, "External", FALSE)
    [] d.node = "ExportDecl"    -> markExported(m, {d.items[k][1] : k \in DOMAIN d.items})
    [] OTHER -> m

buildTopDecl ==
  LET d == Top.node
      refused == CASE d.node = "KitsDecl" -> Cardinality(Aliases(d)) < Len(d.members)
                   [] OTHER -> d.node \notin DeclNode
  IN
  /\ Doing("Decl")
  /\ d.node \notin {"FunctionDecl", "ModuleDecl"} /\ ~(d.node = "ExportDecl" /\ IsValid(d.wrapped))
  /\ \/ /\ ~refused
        /\ meta' = buildOtherDecl(meta, d)
        /\ EndCall
        /\ UNCHANGED <<code, context, errors, env>>
     \/ refused /\ error("unexpected declaration")

enterModule ==
  LET d == Top.node IN
  /\ DoingNode("Decl", {"ModuleDecl"})
  /\ meta' = [meta EXCEPT !.module = d.name]
  /\ Continue(Append(Decls(d.decls), Frame("EndModule", d, <<meta.module>>)))
  /\ UNCHANGED <<code, context, errors, env>>

endModule ==
  /\ Doing("EndModule")
  /\ meta' = [meta EXCEPT !.module = Top.arg[1]]
  /\ EndCall
  /\ UNCHANGED <<code, context, errors, env>>

\* What may be exported on the spot as a symbol.
Exportable == {"FunctionDecl", "StructDecl", "ComponentDecl", "KitsDecl", "SystemDecl", "FlowDecl"}

enterExport ==
  LET d == Top.node IN
  /\ DoingNode("Decl", {"ExportDecl"}) /\ IsValid(d.wrapped)
  /\ Continue(<<Frame("Decl", d.wrapped, <<>>), Frame("Exported", d.wrapped, <<>>)>>)
  /\ UNCHANGED <<code, context, meta, errors, env>>

exportWrapped ==
  LET d == Top.node IN
  /\ Doing("Exported")
  /\ meta' = IF d.node \in Exportable THEN markExported(meta, {d.name}) ELSE meta
  /\ EndCall
  /\ UNCHANGED <<code, context, errors, env>>

buildDecl ==
  \/ beginFunc \/ bindParameter \/ endFunc \/ buildTopDecl
  \/ enterModule \/ endModule \/ enterExport \/ exportWrapped

-----------------------------------------------------------------------------
NoMeta(name) ==
  [syms |-> <<>>, exported |-> {}, kits |-> <<>>, kits_items |-> <<>>, components |-> <<>>,
   module |-> name]

\* IRBuilder::build begins with an empty module; it has ended when nothing is left
\* to do.
build(unit, frees, visible) ==
  /\ insts' = <<>> /\ blocks' = <<>> /\ funcs' = <<>> /\ meta' = NoMeta(unit.name)
  /\ cur' = 0 /\ locals' = <<>> /\ open' = <<>> /\ loops' = <<>> /\ decl' = NoNode
  /\ todo' = Decls(unit.decls) /\ errors' = {}
  /\ env' = [frees |-> frees, visible |-> visible]

Idle ==
  /\ insts = <<>> /\ blocks = <<>> /\ funcs = <<>> /\ meta = NoMeta(0)
  /\ cur = 0 /\ locals = <<>> /\ open = <<>> /\ loops = <<>> /\ decl = NoNode
  /\ todo = <<>> /\ errors = {}
  /\ env = [frees |-> <<>>, visible |-> <<>>]

step == buildExpr \/ buildStmt \/ buildDecl
================================================================================
