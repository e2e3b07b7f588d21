------------------------------- MODULE NikiBuilt -------------------------------
(***************************************************************************)
(* The builder on one unit after the other, and what it leaves for the     *)
(* stages behind it: whatever the tree is, an IR that was built without a  *)
(* diagnostic passes the verifier and keeps the promises lowering rests on.*)
(***************************************************************************)
EXTENDS NikiBuilder, NikiPromise

CONSTANTS
  Tree,   \* the nodes of the syntax trees, NoNode among them
  Unit    \* the units: [name, decls, frees, visible]

\* What the parser makes: children are nodes, names are names, and a literal is
\* one of the values.
Typed(n) ==
  /\ n.node = "LiteralExpr" /\ n.type \in DOMAIN LiteralKind =>
       lowerImmediateToValue(Operand(LiteralKind[n.type], n.value)) \in Value
  /\ n.node = "IdentifierExpr" => n.name \in NameId
  /\ n.node \in {"BinaryExpr", "LogicalExpr"} => {n.left, n.right} \subseteq Tree
  /\ n.node = "UnaryExpr"      => n.operand \in Tree
  /\ n.node = "CallExpr"       => n.callee \in Tree /\ n.args \in Seq(Tree)
  /\ n.node = "ArrayExpr"      => n.elements \in Seq(Tree)
  /\ n.node = "MapExpr"        => {n.keys, n.values} \subseteq Seq(Tree)
  /\ n.node = "IndexExpr"      => {n.target, n.index} \subseteq Tree
  /\ n.node = "MemberExpr"     => n.object \in Tree
  /\ n.node = "ExpressionStmt" => n.expression \in Tree
  /\ n.node = "VarDeclStmt"    => n.init \in Tree
  /\ n.node = "AssignmentStmt" => n.value \in Tree
  /\ n.node = "BlockStmt"      => n.stmts \in Seq(Tree)
  /\ n.node = "IfStmt"         => {n.cond, n.then, n.else} \subseteq Tree
  /\ n.node = "LoopStmt"       => {n.cond, n.body} \subseteq Tree
  /\ n.node = "ReturnStmt"     => n.expression \in Tree
  /\ n.node = "FunctionDecl"   => n.name \in NameId /\ n.params \in Seq(NameId \X Tree) /\ n.body \in Tree
  /\ n.node = "ModuleDecl"     => n.decls \in Seq(Tree)
  /\ n.node = "ExportDecl"     => n.wrapped \in Tree
  /\ n.node = "KitsDecl"       => n.members \in Seq(Range(n.members))

ASSUME TreeAssumption ==
  /\ NoNode \in Tree
  /\ \A n \in Tree : Typed(n)
  /\ \A u \in Unit : u.decls \in Seq(Tree)

BuildNext ==
  \/ todo = <<>> /\ \E u \in Unit : build(u, u.frees, u.visible)
  \/ step

BuildSpec == Idle /\ [][BuildNext]_builderVars

Built == todo = <<>> /\ errors = {}

\* What was built without a diagnostic the verifier does not refuse: every block
\* has been filled and ends in its only jump, every break has found its loop, and
\* no operand is out of range.  The builder never asks the checker for this.
BuiltVerifies == Built => verifyModuleIRFlat(ModuleIR) = {}

\* And what the verifier does not look at, and lowering rests on, is there.
BuiltAsPromised == Built => Promised(ModuleIR)

\* The windows of a unit share one table: each begins where the one before it
\* ends, the last ends with the table, and the domain's checks of a window, which
\* nothing registers, would pass.  (A kits that is refused leaves items behind.)
WindowEnd(m, k) == IF k = 0 THEN 0 ELSE m.kits[k].first + m.kits[k].count

Adjoin(m) ==
  /\ \A k \in DOMAIN m.kits : m.kits[k].first = WindowEnd(m, k - 1) /\ KitsIssues(m, m.kits[k]) = {}
  /\ WindowEnd(m, Len(m.kits)) = Len(m.kits_items)

WindowsAdjoin == errors = {} => Adjoin(meta)

\* The symbols alone tell what a module exports (ir/readme.md, "syms"), wherever a
\* list of exports stands, before or after what it names, and however often a name
\* is declared: functions and structs always, all else if its name was exported.
\* Every function and every window has its symbol, and no two symbols are of one
\* name and kind.
IsSymbol(s, name, kind) == s.name = name /\ s.kind = kind

Has(m, name, kind) == \E k \in DOMAIN m.syms : IsSymbol(m.syms[k], name, kind)

Tell(m, functions) ==
  /\ \A j, k \in DOMAIN m.syms : IsSymbol(m.syms[j], m.syms[k].name, m.syms[k].kind) => j = k
  /\ \A k \in DOMAIN m.syms :
       LET s == m.syms[k]
       IN  s.exported <=> s.name \in m.exported \/ s.kind = "Struct" \/ (s.kind = "Func" /\ s.name \in functions)
  /\ \A name \in functions : Has(m, name, "Func")
  /\ \A k \in DOMAIN m.kits : Has(m, m.kits[k].name, "Kits")

FuncNames == {funcs[f].name : f \in DOMAIN funcs}

SymbolsTell == errors = {} => Tell(meta, FuncNames)

-----------------------------------------------------------------------------
(***************************************************************************)
(* The inductive invariant: the call stack s, of a function with registers *)
(* regs and blocks blks.                                                   *)
(***************************************************************************)
DeclStep == {"Decl", "EndModule", "Exported"}
ExprStep == {"Expr", "Element", "Pair", "Deliver"}
StmtStep == {"Stmt", "VarDecl", "Assign", "Loop"}
\* Whatever the current block ends in, it may go on here,
EitherWay == {"InBlock", "LeaveBlock", "JumpOn", "EndFunc"}
\* here only if it is not terminated,
Running   == ExprStep \cup StmtStep \cup {"Frees", "Leave", "Param"}
\* and here only if it is.
Switching == {"Arm", "Switch", "ExitLoop"}

\* What a call can have been called by.
Callers(step_) ==
  CASE step_ \in {"Expr", "Deliver"} -> ExprStep \cup StmtStep
    [] step_ \in {"Element", "Pair"} -> {"Element", "Pair", "Deliver"}
    [] step_ \in StmtStep \cup {"InBlock", "LeaveBlock", "Switch", "ExitLoop"} -> EitherWay
    [] step_ = "Frees" -> {"Frees", "Leave"} \cup EitherWay
    [] step_ = "Leave" -> EitherWay \cup DeclStep
    [] step_ \in {"JumpOn", "Arm"} -> Switching
    [] step_ = "Param" -> {"Param", "Stmt"}
    [] OTHER -> DeclStep

\* The last to return leaves a terminated block, or none.
Outermost == {"Leave", "EndFunc"} \cup DeclStep

\* The blocks a call will go on in.
Targets(f) ==
  CASE f.step \in Switching -> {f.arg[1]}
    [] f.step = "Loop" -> {f.arg[1] + 1, f.arg[1] + 2}
    [] OTHER -> {}

FrameOK(f, regs, blks) ==
  /\ f = [step |-> f.step, node |-> f.node, arg |-> f.arg, got |-> f.got]
  /\ f.node \in Tree
  /\ IF f.step \in DeclStep THEN f.got = <<>> ELSE f.got \in Seq(regs)
  /\ f.step \in {"Element", "Pair", "Deliver", "VarDecl", "Assign"} => f.arg[1] \in regs
  /\ f.step = "Leave" => f.arg \in Seq(regs)
  /\ f.step = "Element" => f.node.node = "ArrayExpr" /\ f.arg[2] \in DOMAIN f.node.elements
  /\ f.step = "Pair"    => f.node.node = "MapExpr" /\ f.arg[2] \in DOMAIN f.node.keys
                             /\ Len(f.node.keys) = Len(f.node.values)
  /\ f.step = "VarDecl" => f.node.node = "VarDeclStmt"
  /\ f.step = "Assign"  => f.node.node = "AssignmentStmt"
  /\ f.step = "Loop"    => f.node.node = "LoopStmt"
  /\ f.step = "JumpOn"  => f.arg[1] \in blks
  /\ f.step = "Arm"     => f.arg[2] \in blks
  /\ \A t \in Targets(f) : t \in blks

Stack(s, regs, blks) ==
  /\ s \in Seq(Range(s))
  /\ \A k \in DOMAIN s :
       /\ FrameOK(s[k], regs, blks)
       /\ IF k = Len(s) THEN s[k].step \in Outermost ELSE s[k + 1].step \in Callers(s[k].step)
  /\ \A j, k \in DOMAIN s : j < k =>
       /\ Targets(s[j]) \cap Targets(s[k]) = {}
       /\ s[j].step \in DeclStep => s[k].step \in DeclStep

AllTargets(s) == UNION {Targets(s[k]) : k \in DOMAIN s}

\* The registers of variables whose value is being built.
Awaited(s) == {s[k].arg[1] : k \in {k \in DOMAIN s : s[k].step = "VarDecl"}}

\* The condition of a loop is built in the block that was made for it.
Conditions(s, c) ==
  \A k \in DOMAIN s : s[k].step = "Loop" =>
    /\ c = s[k].arg[1]
    /\ \A j \in 1..(k - 1) : s[j].step \in ExprStep

\* The n open loops are those whose exit is still to come, the inner ones first.
IsLoop(f) == f.step \in {"Loop", "ExitLoop"}

Nesting(s, n) ==
  /\ \A k \in DOMAIN s : IsLoop(s[k]) => s[k].arg[2] \in 1..n
  /\ \A l \in 1..n : \E k \in DOMAIN s : IsLoop(s[k]) /\ s[k].arg[2] = l
  /\ \A j, k \in DOMAIN s : j < k /\ IsLoop(s[j]) /\ IsLoop(s[k]) => s[k].arg[2] < s[j].arg[2]

\* A break of an open loop has no target yet.
LoopRecord == [continue_target : Nat, breaks : SUBSET Nat]

OpenLoops(ls, code_, blks) ==
  /\ ls \in Seq(LoopRecord)
  /\ \A l \in DOMAIN ls :
       /\ ls[l].continue_target \in blks
       /\ \A k \in ls[l].breaks : k \in DOMAIN code_ /\ code_[k] = JumpToBlock(Unset)
  /\ \A l, m \in DOMAIN ls : l # m => ls[l].breaks \cap ls[m].breaks = {}

Pending(ls) == UNION {ls[l].breaks : l \in DOMAIN ls}

-----------------------------------------------------------------------------
(***************************************************************************)
(* The inductive invariant: the tables ir, the function in its block c.    *)
(***************************************************************************)
BlockRecord == [begin : Nat \cup {Unset}, count : Nat]
FuncRecord  == [name : NameId, first : Nat, count : Nat, next_vreg : Nat, arity : Nat]

RegsOf(func)   == 0..(func.next_vreg - 1)
BlocksOf(func) == 0..(func.count - 1)

LastFunc(ir) == ir.funcs[Len(ir.funcs)]

\* The blocks of a function follow those of the functions before it.
Spans(ir) ==
  /\ ir.insts \in Seq(Range(ir.insts)) /\ ir.blocks \in Seq(BlockRecord) /\ ir.funcs \in Seq(FuncRecord)
  /\ \A f \in DOMAIN ir.funcs :
       /\ ir.funcs[f].arity =< ir.funcs[f].next_vreg
       /\ f < Len(ir.funcs) => ir.funcs[f].first + ir.funcs[f].count =< LastFunc(ir).first
       /\ ir.funcs[f].count > 0
  /\ ir.funcs # <<>> => LastFunc(ir).first + LastFunc(ir).count = Len(ir.blocks)

\* Where a block ends, and where it must not.
EndOf(block) == block.begin + block.count

Whole(ir, block) == block # EmptyBlock /\ ir.insts[EndOf(block)].kind \in Terminators

\* A block is empty, or a span of instructions of which the last alone may be a
\* terminator.
Straight(ir) ==
  \A b \in DOMAIN ir.blocks : ir.blocks[b] # EmptyBlock =>
    /\ ir.blocks[b].begin \in Nat /\ ir.blocks[b].count > 0 /\ EndOf(ir.blocks[b]) =< Len(ir.insts)
    /\ \A k \in InstsOf(ir.blocks[b]) : ir.insts[k].kind \in Terminators => k = EndOf(ir.blocks[b])

\* The blocks that wait, T, are empty; the current one may still grow; all others
\* are finished.
Finished(ir, T, c) ==
  /\ \A f \in DOMAIN ir.funcs : f < Len(ir.funcs) =>
       \A n \in 1..ir.funcs[f].count : Whole(ir, BlockOf(ir, ir.funcs[f], n))
  /\ ir.funcs # <<>> =>
       /\ c \in BlocksOf(LastFunc(ir)) \ T
       /\ LET block == BlockOf(ir, LastFunc(ir), c + 1) IN block # EmptyBlock => EndOf(block) = Len(ir.insts)
       /\ \A n \in BlocksOf(LastFunc(ir)) \ {c} :
            LET block == BlockOf(ir, LastFunc(ir), n + 1)
            IN  IF n \in T THEN block = EmptyBlock ELSE Whole(ir, block)

\* An instruction does what the builder promises and refers to what there is, but
\* for the breaks of an open loop.
InstOK(func, n, i, open_) ==
  /\ PromisedInst(func, n, i)
  /\ i.kind = "Free" => i.dst.kind = "VReg"
  /\ \A slot \in SlotsOfInst(i) :
       /\ slot.kind = "VReg" => slot.value \in RegsOf(func)
       /\ slot.kind = "BlockId" => slot.value \in BlocksOf(func) \/ (slot.value = Unset /\ open_)

Sound(ir, pending) ==
  \A f \in DOMAIN ir.funcs : \A n \in 1..ir.funcs[f].count : \A k \in InstsOf(BlockOf(ir, ir.funcs[f], n)) :
    InstOK(ir.funcs[f], n, ir.insts[k], f = Len(ir.funcs) /\ k \in pending)

Names(ir, func, r) ==
  \E n \in 1..func.count : \E k \in InstsOf(BlockOf(ir, func, n)) : VReg(r) \in NamedBy(ir.insts[k])

NoneUnused(ir, awaited) ==
  \A f \in DOMAIN ir.funcs : \A r \in ir.funcs[f].arity..(ir.funcs[f].next_vreg - 1) :
    Names(ir, ir.funcs[f], r) \/ (f = Len(ir.funcs) /\ r \in awaited)

Tables(ir, T, c, pending, awaited) ==
  /\ Spans(ir) /\ Straight(ir)
  /\ Finished(ir, T, c) /\ Sound(ir, pending) /\ NoneUnused(ir, awaited)

\* How the current block may end, by what is done next.
CurrentOf(ir, c) == BlockOf(ir, LastFunc(ir), c + 1)

Position(ir, s, c) ==
  IF s = <<>> \/ s[1].step \in DeclStep
    THEN ir.funcs # <<>> => Whole(ir, CurrentOf(ir, c))
    ELSE /\ ir.funcs # <<>>
         /\ s[1].step \in Running   => ~Whole(ir, CurrentOf(ir, c))
         /\ s[1].step \in Switching => Whole(ir, CurrentOf(ir, c))
         /\ s[1].step = "Param" => LastFunc(ir).next_vreg = LastFunc(ir).arity

-----------------------------------------------------------------------------
Going(ir, s, c, ls) ==
  LET regs == RegsOf(LastFunc(ir))
      blks == BlocksOf(LastFunc(ir))
  IN  /\ Stack(s, regs, blks) /\ Conditions(s, c)
      /\ Nesting(s, Len(ls)) /\ OpenLoops(ls, ir.insts, blks)
      /\ Position(ir, s, c)
      /\ Tables(ir, AllTargets(s), c, Pending(ls), Awaited(s))

Context(ir, declared, opened, named) ==
  /\ declared \in Tree
  /\ opened \in Seq(Tree)
  /\ \A n \in DOMAIN named : named[n] \in RegsOf(LastFunc(ir))

\* While no error was reported.
BuildInv == errors = {} => Going(ModuleIR, todo, cur, loops) /\ Context(ModuleIR, decl, open, locals)
================================================================================
