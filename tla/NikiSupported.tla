----------------------------- MODULE NikiSupported -----------------------------
(***************************************************************************)
(* The forms that the parser and the type checker let through and the back *)
(* end has nothing for, read off the tree alone: the operators on bits and *)
(* the one that joins strings, nil, the read of a member, an assignment to *)
(* anything but a local, a variable without a value, and what the language *)
(* has words for but no meaning.  They count where code is made of them:   *)
(* what stands in a block behind a jump or a return is never looked at.    *)
(*                                                                         *)
(* That a function fills the 256 registers, or a call the 255 arguments,   *)
(* that an instruction has bytes for is refused too, and not said here.    *)
(***************************************************************************)
EXTENDS NikiAst

WithoutCode == {"&", "|", "^", "<<", ">>", ".."}
Compound    == {"=", "+=", "-=", "*=", "/=", "%="}

RECURSIVE SupportedExpr(_)

SupportedAll(es) == \A k \in DOMAIN es : SupportedExpr(es[k])

SupportedExpr(e) ==
  CASE e.node = "LiteralExpr"    -> e.type # "Nil"
    [] e.node = "IdentifierExpr" -> TRUE
    [] e.node \in {"BinaryExpr", "LogicalExpr"} -> e.op \notin WithoutCode /\ SupportedAll(<<e.left, e.right>>)
    [] e.node = "UnaryExpr"      -> e.op # "~" /\ SupportedExpr(e.operand)
    [] e.node = "CallExpr"       -> SupportedAll(<<e.callee>> \o e.args)
    [] e.node = "ArrayExpr"      -> SupportedAll(e.elements)
    [] e.node = "MapExpr"        -> SupportedAll(e.keys \o e.values)
    [] e.node = "IndexExpr"      -> SupportedAll(<<e.target, e.index>>)
    [] OTHER -> FALSE

-----------------------------------------------------------------------------
RECURSIVE Leaves(_), Declared(_), SupportedStmt(_, _)

\* Nothing that follows the statement in its block is reached.
Leaves(s) ==
  CASE s.node \in {"ReturnStmt", "BreakStmt", "ContinueStmt"} -> TRUE
    [] s.node = "BlockStmt" -> \E k \in DOMAIN s.stmts : Leaves(s.stmts[k])
    [] OTHER -> FALSE

Reached(stmts) == {k \in DOMAIN stmts : \A j \in 1..(k - 1) : ~Leaves(stmts[j])}

\* The names a statement declares, in whatever block of it.
Declared(s) ==
  CASE s.node = "VarDeclStmt" -> {s.name}
    [] s.node = "BlockStmt"   -> UNION {Declared(s.stmts[k]) : k \in DOMAIN s.stmts}
    [] s.node = "IfStmt"      -> Declared(s.then) \cup Declared(s.else)
    [] s.node = "LoopStmt"    -> Declared(s.body)
    [] OTHER -> {}

\* own: the names of the function.
SupportedStmt(s, own) ==
  CASE s.node = "ExpressionStmt" -> SupportedExpr(s.expression)
    [] s.node = "AssignmentStmt" ->
         /\ s.target.node = "IdentifierExpr" /\ s.target.name \in own
         /\ s.op \in Compound
         /\ SupportedExpr(s.value)
    [] s.node = "VarDeclStmt" -> IsValid(s.init) /\ SupportedExpr(s.init)
    [] s.node = "BlockStmt"   -> \A k \in Reached(s.stmts) : SupportedStmt(s.stmts[k], own)
    [] s.node = "IfStmt" ->
         /\ SupportedExpr(s.cond)
         /\ \A arm \in {s.then, s.else} : SupportedStmt(arm, own)
    [] s.node = "LoopStmt" ->
         /\ IsValid(s.cond) => SupportedExpr(s.cond)
         /\ SupportedStmt(s.body, own)
    [] s.node = "ReturnStmt" -> IsValid(s.expression) => SupportedExpr(s.expression)
    [] OTHER -> TRUE

\* A function of which the back end makes code.
SupportedFunction(d) ==
  SupportedStmt(d.body, {d.params[k][1] : k \in DOMAIN d.params} \cup Declared(d.body))
================================================================================
