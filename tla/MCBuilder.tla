------------------------------- MODULE MCBuilder -------------------------------
(***************************************************************************)
(* NikiBuilt on functions f(x) whose body is one of the trees that nest    *)
(* blocks, branches and loops around every simple statement, whether the   *)
(* checker would let it through or not; on one function for every kind of  *)
(* expression, with and without what the builder refuses; and on units of  *)
(* every kind of declaration.                                              *)
(***************************************************************************)
EXTENDS NikiBuilt

CONSTANT text   \* a string object

MCNameId == 0..9

\* Names.
Nf == 1   Nx == 2   Ny == 3   Ng == 4   Ns == 5   Na == 6   Nb == 7

IntType == TypeExpr("Int")
Id(n)   == IdentifierExpr(n)
N(i)    == LiteralExpr("Int", i)
X == Id(Nx)

-----------------------------------------------------------------------------
\* Statements around statements.
Simple ==
  {AssignmentStmt("=", X, N(1)), VarDeclStmt(Ny, NoNode, ArrayExpr(<<X>>)), ReturnStmt(X),
   BreakStmt, ContinueStmt}

Around(S, T) ==
  {IfStmt(X, s, NoNode) : s \in S} \cup {IfStmt(X, s, t) : s \in S, t \in T}
    \cup {LoopStmt(c, s) : c \in {X, NoNode}, s \in S}
    \cup {BlockStmt(20, <<s, t>>) : s \in S, t \in T}

Nested == Around(Simple, Simple)
Bodies == Simple \cup Nested \cup Around(Nested, {ReturnStmt(NoNode), BreakStmt})

-----------------------------------------------------------------------------
\* Statements with every kind of expression, and those that are refused.
Call(args) == CallExpr(Id(Ng), args)

Exprs ==
  {N(1), LiteralExpr("Bool", 1), LiteralExpr("Float", 0), LiteralExpr("String", text), LiteralExpr("Nil", 0),
   X, Id(Ng), Id(Nb), BinaryExpr("+", X, N(1)), LogicalExpr("&&", X, X), BinaryExpr("|", X, X),
   UnaryExpr("-", X), UnaryExpr("+", X), UnaryExpr("~", X), Call(<<>>), Call(<<X, Call(<<N(1)>>)>>),
   ArrayExpr(<<>>), ArrayExpr(<<X, ArrayExpr(<<X, X>>)>>), MapExpr(<<X, X>>, <<N(1), Call(<<>>)>>),
   MapExpr(<<X>>, <<>>), IndexExpr(X, X), MemberExpr(X, Ny), OpaqueExpr, ArrayExpr(<<X, Id(Nb)>>),
   MapExpr(<<Id(Nb)>>, <<X>>)}

Uses(e) ==
  {ExpressionStmt(e), VarDeclStmt(Na, NoNode, e), AssignmentStmt("+=", X, e), AssignmentStmt("=", X, e),
   ReturnStmt(e), IfStmt(e, OpaqueStmt, NoNode), LoopStmt(e, OpaqueStmt)}

Others ==
  {VarDeclStmt(Na, NoNode, NoNode), AssignmentStmt("=", Id(Ng), X), AssignmentStmt("=", IndexExpr(X, X), X),
   AssignmentStmt("|=", X, X), OpaqueStmt}

Uttered == UNION {Uses(e) : e \in Exprs} \cup Others

FunctionF(body) ==
  FunctionDecl(10, Nf, << <<Nx, IntType>>, <<Nb + 1, IntType>> >>, IntType,
               BlockStmt(11, <<body, AssignmentStmt("=", X, X)>>))

-----------------------------------------------------------------------------
Function0  == FunctionDecl(12, Ng, <<>>, IntType, NoNode)
Component  == ComponentDecl(Ns, NoNode)
Kits(q)    == KitsDecl(Ns, <<KitsMember(TRUE, Ns, Na), KitsMember(FALSE, Ns, q)>>)

DeclLists ==
  {<<Function0, FunctionF(ReturnStmt(X)), Function0>>,
   <<ModuleDecl(8, <<ExportDecl(Function0), StructDecl(Ns, <<>>)>>), ExportDecl(StructDecl(Ns, <<>>))>>,
   <<ExportItems(<< <<Ng, Ng>> >>), Function0, ImportDecl(8, <<>>)>>,
   <<Component, Kits(Nb), SystemDecl(Na, NoNode), FlowDecl(Nb), TagDecl(Nf), OpaqueDecl>>,
   <<ExportDecl(OpaqueDecl), TypeAliasDecl(Na, IntType), PromotedDecl(Ns, Na)>>,
   <<ExportDecl(Kits(Na)), Function0>>, <<OpaqueStmt, Function0>>,
   <<ExportItems(<< <<Ns, Ns>>, <<Ng, Ng>> >>), Component, Kits(Nb), SystemDecl(Ng, NoNode), Kits(Nb)>>,
   <<SystemDecl(Ng, NoNode), Component, Kits(Nb), ExportDecl(Function0), Kits(Nb),
     ExportItems(<< <<Ns, Ns>> >>), StructDecl(Ns, <<>>)>>}

\* The checker leaves names to free, also of variables that are not declared.
Frees == 10 :> <<Nx>> @@ 11 :> <<Ny, Na>> @@ 20 :> <<Ny>>

Units ==
  {[name |-> 9, decls |-> d, frees |-> Frees, visible |-> Ng :> "Function"]
     : d \in {<<FunctionF(s)>> : s \in Bodies \cup Uttered} \cup DeclLists}

-----------------------------------------------------------------------------
\* The children of a node.
Children(n) ==
  CASE n.node \in {"BinaryExpr", "LogicalExpr"} -> {n.left, n.right}
    [] n.node = "UnaryExpr"      -> {n.operand}
    [] n.node = "CallExpr"       -> {n.callee} \cup ToSet(n.args)
    [] n.node = "ArrayExpr"      -> ToSet(n.elements)
    [] n.node = "MapExpr"        -> ToSet(n.keys) \cup ToSet(n.values)
    [] n.node = "IndexExpr"      -> {n.target, n.index}
    [] n.node = "MemberExpr"     -> {n.object}
    [] n.node \in {"ExpressionStmt", "ReturnStmt"} -> {n.expression}
    [] n.node = "VarDeclStmt"    -> {n.init}
    [] n.node = "AssignmentStmt" -> {n.value}
    [] n.node = "BlockStmt"      -> ToSet(n.stmts)
    [] n.node = "IfStmt"         -> {n.cond, n.then, n.else}
    [] n.node = "LoopStmt"       -> {n.cond, n.body}
    [] n.node = "FunctionDecl"   -> {n.body, IntType}
    [] n.node = "ModuleDecl"     -> ToSet(n.decls)
    [] n.node = "ExportDecl"     -> {n.wrapped}
    [] OTHER -> {}

\* A set of nodes with their children.  No tree here is deeper than eight.
Grown(S) == UNION {{n} \cup Children(n) : n \in S}

Tops == UNION {ToSet(u.decls) : u \in Units}

\* (The filter has TLC list the set once and for all.)
Nodes == {n \in {NoNode, IntType} \cup Grown(Grown(Grown(Grown(Grown(Grown(Grown(Grown(Tops)))))))) : TRUE}

MCUnit == Units
MCTree == Nodes
================================================================================
