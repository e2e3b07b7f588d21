------------------------------- MODULE NikiAst --------------------------------
(***************************************************************************)
(* The syntax tree (ast_payloads.hpp): one constructor per node type that  *)
(* the checker and the builder treat on its own, and the static types      *)
(* (nktype.hpp).  A node is a value, not an index into a pool; only blocks *)
(* and functions carry an id, the node index under which the type checker  *)
(* leaves the names to free for the builder.  A name stands for its string *)
(* id and an operator for its token.                                       *)
(***************************************************************************)
EXTENDS Naturals, Sequences, SequencesExt

\* An ASTNodeIndex that is not valid: the absent child.
NoNode == [node |-> "none"]
IsValid(n) == n.node /= "none"

-----------------------------------------------------------------------------
\* Expressions.
LiteralExpr(type, value)  == [node |-> "LiteralExpr", type |-> type, value |-> value]
IdentifierExpr(name)      == [node |-> "IdentifierExpr", name |-> name]
BinaryExpr(op, l, r)      == [node |-> "BinaryExpr", op |-> op, left |-> l, right |-> r]
LogicalExpr(op, l, r)     == [node |-> "LogicalExpr", op |-> op, left |-> l, right |-> r]
UnaryExpr(op, x)          == [node |-> "UnaryExpr", op |-> op, operand |-> x]
CallExpr(callee, args)    == [node |-> "CallExpr", callee |-> callee, args |-> args]
ArrayExpr(elements)       == [node |-> "ArrayExpr", elements |-> elements]
MapExpr(keys, values)     == [node |-> "MapExpr", keys |-> keys, values |-> values]
IndexExpr(target, index)  == [node |-> "IndexExpr", target |-> target, index |-> index]
MemberExpr(object, field) == [node |-> "MemberExpr", object |-> object, field |-> field]
TypeExpr(base)            == [node |-> "TypeExpr", base |-> base]

\* Dispatch, await, borrow, wildcard and implicit casts: parsed, never given a
\* meaning by the checker or the builder.
OpaqueExpr                == [node |-> "OpaqueExpr"]

-----------------------------------------------------------------------------
\* Statements.
ExpressionStmt(x)              == [node |-> "ExpressionStmt", expression |-> x]
AssignmentStmt(op, target, x)  == [node |-> "AssignmentStmt", op |-> op, target |-> target, value |-> x]
VarDeclStmt(name, type, init)  == [node |-> "VarDeclStmt", name |-> name, type |-> type, init |-> init]
BlockStmt(id, stmts)           == [node |-> "BlockStmt", id |-> id, stmts |-> stmts]
IfStmt(cond, then, else)       == [node |-> "IfStmt", cond |-> cond, then |-> then, else |-> else]
LoopStmt(cond, body)           == [node |-> "LoopStmt", cond |-> cond, body |-> body]
ContinueStmt                   == [node |-> "ContinueStmt"]
BreakStmt                      == [node |-> "BreakStmt"]
ReturnStmt(x)                  == [node |-> "ReturnStmt", expression |-> x]

\* Match, nock, attach, detach: parsed, skipped by the checker and the builder.
OpaqueStmt                     == [node |-> "OpaqueStmt"]

-----------------------------------------------------------------------------
\* Declarations.  params and fields are sequences of <<name, type node>>, the
\* items of an import or export of <<name there, name here>>.
FunctionDecl(id, name, params, ret, body) ==
  [node |-> "FunctionDecl", id |-> id, name |-> name, params |-> params, ret |-> ret, body |-> body]
StructDecl(name, fields)  == [node |-> "StructDecl", name |-> name, fields |-> fields]
TypeAliasDecl(name, type) == [node |-> "TypeAliasDecl", name |-> name, type |-> type]
ImportDecl(from, items)   == [node |-> "ImportDecl", from |-> from, items |-> items]
ExportDecl(wrapped)       == [node |-> "ExportDecl", wrapped |-> wrapped, items |-> <<>>]
ExportItems(items)        == [node |-> "ExportDecl", wrapped |-> NoNode, items |-> items]
ModuleDecl(name, decls)   == [node |-> "ModuleDecl", name |-> name, decls |-> decls]

\* The declarations of the domain.  A component is a struct promoted to one, or
\* has a body; the members of a kits are [alias, component, mutable].
ComponentDecl(name, body) == [node |-> "ComponentDecl", name |-> name, promoted |-> FALSE, body |-> body]
PromotedDecl(source, name) ==
  [node |-> "ComponentDecl", name |-> name, promoted |-> TRUE, source |-> source]
KitsMember(mutable, component, alias) == [mutable |-> mutable, component |-> component, alias |-> alias]
KitsDecl(name, members)   == [node |-> "KitsDecl", name |-> name, members |-> members]
SystemDecl(name, body)    == [node |-> "SystemDecl", name |-> name, body |-> body]
FlowDecl(name)            == [node |-> "FlowDecl", name |-> name]

\* A tag, or a group of tags, of which the builder takes the name alone.
TagDecl(name)             == [node |-> "TagDecl", name |-> name]

\* Interface, impl, enum: nothing to check or to lower.
OpaqueDecl                == [node |-> "OpaqueDecl"]

DeclNode == {"FunctionDecl", "StructDecl", "TypeAliasDecl", "ImportDecl", "ExportDecl", "ModuleDecl",
             "ComponentDecl", "KitsDecl", "SystemDecl", "FlowDecl", "TagDecl", "OpaqueDecl"}

\* A pass over a list of nodes: FoldLeft, each step evaluated before the next.
InOrder(step(_, _), start, nodes) ==
  FoldLeft(LAMBDA c, n : CHOOSE r \in {step(d, n) : d \in {c}} : TRUE, start, nodes)

-----------------------------------------------------------------------------
\* NKType: a base and the index of its entry in the type arena.
NKType(base, id) == [base |-> base, id |-> id]
NoTypeId         == 0
Plain(base)      == NKType(base, NoTypeId)
Unknown          == Plain("Unknown")
Known(t)         == t.base /= "Unknown"

\* TypeChecker::isHeapType: the types whose variables own what they hold.
isHeapType(t) == t.base \in {"Array", "Map", "Object", "String"}
================================================================================
