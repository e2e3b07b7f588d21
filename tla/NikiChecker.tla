----------------------------- MODULE NikiChecker ------------------------------
(***************************************************************************)
(* The type checker (class TypeChecker): one pass over a unit's tree that  *)
(* types every expression, tracks which local owns a heap object and which *)
(* has been moved from, and leaves for each block and function the names   *)
(* the builder must free when it ends.                                     *)
(*                                                                         *)
(* The checker's fields are a record ck that every check takes and         *)
(* returns; the type of the expression just checked is in ck.type.  What   *)
(* the checker only reads is in ck.env: the namespace of the module, the   *)
(* names visible in the unit, the type arena, and the struct table of the  *)
(* unit.  A diagnostic is a member of ck.errors; messages are shortened.   *)
(***************************************************************************)
EXTENDS NikiAst, SequencesExt

\* env.ns, env.visible: name -> [kind, type]; env.structs: the arena's structs
\* [names, types]; env.sigs: its signatures [params, ret]; env.struct_data: the
\* fields of the structs this unit declares, in order.
Checker(env) ==
  [symbols |-> <<>>, depth |-> 0, loops |-> 0, inFunction |-> FALSE, ret |-> Unknown,
   frees |-> <<>>, errors |-> {}, type |-> Unknown, overrun |-> FALSE,
   components |-> {}, kits |-> <<>>, env |-> env]

Typed(ck, t)         == [ck EXCEPT !.type = t]
Expect(ck, ok, what) == IF ok THEN ck ELSE [ck EXCEPT !.errors = @ \cup {what}]
Reject(ck, what)     == Typed(Expect(ck, FALSE, what), Unknown)
Clash(s, t)          == Known(s) /\ Known(t) /\ s /= t

-----------------------------------------------------------------------------
(***************************************************************************)
(* The symbol stack.  depth never decreases along it.                      *)
(***************************************************************************)
Newest(ck, name) == LET named == {k \in DOMAIN ck.symbols : ck.symbols[k].name = name}
                    IN IF named = {} THEN 0 ELSE Max(named)

beginScope(ck) == [ck EXCEPT !.depth = @ + 1]

\* The names to free when a scope ends: its owners not moved from, newest first.
LiveOwners(ck) ==
  LET live == SelectSeq(ck.symbols, LAMBDA s : s.depth = ck.depth /\ s.owned /\ ~s.moved)
  IN  Reverse([k \in DOMAIN live |-> live[k].name])

endScopePlain(ck) ==
  [ck EXCEPT !.symbols = SelectSeq(@, LAMBDA s : s.depth < ck.depth), !.depth = @ - 1]

popScope(ck, id) == endScopePlain([ck EXCEPT !.frees = (id :> LiveOwners(ck)) @@ @])

\* A second declaration of a name in one scope is refused, not pushed.
declareSymbol(ck, name, type, owned) ==
  LET k == Newest(ck, name) IN
  IF k > 0 /\ ck.symbols[k].depth = ck.depth
    THEN Expect(ck, FALSE, "duplicate declaration")
    ELSE [ck EXCEPT !.symbols = Append(@, [name |-> name, type |-> type, depth |-> ck.depth,
                                           owned |-> owned, moved |-> FALSE])]

\* Mutant: the owner stays the owner.
NeverMoved(ck, rhs) == ck

\* A heap object's owner is moved from when it is the whole right-hand side --
\* if it was declared in the very scope of the assignment.
tryMarkRhsIdentifierMovedForAssign(ck, rhs) ==
  LET k == IF rhs.node = "IdentifierExpr" THEN Newest(ck, rhs.name) ELSE 0 IN
  IF k > 0 /\ ck.symbols[k].depth = ck.depth /\ ck.symbols[k].owned
    THEN [ck EXCEPT !.symbols[k].moved = TRUE]
    ELSE ck

\* Mutant: a name nobody declared is taken for one of an unknown type.
ResolveAnything(ck, name) ==
  LET k == Newest(ck, name) IN
  CASE k > 0 /\ ck.symbols[k].moved  -> Reject(ck, "use of moved value")
    [] k > 0 /\ ~ck.symbols[k].moved -> Typed(ck, ck.symbols[k].type)
    [] k = 0 /\ name \in DOMAIN ck.env.ns -> Typed(ck, ck.env.ns[name].type)
    [] OTHER -> Typed(ck, Unknown)

resolveSymbol(ck, name) ==
  LET k == Newest(ck, name) IN
  CASE k > 0 /\ ck.symbols[k].moved   -> Reject(ck, "use of moved value")
    [] k > 0 /\ ~ck.symbols[k].moved  -> Typed(ck, ck.symbols[k].type)
    [] k = 0 /\ name \in DOMAIN ck.env.ns -> Typed(ck, ck.env.ns[name].type)
    [] k = 0 /\ name \in DOMAIN ck.env.visible \ DOMAIN ck.env.ns -> Typed(ck, ck.env.visible[name].type)
    [] OTHER -> Reject(ck, "undeclared variable")

NamesType(table, name) ==
  name \in DOMAIN table /\ table[name].kind \in {"Struct", "Function", "TypeAlias"}

resolveTypeAnnotation(ck, t) ==
  CASE t.node = "none" -> Typed(ck, Unknown)
    [] t.node = "TypeExpr" /\ t.base \in {"Int", "Float", "Bool", "String"} -> Typed(ck, Plain(t.base))
    [] t.node = "IdentifierExpr" /\ NamesType(ck.env.ns, t.name) -> Typed(ck, ck.env.ns[t.name].type)
    [] t.node = "IdentifierExpr" /\ ~NamesType(ck.env.ns, t.name) /\ NamesType(ck.env.visible, t.name) ->
         Typed(ck, ck.env.visible[t.name].type)
    [] OTHER -> Reject(ck, "unknown type")

-----------------------------------------------------------------------------
(***************************************************************************)
(* Expressions.                                                            *)
(***************************************************************************)
Comparison == {"==", "!=", "<", "<=", ">", ">="}
IntOnly    == {"%", "&", "|", "^", "<<", ">>", "dice"}

\* The operands a binary operator accepts once both are known.
OperandsFit(op, l, r) ==
  CASE op \in {"+", "-", "*", "/"}     -> l = r /\ l.base \in {"Int", "Float"}
    [] op \in {"==", "!="}             -> l = r
    [] op \in {"<", "<=", ">", ">="}   -> l = r /\ l.base \in {"Int", "Float"}
    [] op \in IntOnly                  -> l.base = "Int" /\ r.base = "Int"
    [] op = ".."                       -> l.base = "String" /\ r.base = "String"
    [] OTHER                           -> FALSE

\* The type of a binary expression; an ill-typed one gets its operator's type.
\* Before an unknown operand only the tokens from == to >= are comparisons.
ResultType(op, l, r) ==
  IF ~(Known(l) /\ Known(r))
    THEN IF op \in {"==", ">="} THEN Plain("Bool") ELSE Unknown
    ELSE CASE op \in Comparison -> Plain("Bool")
           [] op \in {"+", "-", "*", "/"} ->
                Plain(IF "Float" \in {l.base, r.base} THEN "Float" ELSE "Int")
           [] op \in IntOnly    -> Plain("Int")
           [] op = ".."         -> Plain("String")
           [] OTHER             -> Unknown

UnaryFits(op, t) ==
  ~Known(t) \/ t.base \in CASE op = "-" -> {"Int", "Float"} [] op = "!" -> {"Bool", "Int"}
                            [] op = "~" -> {"Int"} [] OTHER -> {t.base}

UnaryType(op, t) ==
  CASE op = "-" -> t [] op = "!" -> Plain("Bool") [] op = "~" -> Plain("Int") [] OTHER -> Unknown

LiteralType(type) == IF type = "Nil" THEN Unknown ELSE Plain(type)

\* The type of a field of a struct of the arena.
MemberType(ck, object, field) ==
  LET info == ck.env.structs[object.id]
      at   == {k \in DOMAIN info.names : info.names[k] = field}
  IN  CASE ~Known(object) -> Typed(ck, Unknown)
        [] Known(object) /\ object.base /= "Object" -> Reject(ck, "member of a non-struct")
        [] object.base = "Object" /\ object.id \notin DOMAIN ck.env.structs ->
             Reject(ck, "invalid struct type")
        [] object.base = "Object" /\ object.id \in DOMAIN ck.env.structs /\ at = {} ->
             Reject(ck, "no such field")
        [] OTHER -> Typed(ck, info.types[Min(at)])

RECURSIVE checkExpression(_, _), checkArguments(_, _, _), checkCallExpr(_, _), checkMapExpr(_, _)

\* Arguments against what the callee declares; extra ones are only typed.
checkArguments(ck, args, expected) ==
  FoldLeft(LAMBDA c, k :
             LET arg  == checkExpression(c, args[k])
                 want == IF k \in DOMAIN expected THEN expected[k] ELSE Unknown
             IN  Expect(arg, ~Clash(arg.type, want), "argument type"),
           Expect(ck, Len(args) = Len(expected), "argument count"),
           [k \in 1..Len(args) |-> k])

\* A call of a struct builds an instance.  Its fields are looked up in the
\* unit's own struct table, under an index of the arena shared by all units.
checkCallExpr(ck, e) ==
  LET callee == checkExpression(ck, e.callee)
      t      == callee.type
      own    == t.id \in DOMAIN ck.env.struct_data
      fields == ck.env.struct_data[t.id]
      types  == [k \in DOMAIN fields |-> resolveTypeAnnotation(ck, fields[k][2]).type]
      read   == FoldLeft(LAMBDA c, f : resolveTypeAnnotation(c, f[2]), callee,
                         SubSeq(fields, 1, Min({Len(fields), Len(e.args)})))
  IN CASE ~Known(t) -> callee
       [] Known(t) /\ t.base \notin {"Function", "Object"} -> Reject(callee, "not callable")
       [] t.base = "Object" /\ ~own -> [Typed(callee, t) EXCEPT !.overrun = TRUE]
       [] t.base = "Object" /\ own -> Typed(checkArguments(read, e.args, types), t)
       [] OTHER -> Typed(checkArguments(callee, e.args, ck.env.sigs[t.id].params),
                         ck.env.sigs[t.id].ret)

\* Array elements are typed and, whatever they are, accepted.
checkElements(ck, nodes) == InOrder(checkExpression, ck, nodes)

\* Keys and values of a map literal are each uniform.
checkMapExpr(ck, e) ==
  LET pair(c, k) ==
        LET key == checkExpression(c.ck, e.keys[k])
            val == checkExpression(key, e.values[k])
            kt  == IF k = 1 THEN key.type ELSE c.keyType
            vt  == IF k = 1 THEN val.type ELSE c.valueType
        IN  [ck |-> Expect(Expect(val, ~Clash(key.type, kt), "map keys"),
                           ~Clash(val.type, vt), "map values"),
             keyType |-> kt, valueType |-> vt]
  IN  FoldLeft(pair, [ck |-> ck, keyType |-> Unknown, valueType |-> Unknown],
               [k \in 1..Len(e.keys) |-> k]).ck

checkExpression(ck, e) ==
  CASE e.node = "LiteralExpr"    -> Typed(ck, LiteralType(e.type))
    [] e.node = "IdentifierExpr" -> resolveSymbol(ck, e.name)
    [] e.node = "BinaryExpr" ->
         LET l == checkExpression(ck, e.left)
             r == checkExpression(l, e.right)
             fits == ~(Known(l.type) /\ Known(r.type)) \/ OperandsFit(e.op, l.type, r.type)
         IN  Typed(Expect(r, fits, "operand types"), ResultType(e.op, l.type, r.type))
    [] e.node = "LogicalExpr" ->
         LET l == checkExpression(ck, e.left)
             r == checkExpression(l, e.right)
         IN  Typed(Expect(r, ~Clash(l.type, Plain("Bool")) /\ ~Clash(r.type, Plain("Bool")),
                          "logical operand"), Plain("Bool"))
    [] e.node = "UnaryExpr" ->
         LET x == checkExpression(ck, e.operand)
         IN  Typed(Expect(x, UnaryFits(e.op, x.type), "unary operand"), UnaryType(e.op, x.type))
    [] e.node = "CallExpr"  -> checkCallExpr(ck, e)
    [] e.node = "ArrayExpr" -> Typed(checkElements(ck, e.elements), Plain("Array"))
    [] e.node = "MapExpr"   -> Typed(checkMapExpr(ck, e), Plain("Map"))
    [] e.node = "IndexExpr" ->
         LET x == checkExpression(ck, e.target)
             i == checkExpression(x, e.index)
         IN  Typed(Expect(i, ~Known(x.type) \/ x.type.base \in {"Array", "Map"}, "cannot index"), Unknown)
    [] e.node = "MemberExpr" ->
         LET x == checkExpression(ck, e.object) IN MemberType(x, x.type, e.field)
    [] OTHER -> Typed(ck, Unknown)

-----------------------------------------------------------------------------
(***************************************************************************)
(* Statements.                                                             *)
(***************************************************************************)
checkAssignmentStmt(ck, s) ==
  LET target == checkExpression(ck, s.target)
      value  == checkExpression(target, s.value)
      clash  == Clash(target.type, value.type)
  IN  IF ~clash /\ s.op = "=" THEN tryMarkRhsIdentifierMovedForAssign(value, s.value)
                              ELSE Expect(value, ~clash, "assignment type")

\* The annotation, else the initializer, types a variable; a variable of a
\* heap type owns its object from here to the end of its scope.
declareTyped(ck, s, final) == declareSymbol(ck, s.name, final, isHeapType(final))

\* ck.type is the initializer's type.
declareVar(ck, s, annotated) ==
  LET clash == Clash(annotated, ck.type)
      final == IF Known(annotated) THEN annotated ELSE ck.type
      typed == Expect(Expect(ck, ~clash, "declaration type"), Known(final), "cannot infer type")
  IN  declareTyped(IF clash THEN typed ELSE tryMarkRhsIdentifierMovedForAssign(typed, s.init), s, final)

checkVarDeclStmt(ck, s) ==
  LET decl == resolveTypeAnnotation(ck, s.type)
  IN  declareVar(IF IsValid(s.init) THEN checkExpression(decl, s.init) ELSE Typed(decl, Unknown), s, decl.type)

\* A return without a value returns Void, which no annotation can name.
checkReturnStmt(ck, s) ==
  LET value == IF IsValid(s.expression) THEN checkExpression(ck, s.expression)
                                        ELSE Typed(ck, Plain("Void"))
  IN  IF ck.inFunction THEN Expect(value, ~Clash(value.type, ck.ret), "return type")
                       ELSE Expect(value, FALSE, "return outside a function")

checkCondition(ck, cond) ==
  IF IsValid(cond)
    THEN LET c == checkExpression(ck, cond) IN Expect(c, ~Clash(c.type, Plain("Bool")), "condition")
    ELSE ck

RECURSIVE checkNode(_, _), checkBlockStmt(_, _), checkStatement(_, _),
          checkFunctionDecl(_, _), checkModuleDecl(_, _), checkDeclaration(_, _)

checkNode(ck, n) == IF n.node \in DeclNode THEN checkDeclaration(ck, n) ELSE checkStatement(ck, n)

checkBlockStmt(ck, s) ==
  popScope(InOrder(checkNode, beginScope(ck), s.stmts), s.id)

\* A node that is no statement is skipped.
checkStatement(ck, s) ==
  CASE s.node = "ExpressionStmt" -> checkExpression(ck, s.expression)
    [] s.node = "AssignmentStmt" -> checkAssignmentStmt(ck, s)
    [] s.node = "VarDeclStmt"    -> checkVarDeclStmt(ck, s)
    [] s.node = "BlockStmt"      -> checkBlockStmt(ck, s)
    [] s.node = "IfStmt" ->
         LET then == checkStatement(checkCondition(ck, s.cond), s.then)
         IN  IF IsValid(s.else) THEN checkStatement(then, s.else) ELSE then
    [] s.node = "LoopStmt" ->
         [checkStatement([checkCondition(ck, s.cond) EXCEPT !.loops = @ + 1], s.body)
            EXCEPT !.loops = @ - 1]
    [] s.node \in {"BreakStmt", "ContinueStmt"} -> Expect(ck, ck.loops > 0, "outside a loop")
    [] s.node = "ReturnStmt"     -> checkReturnStmt(ck, s)
    [] OTHER -> ck

-----------------------------------------------------------------------------
(***************************************************************************)
(* Declarations.  Parameters own nothing; the body is a block of its own,  *)
(* inside the scope of the parameters.                                     *)
(***************************************************************************)
declareParams(ck, params) ==
  FoldLeft(LAMBDA c, p : declareSymbol(c, p[1], resolveTypeAnnotation(ck, p[2]).type, FALSE), ck, params)

\* ck.type is the declared result.
checkBody(ck, d) ==
  LET within == [declareParams(beginScope(ck), d.params) EXCEPT !.ret = ck.type, !.inFunction = TRUE]
  IN  IF IsValid(d.body) THEN checkStatement(within, d.body) ELSE within

checkFunctionDecl(ck, d) ==
  LET types == FoldLeft(LAMBDA c, p : resolveTypeAnnotation(c, p[2]), ck, d.params)
      body  == checkBody(resolveTypeAnnotation(types, d.ret), d)
  IN  popScope([body EXCEPT !.ret = ck.ret, !.inFunction = ck.inFunction], d.id)

checkStructDecl(ck, d) == FoldLeft(LAMBDA c, f : resolveTypeAnnotation(c, f[2]), ck, d.fields)

\* An imported name must have come with the unit's visible names.
checkImportDecl(ck, d) ==
  Expect(ck, \A k \in DOMAIN d.items : d.items[k][2] \in DOMAIN ck.env.visible,
         "imported symbol not exported")

-----------------------------------------------------------------------------
(***************************************************************************)
(* The domain (src/l1_domain/analyzer.cpp).  No code registers a handler   *)
(* that would take these declarations away from the checker.               *)
(***************************************************************************)
IsStruct(table, name) == name \in DOMAIN table /\ table[name].kind = "Struct"

checkComponentDecl(ck, d) ==
  IF d.promoted
    THEN Expect(ck, IsStruct(ck.env.ns, d.source) \/ IsStruct(ck.env.visible, d.source), "source struct not found")
    ELSE endScopePlain(checkStatement(beginScope(ck), d.body))

\* Mutant: any component will do.
AnyComponent(ck, kits, m) == [ck EXCEPT !.kits[kits] = @ @@ (m.alias :> m)]

\* A window is on components of its module, each under an alias of its own.
checkKitsMember(ck, kits, m) ==
  CASE m.component \notin ck.components -> Expect(ck, FALSE, "kits target is no component")
    [] m.component \in ck.components /\ m.alias \in DOMAIN ck.kits[kits] -> Expect(ck, FALSE, "duplicate kits alias")
    [] OTHER -> [ck EXCEPT !.kits[kits] = @ @@ (m.alias :> m)]

checkKitsDecl(ck, d) ==
  FoldLeft(LAMBDA c, m : checkKitsMember(c, d.name, m),
           [ck EXCEPT !.kits = (d.name :> <<>>) @@ @], d.members)

checkSystemDecl(ck, d) == checkStatement(ck, d.body)

-----------------------------------------------------------------------------
\* First pass over a module: what the namespace already knows enters the scope,
\* and its components are collected -- but for those an export wraps.
preDeclareNode(ck, d) ==
  LET kind == CASE d.node = "FunctionDecl"  -> "Function"
                [] d.node = "StructDecl"    -> "Struct"
                [] d.node = "TypeAliasDecl" -> "TypeAlias"
                [] OTHER -> "none"
      known == d.name \in DOMAIN ck.env.ns /\ ck.env.ns[d.name].kind = kind
  IN  CASE d.node = "ComponentDecl" -> [ck EXCEPT !.components = @ \cup {d.name}]
        [] kind = "none" /\ d.node # "ComponentDecl" -> ck
        [] kind /= "none" /\ known  -> declareSymbol(ck, d.name, ck.env.ns[d.name].type, FALSE)
        [] OTHER                    -> Expect(ck, FALSE, "missing from namespace")

checkModuleDecl(ck, decls) ==
  InOrder(checkNode, InOrder(preDeclareNode, ck, decls), decls)

\* An exported declaration is not dispatched on: what it wraps is not checked.
checkDeclaration(ck, d) ==
  CASE d.node = "FunctionDecl" -> checkFunctionDecl(ck, d)
    [] d.node = "StructDecl"   -> checkStructDecl(ck, d)
    [] d.node = "ImportDecl"   -> checkImportDecl(ck, d)
    [] d.node = "ModuleDecl"   -> checkModuleDecl(ck, d.decls)
    [] d.node = "ComponentDecl" -> checkComponentDecl(ck, d)
    [] d.node = "KitsDecl" -> checkKitsDecl(ck, d)
    [] d.node = "SystemDecl" -> checkSystemDecl(ck, d)
    [] OTHER -> ck

\* TypeChecker::check: a unit passes without a single diagnostic.
check(unit, env) == checkModuleDecl(Checker(env), unit.decls)
================================================================================
