------------------------------ MODULE NikiMeaning ------------------------------
(***************************************************************************)
(* What a function of the language means, read off its tree alone: no      *)
(* registers, no blocks, no heap.  Variables live in nested scopes, an     *)
(* array is the sequence of its elements, and statements end in the next   *)
(* one, in a jump or in a return.  The compiler and the VM are held to it. *)
(***************************************************************************)
EXTENDS NikiAst, Integers, SequencesExt

CONSTANTS
  MaxTurns   \* the turns of a loop after which a program counts as endless

Number(i) == [type |-> "Integer", as |-> i]
Bool(b)  == [type |-> "Bool", as |-> IF b THEN 1 ELSE 0]
Nil      == [type |-> "Nil", as |-> 0]
Array(s) == [type |-> "Array", as |-> s]
Wrong    == [type |-> "Wrong", as |-> 0]

True(v) == v.type \in {"Bool", "Integer"} /\ v.as /= 0

Arithmetic ==
  [op \in {"+", "-", "*", "+=", "-=", "*="} |->
     IF op \in {"+", "+="} THEN "plus" ELSE IF op \in {"-", "-="} THEN "minus" ELSE "times"]

Calculate(op, i, j) ==
  CASE Arithmetic[op] = "plus" -> i + j [] Arithmetic[op] = "minus" -> i - j [] OTHER -> i * j

Compare(op, i, j) ==
  CASE op = "==" -> i = j [] op = "!=" -> i /= j [] op = "<" -> i < j
    [] op = ">" -> i > j  [] op = "<=" -> i =< j [] OTHER -> i >= j

Operate(op, l, r) ==
  CASE Wrong \in {l, r} -> Wrong
    [] Wrong \notin {l, r} /\ op \in {"&&", "||"} ->
         Bool(IF op = "&&" THEN True(l) /\ True(r) ELSE True(l) \/ True(r))
    [] op \notin {"&&", "||"} /\ ~(l.type = "Integer" /\ r.type = "Integer") -> Wrong
    [] op \in DOMAIN Arithmetic -> Number(Calculate(op, l.as, r.as))
    [] OTHER -> Bool(Compare(op, l.as, r.as))

\* scope: the sequence of the variables in scope, [name, value], the newest last.
Binding(scope, name) == SelectLastInSeq(scope, LAMBDA v : v.name = name)
Declare(scope, name, value) == Append(scope, [name |-> name, value |-> value])
Assign(scope, name, value)  == [scope EXCEPT ![Binding(scope, name)].value = value]

\* Where a statement ends: how, with which value, in which scope.
Ends(how, value, scope) == [how |-> how, value |-> value, scope |-> scope]
Continues(scope)        == Ends("next", Nil, scope)

RECURSIVE Eval(_, _, _), Run(_, _, _), Turns(_, _, _, _)

\* fns: the functions of the unit by name.  Every operand is evaluated.
Eval(e, scope, fns) ==
  CASE e.node = "LiteralExpr" -> [type |-> IF e.type = "Int" THEN "Integer" ELSE e.type, as |-> e.value]
    [] e.node = "IdentifierExpr" -> scope[Binding(scope, e.name)].value
    [] e.node \in {"BinaryExpr", "LogicalExpr"} ->
         Operate(e.op, Eval(e.left, scope, fns), Eval(e.right, scope, fns))
    [] e.node = "UnaryExpr" ->
         LET x == Eval(e.operand, scope, fns) IN
         CASE x = Wrong -> Wrong [] e.op = "!" -> Bool(~True(x)) [] OTHER -> Operate("-", Number(0), x)
    [] e.node = "ArrayExpr" -> Array([k \in DOMAIN e.elements |-> Eval(e.elements[k], scope, fns)])
    [] e.node = "IndexExpr" ->
         LET x == Eval(e.target, scope, fns)
             i == Eval(e.index, scope, fns)
         IN  IF x.type = "Array" /\ i.type = "Integer" /\ i.as + 1 \in DOMAIN x.as THEN x.as[i.as + 1] ELSE Wrong
    [] e.node = "CallExpr" ->
         LET f    == fns[e.callee.name]
             args == [k \in DOMAIN e.args |-> [name |-> f.params[k][1], value |-> Eval(e.args[k], scope, fns)]]
             ends == Run(f.body, args, fns)
         IN  IF \E k \in DOMAIN args : args[k].value = Wrong THEN Wrong ELSE ends.value
    [] OTHER -> Nil

\* A loop until its condition fails, its body leaves it, or it goes on too long.
Turns(s, scope, fns, n) ==
  LET more == Eval(s.cond, scope, fns)
      turn == Run(s.body, scope, fns)
  IN  CASE n = 0 -> Ends("endless", Nil, scope)
        [] n > 0 /\ more = Wrong -> Ends("wrong", Wrong, scope)
        [] n > 0 /\ more /= Wrong /\ ~True(more) -> Continues(scope)
        [] OTHER -> CASE turn.how \in {"next", "continue"} -> Turns(s, turn.scope, fns, n - 1)
                      [] turn.how = "break" -> Continues(turn.scope)
                      [] OTHER -> turn

Run(s, scope, fns) ==
  LET value(e) == Eval(e, scope, fns) IN
  CASE s.node = "VarDeclStmt" ->
         IF value(s.init) = Wrong THEN Ends("wrong", Wrong, scope)
                                  ELSE Continues(Declare(scope, s.name, value(s.init)))
    [] s.node = "AssignmentStmt" ->
         LET old == scope[Binding(scope, s.target.name)].value
             new == IF s.op = "=" THEN value(s.value) ELSE Operate(s.op, old, value(s.value))
         IN  IF new = Wrong THEN Ends("wrong", Wrong, scope)
                            ELSE Continues(Assign(scope, s.target.name, new))
    [] s.node = "BlockStmt" ->
         LET step(ends, t) == IF ends.how = "next" THEN Run(t, ends.scope, fns) ELSE ends
             all == FoldLeft(step, Continues(scope), s.stmts)
         IN  [all EXCEPT !.scope = SubSeq(@, 1, Len(scope))]
    [] s.node = "IfStmt" ->
         LET cond == value(s.cond) IN
         CASE cond = Wrong -> Ends("wrong", Wrong, scope)
           [] cond /= Wrong /\ True(cond) -> Run(s.then, scope, fns)
           [] cond /= Wrong /\ ~True(cond) /\ IsValid(s.else) -> Run(s.else, scope, fns)
           [] OTHER -> Continues(scope)
    [] s.node = "LoopStmt"     -> Turns(s, scope, fns, MaxTurns)
    [] s.node = "BreakStmt"    -> Ends("break", Nil, scope)
    [] s.node = "ContinueStmt" -> Ends("continue", Nil, scope)
    [] s.node = "ReturnStmt"   ->
         LET v == IF IsValid(s.expression) THEN value(s.expression) ELSE Nil
         IN  Ends(IF v = Wrong THEN "wrong" ELSE "return", v, scope)
    [] s.node = "ExpressionStmt" ->
         IF value(s.expression) = Wrong THEN Ends("wrong", Wrong, scope) ELSE Continues(scope)
    [] OTHER -> Continues(scope)
================================================================================
