------------------------------- MODULE MCCompile -------------------------------
(***************************************************************************)
(* NikiCompile on a function f whose body is any sequence of at most       *)
(* MaxBody statements of a pool: assignments, branches with and without    *)
(* else, loops with break and continue, early returns, arrays and maps     *)
(* that a block owns, calls, statements the checker must refuse, and forms *)
(* that it lets through and the back end has nothing for, in reach of the  *)
(* code and behind a jump or a return.                                     *)
(*                                                                         *)
(*   func f(x: Int): Int { var y = 1; BODY return y; }                     *)
(*   func g(p: Int, q: Int): Int { ... }                                   *)
(*   func main(): Int { return f(1) - f(2); }                              *)
(*                                                                         *)
(* No block declares a name that a block around it has, none but ints are  *)
(* returned, and every function called has a parameter.                    *)
(***************************************************************************)
EXTENDS NikiCompile, NikiMeaning

CONSTANTS boot, fnMain, fnF, fnG, MaxBody

MCFunc    == {boot, fnMain, fnF, fnG}
MCFuncSeq == <<fnF, fnG, fnMain>>
MCScript  == {boot}
MCModule  == {1}
MCNameId  == 0..16

\* Names.
Nf == 1   Nx == 2
Ng == 3   Ny == 4
Nmain == 5
Na == 6   Nb == 7   Nc == 8   Nd == 9
Np == 10  Nq == 11  Ne == 12  Nh == 13
Ni == 14  Nj == 15  Nk == 16

\* An if without else does not say so: its else is the first node of the tree,
\* here the type of f's parameter.
IntType       == TypeExpr("Int")
NodeZero      == IntType

Id(n)         == IdentifierExpr(n)
N(i)          == LiteralExpr("Int", i)
X == Id(Nx)   Y == Id(Ny)
Set(n, e)     == AssignmentStmt("=", Id(n), e)
Add(n, e)     == AssignmentStmt("+=", Id(n), e)
Op(op, l, r)  == BinaryExpr(op, l, r)
Let(n, e)     == VarDeclStmt(n, NoNode, e)
If(c, t)      == IfStmt(c, t, NodeZero)
At0(n)        == IndexExpr(Id(n), N(0))

\* The statements of the pool; id makes the ids of their blocks.
Stmt(id) ==
  <<Set(Ny, Op("+", Y, X)),
    \* if (x < y) { y = 0; }
    If(Op("<", X, Y), BlockStmt(id, <<Set(Ny, N(0))>>)),
    \* if (x == y) { return x; } else { y = 2; }
    IfStmt(Op("==", X, Y), BlockStmt(id, <<ReturnStmt(X)>>), BlockStmt(id + 1, <<Set(Ny, N(2))>>)),
    \* loop (y < 3) { y += 1; }
    LoopStmt(Op("<", Y, N(3)), BlockStmt(id, <<Add(Ny, N(1))>>)),
    \* loop (y >= 0) { y += 1; if (y > 2) { break; } x += 1; }
    LoopStmt(Op(">=", Y, N(0)),
      BlockStmt(id, <<Add(Ny, N(1)), If(Op(">", Y, N(2)), BlockStmt(id + 1, <<BreakStmt>>)), Add(Nx, N(1))>>)),
    \* loop (y < 4) { y += 1; if (y == 2 || y == 3) { continue; } x = x - y; }
    LoopStmt(Op("<", Y, N(4)),
      BlockStmt(id, <<Add(Ny, N(1)),
        If(LogicalExpr("||", Op("==", Y, N(2)), Op("==", Y, N(3))), BlockStmt(id + 1, <<ContinueStmt>>)),
        Set(Nx, Op("-", X, Y))>>)),
    \* { var a = [x, y]; y = a[0] * 2; }
    BlockStmt(id, <<Let(Na, ArrayExpr(<<X, Y>>)), Set(Ny, Op("*", At0(Na), N(2)))>>),
    \* { var b = [y]; if (b[0] == x) { return b[0]; } x = b[0]; }
    BlockStmt(id, <<Let(Nb, ArrayExpr(<<Y>>)),
                    If(Op("==", At0(Nb), X), BlockStmt(id + 1, <<ReturnStmt(At0(Nb))>>)),
                    Set(Nx, At0(Nb))>>),
    \* y = g(x, y);
    Set(Ny, CallExpr(Id(Ng), <<X, Y>>)),
    \* { var c = [y: x]; y = -x; }
    BlockStmt(id, <<Let(Nc, MapExpr(<<Y>>, <<X>>)), Set(Ny, UnaryExpr("-", X))>>),
    \* loop (y < 2) { y += 1; var d = [y]; if (d[0] == 2) { break; } }
    LoopStmt(Op("<", Y, N(2)),
      BlockStmt(id, <<Add(Ny, N(1)), Let(Nd, ArrayExpr(<<Y>>)),
                      If(Op("==", At0(Nd), N(2)), BlockStmt(id + 1, <<BreakStmt>>))>>)),
    \* y = [x][y];  an index out of bounds unless y = 0
    Set(Ny, IndexExpr(ArrayExpr(<<X>>), Y)),
    \* refused: no loop to leave, an ill-typed value, a name of no one
    BreakStmt,
    Set(Nx, LiteralExpr("Bool", 1)),
    Set(Nx, Id(0)),
    \* if (x < y) { return y; } else { return x - y; }
    IfStmt(Op("<", X, Y), BlockStmt(id, <<ReturnStmt(Y)>>), BlockStmt(id + 1, <<ReturnStmt(Op("-", X, Y))>>)),
    \* { var e = [x]; var h = e; y = h[0]; }
    BlockStmt(id, <<Let(Ne, ArrayExpr(<<X>>)), Let(Nh, Id(Ne)), Set(Ny, At0(Nh))>>),
    \* loop (x < 4) { x += 1; loop (y < 9) { y += 2; if (y > x) { break; } }
    \*                if (x == 2) { continue; } y = y - x; }
    LoopStmt(Op("<", X, N(4)),
      BlockStmt(id, <<Add(Nx, N(1)),
        LoopStmt(Op("<", Y, N(9)),
          BlockStmt(id + 1, <<Add(Ny, N(2)), If(Op(">", Y, X), BlockStmt(id + 2, <<BreakStmt>>))>>)),
        If(Op("==", X, N(2)), BlockStmt(id + 3, <<ContinueStmt>>)),
        Set(Ny, Op("-", Y, X))>>)),
    \* y = (x & y) + 1;  y = -~x;  x &= y;  y = g(nil, y);
    Set(Ny, Op("+", Op("&", X, Y), N(1))),
    Set(Ny, UnaryExpr("-", UnaryExpr("~", X))),
    AssignmentStmt("&=", Id(Nx), Y),
    Set(Ny, CallExpr(Id(Ng), <<LiteralExpr("Nil", 0), Y>>)),
    \* if (x == y) { var i = "" .. ""; }
    If(Op("==", X, Y),
       BlockStmt(id, <<Let(Ni, Op("..", LiteralExpr("String", 0), LiteralExpr("String", 0)))>>)),
    \* { var j = [x]; j[0] = y; }
    BlockStmt(id, <<Let(Nj, ArrayExpr(<<X>>)), AssignmentStmt("=", At0(Nj), Y)>>),
    \* g = g;
    Set(Ng, Id(Ng)),
    \* { var k: Int; k = y; }
    BlockStmt(id, <<VarDeclStmt(Nk, IntType, NoNode), Set(Nk, Y)>>),
    \* loop (x < 2) { x += 1; await y; }
    LoopStmt(Op("<", X, N(2)), BlockStmt(id, <<Add(Nx, N(1)), ExpressionStmt(OpaqueExpr)>>)),
    \* loop (y < 2) { y += 1; { continue; } y = x & y; }
    LoopStmt(Op("<", Y, N(2)),
      BlockStmt(id, <<Add(Ny, N(1)), BlockStmt(id + 1, <<ContinueStmt>>), Set(Ny, Op("&", X, Y))>>)),
    \* return x;
    ReturnStmt(X)>>

Pool == 1..Len(Stmt(0))

\* g(p, q) { var a = [p]; loop (p < q) { p += 1; } return p + a[0]; }
FunctionG ==
  FunctionDecl(1, Ng, << <<Np, IntType>>, <<Nq, IntType>> >>, IntType,
    BlockStmt(2, <<Let(Na, ArrayExpr(<<Id(Np)>>)),
                   LoopStmt(Op("<", Id(Np), Id(Nq)), BlockStmt(3, <<Add(Np, N(1))>>)),
                   ReturnStmt(Op("+", Id(Np), At0(Na)))>>))

FunctionF(body) ==
  FunctionDecl(4, Nf, << <<Nx, IntType>> >>, IntType,
    BlockStmt(5, <<Let(Ny, N(1))>> \o [k \in DOMAIN body |-> Stmt(10 * k)[body[k]]] \o <<ReturnStmt(Y)>>))

FunctionMain ==
  FunctionDecl(6, Nmain, <<>>, IntType,
    BlockStmt(7, <<ReturnStmt(Op("-", CallExpr(Id(Nf), <<N(1)>>), CallExpr(Id(Nf), <<N(2)>>)))>>))

File(body) ==
  [stem |-> "unit", parses |-> TRUE,
   decls |-> <<FunctionF(body), FunctionG, FunctionMain>>]

MCProject == {<<File(body)>> : body \in BoundedSeq(Pool, MaxBody)}

-----------------------------------------------------------------------------
Functions(file) ==
  [n \in {file.decls[k].name : k \in DOMAIN file.decls} |->
     file.decls[CHOOSE k \in DOMAIN file.decls : file.decls[k].name = n]]

Meaning == Run(FunctionMain.body, <<>>, Functions(files[1]))

\* The compiled program ends as the source says: with the value it returns, or
\* with an error where it asks for an element that is not there.
CompiledMeansSource ==
  Ended /\ misuse = "none" =>
    CASE Meaning.how = "return" -> status = "ok" /\ result = Meaning.value
      [] Meaning.how = "wrong"  -> status = "error"
      [] OTHER -> FALSE

\* A break inside the block that owns an array jumps over its release, and a
\* temporary array has no owner: the only programs of the pool that leak.
OwnsAll(file) ==
  LET body == file.decls[1].body.stmts
  IN  \A k \in 1..(Len(body) - 2) : body[k + 1] \notin {Stmt(10 * k)[11], Stmt(10 * k)[12]}

\* Every container that a program made has been released when it returns.
NoLeak ==
  Ended /\ status = "ok" /\ OwnsAll(files[1]) =>
    \A o \in HeapObj : heap[o].type \in {"Unused", "Gone", "String"}
=============================================================================
