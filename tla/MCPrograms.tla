------------------------------ MODULE MCPrograms ------------------------------
(***************************************************************************)
(* NikiCompile on single programs: a main of no parameters and no result   *)
(* type, whose result is what it returns.                                  *)
(***************************************************************************)
EXTENDS NikiCompile, NikiAst

CONSTANTS boot, fnMain, literal

MCFunc    == {boot, fnMain}
MCFuncSeq == <<fnMain>>
MCScript  == {boot}
MCModule  == {1}
MCNameId  == 0..4
Nmain == 1   Na == 2   Nb == 3   Ni == 4

Main(stmts) == FunctionDecl(1, Nmain, <<>>, NoNode, BlockStmt(2, stmts))

Program1(d) ==
  {<<[stem |-> "unit", parses |-> TRUE, decls |-> <<d>>]>>}

I0 == IdentifierExpr(Ni)
N(i) == LiteralExpr("Int", i)
OneMore == AssignmentStmt("+=", I0, N(1))

\* var a = [1]; { var b = a; } return 0;
MovedInBlock == Program1(Main(
  <<VarDeclStmt(Na, NoNode, ArrayExpr(<<N(1)>>)),
    BlockStmt(3, <<VarDeclStmt(Nb, NoNode, IdentifierExpr(Na))>>),
    ReturnStmt(N(0))>>))

\* var i = 0; loop (i < 2) { i += 1; var a = "key"; } return i;
LiteralInLoop == Program1(Main(
  <<VarDeclStmt(Ni, NoNode, N(0)),
    LoopStmt(BinaryExpr("<", I0, N(2)),
      BlockStmt(3, <<OneMore, VarDeclStmt(Na, NoNode, LiteralExpr("String", literal))>>)),
    ReturnStmt(I0)>>))
===============================================================================
