------------------------------ MODULE NikiParser -------------------------------
(***************************************************************************)
(* The parser (class Parser): recursive descent over the tokens of a file, *)
(* a Pratt parser for expressions, and its recovery from errors.           *)
(*                                                                         *)
(* todo is the call stack: the steps that are still to be done, the next   *)
(* one first.  A parse function is an action that puts the steps of its    *)
(* body in the place of its call.  The scanner yields any token the source *)
(* may hold; comments are skipped and not seen.  The tree, which no step   *)
(* looks at, is left out.                                                  *)
(***************************************************************************)
EXTENDS Integers, SequencesExt

\* The sources that may be parsed: the tokens they begin with, how many more
\* there are at most, of which kinds, and whether some are no tokens at all.
CONSTANT Sources

VARIABLES
  source,      \* what the scanner may still yield
  previous, current,
  panicMode, hadError,
  todo,
  opened       \* history, until the first error: the brackets passed and not closed

vars  == <<source, previous, current, panicMode, hadError, todo, opened>>
input == <<source, previous, current, panicMode, hadError, opened>>

-----------------------------------------------------------------------------
(***************************************************************************)
(* Tokens.                                                                 *)
(***************************************************************************)
Opening == {"(", "[", "{"}
Closing == {")", "]", "}"}
Pairs   == {<<"(", ")">>, <<"[", "]">>, <<"{", "}">>}

Passed(t) ==
  CASE t \notin Opening \cup Closing -> opened
    [] opened # <<>> /\ <<Last(opened), t>> \in Pairs -> Front(opened)
    [] OTHER -> Append(opened, t)

Upcoming ==
  CASE source.begin # <<>> -> {Head(source.begin)}
    [] source.begin = <<>> /\ source.more > 0 -> source.kinds \cup {"EOF"}
    [] OTHER -> {"EOF"}

\* An invalid token before the next one is reported, and skipped.
advance ==
  \E t \in Upcoming, invalid \in BOOLEAN :
    /\ invalid => source.invalid /\ source.begin = <<>> /\ current # "EOF"
    /\ previous' = current /\ current' = t
    /\ source' = CASE source.begin # <<>> -> [source EXCEPT !.begin = Tail(@)]
                   [] source.begin = <<>> /\ t # "EOF" -> [source EXCEPT !.more = @ - 1]
                   [] OTHER -> [source EXCEPT !.more = 0]
    /\ hadError' = (hadError \/ invalid) /\ panicMode' = (panicMode \/ invalid)
    /\ opened' = IF hadError' THEN <<>> ELSE Passed(current)

\* In panic mode nothing more is reported.
errorAtCurrent ==
  /\ panicMode' = TRUE /\ hadError' = (hadError \/ ~panicMode) /\ opened' = <<>>
  /\ UNCHANGED <<source, previous, current>>

-----------------------------------------------------------------------------
(***************************************************************************)
(* The steps parse functions are made of.                                  *)
(***************************************************************************)
\* A table of tokens, of one, and of those of two; it is the first that is asked.
on(t, steps) == [x \in {t} |-> steps]
either(f, g) == [t \in DOMAIN f \cup DOMAIN g |-> IF t \in DOMAIN f THEN f[t] ELSE g[t]]

Call(f)                == <<f>>
consume(t)             == <<"consume", t>>
match(table, else)     == <<"match", table, else>>    \* table: token -> steps
optional(t, steps)     == match(on(t, steps), <<>>)
check(ts, then, else)  == <<"check", ts, then, else>>
while(stop, body)      == <<"while", stop, body>>
list(stop, item)       == <<"list", stop, item>>      \* items with commas between
expression(p)          == <<"parseExpression", p>>
error                  == <<"errorAtCurrent">>

Expression == expression(0)
Name       == consume("IDENT")
Statement  == Call("parseStatement")
Block      == <<consume("{"), Call("parseBlockStmt")>>
Between(open, step, close) == <<consume(open), step, consume(close)>>
Calls(names) == [t \in DOMAIN names |-> <<Call(names[t])>>]

Doing(step)    == todo # <<>> /\ Head(todo)[1] = step
Arg(n)         == Head(todo)[n]
Continue(with) == todo' = with \o Tail(todo)
Enter(f, body) == Doing(f) /\ Continue(body) /\ UNCHANGED input

Advance == Doing("advance") /\ advance /\ Continue(<<>>)
Error   == Doing("errorAtCurrent") /\ errorAtCurrent /\ Continue(<<>>)

Consume ==
  /\ Doing("consume")
  /\ \/ current = Arg(2) /\ advance
     \/ current # Arg(2) /\ errorAtCurrent
  /\ Continue(<<>>)

Match ==
  /\ Doing("match")
  /\ \/ current \in DOMAIN Arg(2) /\ advance /\ Continue(Arg(2)[current])
     \/ current \notin DOMAIN Arg(2) /\ Continue(Arg(3)) /\ UNCHANGED input

Check ==
  /\ Doing("check")
  /\ Continue(IF current \in Arg(2) THEN Arg(3) ELSE Arg(4))
  /\ UNCHANGED input

While ==
  /\ Doing("while")
  /\ Continue(IF current \in Arg(2) THEN <<>> ELSE Append(Arg(3), Head(todo)))
  /\ UNCHANGED input

List ==
  /\ Doing("list")
  /\ Continue(IF current \in Arg(2) THEN <<>> ELSE Append(Arg(3), optional(",", <<Head(todo)>>)))
  /\ UNCHANGED input

\* Fast forward to where a statement may begin.
SyncPoints ==
  {"var", "func", "if", "return", "loop", "match", "import", "export", "system", "flow", "component"}

synchronize ==
  /\ Doing("synchronize") /\ panicMode' = FALSE /\ Continue(<< <<"skip">> >>)
  /\ UNCHANGED <<source, previous, current, hadError, opened>>

Synchronized == current = "EOF" \/ previous = ";" \/ current \in SyncPoints

Skip ==
  /\ Doing("skip")
  /\ \/ Synchronized /\ Continue(<<>>) /\ UNCHANGED input
     \/ ~Synchronized /\ advance /\ UNCHANGED todo

-----------------------------------------------------------------------------
(***************************************************************************)
(* Expressions.                                                            *)
(***************************************************************************)
Literal == {"INT", "FLOAT", "STRING", "CHAR", "true", "false", "nil"}
Type    == {"int", "float", "string", "bool"}
Levels  == << {"||"}, {"&&"}, {"|"}, {"^"}, {"&"}, {"==", "!="}, {"<", ">", "<=", ">="}, {"<<", ">>"},
              {".."}, {"+", "-"}, {"*", "/", "%"}, {"dice"}, {}, {".", "(", "["} >>
Unary   == 13
Primary == 15

getPrecedence(t) == IF \E p \in DOMAIN Levels : t \in Levels[p]
                      THEN CHOOSE p \in DOMAIN Levels : t \in Levels[p] ELSE 0

\* The loop over the operators of one level: its threshold, and, as history,
\* the level of the operator it took last.
operators(p, last) == <<"operators", p, last>>

parseExpression ==
  /\ Doing("parseExpression") /\ advance
  /\ Continue(<<Call("parsePrefix"), operators(Arg(2), Primary)>>)

\* Mutant: an operator takes one of its own level into its right operand.
RightToLeft(p, t) == p <= getPrecedence(t) /\ getPrecedence(t) > 0

BindsTighter(p, t) == p < getPrecedence(t)

Operators ==
  /\ Doing("operators")
  /\ \/ /\ BindsTighter(Arg(2), current)
        /\ Continue(<<Call("parseInfix"), operators(Arg(2), getPrecedence(current))>>)
        /\ advance
     \/ ~BindsTighter(Arg(2), current) /\ Continue(<<>>) /\ UNCHANGED input

PairOfMap == <<Expression, consume(":"), Expression>>

parsePrefix ==
  Enter("parsePrefix",
    CASE previous \in Literal \cup Type \cup {"IDENT"} -> <<>>
      [] previous \in {"-", "!", "~"} -> <<expression(Unary)>>
      [] previous = "(" -> <<Expression, consume(")")>>
      [] previous = "[" -> <<check({"]", "EOF"}, <<>>, <<list({"]"}, <<Expression>>)>>), consume("]")>>
      [] previous = "{" -> <<check({"]", "EOF"}, <<>>, <<list({"}"}, PairOfMap)>>), consume("}")>>
      [] OTHER -> <<error>>)

parseInfix ==
  Enter("parseInfix",
    CASE previous = "(" -> <<check({")", "EOF"}, <<>>, <<list({")"}, <<Expression>>)>>), consume(")")>>
      [] previous = "[" -> <<Expression, consume("]")>>
      [] previous = "." -> <<Name>>
      [] OTHER -> <<expression(getPrecedence(previous))>>)

-----------------------------------------------------------------------------
(***************************************************************************)
(* Statements.                                                             *)
(***************************************************************************)
StatementOf == either(on("{", <<Call("parseBlockStmt")>>), Calls(
  [if |-> "parseIfStmt", loop |-> "parseLoopStmt", match |-> "parseMatchStmt", continue |-> "parseJumpStmt",
   break |-> "parseJumpStmt", return |-> "parseReturnStmt", nock |-> "parseReturnStmt",
   attach |-> "parseAttachStmt", detach |-> "parseDetachStmt"]))

parseStatement ==
  Enter("parseStatement", <<match(StatementOf, <<Call("parseExpressionStmt")>>)>>)

AssignOp == {"=", "&=", "|=", "^=", "+=", "-=", "*=", "/=", "%="}

parseExpressionStmt ==
  Enter("parseExpressionStmt",
    <<Expression, match([t \in AssignOp |-> <<Expression>>], <<>>), consume(";")>>)

parseVarDeclStmt ==
  Enter("parseVarDeclStmt",
    <<Name, optional(":", <<Expression>>), optional("=", <<Expression>>), consume(";")>>)

parseConstDeclStmt ==
  Enter("parseConstDeclStmt",
    <<Name, optional(":", <<Expression>>), consume("="), Expression, consume(";")>>)

\* Mutant: the end of the file closes a block, too.
EndsAnywhere == Enter("parseBlockStmt", <<while({"}", "EOF"}, <<Call("parseDeclaration")>>), <<"advance">> >>)

parseBlockStmt ==
  Enter("parseBlockStmt", <<while({"}", "EOF"}, <<Call("parseDeclaration")>>), consume("}")>>)

parseIfStmt ==
  Enter("parseIfStmt",
    Between("(", Expression, ")") \o
    <<Statement, optional("else", <<match(on("if", <<Call("parseIfStmt")>>), <<Statement>>)>>)>>)

parseLoopStmt ==
  Enter("parseLoopStmt",
    <<optional("(", <<Expression, consume(")")>>), check({"{"}, <<Statement>>, <<error>>)>>)

parseMatchCaseStmt ==
  Enter("parseMatchCaseStmt",
    <<list({}, <<match(on("_", <<>>), <<Expression>>)>>), consume("=>"), Statement>>)

\* The cases of a match, and what else stands there.
MatchBody == while({"}", "EOF"}, <<match(on("case", <<Call("parseMatchCaseStmt")>>),
                                         <<error, Call("synchronize")>>)>>)

parseMatchStmt ==
  Enter("parseMatchStmt",
    Between("(", Expression, ")") \o Between("{", MatchBody, "}"))

\* continue and break; return and nock.
parseJumpStmt   == Enter("parseJumpStmt", <<consume(";")>>)
parseReturnStmt == Enter("parseReturnStmt", <<check({";"}, <<>>, <<Expression>>), consume(";")>>)
parseAttachStmt == Enter("parseAttachStmt", <<Expression, consume("to"), Expression, consume(";")>>)
parseDetachStmt == Enter("parseDetachStmt", <<Expression, consume("from"), Expression, consume(";")>>)

-----------------------------------------------------------------------------
(***************************************************************************)
(* Declarations.                                                           *)
(***************************************************************************)
DeclarationOf == Calls(
  [func |-> "parseFunctionDecl", struct |-> "parseStructDecl", enum |-> "parseEnumDecl",
   type |-> "parseTypeAliasDecl", interface |-> "parseInterfaceDecl", impl |-> "parseImplDecl",
   module |-> "parseModuleDecl", system |-> "parseSystemDecl", component |-> "parseComponentDecl",
   flow |-> "parseInterfaceDecl", kits |-> "parseKitsDecl", tag |-> "parseTagDecl",
   taggroup |-> "parseEnumDecl"])

ModuleLevel   == Calls([import |-> "parseImportDecl", export |-> "parseExportDecl"])
TopLevelOf    == either(ModuleLevel, DeclarationOf)
Local         == Calls([var |-> "parseVarDeclStmt", const |-> "parseConstDeclStmt"])
InnerOf       == either([t \in DOMAIN ModuleLevel |-> <<error>>], either(Local, DeclarationOf))

\* Mutant: what is no declaration is reported, and left where it is.
ReportsOnly ==
  Enter("parseTopLevelDeclaration", <<match(TopLevelOf, <<error>>)>>)

parseTopLevelDeclaration ==
  Enter("parseTopLevelDeclaration", <<match(TopLevelOf, <<error, <<"advance">> >>)>>)

parseDeclaration == Enter("parseDeclaration", <<match(InnerOf, <<Statement>>)>>)

Parameter == <<Name, optional(":", <<Expression>>)>>

parseFunctionDecl ==
  Enter("parseFunctionDecl",
    <<Name>> \o Between("(", check({")"}, <<>>, <<list({}, Parameter)>>), ")") \o
    <<optional("->", <<Expression>>)>> \o Block)

parseStructDecl ==
  Enter("parseStructDecl",
    <<Name>> \o
    Between("{", while({"}", "EOF"}, <<Name, consume(":"), Expression, match([t \in {",", ";"} |-> <<>>], <<>>)>>),
            "}"))

\* An enum, or a taggroup, is its keyword.
parseEnumDecl == Enter("parseEnumDecl", <<>>)

parseTypeAliasDecl == Enter("parseTypeAliasDecl", <<Name, consume("="), Expression, consume(";")>>)

\* An interface or a flow.
parseInterfaceDecl == Enter("parseInterfaceDecl", <<Name>> \o Block)

parseImplDecl ==
  Enter("parseImplDecl",
    <<Expression, optional("for", <<Expression>>)>> \o
    Between("{", while({"}", "EOF"}, <<Call("parseFunctionDecl")>>), "}"))

NamedItems == list({"}", "EOF"}, <<Name, optional("as", <<Name>>)>>)

parseImportDecl ==
  Enter("parseImportDecl",
    <<match(on("IDENT", <<>>), Between("{", NamedItems, "}") \o <<consume("from"), Name>>), consume(";")>>)

ExportOf == either(on("{", <<NamedItems, consume("}"), consume(";")>>), DeclarationOf)

parseExportDecl == Enter("parseExportDecl", <<match(ExportOf, <<error>>)>>)

parseModuleDecl ==
  Enter("parseModuleDecl",
    <<Name>> \o Between("{", while({"}", "EOF"}, <<match(ModuleLevel, <<Call("parseDeclaration")>>)>>), "}"))

parseSystemDecl ==
  Enter("parseSystemDecl", <<Name>> \o Between("(", Expression, ")") \o Block)

parseComponentDecl ==
  Enter("parseComponentDecl", <<Name, match(on("as", <<Name, consume(";")>>), Block)>>)

KitsBody == while({"}", "EOF"}, <<optional("&", <<>>), Name, consume("as"), Name, consume(";")>>)

parseKitsDecl == Enter("parseKitsDecl", <<Name>> \o Between("{", KitsBody, "}"))
parseTagDecl  == Enter("parseTagDecl", <<Name, consume(";")>>)

-----------------------------------------------------------------------------
Init ==
  /\ source \in Sources
  /\ previous = "NONE" /\ current = "NONE"
  /\ panicMode = FALSE /\ hadError = FALSE /\ opened = <<>>
  /\ todo = << <<"advance">>, while({"EOF"}, <<Call("parseTopLevelDeclaration")>>)>>

Step == Advance \/ Error \/ Consume \/ Match \/ Check \/ While \/ List \/ synchronize \/ Skip

ParseExpression == parseExpression \/ Operators \/ parsePrefix \/ parseInfix

ParseStatement ==
  \/ parseStatement \/ parseExpressionStmt \/ parseVarDeclStmt \/ parseConstDeclStmt \/ parseBlockStmt
  \/ parseIfStmt \/ parseLoopStmt \/ parseMatchStmt \/ parseMatchCaseStmt
  \/ parseJumpStmt \/ parseReturnStmt \/ parseAttachStmt \/ parseDetachStmt

ParseDeclaration ==
  \/ parseTopLevelDeclaration \/ parseDeclaration \/ parseFunctionDecl \/ parseStructDecl \/ parseEnumDecl
  \/ parseTypeAliasDecl \/ parseInterfaceDecl \/ parseImplDecl \/ parseImportDecl \/ parseExportDecl
  \/ parseModuleDecl \/ parseSystemDecl \/ parseComponentDecl \/ parseKitsDecl \/ parseTagDecl

Next == Step \/ ParseExpression \/ ParseStatement \/ ParseDeclaration

\* One thread that waits for nothing.
Spec == Init /\ [][Next]_vars /\ WF_vars(Next)

-----------------------------------------------------------------------------
Parsed == todo = <<>>

\* The two loops that may come round without having passed a token: the body of
\* a match, on what is no case and where synchronize does not move, and the body
\* of a kits, on what is no part of an item.
Caught ==
  /\ ~Parsed
  /\ \/ Head(todo) = MatchBody /\ current # "case" /\ Synchronized
     \/ Head(todo) = KitsBody /\ current \notin {"&", "IDENT", "as", ";"}
  /\ current \notin {"}", "EOF"}

\* Whatever the tokens, and however many errors there are, the parser comes to
\* the end of the file, but for the two loops that catch it.
Ends == <>(Parsed \/ Caught)

\* The parser returns: it gives a tree and diagnostics of any tokens.
ParserReturns == <>Parsed

\* A file without error has every bracket closed by its own kind, in order,
\* whatever of it was skipped, tried or read as a list.
AcceptedIsBalanced == Parsed /\ ~hadError => opened = <<>>

\* Expressions group by precedence, and from the left: an operator in the right
\* operand of another binds tighter than that, and the operators that follow
\* each other on one level bind no tighter than those before.
GroupsByPrecedence ==
  /\ \A k \in 1..(Len(todo) - 1) : todo[k][1] = "operators" /\ todo[k + 1][1] = "operators" =>
       todo[k][2] > todo[k + 1][2] \/ todo[k][2] = Unary
  /\ Doing("operators") /\ BindsTighter(Arg(2), current) => getPrecedence(current) <= Arg(3)
=============================================================================
