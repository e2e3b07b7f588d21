------------------------------- MODULE MCParser --------------------------------
(***************************************************************************)
(* NikiParser on every source of a few tokens, of kinds that one part of   *)
(* the grammar tells apart, behind a beginning that leads to that part.    *)
(* Each part has sources without error among them.                         *)
(***************************************************************************)
EXTENDS NikiParser

CONSTANT MaxTokens

Of(begin, kinds, more) == [begin |-> begin, kinds |-> kinds, more |-> more, invalid |-> FALSE]
InFunction == <<"func", "IDENT", "(", ")", "{">>

MCSources ==
  { \* declarations of every kind
    Of(<<>>, {"func", "IDENT", "(", ")", "{", "}", ":", ",", "->", "int"}, MaxTokens),
    Of(<<>>, {"struct", "type", "=", "IDENT", ":", "int", ",", ";", "{", "}", "enum", "taggroup"}, MaxTokens),
    Of(<<>>, {"import", "export", "IDENT", "as", "from", "{", "}", ",", ";", "tag", "struct"}, MaxTokens),
    Of(<<>>, {"module", "component", "flow", "interface", "IDENT", "{", "}", "as", ";", "import"}, MaxTokens),
    Of(<<"system", "IDENT">>, {"IDENT", "(", ")", "{", "}", ",", "tag"}, MaxTokens),
    Of(<<"impl", "IDENT">>, {"for", "IDENT", "{", "}", "func", "(", ")"}, MaxTokens + 1),
    Of(<<"kits", "IDENT">>, {"IDENT", "{", "}", "&", "as", ";", "INT"}, MaxTokens + 1),
    \* statements
    Of(InFunction, {"var", "const", "IDENT", ":", "=", "int", ";", "}", "return"}, MaxTokens + 1),
    Of(InFunction, {"if", "else", "(", ")", "IDENT", ";", "{", "}"}, MaxTokens + 1),
    Of(InFunction, {"loop", "(", ")", "break", "continue", ";", "{", "}", "nock", "true"}, MaxTokens),
    Of(InFunction, {"attach", "detach", "to", "from", "IDENT", ";", "}", "export", "var"}, MaxTokens),
    Of(InFunction \o <<"match", "(", "IDENT", ")">>,
       {"IDENT", "{", "case", "_", "=>", ";", "}", "var"}, MaxTokens + 2),
    \* expressions
    Of(Append(InFunction, "return"), {"IDENT", "+", "*", "-", "==", "(", ")", ";", "}"}, MaxTokens + 1),
    Of(Append(InFunction, "IDENT"), {"+=", "INT", "[", "]", "{", ":", "}", ",", ";", ".", "IDENT"}, MaxTokens),
    \* tokens that are none
    [Of(InFunction, {"if", "IDENT", ";", "}", "match", "{", "("}, MaxTokens) EXCEPT !.invalid = TRUE] }
=============================================================================
