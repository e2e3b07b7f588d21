------------------------------ MODULE MCPipeline ------------------------------
(***************************************************************************)
(* NikiPipeline on projects of up to three files, each one of a pool:      *)
(* functions and structs, exported on the spot, by a list and under        *)
(* another name, or not at all; imports that fit and imports that do not;  *)
(* named modules; components and kits; ill-typed functions, functions with *)
(* a form the back end has nothing for, and files that do not parse.       *)
(***************************************************************************)
EXTENDS NikiPipeline

Form == INSTANCE NikiSupported

\* Names.  The bodies are too small for any of them to be shadowed.
Nf == 1   Ng == 2   Nh == 3   Nm == 4   Nx == 5   Ns == 6   Nv == 7
Nc == 8   Nw == 9   Np == 14  Nq == 15
A == 11   B == 12   C == 13

Type(base) == TypeExpr(base)
Params(base) == << <<Nx, Type(base)>> >>
FunctionOf(name, params, ret, stmts, id) == FunctionDecl(id, name, params, Type(ret), BlockStmt(id + 1, stmts))
Function(name, params, ret, x, id) == FunctionOf(name, params, ret, <<ReturnStmt(x)>>, id)

\* func f(x: Int): Int { return 0; } and the same of a Bool
FInt  == Function(Nf, Params("Int"), "Int", LiteralExpr("Int", 0), 10)
FBool == Function(Nf, Params("Bool"), "Int", LiteralExpr("Int", 0), 10)
\* func v(): Int { return 0; }
Other == Function(Nv, <<>>, "Int", LiteralExpr("Int", 0), 40)
\* func g(): Int { return true; } and { return v; }
Ill  == Function(Ng, <<>>, "Int", LiteralExpr("Bool", 1), 20)
Lost == Function(Ng, <<>>, "Int", IdentifierExpr(Nv), 20)
\* func m(): Int { return h(1); }
Caller == Function(Nm, <<>>, "Int", CallExpr(IdentifierExpr(Nh), <<LiteralExpr("Int", 1)>>), 30)
\* struct s { v: Int }, func m(x: t): Int { return 0; }, and { return x.v; }
Struct == StructDecl(Ns, << <<Nv, Type("Int")>> >>)
Taker(t) == Function(Nm, << <<Nx, IdentifierExpr(t)>> >>, "Int", LiteralExpr("Int", 0), 30)
Reader == Function(Nm, << <<Nx, IdentifierExpr(Ns)>> >>, "Int", MemberExpr(IdentifierExpr(Nx), Nv), 30)
\* func f(x: Int): Int { return x & 1; }, func g(): Int { var x = [0]; x[0] = 1; return 0; }
\* and func g(): Int { return 0; return nil; }, of which nothing is made of the nil.
Zero   == LiteralExpr("Int", 0)
Bits   == Function(Nf, Params("Int"), "Int", BinaryExpr("&", IdentifierExpr(Nx), LiteralExpr("Int", 1)), 10)
Writer == FunctionOf(Ng, <<>>, "Int",
            <<VarDeclStmt(Nx, NoNode, ArrayExpr(<<Zero>>)),
              AssignmentStmt("=", IndexExpr(IdentifierExpr(Nx), Zero), LiteralExpr("Int", 1)),
              ReturnStmt(Zero)>>, 20)
Behind == FunctionOf(Ng, <<>>, "Int", <<ReturnStmt(Zero), ReturnStmt(LiteralExpr("Nil", 0))>>, 20)

\* component c { }, component s as c; and the windows kits w { &c as p; } and
\* kits x { c as q; &c as p; }, of which the last may say p twice.
Component  == ComponentDecl(Nc, BlockStmt(50, <<>>))
Promoted(s) == PromotedDecl(s, Nc)
Window     == KitsDecl(Nw, <<KitsMember(FALSE, Nc, Np)>>)
Windows(q) == KitsDecl(Nx, <<KitsMember(TRUE, Nc, q), KitsMember(FALSE, Nc, Np)>>)
\* system v (0) { }
System == SystemDecl(Nv, BlockStmt(51, <<>>))

Import(from, there) == ImportDecl(from, << <<there, Nh>> >>)

Decls ==
  << <<FInt>>,
     <<ExportDecl(FInt), Other>>,
     <<ExportDecl(FBool)>>,
     <<FInt, ExportItems(<< <<Nf, Ng>> >>)>>,
     <<ModuleDecl(B, <<ExportDecl(FInt)>>)>>,
     <<Import(A, Nf), Caller>>,
     <<Import(B, Nf), Caller>>,
     <<Import(A, Ng), Caller>>,
     <<ExportDecl(Struct)>>,
     <<Import(A, Ns), Taker(Nh)>>,
     <<Struct, Taker(Ns)>>,
     <<Taker(Ns), Struct>>,
     <<Struct, Reader>>,
     <<Lost>>,
     <<Ill>>,
     <<ExportDecl(Ill)>>,
     <<ExportDecl(Lost)>>,
     <<FInt, ExportDecl(FBool)>>,
     <<ExportItems(<< <<Ng, Ng>> >>)>>,
     <<ModuleDecl(B, <<FInt>>), ModuleDecl(C, <<Ill>>)>>,
     <<FBool, ModuleDecl(B, <<FInt>>)>>,
     <<Component, Window, System, Windows(Nq)>>,
     <<Window, ExportDecl(Windows(Nq)), Struct, Promoted(Ns)>>,
     <<ExportDecl(Component), Window>>,
     <<ExportDecl(Window), FlowDecl(Nv), TagDecl(Nw)>>,
     <<Component, Windows(Np)>>,
     <<Component, ExportDecl(Windows(Np))>>,
     <<Promoted(Ns)>>,
     <<Import(A, Ns), ExportDecl(System), Promoted(Nh), Window>>,
     <<FInt, ExportDecl(ComponentDecl(Nf, BlockStmt(50, <<>>)))>>,
     <<Component, ExportItems(<< <<Nc, Nc>> >>)>>,
     <<Reader, Struct>>,
     <<Struct, ExportDecl(Reader)>>,
     <<ExportDecl(Struct), Taker(Ns)>>,
     <<ExportDecl(Taker(Ns)), Struct>>,
     <<ExportDecl(Bits)>>,
     <<Bits, ExportItems(<< <<Nf, Ng>> >>)>>,
     <<Writer, FInt>>,
     <<ExportDecl(Writer)>>,
     <<Behind, ExportDecl(Struct)>> >>

File(stem, d) == [stem |-> stem, decls |-> d, parses |-> TRUE]
Unparsed(stem) == [stem |-> stem, decls |-> <<>>, parses |-> FALSE]

FilesOf(stem) == {File(stem, Decls[k]) : k \in DOMAIN Decls} \cup {Unparsed(stem)}
FewOf(stem)   == {File(stem, Decls[k]) : k \in 2..7}

MCProject == {<<a>> : a \in FilesOf(A)}
             \cup {<<a, b>> : a \in FilesOf(A), b \in FilesOf(B)}
             \cup {<<a, b, c>> : a \in FewOf(A), b \in FewOf(B), c \in FewOf(C)}

-----------------------------------------------------------------------------
(***************************************************************************)
(* What a project must be to compile, said of its files as a set.          *)
(***************************************************************************)
FileSet == {files[k] : k \in DOMAIN files}

\* Only these declarations reach the compiler.
Leaves(file) == ModuleScopedDecls(Root(file.decls).decls)
Bare(d)      == IF d.node = "ExportDecl" /\ IsValid(d.wrapped) THEN d.wrapped ELSE d
Named(file)  == {k \in DOMAIN Leaves(file) : Bare(Leaves(file)[k]).node \in {"FunctionDecl", "StructDecl"}}
NameAt(file, k) == Bare(Leaves(file)[k]).name

AnswersTo(file) == {file.stem} \cup ({Root(file.decls).name} \ {NoName})

\* <<name outside, declaration>> of everything a file exports, a declaration of
\* no node for a name it does not have.
Declares(file, name) ==
  IF \E k \in Named(file) : NameAt(file, k) = name
    THEN Bare(Leaves(file)[CHOOSE k \in Named(file) : NameAt(file, k) = name]) ELSE NoNode

Exported(file) ==
  UNION {LET d == Leaves(file)[k]
         IN  CASE d.wrapped.node \in {"FunctionDecl", "StructDecl"} -> {<<d.wrapped.name, d.wrapped>>}
               [] IsValid(d.wrapped) /\ d.wrapped.node \notin {"FunctionDecl", "StructDecl"} -> {}
               [] OTHER -> {<<d.items[j][2], Declares(file, d.items[j][1])>> : j \in DOMAIN d.items}
         : k \in {k \in DOMAIN Leaves(file) : Leaves(file)[k].node = "ExportDecl"}}

\* What h stands for in a file: what it imports under that name.
Imports(file) == {d \in {Leaves(file)[k] : k \in DOMAIN Leaves(file)} : d.node = "ImportDecl"}
Providers(d)  == {file \in FileSet : d.from \in AnswersTo(file)}
Meant(d)      == {e[2] : e \in {e \in UNION {Exported(file) : file \in Providers(d)} : e[1] = d.items[1][1]}}

\* A signature knows the types declared above it in its file, and no imported one.
SignatureKnown(file, place) ==
  LET d     == Bare(Leaves(file)[place])
      above == {Bare(Leaves(file)[k]) : k \in 1..(place - 1)}
  IN  d # Taker(Nh) /\ (d \in {Taker(Ns), Reader} => Struct \in above)

\* The functions the checker reads, not those an export wraps.  Of the functions of
\* the pool, those that take one int may be called with one.
Reads(file, d) == d \notin {Ill, Lost} /\ (d = Caller => \E i \in Imports(file) : Meant(i) \in {{FInt}, {Bits}})

\* A domain declaration that no export wraps: a promotion names a struct of the
\* module or an imported one, a window components of the module that no export
\* wraps either, wherever they are declared, under aliases of their own.
Components(file) == {d.name : d \in {d \in ToSet(Leaves(file)) : d.node = "ComponentDecl"}}
NamesStruct(file, name) ==
  \/ Declares(file, name).node = "StructDecl"
  \/ \E i \in Imports(file) : i.items[1][2] = name /\ Meant(i) = {Struct}

DistinctAliases(d) == \A j, k \in DOMAIN d.members : d.members[j].alias = d.members[k].alias => j = k

DomainSound(file, d) ==
  CASE d.node = "KitsDecl" ->
         DistinctAliases(d) /\ \A k \in DOMAIN d.members : d.members[k].component \in Components(file)
    [] d.node = "ComponentDecl" -> d.promoted => NamesStruct(file, d.source)
    [] OTHER -> TRUE

SoundFile(file) ==
  /\ file.parses
  /\ \A j, k \in Named(file) : NameAt(file, j) = NameAt(file, k) => j = k
  /\ \A e \in Exported(file) : IsValid(e[2])
  /\ \A d \in Imports(file) : Meant(d) # {}
  /\ \A k \in DOMAIN Leaves(file) :
       LET d == Leaves(file)[k]
       IN  /\ SignatureKnown(file, k)
           /\ d.node = "FunctionDecl" => Reads(file, d)
           /\ DomainSound(file, d)

Sound ==
  /\ \A file \in FileSet : SoundFile(file)
  /\ \A p, q \in FileSet : p # q => AnswersTo(p) \cap AnswersTo(q) = {}

\* What is left to the back end: it looks up the names in what an export wraps,
\* which was not checked, and has nothing for some forms of the functions.
Refused(file) ==
  \/ \E d \in {ExportDecl(Lost), ExportDecl(Windows(Np))} : d \in ToSet(Leaves(file))
  \/ \E d \in {Bare(Leaves(file)[k]) : k \in DOMAIN Leaves(file)} :
       d.node = "FunctionDecl" /\ ~Form!SupportedFunction(d)

\* Verdict: the project compiles exactly if every file of it is sound by itself
\* and with the others, and leaves the back end nothing to refuse, whatever the
\* order of the files and of the stages.
Verdict ==
  stage \in {"done", "failed"} => (stage = "done" <=> Sound /\ \A file \in FileSet : ~Refused(file))

\* An imported function has, through the type arena that all units share, the
\* parameters of the very declaration it was exported from.
ImportKeepsSignature ==
  stage \in {"check", "backend"} /\ diagnostics = {} =>
    \A k \in DOMAIN units : \A d \in Imports(files[k]) :
      LET symbol == visible[k][Nh] IN
      symbol.kind = "Function" =>
        \A e \in Meant(d) : tables.sigs[symbol.type.id].params = [j \in DOMAIN e.params |-> Plain(e.params[j][2].base)]

\* A compiled project has, file by file, one function for every function
\* declaration in the file -- but for what stands beside a file's only module.
Functions(decls) ==
  {Bare(d).name : d \in {d \in ToSet(ModuleScopedDecls(decls)) : Bare(d).node = "FunctionDecl"}}

EveryFunctionCompiled ==
  stage = "done" =>
    \A k \in DOMAIN files : Len(Modules(files[k].decls)) # 1 \/ Len(files[k].decls) = 1 =>
      modules[k].exports = Functions(files[k].decls) /\ modules[k].module_id = k

\* The windows of a module partition the one table of items: each is what its
\* kits declares, in order, whatever stands between the kits; and the domain's
\* own checks, which nothing runs, would find no more than the name of an exported
\* declaration that another kind of declaration has as well.
KitsDecls(unit) ==
  LET decls == ModuleScopedDecls(unit.decls)
  IN  SelectSeq([k \in DOMAIN decls |-> Bare(decls[k])], LAMBDA d : d.node = "KitsDecl")

HasName(d) == d.node \notin {"ImportDecl", "ExportDecl", "ModuleDecl", "OpaqueDecl"}

Shared(unit) ==
  LET leaves  == ToSet(ModuleScopedDecls(unit.decls))
      wrapped == {d.wrapped : d \in {d \in leaves : d.node = "ExportDecl" /\ IsValid(d.wrapped)}}
  IN  \E d \in wrapped, e \in {Bare(d) : d \in leaves} : d # e /\ HasName(e) /\ d.name = e.name

KitsWindows ==
  task = "lower" =>
    LET decls == KitsDecls(units[at]) IN
    /\ Len(ir.kits) = Len(decls)
    /\ \A k \in DOMAIN decls :
         /\ ir.kits[k].name = decls[k].name
         /\ [j \in 1..ir.kits[k].count |-> ir.kits_items[ir.kits[k].first + j]] = decls[k].members
    /\ IR!DomainIssues(ir) = IF Shared(units[at]) THEN {"DuplicateExportedSymbolName"} ELSE {}

\* A project is refused as late as in the back end exactly if every file of it is
\* sound: no flaw that an earlier stage is there for gets past that stage.
RefusedLate == [][stage' = "failed" /\ stage # "failed" => (stage = "backend" <=> Sound)]_vars
===============================================================================
