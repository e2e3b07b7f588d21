------------------------------ MODULE NikiModules ------------------------------
(***************************************************************************)
(* The precompile stage: predeclaration fills the type arena and the       *)
(* module namespaces from the top-level declarations of every unit, then   *)
(* imports and exports settle which symbols each unit sees.                *)
(*                                                                         *)
(* A unit is [stem, name, module, decls]: the stem of its file, the name   *)
(* of its module if it declares one, NoName otherwise, its module id, and  *)
(* the declarations of its root.  Tables t hold what predeclaration builds *)
(* for all units: structs, sigs (the arena), ns (module -> name ->         *)
(* [kind, type]) and errors.                                               *)
(***************************************************************************)
EXTENDS NikiAst, SequencesExt

\* The name of a root without one.
NoName == 0

Tables == [structs |-> <<>>, sigs |-> <<>>, ns |-> <<>>, errors |-> {}]

Wrong(t, bad, what) == IF bad THEN [t EXCEPT !.errors = @ \cup {what}] ELSE t

Namespace(t, m) == IF m \in DOMAIN t.ns THEN t.ns[m] ELSE <<>>

\* The leaf declarations of a unit, those of nested modules in their place.
RECURSIVE ModuleScopedDecls(_)
ModuleScopedDecls(decls) ==
  FlattenSeq([k \in DOMAIN decls |-> IF decls[k].node = "ModuleDecl" THEN ModuleScopedDecls(decls[k].decls)
                                                                      ELSE <<decls[k]>>])

-----------------------------------------------------------------------------
(***************************************************************************)
(* Predeclaration.                                                         *)
(***************************************************************************)
\* Any symbol of the own module declared so far may stand for a type.
PredeclaredType(t, m, node) ==
  CASE node.node = "TypeExpr" -> Plain(node.base)
    [] node.node = "IdentifierExpr" /\ node.name \in DOMAIN Namespace(t, m) -> Namespace(t, m)[node.name].type
    [] OTHER -> Unknown

resolvePredeclareType(t, m, node) ==
  Wrong(t, IsValid(node) /\ ~Known(PredeclaredType(t, m, node)), "unknown type name")

\* The index of an entry of the arena, which is added unless it is there.
Interned(table, entry) ==
  IF Contains(table, entry) THEN table ELSE Append(table, entry)

\* Mutant: an entry is taken for the last one.
LastId(table, entry) == Len(table)

IdIn(table, entry) == CHOOSE k \in DOMAIN table : table[k] = entry

\* Mutant: the first one stays, and nothing is said.
InsertQuietly(t, m, name, kind, type) ==
  [t EXCEPT !.ns = (m :> (Namespace(t, m) @@ (name :> [kind |-> kind, type |-> type]))) @@ @]

\* A second symbol of the same name is refused: the first one stays.
insert(t, m, name, kind, type) ==
  Wrong([t EXCEPT !.ns = (m :> (Namespace(t, m) @@ (name :> [kind |-> kind, type |-> type]))) @@ @],
        name \in DOMAIN Namespace(t, m), "duplicate top-level symbol")

predeclareStruct(t, unit, d) ==
  LET m     == unit.module
      entry == [name |-> d.name, owner |-> unit.stem,
                names |-> [k \in DOMAIN d.fields |-> d.fields[k][1]],
                types |-> [k \in DOMAIN d.fields |-> PredeclaredType(t, m, d.fields[k][2])]]
      read  == FoldLeft(LAMBDA c, f : resolvePredeclareType(c, m, f[2]), t, d.fields)
      full  == [read EXCEPT !.structs = Interned(@, entry)]
  IN  insert(full, m, d.name, "Struct", NKType("Object", IdIn(full.structs, entry)))

predeclareFunction(t, unit, d) ==
  LET m    == unit.module
      sig  == [params |-> [k \in DOMAIN d.params |-> PredeclaredType(t, m, d.params[k][2])],
               ret |-> PredeclaredType(t, m, d.ret)]
      read == FoldLeft(LAMBDA c, n : resolvePredeclareType(c, m, n), t,
                       Append([k \in DOMAIN d.params |-> d.params[k][2]], d.ret))
      full == [read EXCEPT !.sigs = Interned(@, sig)]
  IN  insert(full, m, d.name, "Function", NKType("Function", IdIn(full.sigs, sig)))

predeclareTypeAlias(t, unit, d) ==
  insert(resolvePredeclareType(t, unit.module, d.type), unit.module, d.name, "TypeAlias",
         PredeclaredType(t, unit.module, d.type))

\* An exported declaration is declared like any other.
predeclareDecl(t, unit, decl) ==
  LET d == IF decl.node = "ExportDecl" THEN decl.wrapped ELSE decl IN
  CASE d.node = "StructDecl"    -> predeclareStruct(t, unit, d)
    [] d.node = "FunctionDecl"  -> predeclareFunction(t, unit, d)
    [] d.node = "TypeAliasDecl" -> predeclareTypeAlias(t, unit, d)
    [] OTHER -> t

predeclareSingleUnit(t, unit) ==
  FoldLeft(LAMBDA c, d : predeclareDecl(c, unit, d), t, ModuleScopedDecls(unit.decls))

-----------------------------------------------------------------------------
(***************************************************************************)
(* Module contexts.                                                        *)
(***************************************************************************)
\* A module answers to its file's stem and to its own name; of two modules
\* that claim a name the first has it.
NameKeys(unit) == <<unit.stem>> \o IF unit.name = NoName THEN <<>> ELSE <<unit.name>>

Registry(units) ==
  LET keys == FlattenSeq([k \in DOMAIN units |->
                [j \in DOMAIN NameKeys(units[k]) |-> <<NameKeys(units[k])[j], units[k].module>>]])
      first(r, key) == IF key[1] \in DOMAIN r.of
                         THEN Wrong(r, r.of[key[1]] /= key[2], "duplicate module name")
                         ELSE [r EXCEPT !.of = (key[1] :> key[2]) @@ @]
  IN  FoldLeft(first, [of |-> <<>>, errors |-> {}], keys)

\* The unit's import bindings [from, there, here]; a module that is not found
\* binds nothing.
ImportBindings(registry, unit) ==
  LET imports == SelectSeq(ModuleScopedDecls(unit.decls),
                           LAMBDA d : d.node = "ImportDecl" /\ d.from \in DOMAIN registry.of)
  IN  FlattenSeq([k \in DOMAIN imports |->
        [j \in DOMAIN imports[k].items |->
           [from |-> registry.of[imports[k].from], there |-> imports[k].items[j][1],
            here |-> imports[k].items[j][2]]]])

collectModuleRegistry(units) ==
  LET r == Registry(units)
  IN  Wrong(r, \E k \in DOMAIN units : \E d \in ToSet(ModuleScopedDecls(units[k].decls)) :
                 d.node = "ImportDecl" /\ d.from \notin DOMAIN r.of, "imported module not found")

\* What a unit exports, <<name inside, name outside>>, in the order it says so:
\* of the declarations an export wraps, not those of the domain.
ExportsOf(unit) ==
  LET exports == SelectSeq(ModuleScopedDecls(unit.decls), LAMBDA d : d.node = "ExportDecl")
  IN  FlattenSeq([k \in DOMAIN exports |->
        CASE exports[k].wrapped.node \in {"FunctionDecl", "StructDecl", "TypeAliasDecl"} ->
               << <<exports[k].wrapped.name, exports[k].wrapped.name>> >>
          [] ~IsValid(exports[k].wrapped) -> exports[k].items
          [] OTHER -> <<>>])

SymbolRef(owner, name, symbol) ==
  [owner |-> owner, name |-> name, kind |-> symbol.kind, type |-> symbol.type]

\* Exporting two symbols under one name exports the first.
ModuleExports(t, unit) ==
  LET m     == unit.module
      there == SelectSeq(ExportsOf(unit), LAMBDA e : e[1] \in DOMAIN Namespace(t, m))
  IN  FoldLeft(LAMBDA table, e : table @@ (e[2] :> SymbolRef(m, e[2], Namespace(t, m)[e[1]])),
               <<>>, there)

ExportsResolve(t, unit) ==
  \A e \in ToSet(ExportsOf(unit)) : e[1] \in DOMAIN Namespace(t, unit.module)

\* exports: module -> its export table.  An import replaces a symbol of the
\* unit's own module, or of an earlier import, that has its local name.
VisibleSymbols(t, exports, bindings, unit) ==
  LET own == [n \in DOMAIN Namespace(t, unit.module) |->
                SymbolRef(unit.module, n, Namespace(t, unit.module)[n])]
      see(table, i) == IF i.there \in DOMAIN exports[i.from]
                         THEN (i.here :> [exports[i.from][i.there] EXCEPT !.name = i.here]) @@ table
                         ELSE table
  IN  FoldLeft(see, own, bindings)

ImportsResolve(exports, bindings) ==
  \A i \in ToSet(bindings) : i.there \in DOMAIN exports[i.from]

\* visible: one table per unit, with the errors of the first step that has any.
buildModuleSemanticContext(t, units) ==
  LET registry == collectModuleRegistry(units)
      exports  == [m \in {units[k].module : k \in DOMAIN units} |->
                     ModuleExports(t, CHOOSE u \in ToSet(units) : u.module = m)]
      bindings == [k \in DOMAIN units |-> ImportBindings(registry, units[k])]
      exported == \A k \in DOMAIN units : ExportsResolve(t, units[k])
      imported == \A k \in DOMAIN units : ImportsResolve(exports, bindings[k])
  IN  [visible |-> [k \in DOMAIN units |-> VisibleSymbols(t, exports, bindings[k], units[k])],
       errors  |-> CASE registry.errors /= {} -> registry.errors
                     [] registry.errors = {} /\ ~exported -> {"exported symbol missing"}
                     [] registry.errors = {} /\ exported /\ ~imported -> {"imported name is not exported"}
                     [] OTHER -> {}]
================================================================================
