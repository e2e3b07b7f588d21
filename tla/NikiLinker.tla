------------------------------ MODULE NikiLinker -------------------------------
(***************************************************************************)
(* Linker::link (linker_facade.cpp): one pass over the symbols of all      *)
(* modules that looks for duplicates and for the entry.  Functions come    *)
(* from a hash table, so in any order, then the other exported symbols.    *)
(*                                                                         *)
(* A symbol is its string pool id: the compiler's modules share one        *)
(* interner, so that equal names have equal ids.  What the diagnostics     *)
(* say is left out: a diagnostic is its code.                              *)
(***************************************************************************)
EXTENDS Integers, Sequences, FiniteSets

CONSTANTS EntryName, NoEntry

VARIABLES
  modules,            \* the CompileModules: a sequence, in the order of files
  at,                 \* the module under way
  functions, records, \* its symbols not yet seen: exports and exported_symbols
  per_module,         \* the (module_id, name) pairs seen
  global_names,       \* the names seen
  duplicates,         \* how many DuplicateSymbol diagnostics there are
  entry, entry_count, \* the last entry seen, and how many were
  linked              \* "linking", then "linked" or "failed"

linkVars == <<modules, at, functions, records, per_module, global_names,
              duplicates, entry, entry_count, linked>>

CompileModule(ModuleId, NameId, Chunk) ==
  [module_id : ModuleId, init_chunk : Chunk, exports : SUBSET NameId,
   exported_symbols : Seq(NameId)]

-----------------------------------------------------------------------------
LinkInit ==
  /\ at = 1
  /\ functions = (IF modules = <<>> THEN {} ELSE modules[1].exports)
  /\ records = (IF modules = <<>> THEN <<>> ELSE modules[1].exported_symbols)
  /\ per_module = {} /\ global_names = {}
  /\ duplicates = 0
  /\ entry = NoEntry /\ entry_count = 0
  /\ linked = "linking"

\* Mutant: a name defined twice counts only within its module.
SeenInModule(n) == IF <<modules[at].module_id, n>> \in per_module THEN 1 ELSE 0

\* A name is refused in its module and over all modules: twice in one module
\* is reported twice.
Seen(n) ==
  (IF <<modules[at].module_id, n>> \in per_module THEN 1 ELSE 0)
    + (IF n \in global_names THEN 1 ELSE 0)

\* Mutant: the entry is taken to be in the first module.
VisitInFirst(n) ==
  /\ duplicates' = duplicates + Seen(n)
  /\ per_module' = per_module \cup {<<modules[at].module_id, n>>}
  /\ global_names' = global_names \cup {n}
  /\ IF n = EntryName
     THEN /\ entry' = [module_id |-> modules[1].module_id, name_id |-> n]
          /\ entry_count' = entry_count + 1
     ELSE UNCHANGED <<entry, entry_count>>
  /\ UNCHANGED <<modules, at, linked>>

Visit(n) ==
  /\ duplicates' = duplicates + Seen(n)
  /\ per_module' = per_module \cup {<<modules[at].module_id, n>>}
  /\ global_names' = global_names \cup {n}
  /\ IF n = EntryName
     THEN /\ entry' = [module_id |-> modules[at].module_id, name_id |-> n]
          /\ entry_count' = entry_count + 1
     ELSE UNCHANGED <<entry, entry_count>>
  /\ UNCHANGED <<modules, at, linked>>

VisitFunction ==
  /\ linked = "linking"
  /\ \E n \in functions : functions' = functions \ {n} /\ Visit(n)
  /\ UNCHANGED records

VisitRecord ==
  /\ linked = "linking" /\ functions = {} /\ records # <<>>
  /\ Visit(Head(records))
  /\ records' = Tail(records)
  /\ UNCHANGED functions

NextModule ==
  /\ linked = "linking" /\ functions = {} /\ records = <<>>
  /\ at < Len(modules)
  /\ at' = at + 1
  /\ functions' = modules[at + 1].exports
  /\ records' = modules[at + 1].exported_symbols
  /\ UNCHANGED <<modules, per_module, global_names, duplicates, entry, entry_count, linked>>

\* One entry and no diagnostic, or no program.
Conclude ==
  /\ linked = "linking" /\ functions = {} /\ records = <<>>
  /\ at >= Len(modules)
  /\ linked' = IF duplicates = 0 /\ entry_count = 1 THEN "linked" ELSE "failed"
  /\ UNCHANGED <<modules, at, functions, records, per_module, global_names,
                 duplicates, entry, entry_count>>

LinkStep == VisitFunction \/ VisitRecord \/ NextModule \/ Conclude

-----------------------------------------------------------------------------
(***************************************************************************)
(* The verdict, stated over the modules and not over the pass.             *)
(***************************************************************************)
\* Where names are defined: a function of a module, or a place in its records.
Definitions ==
  UNION {{[module |-> i, place |-> 0, name |-> n] : n \in modules[i].exports}
           \cup {[module |-> i, place |-> k, name |-> modules[i].exported_symbols[k]] :
                   k \in DOMAIN modules[i].exported_symbols} : i \in DOMAIN modules}

NamesDistinct == \A d, e \in Definitions : d.name = e.name => d = e

\* A program is linked exactly when every name of the project is defined once
\* and the entry is among them; the entry is then the one definition of its
\* name; whatever the order in which the symbols were met.
LinkVerdict ==
  linked # "linking" =>
    /\ (linked = "linked") <=>
         NamesDistinct /\ \E d \in Definitions : d.name = EntryName
    /\ linked = "linked" =>
         \E d \in Definitions :
           d.name = EntryName
             /\ entry = [module_id |-> modules[d.module].module_id, name_id |-> EntryName]
=============================================================================
