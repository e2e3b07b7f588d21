----------------------------- MODULE NikiPipeline ------------------------------
(***************************************************************************)
(* CompilerOrchestrator::compileAll: the files of a project are parsed,    *)
(* predeclared, given their module contexts, type checked and compiled to  *)
(* images, each stage on every unit before the next one starts.  A stage   *)
(* goes on after a unit with diagnostics, but is the last one then.        *)
(*                                                                         *)
(* A file is [stem, decls, parses]: its top-level declarations, or that it *)
(* has no syntax tree.                                                     *)
(***************************************************************************)
EXTENDS NikiModules, NikiValue

CONSTANT Project   \* the lists of files compileAll may be given

VARIABLES
  files,        \* the files, sorted by path
  units,        \* the compilation units parsed so far
  tables,       \* the type arena and the module namespaces
  visible,      \* the visible symbols of each unit
  frees,        \* what the checker left in each unit for the builder
  task,         \* what the back end does with its unit: "build", "building", "lower"
  modules,      \* the compiled modules
  diagnostics,
  stage,        \* the stage that is running, or how compileAll ended
  at            \* the file or unit it is about to process

\* The builder of the unit in the back end.
VARIABLES insts, blocks, funcs, meta, cur, locals, open, loops, decl, todo, errors, env

builderVars == <<insts, blocks, funcs, meta, cur, locals, open, loops, decl, todo, errors, env>>
backendVars == <<task, builderVars>>

vars == <<files, units, tables, visible, frees, modules, diagnostics, stage, at, backendVars>>


CK == INSTANCE NikiChecker
IB == INSTANCE NikiBuilder
IR == INSTANCE NikiLowering

ASSUME ProjectAssumption == \A p \in Project : Len(p) > 0

Stage == {"parse", "predeclare", "context", "check", "backend", "done", "failed"}

-----------------------------------------------------------------------------
Report(found) == diagnostics' = diagnostics \cup found

\* A stage takes one unit after the other; what it found decides at its end.
Advance(list, next) ==
  IF at < Len(list) THEN at' = at + 1 /\ UNCHANGED stage
  ELSE at' = 1 /\ stage' = IF diagnostics' = {} THEN next ELSE "failed"

Modules(decls) == SelectSeq(decls, LAMBDA d : d.node = "ModuleDecl")

\* Mutant: the first module is the root, whatever stands beside it.
FirstModule(decls) ==
  IF Modules(decls) # <<>> THEN Modules(decls)[1] ELSE ModuleDecl(NoName, decls)

\* The root of a file's tree: its module if it has just one, and then nothing
\* of what stands beside it; otherwise a module without a name around it all.
Root(decls) ==
  IF Len(Modules(decls)) = 1 THEN Modules(decls)[1] ELSE ModuleDecl(NoName, decls)

\* A file that does not parse makes no unit.
parseOneUnit ==
  LET file == files[at] IN
  /\ stage = "parse"
  /\ \/ /\ file.parses
        /\ units' = Append(units, [stem |-> file.stem, name |-> Root(file.decls).name,
                                   decls |-> Root(file.decls).decls, module |-> Len(units) + 1])
        /\ Report({})
     \/ ~file.parses /\ Report({"syntax error"}) /\ UNCHANGED units
  /\ Advance(files, "predeclare")
  /\ UNCHANGED <<files, tables, visible, frees, modules, backendVars>>

predeclareUnit ==
  /\ stage = "predeclare"
  /\ tables' = predeclareSingleUnit(tables, units[at])
  /\ Report(tables'.errors)
  /\ Advance(units, "context")
  /\ UNCHANGED <<files, units, visible, frees, modules, backendVars>>

buildContext ==
  LET context == buildModuleSemanticContext(tables, units) IN
  /\ stage = "context"
  /\ visible' = context.visible
  /\ Report(context.errors)
  /\ Advance(<<>>, "check")
  /\ UNCHANGED <<files, units, tables, frees, modules, backendVars>>

\* The field lists of the structs of a unit, in its own order.
StructData(unit) ==
  LET structs == SelectSeq([k \in DOMAIN ModuleScopedDecls(unit.decls) |->
                              LET d == ModuleScopedDecls(unit.decls)[k]
                              IN  IF d.node = "ExportDecl" THEN d.wrapped ELSE d],
                           LAMBDA d : d.node = "StructDecl")
  IN  [k \in DOMAIN structs |-> structs[k].fields]

CheckerEnv(k) ==
  [ns |-> Namespace(tables, units[k].module), visible |-> visible[k],
   structs |-> tables.structs, sigs |-> tables.sigs, struct_data |-> StructData(units[k])]

checkUnit ==
  /\ stage = "check"
  /\ \E ck \in {CK!check(units[at], CheckerEnv(at))} :
       frees' = Append(frees, ck.frees) /\ Report(ck.errors)
  /\ Advance(units, "backend")
  /\ UNCHANGED <<files, units, tables, visible, modules, backendVars>>

-----------------------------------------------------------------------------
(***************************************************************************)
(* The back end of one unit (compileUnitChunk): build, verify and lower.   *)
(* The first of the three that fails ends the unit.                        *)
(***************************************************************************)
ModuleName(unit) == IF unit.name = NoName THEN unit.stem ELSE unit.name

beginBuild ==
  /\ stage = "backend" /\ task = "build"
  /\ IB!build(units[at], frees[at], visible[at])
  /\ task' = "building"
  /\ UNCHANGED <<files, units, tables, visible, frees, modules, diagnostics, stage, at>>

buildStep ==
  /\ stage = "backend" /\ task = "building"
  /\ IB!step
  /\ UNCHANGED <<files, units, tables, visible, frees, modules, diagnostics, stage, at, task>>

endBuild ==
  /\ stage = "backend" /\ task = "building" /\ todo = <<>>
  /\ \/ errors = {} /\ task' = "lower" /\ UNCHANGED <<diagnostics, stage, at>>
     \/ errors # {} /\ task' = "build" /\ Report(errors) /\ Advance(units, "done")
  /\ UNCHANGED <<files, units, tables, visible, frees, modules, builderVars>>

ir == IB!ModuleIR

BackendErrors ==
  CASE IR!verifyModuleIRFlat(ir) # {} -> IR!verifyModuleIRFlat(ir)
    [] IR!verifyModuleIRFlat(ir) = {} /\ ~IR!Lowerable(ir) -> {"lowering failed"}
    [] OTHER -> {}

\* buildCompileModule puts what the unit has become before the linker.
CompileModule(unit, images) ==
  [module_id |-> unit.module, module_name |-> ModuleName(unit), functions |-> images,
   exports |-> IR!collectExports(images),
   exported_symbols |-> SelectSeq(ir.syms, LAMBDA s : s.exported /\ s.kind # "Func")]

lowerUnit ==
  /\ stage = "backend" /\ task = "lower"
  /\ \/ /\ BackendErrors = {}
        /\ modules' = Append(modules, CompileModule(units[at], IR!lowerModuleToChunk(ir, units[at].module)))
     \/ BackendErrors # {} /\ UNCHANGED modules
  /\ task' = "build"
  /\ Report(BackendErrors)
  /\ Advance(units, "done")
  /\ UNCHANGED <<files, units, tables, visible, frees, builderVars>>

-----------------------------------------------------------------------------
Init ==
  /\ files \in Project
  /\ units = <<>> /\ tables = Tables /\ visible = <<>> /\ frees = <<>> /\ modules = <<>>
  /\ diagnostics = {} /\ stage = "parse" /\ at = 1
  /\ task = "build" /\ IB!Idle

\* compileAll has returned.
Returned == stage \in {"done", "failed"} /\ UNCHANGED vars

Next ==
  parseOneUnit \/ predeclareUnit \/ buildContext \/ checkUnit
  \/ beginBuild \/ buildStep \/ endBuild \/ lowerUnit \/ Returned

Spec == Init /\ [][Next]_vars
================================================================================
