------------------------------ MODULE NikiCompile ------------------------------
(***************************************************************************)
(* One file from its tree to its result: the pipeline compiles it, the     *)
(* host runs the init chunk and then the entry function on the VM with its *)
(* heap.  The functions of the module get the objects of FuncSeq in their  *)
(* order; string literals lie in the heap from the start.                  *)
(***************************************************************************)
EXTENDS NikiHeap

CONSTANTS
  Project,    \* the files that may be compiled, each alone
  InitChunk,  \* the object of the module's init chunk
  FuncSeq,    \* the objects of its functions, in order
  EntryName   \* the name of the entry function

VARIABLES
  files, units, tables, visible, frees, modules, diagnostics, stage, at, task,
  insts, blocks, funcs, meta, cur, locals, open, loops, decl, todo, errors, env,
  phase       \* of the host: "compile", "load", "init", "entry"

pipelineVars ==
  <<files, units, tables, visible, frees, modules, diagnostics, stage, at, task,
    insts, blocks, funcs, meta, cur, locals, open, loops, decl, todo, errors, env>>

Pipeline == INSTANCE NikiPipeline
Low      == INSTANCE NikiBackend
Form     == INSTANCE NikiSupported

allVars      == <<vars, heapVars, pipelineVars, phase>>

ASSUME CompileAssumption ==
  /\ Func = {InitChunk} \cup {FuncSeq[k] : k \in DOMAIN FuncSeq}
  /\ InitChunk \in Script
  /\ Module = {1}
  /\ \A p \in Project : Len(p) = 1

-----------------------------------------------------------------------------
\* The objects of a module's functions.
Objects(images) == [k \in DOMAIN images |-> FuncSeq[k]]

BlankImage ==
  [arity |-> 0, max_registers |-> 0, name_id |-> 0, module_id |-> 1, constants |-> <<>>, code |-> <<>>]

NoProgram == [func |-> [f \in Func |-> BlankImage], struct_name |-> [s \in StructDef |-> 0]]

ProgramOf(images) ==
  [NoProgram EXCEPT !.func = [f \in Func |->
     CASE f = InitChunk -> Low!makeInitChunk(Objects(images), 1)
       [] \E k \in DOMAIN images : FuncSeq[k] = f ->
            images[CHOOSE k \in DOMAIN images : FuncSeq[k] = f]
       [] OTHER -> BlankImage]]

\* The strings among the constants of the program.
StringsOf(images) ==
  {v.as : v \in {v \in UNION {{images[k].constants[j] : j \in DOMAIN images[k].constants} : k \in DOMAIN images}
                 : v.type = "Object"}}

CompileStep(step) == phase = "compile" /\ step /\ UNCHANGED <<vars, heapVars, phase>>

Compiling ==
  \/ CompileStep(Pipeline!parseOneUnit) \/ CompileStep(Pipeline!predeclareUnit)
  \/ CompileStep(Pipeline!buildContext) \/ CompileStep(Pipeline!checkUnit)
  \/ CompileStep(Pipeline!beginBuild)   \/ CompileStep(Pipeline!buildStep)
  \/ CompileStep(Pipeline!endBuild)     \/ CompileStep(Pipeline!lowerUnit)
  \/ CompileStep(Pipeline!Returned)

LoadProgram ==
  /\ phase = "compile" /\ stage = "done"
  /\ prog' = ProgramOf(modules[1].functions)
  /\ heap' = [o \in HeapObj |-> IF o \in StringsOf(modules[1].functions)
                                  THEN [type |-> "String", chars |-> o] ELSE Unused]
  /\ phase' = "load"
  /\ UNCHANGED <<stack, frames, globals, global_objects, module_id, status, result, misuse, pipelineVars>>

RunInit ==
  /\ phase = "load"
  /\ executeChunk(InitChunk)
  /\ phase' = "init"
  /\ UNCHANGED <<heapVars, pipelineVars>>

RunEntry ==
  /\ phase = "init" /\ status = "ok"
  /\ executeFunction([module_id |-> 1, name_id |-> EntryName])
  /\ phase' = "entry"
  /\ UNCHANGED <<heapVars, pipelineVars>>

Running == MachineStep /\ UNCHANGED <<pipelineVars, phase>>

CompileInit ==
  /\ Pipeline!Init
  /\ prog = NoProgram
  /\ stack = [i \in 0..(StackCapacity - 1) |-> makeNil]
  /\ frames = <<>> /\ globals = [k \in {} |-> k] /\ global_objects = [k \in {} |-> k]
  /\ module_id = kInvalidModuleId /\ status = "idle" /\ result = makeNil
  /\ heap = [o \in HeapObj |-> Unused] /\ misuse = "none"
  /\ phase = "compile"

CompileNext == Compiling \/ LoadProgram \/ RunInit \/ RunEntry \/ Running

CompileSpec == CompileInit /\ [][CompileNext]_allVars

-----------------------------------------------------------------------------
(***************************************************************************)
(* Correctness.                                                            *)
(***************************************************************************)
Loaded   == phase # "compile"
Ended    == phase = "entry" /\ status # "running"

\* What the back end makes of a project is safe to run: no operand reaches out of
\* its window, no constant is taken for a name, no run leaves the code.
LoweredIsWellFormed ==
  Loaded => \A f \in {InitChunk} \cup {FuncSeq[k] : k \in DOMAIN modules[1].functions} :
              Low!SafeImage(prog.func[f])

\* What the checker has let through, the back end compiles -- its names resolve,
\* its jumps have a loop, its blocks verify -- exactly if it makes code of no form
\* that it has nothing for.
AcceptedIsBuilt ==
  [][stage = "backend" /\ stage' # stage =>
       (stage' = "done" <=> \A k \in DOMAIN files[1].decls : Form!SupportedFunction(files[1].decls[k]))]_allVars

\* No object that is gone is read or released again.
NoMisuse == misuse = "none"
================================================================================
