-------------------------------- MODULE NikiRun --------------------------------
(***************************************************************************)
(* The back half of CompilerOrchestrator::runProject: the compiled modules *)
(* of a project are linked, and the linked program is launched on a new    *)
(* VM.  prog.modules are the CompileModules, prog.func their code.         *)
(***************************************************************************)
EXTENDS NikiLauncher

CONSTANTS EntryName, NoEntry

VARIABLES at, functions, records, per_module, global_names, duplicates,
          entry_count, linked

Linker == INSTANCE NikiLinker WITH modules <- prog.modules

\* What the compiler puts into a program.  An init chunk defines the functions in
\* its constants, which are of its own module and no init chunks, one after the
\* other, and returns; no other code defines or sets a global, and its constants
\* hold no function.
Initializes(image, p) ==
  /\ \A j \in DOMAIN image.code :
       /\ image.code[j].op \in {"DEFINE_GLOBAL", "RETURN"}
       /\ image.code[j].op = "RETURN" => j = Len(image.code)
  /\ \A k \in DOMAIN image.constants :
       /\ isFunction(image.constants[k]) /\ image.constants[k].as \notin Script
       /\ p.func[image.constants[k].as].module_id = image.module_id
       /\ \E j \in DOMAIN image.code : image.code[j].op = "DEFINE_GLOBAL" /\ image.code[j].a = k - 1

Computes(image) ==
  /\ \A k \in DOMAIN image.code : image.code[k].op \notin {"DEFINE_GLOBAL", "SET_GLOBAL"}
  /\ \A k \in DOMAIN image.constants : ~isFunction(image.constants[k])

\* A module exports the functions its init chunk defines, each under a name of
\* its own.
Exported(m, p) ==
  LET image   == p.func[m.init_chunk]
      Name(k) == p.func[image.constants[k].as].name_id
  IN  /\ image.module_id = m.module_id
      /\ m.exports = {Name(k) : k \in DOMAIN image.constants}
      /\ \A k, l \in DOMAIN image.constants : Name(k) = Name(l) => image.constants[k] = image.constants[l]

ASSUME CompiledAssumption ==
  /\ Func \cap StructDef = {}
  /\ \A p \in Program :
       /\ p.modules \in Seq(Linker!CompileModule(Module, NameId, Script))
       /\ \A f \in Script : Initializes(p.func[f], p)
       /\ \A f \in Func \ Script : Computes(p.func[f])
       /\ \A i \in DOMAIN p.modules : Exported(p.modules[i], p)

passVars == <<at, functions, records, per_module, global_names, duplicates, entry,
              entry_count, linked>>
runVars  == <<vars, launchVars, passVars>>

-----------------------------------------------------------------------------
RunInit == Init /\ LaunchInit /\ Linker!LinkInit

Link == phase = "link" /\ UNCHANGED <<vars, launchVars>> /\ Linker!LinkStep

\* The init chunks of the program are those of the modules, in their order.
Launch ==
  /\ linked = "linked"
  /\ Begin([i \in DOMAIN prog.modules |-> prog.modules[i].init_chunk])
  /\ UNCHANGED <<vars, passVars>>

GiveUp ==
  /\ phase = "link" /\ linked = "failed"
  /\ End("LinkError")
  /\ UNCHANGED <<vars, passVars>>

RunNext == Link \/ Launch \/ GiveUp \/ (LaunchStep /\ UNCHANGED passVars)

\* A single thread runs the whole of runProject to its end.
RunSpec == RunInit /\ [][RunNext]_runVars /\ WF_runVars(RunNext)

-----------------------------------------------------------------------------
\* What a module's init chunk is there to define.
DefinedBy(i) ==
  LET constants == Image(prog.modules[i].init_chunk).constants
  IN  {constants[k].as : k \in DOMAIN constants} \cap Func

\* When the entry runs, every function of every module can be looked up, and
\* none has taken the place of another: no init chunk was skipped, none came
\* after the entry, and no two functions of a linked program share a key.
EntryAfterAllInits ==
  phase = "entry" =>
    \A i \in DOMAIN prog.modules : \A o \in DefinedBy(i) :
      LET k == [module_id |-> prog.modules[i].module_id, name_id |-> Image(o).name_id]
      IN  k \in DOMAIN globals /\ globals[k] = o

\* OP_CALL leaves current_chunk_module_id_ alone, so a function resolves its
\* names in the module of the chunk the host started.  That is its own module
\* as long as no function reaches a frame of another module: which holds since
\* a function value only comes from the tables, under the module's own key.
FramesOfOneModule ==
  status = "running" =>
    \A i \in 1..Len(frames) : Image(frames[i].fn).module_id = module_id

\* The tables file a function under the module it was compiled in.
GlobalsOwned ==
  \A k \in DOMAIN globals : Image(globals[k]).module_id = k.module_id

LinkVerdict == Linker!LinkVerdict

\* A linked program whose init chunks ran finds its entry unless the entry's
\* name belongs to something that is no function: the linker looks at names
\* only, the launcher at functions only.
EntryFoundIfFunction ==
  outcome = "EntryLookupFailed" =>
    \A i \in DOMAIN prog.modules : EntryName \notin prog.modules[i].exports

\* Every run of a project without loops ends with a verdict, or with the
\* death of the process.
RunEnds == LoopFree => <>(phase = "done" \/ status = "trapped")
=============================================================================
