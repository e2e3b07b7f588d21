# Verification of niki: the compiler, the linker, the launcher and the virtual machine

niki is a compiler and a register virtual machine for a small language.  Source
files (`.nk`) are parsed, predeclared, type checked, lowered to byte code
function by function, linked to one program and run.  This directory holds TLA+
models of that whole way, from the tokens of a file to the result of a program,
the TLC configurations that check them, and theorems that TLAPS proves about the
parser, the builder, the lowering, the linker, the launcher, the virtual machine and its
containers for every input they may be given.

Paths below are relative to the root of the repository.

## 1. The system

| Component | Where | State it keeps | Operations |
|---|---|---|---|
| Scanner, parser, AST pool, interner | `src/l0_core/syntax` | token position, `hadError`, `panicMode`, pools, interned names | one parse per file, with recovery (`synchronize`) |
| Precompile | `src/meta/precompile` | contexts of modules, exports, visible symbols per unit | predeclare, build contexts, resolve imports |
| Semantic analysis | `src/l0_core/semantic` | scope stack with owned and moved symbols, type arena, module namespaces | check a unit, record the frees of blocks and functions |
| IR builder, verifier, lowering | `src/l0_core/ir` | instructions, blocks, open loops, registers by name; pending jump patches | build functions, verify, lower to chunks |
| L1 domain | `src/l1_domain` | components and kits of a module, a table of window items | checks in the type checker, tables in the IR, a validator |
| Pipeline and orchestrator | `src/meta/orchestrator` | units, diagnostics | `compileAll`, `runProject` |
| Linker | `src/l0_core/linker` | names seen, entry, diagnostics | `link` |
| Launcher | `src/l0_core/runtime` | none of its own | `launchProgram` |
| VM | `src/l0_core/vm/vm.cpp`, `vm.hpp` | register stack, frames, two global tables, current module, string pool | `executeChunk`, `executeFunction`, lookups, one case per opcode |
| Heap | `include/niki/l0_core/vm/object.hpp` | strings, arrays, maps, instances, struct blueprints, functions | allocate, expand, set, get, free |
| Diagnostics, debug output | `src/l0_core/diagnostic`, `src/debug` | bags of diagnostics | merge, render, log |
| L2 to L5 | `src/l2_scheduler` ... `src/l5_replay` | none: the files are empty | none |

How they interact.  Everything is a call on one thread.  `runProject` parses
every file, then predeclares, resolves and checks every unit, then takes each
through the back end; a stage works off all units before the diagnostics are
looked at, and the next stage starts only if there are none.  The units share one
interner, one type arena and one set of module namespaces.  The checker leaves a
table of names to free, by the node index of a block or function, which the
builder reads.  The compiled modules meet in two places: in the linker, which
sees all their names, and in the VM's global tables, where each init chunk files
the functions of its module under `(module_id, name_id)`.  Inside the VM frames
share one stack: a callee's registers begin at the caller's first argument
register.  The L1 domain has a handler and a list of checks that the front end
and the verifier would call; no code registers either.

What is hard.  Nothing runs concurrently and nothing is persisted.  What is
hard is long sequences of legal steps over shared, unchecked state: overlapping
windows through nested and recursive calls; limits met in different orders;
state that outlives an execution (stack, tables, current module); orders that
come out of a hash table; boundary values of integers, floats and capacities;
ownership on every way out of a block; blocks, jumps and their patching; a
checker and a back end that must agree on what is legal; files that import from
files compiled later; and a parser that must move on after any error.
`PROJECT.json` lists these hazards with the line each bites at and the
properties that cover it.

What makes each component correct:

- Parser: it always moves forward and always ends; what it accepts is balanced
  and groups as the precedences say.
- Precompile, pipeline: the outcome depends on the files as a set; an import
  means the declaration it was exported from; no function is lost.
- Semantic analysis, IR: what the checker accepts is compiled; every owned value
  is freed exactly once on every path; lowered code does what its source says
  and stays inside its window and itself.
- L1 domain: the windows of a module partition its table of items.
- Linker: the verdict depends on the set of definitions and not on their order.
- Launcher: the entry runs after all init chunks, or there is a diagnostic.
- VM: windows stay inside the stack; an answer reaches the call that waits for
  it; what a caller keeps survives its calls; names resolve in the right module;
  operands of wrong types are errors and never values; loop-free code ends.
- Heap: a container behaves as the sequence or function it stands for; every
  object is freed once and never read after.

## 2. The modules

The back half, from compiled modules to a result:

| Module | Models | How its state and actions correspond |
|---|---|---|
| `NikiValue` | `value.hpp` and the opcodes that compute a Value from one or two | operators: `BinaryOutcomes(op, l, r)`, `UnaryOutcomes(op, v)` are the sets of outcomes of an opcode: a Value, `Error` (RUNTIME_ERROR) or `Trap` (death of the process) |
| `NikiVM` | `VM`: the dispatch loop and the host's two entry points | `stack`, `frames`, `globals`, `global_objects` are the members of those names, `module_id` is `current_chunk_module_id_`, `prog` is the compiled program; `status` and `result` are what the host sees.  One action per opcode (opcodes that differ only in the function of `NikiValue` they apply share `Unary` or `Binary`) and one per host call |
| `NikiObject` | arrays and maps of `object.hpp` | operators of the source's names on records |
| `NikiHeap` | EXTENDS `NikiVM`: the heap opcodes the compiler emits, and OP_FREE | `heap` says what lies at each address, `misuse` what the code did with an object that was gone; the strings among the constants lie in the heap from the start.  `HeapSpec` is the VM on this heap, for any programs |
| `NikiContainers` | the container opcodes on one array or map | `obj` is the object, `op` a history variable that names the last operation |
| `NikiLinker` | `Linker::link` | one step per symbol, in every order of a module's exports |
| `NikiLauncher` | `Launcher::launchProgram` | EXTENDS `NikiVM`: each execution runs step by step |
| `NikiRun` | the back half of `runProject` | composes `NikiLinker` (INSTANCE) and `NikiLauncher` (EXTENDS) |

The front half, from the tokens of a file to compiled modules:

| Module | Models | How its state and actions correspond |
|---|---|---|
| `NikiParser` | every parse function, `advance`, `synchronize`, the Pratt loop | `todo` is the call stack as the steps still to be done; a parse function is an action that puts its body in the place of its call; the scanner yields any token of the source's kinds |
| `NikiAst` | node types, static types, precedence-free tree | constructors; a node is a value, and blocks and functions carry the id that frees are filed under |
| `NikiModules` | predeclaration, module contexts, exports, imports, visible symbols | operators on a record of tables, in the order of the declarations |
| `NikiChecker` | `TypeChecker` | the checker's fields are a record that every check takes and returns |
| `NikiBuilder` | `IRBuilder` | the members of `BuildCtx` and `FuncCtx` are its variables; `todo` is the call stack of the `build...` functions, one action per piece of them between two recursive calls |
| `NikiIR` | `module_ir.hpp` | the tables of a module's IR: instructions, blocks, functions |
| `NikiVerifier` | `verifyModuleIRFlat`, the domain's checks | the set of issues of an IR |
| `NikiLowering` | `lower_to_chunk.cpp`, the init chunk | images of the VM model from a verified IR, or the first error; each loop of the code is a recursive function of the number of its turns |
| `NikiPromise` | the contract between builder and lowering | `Promised` says what the builder keeps and nobody checks |
| `NikiBackend` | the contract between lowering and VM | `SafeImage` says what the VM relies on and does not check |
| `NikiPipeline` | `compileAll` | one action per stage, one step per file or unit; the back end takes a unit through the builder's own steps; INSTANCEs the checker, the builder and the lowering |

Specifications of what they promise, and compositions:

| Module | Says |
|---|---|
| `CallContract` | what the calling convention promises: activations with registers of their own |
| `NikiVMContract` | `NikiVM` implements `CallContract`: a frame stands for the registers it can rely on, which for a waiting frame are those below its first argument |
| `Container` | a sequence that grows, a function on keys; implemented by `NikiContainers` |
| `NikiBuilt` | what the builder leaves behind, for any trees: `BuiltVerifies`, `BuiltAsPromised`, and `BuildInv`, the inductive invariant of call stack and tables behind both; `SymbolsTell` and `WindowsAdjoin`, what the module declares |
| `NikiSupported` | which trees the back end has code for: what the checker lets through and the back end must refuse, and no more |
| `NikiMeaning` | what a function of the language means, read off its tree alone, with nested scopes and no registers |
| `NikiCompile` | one file from its tree to its result: `NikiPipeline`, then the host on `NikiHeap` |
| `MC...` | instances for TLC: programs, projects, sources, values and bounds |
| `NikiObjectProofs`, `NikiVMProofs`, `NikiHeapProofs`, `NikiRunProofs`, `NikiContainersProofs`, `NikiBuilderProofs`, `NikiLoweringProofs`, `NikiParserProofs` | theorems and proofs, section 5 |

Definitions with a comment that begins "Mutant:" are plausible bugs in the
definition that follows; under each of them TLC finds a property violated, as
listed in `PROJECT.json`.  No specification uses them.

Abstractions.

- An instruction is a record of its mnemonic and operands, and `ip` and jump
  distances count instructions: a jump into the middle of an instruction has no
  counterpart, and an opcode and its wide form are one mnemonic.
- Integers are a two's complement word of any width (`IntMax`).  A signed
  overflow is undefined in C++ and yields any word; so does a bit operator,
  whose result no property reads.  The smallest word divided by -1 either
  faults or yields any word.
- Floats are a NaN and numbers of which only the order is exact; arithmetic on
  them yields any float.
- `WellFormed` says what lowering guarantees of a chunk and `run` never checks:
  register operands lie in the declared window, the window holds the parameters
  and fits the stack, OP_DEFINE_GLOBAL names an object and a global access an
  integer id.  The VM alone is checked and proved relative to it; that lowering
  establishes it is checked by the run `compile` and proved in
  `NikiLoweringProofs`.
- `CompiledAssumption` of `NikiRun` says in the same way what the compiler puts
  into a linked program: an init chunk defines the functions of its module and
  returns, nothing else defines a global, and a module exports what its init
  chunk defines, each under a name of its own (predeclaration refuses two
  top-level functions of one name).
- A name is its id in the string pool: the compiler gives all modules of a
  project one interner, so equal names have equal ids.
- A diagnostic is its code, or a short form of its message where several share
  one code.
- An address of the heap is used once.  The allocator may reuse it: a register that
  still holds it then means the new object too.  But that shows only in what the
  code reads or frees through such a register, and there the model ends: what
  follows is undefined, and noted in `misuse`.  A key that is gone is such a
  register only where `valueKeyEquals` comes to it with another object: a write under an
  integer, into an empty map, or under a key that is met first goes on.  A function and a struct blueprint are no addresses of the heap
  (`ObjAssumption`), and a container of `HeapSpec` has fewer elements than half the
  word that counts them (`Fitting`): at 2^31 its doubled capacity wraps around.

## 3. The runs

| Run | Instance | Shows |
|---|---|---|
| `vm` | `MCNikiVM`, two kinds of program. Calls: an init chunk, a main that calls f with a live local, and every f of at most 3 instructions out of 10 (calls that share or keep the window, calls with too many or too few arguments, recursion to f and main, branch, loop, return). Operands: every opcode on every pair of values of every type, programs of several opcodes, every two of the opcodes that ask for the truth of a value side by side, jumps of every kind around the ends of the code. `IntMax = 2`, floats -1, 0, 1 and NaN; stack 8, depth 4 | `TypeOK`, `WindowsInBounds`, `CallChain`, `DivModAgree`, `TruthSitesAgree`, `ComparisonsTotal`, `GlobalReadsBack`, `TrapOnlyAtMinByMinusOne`, `KeepsContract`, and under fairness `LoopFreeRunsEnd` |
| `containers` | `MCContainers`: keys are two strings of one content and one of another, an instance, a NaN and an integer; least capacity 1, up to 3 elements | `BlockOK`, `KeysDistinct`, `IsContainer` |
| `heap` | `MCHeap`: main makes an array and a map, enters the map into the array, or two keys into the map, and calls f twice with both; every f of at most 3 instructions out of 10 (push, set, get, another string of the same content, a container entered into itself, a new array, a copied reference, releases); 3 addresses beside two strings, least capacity 1, 3 elements, stack 12, depth 3 | `ObjectsKept`, `KeepsContract` |
| `project_run` | `MCNikiRun`: projects of 0, 1 or 2 modules, each with any of main, a, none or both, types that may take their names (also twice), init chunks that are empty or fail, functions that return, call each other or divide by zero | `EntryAfterAllInits`, `FramesOfOneModule`, `GlobalsOwned`, `LinkVerdict`, `EntryFoundIfFunction`, `RunEnds` |
| `compile` | `MCCompile`: `func f(x: Int): Int { var y = 1; BODY return y; }` with every BODY of at most 2 statements out of a pool of 29, beside a g that loops over an array it owns and a main that calls f twice; 12 heap addresses, stack 96, depth 8 | `CompiledMeansSource`, `NoMisuse`, `NoLeak`, `LoweredIsWellFormed`, `NeverAstray`, `AcceptedIsBuilt` |
| `builder` | `MCBuilder`: bodies that nest ifs, loops and blocks two deep around assignments, declarations, returns, breaks and continues; every kind of expression, also refused ones, in every kind of statement; every kind of declaration, lists of exports before and after it, names declared twice, two windows; names to free that are declared, or not | `BuildInv`, `BuiltVerifies`, `BuiltAsPromised`, `SymbolsTell` |
| `pipeline` | `MCPipeline`: every single file and every pair out of a pool of 41 (functions, structs, exports of three kinds, imports that fit and do not, named modules, components, kits, ill-typed functions, functions the back end has nothing for, a file that does not parse), and triples out of 6 | `Verdict`, `ImportKeepsSignature`, `EveryFunctionCompiled`, `KitsWindows`, `RefusedLate` |
| `parser` | `MCParser`: 15 parts of the grammar, each with every source of 6 to 8 tokens of the kinds that part tells apart behind the beginning that leads there | `Ends`, `AcceptedIsBalanced`, `GroupsByPrecedence` |
| `zero_arg_call` | `MCZeroArgCall`: what lowering makes of `f()` and `f(x)` beside a live local | violates `CallerKeepsLocals` |
| `import_call` | `MCImport`: the project `scripts/cases/success/05_import_explicit` | violates `DefinedNamesResolve` |
| `moved_in_block` | `MCPrograms`: `var a = [1]; { var b = a; } return 0;` | violates `NoMisuse` |
| `parser_returns` | `MCParser` with three free tokens | violates `ParserReturns` |

Why the bounds are enough.  In `vm` a stack of 8 with windows of 3 and 4
registers and a depth of 4 make recursion meet the depth limit when windows
overlap much and the stack limit when they overlap little; three instructions
are enough to load a callee, call it and come back, or to branch over a call.
`IntMax = 2` is the least word with a divisor other than 0 and
1 in magnitude, both signs and a smallest value without a negation.  In
`containers` three elements force two growths from capacity 1, of a block that
holds keys equal by content.  In `heap` three instructions, run twice, are enough to
grow a container that holds itself or the other one, write it under both of two
equal strings, release it or its key, and use what is left: read a key that is gone, or write on
past it where the code compares no more than types, or nothing, or comes to a hit
first; the third address runs
out, which ends the model and never a program.  In `project_run` two modules are the least that
can share a name, define the entry twice, or be passed over.

In `builder` a statement is nested in two others: the least depth at which a
branch is left by a jump inside a loop, a loop's condition block follows a join,
and two loops wait for their breaks at once.  In `compile` two statements let the first leave registers, scopes and blocks in
every shape for the second; the pool has one statement for each way control
leaves a block (falling through, break, continue, return, an error) with and
without an owned container, nested loops, calls, three that the checker must
refuse, and eleven about what it lets through and the back end has nothing for: each
such form once, some of them in a branch, a loop or a block, or behind a jump, and
a return that any of them may follow.  Twelve addresses and a stack of 96 are more than any of these programs
needs, and the loops of the pool end within `MaxTurns = 20`.  In `pipeline` two
files are the least that can import, in either order; a third can be the source
of a name clash between two others.  In `parser` the count is the number of free
tokens: each part of the grammar can be read to its end without an error in it,
so every production is reached with and without one.

Two kinds of init chunk in `project_run`, the empty and the failing one, are not
made by the compiler: only callers of `Linker` and
`Launcher` can build them (`test/linker`, `test/runtime` do).  SET_GLOBAL is not
emitted by the compiler either; `MCNikiVM` exercises it as the VM defines it.

What a property leaves out, it names.  `NoLeak` excepts the two statements of the
pool that do leak (`OwnsAll`): a break out of the block that owns an array, which
jumps over the release, and an array that is no variable's, which has no owner.
`Ends` excepts parses that are caught in one of two loops (`Caught`), which is
the finding `parser_returns`.  An `if` without else has node 0 for its else branch,
which checker and builder then visit; the programs of `compile` have it (`NodeZero`).

What is refused late.  The checker accepts more than the back end can compile: it
types the operators on bits (`& | ^ << >> ~`), the joining of strings (`..`), the
read of a member and nil (`type_checker_expr.cpp:152-155`, `176-182`, `321-325`), an
assignment to an element, a member or a function, a compound assignment of bits, and
a variable without a value; the builder reports the first as unsupported
(`builder_expression.cpp:37-69`, `259-260`), takes nothing but a local for a target
(`builder_statement.cpp:139`), and emits a GetMember and an empty Constant that the
lowering refuses.  It also does not look into what an export wraps: an unknown
name there is for the builder to find, and so is a doubled alias in a kits.
`scripts/all_syntax_ok.nk` says of itself that it compiles and runs, and lists the
operators on bits, the joining of strings, arrays and the access to members: with its
bit operators, `str1 .. str2`, `arr[1] = 99` and `hero.hp` it does not.
(`docs/engineering/m0_baseline.md:38` admits as much of another script of the same
features; no test runs either.)  `NikiSupported` says which trees have code, and three
properties hold the compiler to it: `AcceptedIsBuilt` (of a body the checker accepts,
the back end refuses what has such a form in reach, and nothing else), `Verdict`
(a project compiles exactly if its files are sound and leave nothing to refuse) and
`RefusedLate` (the back end refuses only projects all of whose files are sound: what
an earlier stage is there for gets no further).  A function that fills 256
registers, or a call with more than 255 arguments, is refused late as well, and in no
pool.

`CHECK_DEADLOCK FALSE` stands where a run really stops: a trapped process
(`vm`), a container at its bound (`containers`, `heap`), a finished project
(`project_run`, `import_call`), a finished or trapped program (`compile`,
`moved_in_block`), a finished parse (`parser`,
`parser_returns`).

Fairness.  `FairSpec` of `NikiVM` assumes weak fairness of `Step` alone: the
loop of `run` goes on as long as an instruction can be executed, while the host
need not call again.  `RunSpec` and the `Spec` of `NikiParser` assume weak
fairness of the whole step: each is one thread that waits for nothing.  The
pipeline and `NikiCompile` state no fairness: every stage is a bounded pass, and
no liveness is claimed for them.

## 4. What the four violations show

- `zero_arg_call`.  A call without arguments has no argument register;
  `lower_to_chunk.cpp:636` encodes 0, and OP_CALL lets the callee's window begin
  there, at the caller's own r0.  The callee's first write replaces the caller's
  first local.  Calls with arguments are not affected: their window begins
  above every register in use.  `KeepsContract` holds all the same, because a
  caller that names register 0 as its first argument hands over everything: the
  VM keeps its promise, and the compiler asks for the wrong one.  For the same
  reason every function called in `compile` has a parameter.
- `import_call`.  Functions are filed under the module that defines them, and
  looked up under the module of the chunk that the host started.  A function
  that is imported passes the type checker and the linker and is not found when
  it is called.  `FramesOfOneModule` says the other side of it: no function ever
  runs in another module.
- `moved_in_block`.  An assignment marks its right side as moved only if that was
  declared in the scope of the assignment itself (`type_checker.cpp:114`).  A
  variable moved inside a nested block stays owned outside, and both blocks
  release the object.  Moves within one scope are in the pool of `compile`, where
  `NoMisuse` holds.  With `Project <- LiteralInLoop` the same configuration shows
  another double release: a String variable is an owner, so its block releases
  what it holds, and a string literal is one object of the constant pool, which
  the second turn of a loop loads and releases again (`vm.cpp:1390`).
- `parser_returns`.  The loop over the members of a kits does not pass a token it
  does not expect, and the loop over the cases of a match leaves that to
  `synchronize`, which stays in front of a keyword.  `kits K { 5 }` and
  `match (x) { var y; }` never end.  `Ends` shows that these two loops are the only
  ones within the grammar's reach.

## 5. What is proved

Assumptions: `IntMaxAssumption`, `FloatAssumption` (the constants of
`NikiValue`), `ObjAssumption` (section 2), `SizeAssumption` (positive sizes), `ProgramAssumption` (every
function of every program is `WellFormed`), `CompiledAssumption` (what the
compiler puts together, section 2), `CapacityAssumption` and
`ContainerAssumption` (a capacity that is doubled stays below 2^32 up to the
bound on the elements; at 2^31 elements it wraps), `TreeAssumption` (the nodes of
the trees have the children the parser gives them: nodes, names, and literals of
the values).  TLC evaluates all of them in the runs above.
Each theorem holds for every program, stack size, call depth and number of
modules that satisfies them.

- `NikiObjectProofs`.  `BinaryTyped`, `UnaryTyped`: every opcode on any operands
  ends in a Value, an error or a trap.  The work is in the division lemmas:
  truncating quotient and remainder of two words are words, except for the
  smallest by -1.  `OnlyDivisionTraps`: a trap is that division and nothing else.
  `DivisionFits`, `TruthSitesDiffer`, `FloatsAreOrdered`: the facts of single
  opcodes behind three properties of `vm`, for words of any width (the comments at
  `vm.cpp:799` and `1050` speak of one rule for truth: floats and objects have two).  The
  lemmas about single arrays and maps are here too: what a push, a write of an
  entry and the growth before it leave of a container, of which both
  `NikiContainersProofs` and `NikiHeapProofs` make use.
- `NikiVMProofs`.  `TypeCorrect`, `WindowsStayInside`, `CallsMatchReturns`,
  `OnlyMinByMinusOneTraps`, `ClosedCodeIsNeverLeft`.  None
  of the first three is inductive alone: that a write stays inside the stack needs the
  window of the running frame, that a return restores a frame whose window fits
  needs the chain of calls, and every one needs the types.  The inductive
  invariant `IInv` is their conjunction with "the program is one of `Program`"
  and "there is a frame while the VM runs".  `ClosedCodeIsNeverLeft` adds where
  every frame stands: a caller waits behind a call, which closed code never ends
  with.  It says that the two tests `run` makes of `ip` cannot fail on compiled
  code.
  `KeepsTheContract`, in the same module: `NikiVM` implements
  `CallContract`.  The refinement needs that windows never start below those
  they were entered from (`BasesRise`): then whatever the running frame writes
  lies above everything a waiting frame can rely on (`SuspendedKept`).  Every
  step is shown to be one of five shapes (`StepShapes`), each of which is a step
  of the contract.
- `NikiBuilderProofs`.  `TheBuilderGoesOn`, `BuiltPassesVerification`,
  `BuiltKeepsPromises`, for trees of any shape and size and units of any number
  of functions: what is built without a diagnostic the verifier does not refuse,
  and lowering can rest on.  The builder is a recursive descent that leaves blocks
  empty and comes back to them, and terminators without a target that it patches
  later, so neither of the two says anything about the middle of a build.
  `BuildInv` does, of call stack and tables at once.  Of the stack (`Stack`,
  `Nesting`, `Position`): every call was called by one that can have called it,
  the blocks that two calls will go on in differ, the loops that are open are
  those whose exit is still to come, and what is called next says whether the
  current block may be terminated already.  Of the tables: the blocks some call
  waits for are empty, the current one may grow, all others end in their only
  terminator (`Finished`); an instruction refers to registers and blocks of its
  function, but for the breaks of open loops (`Sound`); and a register that no
  instruction names is a parameter, or a variable whose value is being built
  (`NoneUnused`), which bounds the window: lowering refuses a register that is too
  large only where an instruction names it.
  Two lemmas carry it over the actions.  `StackGoesOn`: an action replaces
  the innermost call by others that go on in its blocks or in new ones.
  `TablesGrow`: it adds instructions to the current block, blocks and registers.
  Only the exit of a loop, which patches its breaks, and the beginning of a
  function are more.  `BuiltCodeIsSafe` joins this to `LoweredIsSafe`: whatever the
  trees are, code that is built without a diagnostic and that lowering finds to fit
  its encoding is a `SafeImage`.
  `WindowsAreAdjoining` and `SymbolsTellExports` are about the rest of the module,
  its kits and its symbols.  They are inductive together once the shapes of the
  tables are added (`MetaInv`), but for two facts that `BuildInv` knows: the
  node of the innermost call is of the tree, and the functions are a sequence.
  `KitsTells` is the step that matters for the windows: a new one begins where the
  table ended, and the builder's own test for a doubled alias, a count in the
  model, is what lets the domain's check pass.  (No run has `WindowsAdjoin`: that
  the windows hold what was declared is `KitsWindows` of `pipeline`.)  For the
  symbols it is `UpsertTells`: a name that a list has exported before is exported
  when it is declared, and a symbol that is exported stays so.
- `NikiLoweringProofs`.  `LoweredIsSafe`: an IR of any size that keeps `Promised`,
  that the verifier passes and that `Lowerable` accepts is lowered to images that
  are `SafeImage`: every register lies in the window, every lookup's constant is
  a name, every jump leads to an instruction, the code ends in one that does not
  go on, and the window fits the stack.  `InitChunkIsSafe` says so of the chunk
  that defines a module's functions.  A safe image is `WellFormed`, the
  `ProgramAssumption` under which everything about the VM and its heap is proved, and
  `Closed`, the hypothesis of `ClosedCodeIsNeverLeft`.  The loops of lowering are recursive functions on
  numbers.  The library's induction takes a predicate, which no prover here can
  instantiate; `Induction` restates it for a set, from the fact that a nonempty
  set of numbers has a least element.  With it, `Writing` is carried over
  instructions and blocks: the code written so far is encoded from instructions
  of the IR, no two of which share a place, each unpatched jump names a block of
  the function and waits at its own place, and blocks entered begin inside the
  code.  `Ended` says that code behind a terminator cannot be run into.  Patching
  then puts a target into each of them (`PatchedInstr`), and that it is inside
  is the verifier's doing (`RefOutOfRange`, `BlockEmpty`).  The hypotheses left:
  at most 2^16 constants in a function (`addConstant` cuts the index to 16 bits
  and does not say so), names that are words, a stack of more than 255 slots and
  no smaller than the default window (8192 in `vm.hpp:63`), all of which hold in
  the code as built or are named as hazards.
- `NikiRunProofs`.  `FramesKeepToTheirModule`, `TablesKeepToTheirModule`.  OP_CALL
  does not switch the module names are resolved in; that this is harmless needs
  to know where a function value can come from, over several executions on one
  stack.  `RunInv` says it: until the entry runs no register holds a function,
  since init chunks compute nothing; after that every function in a register is
  of the entry's module and no init chunk, since constants hold no functions and
  the tables are searched under the current module; and the tables hold each
  function under its own module, since an init chunk defines its own.  In the same
  module: `LinkerIsRight`, `EntryFindsTablesComplete`,
  `LinkedEntryIsFound`.  The linker's pass keeps two sets of names and two
  counters and takes functions in any order.  `LinkInv` says what they tell of
  the definitions met so far (`SeenDefs`): the names seen are theirs, no
  duplicate was counted exactly if they are distinct, and the entry is one of
  them.  At the end these are all the definitions.  `LaunchInv` then follows the
  launcher: modules before the last one started have filed all their functions,
  the last one what its instructions before `ip` define (`FiledBefore`), and all
  of it once it has returned, because OP_RETURN comes last.  That nothing filed
  is displaced is the linker's doing, so the proof rests on `LinkInv`; that the
  entry's code leaves the tables alone rests on `RunInv`.
- `NikiContainersProofs`.  `BlockSafe`, `OneEntryPerKey`, `ContainersRefine`: for
  any keys, values, initial capacities and strings, and any number of elements
  below the wrap of the capacity, an array is the sequence of what was pushed and
  a map the function that its writes describe.  The inductive invariant `CInv`
  says that the elements, or the entries, are exactly the first `count` slots.  It
  survives growth because only a full table grows: then every slot is occupied,
  and the compaction of the entries moves none (`ExpandedIs`, by the rank of an
  entry).  That a search may stop at its first hit is `OneHit`, and that it finds
  what an equal string entered is `KeyEquality`: two values are equal keys exactly
  when their canonical forms agree and they are no NaN.

- `NikiParserProofs`.  `AcceptedFilesBalance`, `ExpressionsGroup`: for sources of any
  length and nesting.  The invariant is about the call stack, which grows with the
  nesting, so it has to say of every step on it what that step will do.  A step is
  `Sound` when whatever it may put in its place is made of sound steps and leads
  from the brackets open before it to the same brackets: the largest set of steps
  with that property, so that a step is shown to be in it without an induction
  over the depth of bodies in bodies (loops, tests, token tables).  One lemma for
  each parse function shows its body to be made of sound steps.  `ParserInv` then
  has three parts.  `Shape`: the steps on the stack are sound, loops over
  operators, or, on top only, a prefix or infix whose token was passed.  `Grouped`:
  in front of each waiting loop stands a step that binds tighter than its level
  (`Supports`), which is what makes the operators of a nested operand all bind
  tighter than the operator they are the right operand of.  `Balance`: as long as
  no error was reported, the steps lead from the brackets now open to none
  (`Path`); the step that passed the opening bracket of an operand is ahead of the
  step that will close it by one (`Expecting`), a closing bracket where an operand
  should stand is passed before the error is reported, and before the first token
  is read the look-ahead stands at none (`Fresh`).  Once an error was reported
  nothing is claimed: `synchronize` passes brackets uncounted.

- `NikiHeapProofs`.  `HeapObjectsKept`, `HeapRunsSafely`,
  `ClosedHeapCodeIsNeverLeft`, `HeapKeepsTheContract`: for every program, heap, stack
  and depth.  The invariant `HInv` is that of the VM together with what lies in the
  heap: the machine needs to know that what an opcode reads from an array is a
  Value, and the heap that what an opcode writes is one.  `HeapShapes` says all that
  there is to a container opcode: it writes one object, or one register, or both, or
  stops; every other proof rests on that alone, and on what `NikiVMProofs` shows of
  a machine that writes a register.  A released string is the one write that
  touches other containers: keys that were strings are then compared by address,
  which makes fewer keys equal and never more (`FewerKeysEqual`).

The theorems meet: trees to IR (`NikiBuilderProofs`), IR to safe code
(`NikiLoweringProofs`), safe code on the VM and its heap (`NikiVMProofs`,
`NikiHeapProofs`), the modules of a project together (`NikiRunProofs`).

Only model-checked:

- Liveness (`LoopFreeRunsEnd`, `RunEnds`, `Ends`): it needs fairness and is out of
  the prover's reach.
- In `vm`, that whole programs of several opcodes agree (about the opcodes
  themselves see `NikiObjectProofs`).
- Checker, meaning and predeclaration are recursive over the tree (RECURSIVE
  operators), about which this prover proves nothing.  So `CompiledMeansSource`,
  `NoMisuse`, `NoLeak` and `AcceptedIsBuilt` are as good as the pool of `compile`,
  and `Verdict`, `ImportKeepsSignature`, `EveryFunctionCompiled`, `KitsWindows` and
  `RefusedLate` as good as that of `pipeline`.

## 6. What is not modelled, and why

- The scanner's reading of characters and the text of literals: a token is its
  kind.  (A float literal is read by `stoll` and an integer literal may throw:
  listed as a hazard.)  The AST pool, the interner, diagnostics and debug output
  hold no decision of their own.
- L2 to L5 are empty files.
- Opcodes and instructions that no code emits or that no lowering supports:
  StoreGlobal, SetIndex, SetMember and Phi in the IR; OP_SET_ARRAY and OP_GET_MAP
  inside a running program (they are in `NikiContainers`), instances and their
  fields, string concatenation and method calls in the VM.
- Interfaces, impls and enums are parsed; checker and builder pass over them.  A tag
  group is a tag to both (`builder_declaration.cpp:218-226`: an External symbol), and
  `TagDecl` stands for it.
- Widths that no instance reaches: the 16 bits of a jump distance, the doubling
  of a capacity at 2^31 elements.
- Shadowing.  The builder's locals are one flat map: a declaration in a nested
  block replaces the outer variable of its name for the rest of the function.
  `NikiBuilder` has the flat map and `NikiMeaning` nested scopes; the programs of
  `compile` declare no name in a block that has another of that name around it, and so
  do not show the difference.
- The arity of the entry: the launcher calls it without arguments whatever it
  declares.
