------------------------------ MODULE MCNikiRun -------------------------------
(***************************************************************************)
(* NikiRun on projects of up to two modules, either of which may define    *)
(* main and a, and types that may bear their names.  The init chunks are   *)
(* what makeInitChunkFromLoweredFunctions emits, or what only a caller of  *)
(* Linker and Launcher can put together: empty, or failing.  main and a    *)
(* return, call each other, or divide by zero.                             *)
(***************************************************************************)
EXTENDS NikiRun, TLC

CONSTANTS init1, init2, main1, main2, a1, a2, m1, m2

MCFunc   == {init1, init2, main1, main2, a1, a2}
MCScript == {init1, init2}
MCModule == {m1, m2}
MCNameId == 0..2        \* "main", "a" and the name of a type

I(op, a, b, c, d) == [op |-> op, a |-> a, b |-> b, c |-> c, d |-> d]

Fn(slots, name, module, constants, code) ==
  [arity |-> 0, max_registers |-> slots, name_id |-> name, module_id |-> module,
   constants |-> constants, code |-> code]

Ret     == I("RETURN", 0, 0, 0, 0)
Answers == <<I("LOAD_CONST", 0, 0, 0, 0), Ret>>
Divides == <<I("LOAD_CONST", 0, 0, 0, 0), I("LOAD_CONST", 1, 0, 0, 0),
             I("IDIV", 2, 0, 1, 0), I("MOVE", 0, 2, 0, 0), Ret>>
Calls   == <<I("GET_GLOBAL", 0, 1, 0, 0), I("CALL", 1, 0, 0, 0), I("MOVE", 0, 1, 0, 0), Ret>>

\* A body of the function at name, which calls the other name of its module.
Body(name, module, code) == Fn(3, name, module, <<makeInt(0), makeInt(1 - name)>>, code)

\* The init chunk of a module that defines objs, in any order.
InitImage(module, objs) ==
  Fn(1, 0, module, [k \in DOMAIN objs |-> makeObject(objs[k])],
     [k \in DOMAIN objs |-> I("DEFINE_GLOBAL", k - 1, 0, 0, 0)] \o <<Ret>>)

\* What module may be: its functions, its types and its init chunk.
ModuleOf(module, init, main, a) ==
  LET Compiled(objs, names, types) ==
        [compile |-> [module_id |-> module, init_chunk |-> init, exports |-> names,
                      exported_symbols |-> types],
         image |-> InitImage(module, objs)]
      Odd(code) ==
        [compile |-> [module_id |-> module, init_chunk |-> init, exports |-> {},
                      exported_symbols |-> <<>>],
         image |-> Fn(0, 0, module, <<>>, code)]
  IN  UNION {{Compiled(<<>>, {}, t), Compiled(<<main>>, {0}, t), Compiled(<<a>>, {1}, t),
              Compiled(<<main, a>>, {0, 1}, t), Compiled(<<a, main>>, {0, 1}, t)} :
               t \in {<<>>, <<0>>, <<1>>, <<2>>, <<2, 2>>}}
        \cup {Odd(<<>>), Odd(<<I("DEFINE_GLOBAL", 7, 0, 0, 0), Ret>>)}

MCProgram ==
  LET P(modules, x1, x2, main, a) ==
        [modules |-> modules,
         struct_name |-> [s \in {} |-> 0],
         func |-> init1 :> x1.image @@ init2 :> x2.image
                    @@ main1 :> Body(0, m1, main) @@ main2 :> Body(0, m2, main)
                    @@ a1 :> Body(1, m1, a) @@ a2 :> Body(1, m2, a)]
      One == ModuleOf(m1, init1, main1, a1)
      Two == ModuleOf(m2, init2, main2, a2)
      Bodies == {Answers, Divides, Calls}
      any1 == CHOOSE x \in One : TRUE
      any2 == CHOOSE x \in Two : TRUE
  IN  {P(<<>>, any1, any2, Answers, Answers)}
        \cup {P(<<x1.compile>>, x1, any2, main, a) : x1 \in One, main \in Bodies, a \in Bodies}
        \cup {P(<<x1.compile, x2.compile>>, x1, x2, main, a) :
                x1 \in One, x2 \in Two, main \in Bodies, a \in Bodies}
=============================================================================
