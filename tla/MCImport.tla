------------------------------- MODULE MCImport --------------------------------
(***************************************************************************)
(* NikiRun on the project scripts/cases/success/05_import_explicit: main   *)
(* imports add from math and returns what it answers, 42.                  *)
(***************************************************************************)
EXTENDS NikiRun, TLC

CONSTANTS initMain, initMath, main, add, mMain, mMath

MCFunc   == {initMain, initMath, main, add}
MCScript == {initMain, initMath}
MCModule == {mMain, mMath}
MCNameId == 0..1        \* "main", "add"

I(op, a, b, c, d) == [op |-> op, a |-> a, b |-> b, c |-> c, d |-> d]

Fn(slots, name, module, constants, code) ==
  [arity |-> 0, max_registers |-> slots, name_id |-> name, module_id |-> module,
   constants |-> constants, code |-> code]

Ret == I("RETURN", 0, 0, 0, 0)

InitImage(module, o) ==
  Fn(1, 0, module, <<makeObject(o)>>, <<I("DEFINE_GLOBAL", 0, 0, 0, 0), Ret>>)

MCProgram ==
  {[modules |->
      <<[module_id |-> mMain, init_chunk |-> initMain, exports |-> {0}, exported_symbols |-> <<>>],
        [module_id |-> mMath, init_chunk |-> initMath, exports |-> {1}, exported_symbols |-> <<>>]>>,
    struct_name |-> [s \in {} |-> 0],
    func |-> initMain :> InitImage(mMain, main) @@ initMath :> InitImage(mMath, add)
      @@ main :> Fn(2, 0, mMain, <<makeInt(1)>>,
                    <<I("GET_GLOBAL", 0, 0, 0, 0), I("CALL", 1, 0, 0, 0),
                      I("MOVE", 0, 1, 0, 0), Ret>>)
      @@ add :> Fn(1, 1, mMath, <<makeInt(42)>>, <<I("LOAD_CONST", 0, 0, 0, 0), Ret>>)]}

\* A global name the compiler accepted, imported or not, is found when the
\* code that uses it runs, once the init chunk that defines it has
\* (builder_expression.cpp: OP_GET_GLOBAL serves references across modules).
DefinedNamesResolve ==
  phase = "entry" /\ status = "error" /\ Ins.op = "GET_GLOBAL" =>
    \A v \in ConstantAt(Image(currentFrame.fn), Ins.b) :
      \A k \in DOMAIN globals : k.name_id # v.as
=============================================================================
