----------------------------- MODULE MCZeroArgCall -----------------------------
(***************************************************************************)
(* NikiVM on what the compiler makes of                                    *)
(*   func main() { var x = 1; var y = f(); return x; }                     *)
(*   func main() { var x = 1; var y = f(x); return x; }                    *)
(* where f returns 0.  kept is what each suspended frame had in its        *)
(* registers when it called.                                               *)
(***************************************************************************)
EXTENDS NikiVM, TLC

VARIABLE kept

CONSTANTS boot, main, f, m

MCFunc   == {boot, main, f}
MCScript == {boot}
MCModule == {m}
MCNameId == 0..1

I(op, a, b, c, d) == [op |-> op, a |-> a, b |-> b, c |-> c, d |-> d]

Fn(arity, slots, name, constants, code) ==
  [arity |-> arity, max_registers |-> slots, name_id |-> name, module_id |-> m,
   constants |-> constants, code |-> code]

Ret == I("RETURN", 0, 0, 0, 0)

BootImage ==
  Fn(0, 1, 0, <<makeObject(main), makeObject(f)>>,
     <<I("DEFINE_GLOBAL", 0, 0, 0, 0), I("DEFINE_GLOBAL", 1, 0, 0, 0), Ret>>)

\* x is r0; the constant 1 goes through r1, f through r2, an argument is put
\* in r3, and y is the receiver of the call.
MainWith(call, slots) ==
  Fn(0, slots, 0, <<makeInt(1)>>,
     <<I("LOAD_CONST", 1, 0, 0, 0), I("MOVE", 0, 1, 0, 0), I("GET_GLOBAL", 2, 0, 0, 0)>>
       \o call \o <<Ret>>)

MCProgram ==
  LET P(arity, call, slots) ==
        [struct_name |-> [s \in {} |-> 0],
         func |-> boot :> BootImage @@ main :> MainWith(call, slots)
                    @@ f :> Fn(arity, arity + 1, 1, <<makeInt(0)>>,
                               <<I("LOAD_CONST", arity, 0, 0, 0), I("MOVE", 0, arity, 0, 0), Ret>>)]
  IN  {P(0, <<I("CALL", 3, 2, 0, 0)>>, 4),
       P(1, <<I("MOVE", 3, 0, 0, 0), I("CALL", 4, 2, 3, 1)>>, 5)}

Window(i) == [r \in 0..(Slots(frames[i].fn) - 1) |-> stack[frames[i].base + r]]

KeepNext ==
  /\ Next
  /\ kept' = IF Len(frames') > Len(frames) /\ frames # <<>>
             THEN Append(kept, Window(Len(frames)))
             ELSE SubSeq(kept, 1, IF frames' = <<>> THEN 0 ELSE Len(frames') - 1)

KeepSpec == Init /\ kept = <<>> /\ [][KeepNext]_<<vars, kept>>

\* While a function waits for a call, the registers it filled before it looked
\* up the callee - its locals among them - are left alone: the callee's fixed
\* r0 and the caller's own registers exist side by side (vm.hpp, CallFrame).
CallerKeepsLocals ==
  \A i \in 1..(Len(frames) - 1) :
    \A r \in 0..(CodeOf(frames[i].fn)[frames[i].ip - 1].b - 1) :
      stack[frames[i].base + r] = kept[i][r]
=============================================================================
