--------------------------------- MODULE MCHeap ---------------------------------
(***************************************************************************)
(* NikiHeap on small programs: main makes an array and a map, enters the   *)
(* map into the array or two keys into the map, and calls f twice with     *)
(* both; f is every code of at most MaxBody instructions over a set that   *)
(* fills, reads, nests, shares and frees them and the keys.                *)
(***************************************************************************)
EXTENDS NikiHeap, NikiVMContract, SequencesExt, TLC

CONSTANTS boot, main, f, unit, text, twin, a1, a2, a3, MaxBody

MCFunc    == {boot, main, f}
MCScript  == {boot}
MCModule  == {unit}
MCNameId  == 0..1
MCHeapObj == {text, twin, a1, a2, a3}

I(op, a, b, c, d) == [op |-> op, a |-> a, b |-> b, c |-> c, d |-> d]

Fn(arity, slots, name, constants, code) ==
  [arity |-> arity, max_registers |-> slots, name_id |-> name, module_id |-> unit,
   constants |-> constants, code |-> code]

BootImage ==
  Fn(0, 1, 0, <<makeObject(main), makeObject(f)>>,
     <<I("DEFINE_GLOBAL", 0, 0, 0, 0), I("DEFINE_GLOBAL", 1, 0, 0, 0), I("RETURN", 0, 0, 0, 0)>>)

\* func main() { var a = []; var t = {}; a.push(t); f(a, t, "...", 0); return f(a, t, "...", 0); }
\* or, instead of the push, t["..."] = a twice.
Passing(n) ==
  <<I("MOVE", n, 0, 0, 0), I("MOVE", n + 1, 1, 0, 0),
    I("LOAD_CONST", n + 2, 1, 0, 0), I("LOAD_CONST", n + 3, 2, 0, 0)>>

MainImage(prepare) ==
  Fn(0, 8, 0, <<makeInt(1), makeObject(text), makeInt(0), makeObject(twin)>>,
     <<I("NEW_ARRAY", 0, 1, 0, 0), I("NEW_MAP", 1, 0, 0, 0), I("GET_GLOBAL", 2, 0, 0, 0)>>
     \o prepare
     \o Passing(4) \o <<I("CALL", 3, 2, 4, 4)>>
     \o Passing(4) \o <<I("CALL", 3, 2, 4, 4), I("MOVE", 0, 3, 0, 0), I("RETURN", 0, 0, 0, 0)>>)

Prepare ==
  {<<I("PUSH_ARRAY", 0, 1, 0, 0)>>,
   <<I("LOAD_CONST", 4, 1, 0, 0), I("SET_MAP", 1, 4, 0, 0),
     I("LOAD_CONST", 4, 3, 0, 0), I("SET_MAP", 1, 4, 0, 0)>>}

\* f(r0, r1, r2, r3): an array, a map, a key and an index.
Body ==
  {I("PUSH_ARRAY", 0, 1, 0, 0),
   I("PUSH_ARRAY", 0, 0, 0, 0),   \* the array holds itself
   I("LOAD_CONST", 2, 0, 0, 0),   \* another string, or one that says the same
   I("SET_MAP", 1, 2, 0, 0),
   I("SET_MAP", 1, 3, 1, 0),      \* the map holds itself
   I("GET_ARRAY", 2, 0, 3, 0),
   I("NEW_ARRAY", 2, 0, 0, 0),
   I("MOVE", 0, 2, 0, 0),
   I("FREE", 0, 0, 0, 0),
   I("FREE", 2, 0, 0, 0)}

MCProgram ==
  {[func |-> boot :> BootImage @@ main :> MainImage(prepare)
             @@ f :> Fn(4, 4, 1, <<makeObject(twin)>>, Append(code, I("RETURN", 0, 0, 0, 0))),
    struct_name |-> [s \in {} |-> 0]] : prepare \in Prepare, code \in BoundedSeq(Body, MaxBody)}
=============================================================================
