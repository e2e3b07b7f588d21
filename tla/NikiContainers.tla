---------------------------- MODULE NikiContainers -----------------------------
(***************************************************************************)
(* An array and a map of the VM under the container opcodes, one of the    *)
(* two at a time, and what they promise.  The opcodes that only read are   *)
(* operators: they change no container.                                    *)
(***************************************************************************)
EXTENDS NikiObject

CONSTANTS
  Key,      \* the values used as keys
  Val,      \* the values stored
  chars,    \* the string objects among them, and their contents
  Capacity, \* the capacities the compiler asks for
  MaxCount  \* bound on the elements of a container

ASSUME ContainerAssumption ==
  /\ Key \subseteq Value /\ Val \subseteq Value
  /\ DOMAIN chars \subseteq HeapObj
  /\ Capacity \subseteq Nat
  /\ MaxCount \in Nat
  \* Doubling does not wrap before the bound; it does at 2^31 elements.
  /\ \A c \in Capacity \cup {MinCapacity} : c < Uint32
  /\ 2 * MaxCount < Uint32

VARIABLES
  obj,   \* the container: an ObjArray or an ObjMap
  op     \* the operation carried out last, its operands with it

vars == <<obj, op>>

Init ==
  /\ obj \in {allocateArray(c) : c \in Capacity} \cup {allocateMap(c) : c \in Capacity}
  /\ op = <<>>

Push(v) ==
  /\ obj.type = "Array" /\ obj.count < MaxCount
  /\ obj' = pushArray(obj, v)
  /\ op' = <<"Push", v>>

SetArray(i, v) ==
  /\ obj.type = "Array" /\ InBounds(obj, i)
  /\ obj' = setArray(obj, i, v)
  /\ op' = <<"Put", i + 1, v>>

SetMap(k, v) ==
  /\ obj.type = "Map" /\ obj.count < MaxCount
  /\ obj' = mapSet(chars, obj, k, v)
  /\ op' = <<"Set", k, v>>

Next ==
  \/ \E v \in Val : Push(v)
  \/ \E v \in Val, i \in -1..MaxCount : SetArray(i, v)
  \/ \E k \in Key, v \in Val : SetMap(k, v)

Spec == Init /\ [][Next]_vars

-----------------------------------------------------------------------------
\* No push and no write of an entry has gone past the end of the block, the
\* elements are its first slots, and no old value shines through behind them.
BlockOK == InBlock(obj)

\* No key is entered twice, so that the first hit of a search is the only one;
\* a NaN, which equals nothing, is entered anew by every write.
KeysDistinct == obj.type = "Map" => KeysApart(chars, obj)

\* Equal strings are one key, named by their contents.
Canonical(v) == IF isString(chars, v) THEN [type |-> "String", as |-> chars[v.as]] ELSE v
Acceptable   == Key \ {makeFloat(NaN)}

Elements == IF obj.type = "Array" THEN SubSeq(obj.elements, 1, obj.count) ELSE <<>>

\* What mapGet answers for every key it finds.
Lookup ==
  IF obj.type # "Map" THEN [k \in {} |-> k]
  ELSE [c \in {Canonical(k) : k \in {k \in Key : mapHas(chars, obj, k)}} |->
          mapGet(chars, obj, CHOOSE k \in Key : Canonical(k) = c /\ mapHas(chars, obj, k))]

Abstract == INSTANCE Container WITH seq <- Elements, dict <- Lookup

\* However the block grows, an array is the sequence of what was pushed, and
\* OP_GET_MAP answers what the last OP_SET_MAP of an equal key stored; no
\* operation is lost, each one is the abstract one of the same operands.
IsContainer == Abstract!Spec
=============================================================================
