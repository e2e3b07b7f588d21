------------------------------ MODULE NikiObject -------------------------------
(***************************************************************************)
(* The containers of the VM's heap (object.hpp): how an array and a map    *)
(* are allocated, grow, are written and read.  A map is an entry table     *)
(* that is searched from its first slot, with no hashing and no deletion.  *)
(* An array slot or map entry is indexed from 1 here, from 0 in the code.  *)
(***************************************************************************)
EXTENDS NikiValue, Sequences, FiniteSets

CONSTANTS
  MinCapacity,   \* the least capacity a container grows to, 8 in the code
  Uint32         \* the number of uint32_t values, 2^32 in the code

ASSUME CapacityAssumption ==
  /\ MinCapacity \in Nat \ {0}
  /\ Uint32 \in Nat
  /\ Uint32 > 2 * MinCapacity

-----------------------------------------------------------------------------
(***************************************************************************)
(* Keys.  chars maps the string objects to their contents: strings are     *)
(* equal by content, other objects by address, and a NaN equals nothing.   *)
(***************************************************************************)
isString(chars, v) == v.type = "Object" /\ v.as \in DOMAIN chars

\* Mutant: every object is compared by its address.
AddressKeyEquals(chars, lhs, rhs) ==
  lhs.type = rhs.type /\ lhs.as = rhs.as /\ lhs.as # NaN

valueKeyEquals(chars, lhs, rhs) ==
  /\ lhs.type = rhs.type
  /\ \/ lhs.type = "Nil"
     \/ lhs.type \in {"Bool", "Integer"} /\ lhs.as = rhs.as
     \/ lhs.type = "Float" /\ lhs.as = rhs.as /\ lhs.as # NaN
     \/ isString(chars, lhs) /\ isString(chars, rhs) /\ chars[lhs.as] = chars[rhs.as]
     \/ lhs.type = "Object" /\ ~isString(chars, lhs) /\ lhs.as = rhs.as

-----------------------------------------------------------------------------
ArrayObj == [type : {"Array"}, capacity : Nat, count : Nat, elements : Seq(Value)]
Slot     == [occupied : BOOLEAN, key : Value, value : Value]
MapObj   == [type : {"Map"}, capacity : Nat, count : Nat, entries : Seq(Slot)]

\* The capacity a full container asks for.  The doubling wraps around.
Grown(capacity) ==
  IF capacity < MinCapacity THEN MinCapacity ELSE (capacity * 2) % Uint32

Resized(slots, capacity, blank) ==
  [i \in 1..capacity |-> IF i \in DOMAIN slots THEN slots[i] ELSE blank]

allocateArray(capacity) ==
  [type |-> "Array", capacity |-> capacity, count |-> 0,
   elements |-> Resized(<<>>, capacity, makeNil)]

\* Growing to a smaller capacity, which a wrapped doubling asks for, does nothing.
expandArray(array, capacity) ==
  IF capacity =< array.capacity THEN array
  ELSE [array EXCEPT !.capacity = capacity,
                     !.elements = Resized(@, capacity, makeNil)]

\* Mutant: the array grows one element late.
LateMakeRoom(array) ==
  IF array.count > array.capacity THEN expandArray(array, Grown(array.capacity)) ELSE array

MakeRoom(array) ==
  IF array.count >= array.capacity THEN expandArray(array, Grown(array.capacity)) ELSE array

\* OP_PUSH_ARRAY.  Without room the element is written past the block.
pushArray(array, v) ==
  LET a == MakeRoom(array) IN
  [a EXCEPT !.count = @ + 1, !.elements = [@ EXCEPT ![a.count + 1] = v]]

\* OP_GET_ARRAY and OP_SET_ARRAY refuse an index outside the elements pushed.
InBounds(array, index) == 0 =< index /\ index < array.count
getArray(array, index)    == array.elements[index + 1]
setArray(array, index, v) == [array EXCEPT !.elements[index + 1] = v]

-----------------------------------------------------------------------------
Blank == [occupied |-> FALSE, key |-> makeNil, value |-> makeNil]

Entry(k, v) == [occupied |-> TRUE, key |-> k, value |-> v]

allocateMap(capacity) ==
  LET c == IF capacity < MinCapacity THEN MinCapacity ELSE capacity IN
  [type |-> "Map", capacity |-> c, count |-> 0, entries |-> Resized(<<>>, c, Blank)]

Least(S) == CHOOSE i \in S : \A j \in S : i =< j

Occupied(map) == {i \in 1..map.capacity : map.entries[i].occupied}
Vacant(map)   == (1..map.capacity) \ Occupied(map)

\* The occupied entries move to the front of the new table, in their order:
\* each finds the slots of its rank less one taken.
Rank(map, i) == Cardinality({j \in Occupied(map) : j =< i})

expandMap(map, capacity) ==
  LET Moved(n) == {i \in Occupied(map) : Rank(map, i) = n} IN
  IF capacity =< map.capacity THEN map
  ELSE [map EXCEPT !.capacity = capacity,
                   !.entries = [n \in 1..capacity |->
                      IF Moved(n) = {} THEN Blank ELSE map.entries[Least(Moved(n))]]]

\* The entries whose key equals k.
Hits(chars, map, k) ==
  {i \in Occupied(map) : valueKeyEquals(chars, map.entries[i].key, k)}

\* Mutant: a new key is written without a search for an old entry.
AppendingMapSet(chars, map, k, v) ==
  LET m == IF map.count >= map.capacity THEN expandMap(map, Grown(map.capacity)) ELSE map IN
  IF Vacant(m) = {} THEN m
  ELSE [m EXCEPT !.entries[Least(Vacant(m))] = Entry(k, v), !.count = @ + 1]

\* A full table grows before the search, even when the key is there already.
\* A table that could not grow and has no hit drops the write.
mapSet(chars, map, k, v) ==
  LET m == IF map.count >= map.capacity THEN expandMap(map, Grown(map.capacity)) ELSE map IN
  IF Hits(chars, m, k) # {} THEN [m EXCEPT !.entries[Least(Hits(chars, m, k))].value = v]
  ELSE IF Vacant(m) = {} THEN m
  ELSE [m EXCEPT !.entries[Least(Vacant(m))] = Entry(k, v), !.count = @ + 1]

mapHas(chars, map, k) == Hits(chars, map, k) # {}
mapGet(chars, map, k) == map.entries[Least(Hits(chars, map, k))].value

-----------------------------------------------------------------------------
\* The table of slots is as long as the capacity says, no more slots are used
\* than there are, and the unused ones are blank.
InBlock(c) ==
  /\ c.count =< c.capacity
  /\ c.type = "Array" =>
       /\ DOMAIN c.elements = 1..c.capacity
       /\ \A i \in (c.count + 1)..c.capacity : c.elements[i] = makeNil
  /\ c.type = "Map" =>
       /\ DOMAIN c.entries = 1..c.capacity
       /\ \A i \in 1..c.capacity :
            IF i =< c.count THEN c.entries[i].occupied ELSE c.entries[i] = Blank

\* No key is entered twice.
KeysApart(chars, map) ==
  \A i, j \in Occupied(map) :
    valueKeyEquals(chars, map.entries[i].key, map.entries[j].key) => i = j
=============================================================================
