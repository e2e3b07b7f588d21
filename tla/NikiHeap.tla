------------------------------- MODULE NikiHeap --------------------------------
(***************************************************************************)
(* The VM with its heap: the container opcodes the compiler emits and      *)
(* OP_FREE (vm.cpp, VM::run).  heap says what lies at every address.       *)
(*                                                                         *)
(* An address is used once.  The allocator may reuse it, which shows only  *)
(* in what the code reads or frees through the address; the model ends     *)
(* where the code does so for an object that is gone.                      *)
(***************************************************************************)
EXTENDS NikiVM, NikiObject

\* A function or a struct blueprint is no object of the heap.
ASSUME ObjAssumption == HeapObj \cap (Func \cup StructDef) = {}

VARIABLES
  heap,    \* address -> object, Unused or Gone
  misuse   \* what the running code did with an object that was gone

heapVars == <<heap, misuse>>

Unused == [type |-> "Unused"]
Gone   == [type |-> "Gone"]

\* The registers hold an address of an object of this type, or of one that is
\* gone.  Every test of an object's type reads the object.
Holding(v, type) == v.type = "Object" /\ v.as \in HeapObj /\ heap[v.as].type = type
Dangling(v)      == Holding(v, "Gone")

\* What follows is undefined: the model goes no further.
Misuse(what) == misuse' = what /\ Stop("trapped") /\ UNCHANGED heap

Refuse == Fail /\ UNCHANGED heapVars

Update(v, object) ==
  /\ heap' = [heap EXCEPT ![v.as] = object]
  /\ NextIp
  /\ UNCHANGED <<prog, stack, globals, global_objects, module_id, status, result, misuse>>

\* Which fresh address is of no account; without one the model ends.
Allocate(r, object) ==
  LET o == CHOOSE o \in HeapObj : heap[o] = Unused IN
  /\ \E fresh \in HeapObj : heap[fresh] = Unused
  /\ heap' = [heap EXCEPT ![o] = object]
  /\ SetReg(r, makeObject(o))
  /\ UNCHANGED misuse

-----------------------------------------------------------------------------
NewArray == At({"NEW_ARRAY"}) /\ Allocate(Ins.a, allocateArray(Ins.b))
NewMap   == At({"NEW_MAP"})   /\ Allocate(Ins.a, allocateMap(Ins.b))

PushArray ==
  LET array == Reg(Ins.a) IN
  /\ At({"PUSH_ARRAY"})
  /\ \/ Dangling(array) /\ Misuse("use after free")
     \/ Holding(array, "Array") /\ Update(array, pushArray(heap[array.as], Reg(Ins.b)))
     \/ ~Dangling(array) /\ ~Holding(array, "Array") /\ Refuse

GetArray ==
  LET array == Reg(Ins.b)
      index == Reg(Ins.c)
      found == Holding(array, "Array") /\ isInteger(index) /\ InBounds(heap[array.as], index.as)
  IN
  /\ At({"GET_ARRAY"})
  /\ \/ Dangling(array) /\ Misuse("use after free")
     \/ found /\ SetReg(Ins.a, getArray(heap[array.as], index.as)) /\ UNCHANGED heapVars
     \/ ~Dangling(array) /\ ~found /\ Refuse

\* The strings there are, and what they hold.
Chars == [o \in {o \in HeapObj : heap[o].type = "String"} |-> heap[o].chars]

\* The search compares the key with the entries up to the first that equals it,
\* and reads the objects where both keys are objects.
Met(map, k) == {map.entries[i].key : i \in {i \in Occupied(map) : \A j \in Hits(Chars, map, k) : i =< j}}

ReadsGone(map, k) ==
  \E met \in Met(map, k) : met.type = "Object" /\ k.type = "Object" /\ (Dangling(met) \/ Dangling(k))

SetMap ==
  LET map   == Reg(Ins.a)
      freed == Dangling(map) \/ (Holding(map, "Map") /\ ReadsGone(heap[map.as], Reg(Ins.b)))
  IN
  /\ At({"SET_MAP"})
  /\ \/ freed /\ Misuse("use after free")
     \/ /\ ~freed /\ Holding(map, "Map")
        /\ Update(map, mapSet(Chars, heap[map.as], Reg(Ins.b), Reg(Ins.c)))
     \/ ~freed /\ ~Holding(map, "Map") /\ Refuse

\* Functions and blueprints are left alone, and what a container holds is not
\* released with it.  The one register that names the object becomes nil.
Free ==
  LET v == Reg(Ins.a) IN
  /\ At({"FREE"})
  /\ \/ Dangling(v) /\ Misuse("double free")
     \/ /\ ~Dangling(v)
        /\ heap' = IF v.type = "Object" /\ v.as \in HeapObj THEN [heap EXCEPT ![v.as] = Gone] ELSE heap
        /\ SetReg(Ins.a, makeNil)
        /\ UNCHANGED misuse

HeapStep == NewArray \/ NewMap \/ PushArray \/ GetArray \/ SetMap \/ Free

MachineStep == HeapStep \/ (Step /\ UNCHANGED heapVars)

-----------------------------------------------------------------------------
(***************************************************************************)
(* The VM on a heap of its own.  The strings among the constants of the    *)
(* program lie in the heap from the start; what they say is in the pool.   *)
(***************************************************************************)
StringObj == [type : {"String"}, chars : NameId]

Constants == UNION {{prog.func[f].constants[k] : k \in DOMAIN prog.func[f].constants} : f \in Func}

\* The bound of the model: no container gets so many elements, 2^31 in the code,
\* that the doubling of its capacity wraps around.
Fitting == \A o \in HeapObj : heap[o].type \in {"Array", "Map"} => 2 * heap[o].count < Uint32

HeapInit ==
  /\ Init
  /\ heap \in [HeapObj -> {Unused} \cup StringObj]
  /\ \A o \in HeapObj : heap[o] # Unused <=> makeObject(o) \in Constants
  /\ misuse = "none"

HeapNext == (MachineStep \/ (Host /\ UNCHANGED heapVars)) /\ Fitting'

HeapSpec == HeapInit /\ [][HeapNext]_<<vars, heapVars>>

-----------------------------------------------------------------------------
(***************************************************************************)
(* Correctness.                                                            *)
(***************************************************************************)
\* Whatever programs do with their containers, share, nest, overwrite or free
\* them and the strings that are their keys, and write on past the keys that are
\* gone: each stays a container of Values in its block, and no map has two
\* entries of one key.  (A key that is gone counts by its address.)
ObjectsKept ==
  \A o \in HeapObj :
    /\ heap[o].type = "Array" => heap[o] \in ArrayObj /\ InBlock(heap[o])
    /\ heap[o].type = "Map"   => heap[o] \in MapObj /\ InBlock(heap[o]) /\ KeysApart(Chars, heap[o])
================================================================================
