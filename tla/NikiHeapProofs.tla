----------------------------- MODULE NikiHeapProofs ----------------------------
(***************************************************************************)
(* The VM with its heap: whatever programs do with their containers, the   *)
(* machine keeps its windows and its calls as it does without them, and    *)
(* the containers keep inside their blocks.                                *)
(*                                                                         *)
(* A container opcode writes one object and one register of the running    *)
(* window, or stops: so all that NikiVMProofs shows of a step holds of it, *)
(* once what it reads from an object is known to be a Value.  That is what *)
(* the invariant has the objects for.                                      *)
(***************************************************************************)
EXTENDS NikiHeap, NikiVMProofs

HeapThing == {Unused, Gone} \cup StringObj \cup ArrayObj \cup MapObj

HInv ==
  /\ IInv
  /\ heap \in [HeapObj -> HeapThing]
  /\ ObjectsKept
  /\ Fitting

-----------------------------------------------------------------------------
(***************************************************************************)
(* What a container opcode does.                                           *)
(***************************************************************************)
\* The opcodes of the heap, and the registers they read.
LEMMA HeapOperands ==
  ASSUME IInv, HeapStep
  PROVE  /\ status = "running" /\ currentFrame.ip =< Len(Code)
         /\ Ins.op \in HeapOp
         /\ Ins.a \in Nat /\ Ins.b \in Nat /\ Ins.c \in Nat
         /\ PushArray => Reg(Ins.a) \in Value /\ Reg(Ins.b) \in Value
         /\ GetArray => Reg(Ins.b) \in Value /\ Reg(Ins.c) \in Value
         /\ SetMap => Reg(Ins.a) \in Value /\ Reg(Ins.b) \in Value /\ Reg(Ins.c) \in Value
         /\ Free => Reg(Ins.a) \in Value
<1>1. status = "running" /\ currentFrame.ip =< Len(Code) /\ Ins.op \in HeapOp
  BY DEF HeapStep, NewArray, NewMap, PushArray, GetArray, SetMap, Free, At, HeapOp
<1>2. Ins.a \in Nat /\ Ins.b \in Nat /\ Ins.c \in Nat
  BY <1>1, InsTyped
<1>3. \A r \in HeapRegisters(Ins) : r \in Nat => Reg(r) \in Value
  BY <1>1, OperandsAreValues
<1>4. /\ PushArray => Ins.a \in HeapRegisters(Ins) /\ Ins.b \in HeapRegisters(Ins)
      /\ GetArray => Ins.b \in HeapRegisters(Ins) /\ Ins.c \in HeapRegisters(Ins)
      /\ SetMap => {Ins.a, Ins.b, Ins.c} \subseteq HeapRegisters(Ins)
      /\ Free => Ins.a \in HeapRegisters(Ins)
  BY DEF PushArray, GetArray, SetMap, Free, At, HeapRegisters
<1> QED
  BY <1>1, <1>2, <1>3, <1>4

\* An object is written: it becomes a container in its block, or is gone.
Written(o, x) ==
  /\ o \in HeapObj /\ heap' = [heap EXCEPT ![o] = x]
  /\ \/ x \in ArrayObj /\ InBlock(x)
     \/ x \in MapObj /\ InBlock(x) /\ KeysApart(Chars, x)
     \/ x = Gone

\* The machine goes on without a register being written.
Passed == NextIp /\ UNCHANGED <<prog, stack, globals, global_objects, module_id, status, result>>

\* All there is to a container opcode.
HeapShape ==
  \/ Passed /\ \E o, x : Written(o, x)
  \/ \E v \in Value : SetReg(Ins.a, v) /\ ((\E o, x : Written(o, x)) \/ UNCHANGED heap)
  \/ Left /\ UNCHANGED heap

LEMMA Refusing ==
  ASSUME Refuse \/ \E what : Misuse(what)
  PROVE  HeapShape
  BY DEF Refuse, Misuse, HeapShape, Left, Fail, heapVars

\* OP_NEW_ARRAY and OP_NEW_MAP.
LEMMA Allocating ==
  ASSUME HInv, NewArray \/ NewMap
  PROVE  HeapShape
<1>1. IInv /\ heap \in [HeapObj -> HeapThing]
  BY DEF HInv
<1>2. Ins.b \in Nat
  BY <1>1, HeapOperands DEF HeapStep
<1>3. PICK x \in {allocateArray(Ins.b), allocateMap(Ins.b)} : Allocate(Ins.a, x)
  BY DEF NewArray, NewMap
<1>4. /\ \/ x \in ArrayObj
         \/ x \in MapObj /\ KeysApart(Chars, x)
      /\ InBlock(x)
  BY <1>2, <1>3, FreshContainers
<1> DEFINE o == CHOOSE o \in HeapObj : heap[o] = Unused
<1>5. o \in HeapObj /\ heap' = [heap EXCEPT ![o] = x] /\ SetReg(Ins.a, makeObject(o))
  BY <1>3 DEF Allocate
<1> HIDE DEF o
<1>6. makeObject(o) \in Value
  BY <1>5, MadeValues DEF Obj
<1>7. Written(o, x)
  BY <1>4, <1>5 DEF Written
<1> QED
  BY <1>5, <1>6, <1>7 DEF HeapShape

\* A container that lies in the heap.
LEMMA ContainersKept ==
  ASSUME HInv, NEW o \in HeapObj
  PROVE  /\ heap[o] \in HeapThing
         /\ heap[o].type = "Array" => /\ heap[o] \in ArrayObj /\ InBlock(heap[o])
                                      /\ 2 * heap[o].count < Uint32
         /\ heap[o].type = "Map" => /\ heap[o] \in MapObj /\ InBlock(heap[o]) /\ KeysApart(Chars, heap[o])
                                    /\ 2 * heap[o].count < Uint32
  BY DEF HInv, ObjectsKept, Fitting

\* OP_PUSH_ARRAY.
LEMMA Pushing ==
  ASSUME HInv, PushArray
  PROVE  HeapShape
<1> DEFINE array == Reg(Ins.a)
           o == array.as
           v == Reg(Ins.b)
           x == pushArray(heap[o], v)
<1>1. IInv /\ heap \in [HeapObj -> HeapThing]
  BY DEF HInv
<1>2. v \in Value /\ status = "running" /\ currentFrame.ip =< Len(Code) /\ Ins.b \in Nat
  BY <1>1, HeapOperands DEF HeapStep
<1>3. CASE Refuse \/ \E what : Misuse(what)
  BY <1>3, Refusing
<1>4. CASE Holding(array, "Array") /\ Update(array, x)
  <2>1. o \in HeapObj /\ heap[o] \in ArrayObj /\ InBlock(heap[o]) /\ 2 * heap[o].count < Uint32
    BY <1>4, ContainersKept DEF Holding
  <2>2. x \in ArrayObj /\ InBlock(x)
    BY <1>2, <2>1, ArrayPushed
  <2>3. heap' = [heap EXCEPT ![o] = x] /\ Passed
    BY <1>4 DEF Update, Passed
  <2> HIDE DEF x, o
  <2>4. Written(o, x)
    BY <2>1, <2>2, <2>3 DEF Written
  <2> QED
    BY <2>3, <2>4 DEF HeapShape
<1> QED
  BY <1>3, <1>4 DEF PushArray

\* OP_GET_ARRAY.
LEMMA Getting ==
  ASSUME HInv, GetArray
  PROVE  HeapShape
<1> DEFINE array == Reg(Ins.b)
           index == Reg(Ins.c)
           o == array.as
           v == getArray(heap[o], index.as)
<1>1. IInv
  BY DEF HInv
<1>2. index \in Value
  BY <1>1, HeapOperands DEF HeapStep
<1>3. CASE Refuse \/ \E what : Misuse(what)
  BY <1>3, Refusing
<1>4. CASE /\ Holding(array, "Array") /\ isInteger(index) /\ InBounds(heap[o], index.as)
           /\ SetReg(Ins.a, v) /\ UNCHANGED heapVars
  <2>1. o \in HeapObj /\ heap[o] \in ArrayObj /\ InBlock(heap[o])
    BY <1>4, ContainersKept DEF Holding
  <2>2. index.as \in Int
    BY <1>2, <1>4, ValueShapes, IntMaxAssumption DEF isInteger, IntRange, IntMin
  <2>3. v \in Value
    BY <1>4, <2>1, <2>2, ArrayRead
  <2>4. SetReg(Ins.a, v) /\ UNCHANGED heap
    BY <1>4 DEF heapVars
  <2> HIDE DEF v
  <2> QED
    BY <2>3, <2>4 DEF HeapShape
<1> QED
  BY <1>3, <1>4 DEF GetArray

\* OP_SET_MAP.
LEMMA Setting ==
  ASSUME HInv, SetMap
  PROVE  HeapShape
<1> DEFINE map == Reg(Ins.a)
           o == map.as
           k == Reg(Ins.b)
           v == Reg(Ins.c)
           x == mapSet(Chars, heap[o], k, v)
<1>1. IInv /\ heap \in [HeapObj -> HeapThing]
  BY DEF HInv
<1>2. /\ k \in Value /\ v \in Value
      /\ status = "running" /\ currentFrame.ip =< Len(Code) /\ Ins.b \in Nat /\ Ins.c \in Nat
  BY <1>1, HeapOperands DEF HeapStep
<1>3. CASE Refuse \/ \E what : Misuse(what)
  BY <1>3, Refusing
<1>4. CASE Holding(map, "Map") /\ Update(map, x)
  <2>1. o \in HeapObj /\ heap[o] \in MapObj /\ InBlock(heap[o]) /\ KeysApart(Chars, heap[o])
        /\ 2 * heap[o].count < Uint32
    BY <1>4, ContainersKept DEF Holding
  <2>2. x \in MapObj /\ InBlock(x) /\ KeysApart(Chars, x)
    BY <1>2, <2>1, MapWritten
  <2>3. heap' = [heap EXCEPT ![o] = x] /\ Passed
    BY <1>4 DEF Update, Passed
  <2> HIDE DEF x, o
  <2>4. Written(o, x)
    BY <2>1, <2>2, <2>3 DEF Written
  <2> QED
    BY <2>3, <2>4 DEF HeapShape
<1> QED
  BY <1>3, <1>4 DEF SetMap

\* OP_FREE.
LEMMA Freeing ==
  ASSUME HInv, Free
  PROVE  HeapShape
<1> DEFINE o == Reg(Ins.a).as
<1>1. CASE Refuse \/ \E what : Misuse(what)
  BY <1>1, Refusing
<1>2. CASE /\ o \in HeapObj /\ heap' = [heap EXCEPT ![o] = Gone]
           /\ SetReg(Ins.a, makeNil)
  <2>1. Written(o, Gone)
    BY <1>2 DEF Written
  <2> QED
    BY <1>2, <2>1, MadeValues DEF HeapShape
<1>3. CASE UNCHANGED heap /\ SetReg(Ins.a, makeNil)
  BY <1>3, MadeValues DEF HeapShape
<1> QED
  BY <1>1, <1>2, <1>3 DEF Free

LEMMA HeapShapes ==
  ASSUME HInv, HeapStep
  PROVE  HeapShape
  BY Allocating, Pushing, Getting, Setting, Freeing DEF HeapStep

-----------------------------------------------------------------------------
(***************************************************************************)
(* The machine under the container opcodes.                                *)
(***************************************************************************)
\* Moving on leaves the windows and the calls as they were.
LEMMA PassedKeeps ==
  ASSUME IInv, status = "running", Passed
  PROVE  IInv' /\ Moved
<1>1. currentFrame.ip + 1 \in Nat \ {0} /\ JumpTo(currentFrame.ip + 1)
  BY RunningFrame DEF Passed, NextIp
<1>2. /\ frames' \in Seq(CallFrame) /\ WindowsInBounds' /\ CallChain' /\ frames' # <<>>
  BY <1>1, JumpKeepsFrames DEF Passed
<1>3. TypeOK'
  BY <1>2 DEF Passed, IInv, TypeOK
<1>4. Moved
  BY <1>1, JumpMoves DEF Passed
<1> QED
  BY <1>2, <1>3, <1>4 DEF Passed, IInv, Running

LEMMA HeapStepKeeps ==
  ASSUME HInv, HeapStep
  PROVE  IInv' /\ (Moved \/ Left)
<1>1. IInv /\ status = "running" /\ currentFrame.ip =< Len(Code) /\ Ins.a \in Nat
  BY HeapOperands DEF HInv
<1>2. CASE Passed
  BY <1>1, <1>2, PassedKeeps
<1>3. CASE \E v \in Value : SetReg(Ins.a, v)
  BY <1>1, <1>3, SetRegKeeps, SetRegMoves
<1>4. CASE Left
  BY <1>1, <1>4, StopKeeps DEF Left
<1> QED
  BY <1>2, <1>3, <1>4, HeapShapes DEF HeapShape

-----------------------------------------------------------------------------
(***************************************************************************)
(* The containers.                                                         *)
(***************************************************************************)
\* A container of values that are its own keys stays one when a string goes: what
\* still reads as a string did so before.
LEMMA WritesKeep ==
  ASSUME HInv, NEW o, NEW x, Written(o, x)
  PROVE  heap' \in [HeapObj -> HeapThing] /\ ObjectsKept'
<1>1. o \in HeapObj /\ heap \in [HeapObj -> HeapThing] /\ heap' = [heap EXCEPT ![o] = x]
  BY DEF HInv, Written
<1>2. x \in HeapThing /\ x.type # "String"
  BY DEF Written, HeapThing, ArrayObj, MapObj, Gone
<1>3. /\ heap'[o] = x
      /\ \A q \in HeapObj : q # o => heap'[q] = heap[q]
  BY <1>1
<1>4. heap' \in [HeapObj -> HeapThing]
  BY <1>1, <1>2
<1>5. DOMAIN Chars' \subseteq DOMAIN Chars /\ \A q \in DOMAIN Chars' : Chars'[q] = Chars[q]
  BY <1>2, <1>3 DEF Chars
<1>6. ASSUME NEW m, KeysApart(Chars, m)
      PROVE  KeysApart(Chars', m)
  BY <1>5, <1>6, FewerKeysEqual DEF KeysApart
<1>7. SUFFICES ASSUME NEW q \in HeapObj
      PROVE  /\ heap'[q].type = "Array" => heap'[q] \in ArrayObj /\ InBlock(heap'[q])
             /\ heap'[q].type = "Map"   => heap'[q] \in MapObj /\ InBlock(heap'[q]) /\ KeysApart(Chars', heap'[q])
  BY <1>4 DEF ObjectsKept
<1>8. CASE q # o
  BY <1>3, <1>6, <1>8 DEF HInv, ObjectsKept
<1>9. CASE q = o
  <2>1. /\ x.type = "Array" => x \in ArrayObj /\ InBlock(x)
        /\ x.type = "Map"   => x \in MapObj /\ InBlock(x) /\ KeysApart(Chars, x)
    BY DEF Written, ArrayObj, MapObj, Gone
  <2> QED
    BY <1>3, <1>6, <1>9, <2>1
<1> QED
  BY <1>8, <1>9

\* Without a write they stay as they are.
LEMMA UntouchedKeep ==
  ASSUME HInv, UNCHANGED heap
  PROVE  heap' \in [HeapObj -> HeapThing] /\ ObjectsKept'
  BY DEF HInv, ObjectsKept, Chars

LEMMA HeapNextKeeps ==
  ASSUME HInv, [HeapNext]_<<vars, heapVars>>
  PROVE  HInv'
<1>1. CASE HeapStep /\ Fitting'
  <2>1. IInv'
    BY <1>1, HeapStepKeeps
  <2>2. heap' \in [HeapObj -> HeapThing] /\ ObjectsKept'
    BY <1>1, HeapShapes, WritesKeep, UntouchedKeep DEF HeapShape
  <2> QED
    BY <1>1, <2>1, <2>2 DEF HInv
<1>2. CASE [Next]_vars /\ UNCHANGED heapVars
  <2>1. IInv'
    BY <1>2, NextKeeps DEF HInv
  <2>2. UNCHANGED heap
    BY <1>2 DEF heapVars
  <2>3. heap' \in [HeapObj -> HeapThing] /\ ObjectsKept'
    BY <2>2, UntouchedKeep
  <2>4. Fitting'
    BY <2>2 DEF HInv, Fitting
  <2> QED
    BY <2>1, <2>3, <2>4 DEF HInv
<1> QED
  BY <1>1, <1>2 DEF HeapNext, MachineStep, Next

LEMMA HeapInitEstablishes == HeapInit => HInv
<1> SUFFICES ASSUME HeapInit PROVE HInv
  OBVIOUS
<1>1. IInv
  BY InitEstablishes DEF HeapInit
<1>2. heap \in [HeapObj -> HeapThing] /\ \A o \in HeapObj : heap[o].type \in {"Unused", "String"}
  BY DEF HeapInit, HeapThing, StringObj, Unused
<1> QED
  BY <1>1, <1>2 DEF HInv, ObjectsKept, Fitting

LEMMA HeapInvariance == HeapSpec => []HInv
  BY HeapInitEstablishes, HeapNextKeeps, PTL DEF HeapSpec

\* The containers are kept (pushArray, mapSet and the allocators of object.hpp under
\* OP_NEW_ARRAY, OP_PUSH_ARRAY, OP_NEW_MAP, OP_SET_MAP and OP_FREE): whatever programs
\* share, nest, overwrite or free, each array and map stays inside its block and no
\* map gets two entries for one key.
THEOREM HeapObjectsKept == HeapSpec => []ObjectsKept
<1>1. HInv => ObjectsKept
  BY DEF HInv
<1> QED
  BY <1>1, HeapInvariance, PTL

\* The windows and calls are kept (VM::run): the container opcodes write
\* registers of the running window only, so no program that uses the heap leaves
\* the stack or confuses two calls either.
THEOREM HeapRunsSafely == HeapSpec => [](TypeOK /\ WindowsInBounds /\ CallChain)
<1>1. HInv => TypeOK /\ WindowsInBounds /\ CallChain
  BY DEF HInv, IInv
<1> QED
  BY <1>1, HeapInvariance, PTL

-----------------------------------------------------------------------------
(***************************************************************************)
(* The code is not left.                                                   *)
(***************************************************************************)
LEMMA HeapStepsOn ==
  ASSUME AllClosed, HInv, OnTrack, HeapStep
  PROVE  OnTrack'
<1>1. IInv /\ status = "running" /\ currentFrame.ip =< Len(Code) /\ Ins.op \in HeapOp
  BY HeapOperands DEF HInv
<1>2. CASE Left
  BY <1>2 DEF Left, Stop, OnTrack
<1>3. CASE NextIp /\ UNCHANGED prog
  <2>1. currentFrame.ip \in DOMAIN Code /\ currentFrame.fn \in Func /\ currentFrame.ip \in Nat \ {0}
    BY <1>1, RunningFrame DEF OnTrack
  <2>2. Ins.op \notin {"JMP", "LOOP", "RETURN"}
    BY <1>1 DEF HeapOp
  <2>3. currentFrame.ip + 1 \in DOMAIN Code
    BY <1>1, <2>1, <2>2, GoesOn DEF IInv, Code, Ins
  <2> QED
    BY <1>1, <1>3, <2>1, <2>3, MovesOn DEF NextIp
<1> QED
  BY <1>2, <1>3, HeapShapes DEF HeapShape, Passed, SetReg

\* No run of closed code leaves it, with the container opcodes in it or without:
\* the test of VM::run for the end of the code never fires.
THEOREM ClosedHeapCodeIsNeverLeft ==
  ASSUME \A p \in Program : \A f \in Func : Closed(p.func[f].code)
  PROVE  HeapSpec => []NeverAstray
<1>1. AllClosed
  BY DEF AllClosed
<1>2. HeapInit => OnTrack
  BY DEF HeapInit, Init, OnTrack
<1>3. HInv /\ OnTrack /\ [HeapNext]_<<vars, heapVars>> => OnTrack'
  <2> SUFFICES ASSUME HInv, OnTrack, [HeapNext]_<<vars, heapVars>> PROVE OnTrack'
    OBVIOUS
  <2>1. CASE HeapStep
    BY <1>1, <2>1, HeapStepsOn
  <2>2. CASE [Next]_vars
    BY <1>1, <2>2, OnTrackKept DEF HInv
  <2> QED
    BY <2>1, <2>2 DEF HeapNext, MachineStep, Next
<1>4. HInv /\ OnTrack => NeverAstray
  BY <1>1, AllFramesOnTrack DEF HInv
<1> QED
  BY <1>2, <1>3, <1>4, HeapInvariance, PTL DEF HeapSpec

-----------------------------------------------------------------------------
(***************************************************************************)
(* The calling convention.                                                 *)
(***************************************************************************)
LEMMA HeapStepComputes ==
  ASSUME HInv, BasesRise, HeapStep
  PROVE  BasesRise' /\ [Contract!Next]_(Contract!vars)
<1>1. CInv
  BY DEF HInv, CInv
<1>2. CASE Moved
  <2>1. Contract!Compute
    BY <1>1, <1>2, MovedComputes
  <2>2. BasesRise'
    <3>1. Len(frames) \in Nat
      BY LenProperties DEF HInv, IInv, TypeOK
    <3> QED
      BY <1>2, <3>1 DEF BasesRise, Moved
  <2> QED
    BY <2>1, <2>2 DEF Contract!Next
<1>3. CASE Left
  <2>1. status' \in {"error", "trapped"} /\ UNCHANGED frames
    BY <1>3 DEF Left, Stop
  <2>2. BasesRise'
    BY <2>1 DEF BasesRise
  <2> QED
    BY <2>1, <2>2 DEF Activations, Contract!Abandon, Contract!Next
<1> QED
  BY <1>2, <1>3, HeapStepKeeps

\* The calling convention is kept (OP_CALL and OP_RETURN beside the container
\* opcodes): programs that use the heap, too, see activations with registers of
\* their own, for every program, stack size and call depth.
THEOREM HeapKeepsTheContract == HeapSpec => KeepsContract
<1>1. HeapInit => Contract!Init /\ BasesRise
  BY MadeValues DEF HeapInit, Init, Activations, Contract!Init, BasesRise
<1>2. HInv /\ BasesRise /\ [HeapNext]_<<vars, heapVars>> => BasesRise' /\ [Contract!Next]_(Contract!vars)
  <2> SUFFICES ASSUME HInv, BasesRise, [HeapNext]_<<vars, heapVars>>
      PROVE  BasesRise' /\ [Contract!Next]_(Contract!vars)
    OBVIOUS
  <2>1. CASE HeapStep
    BY <2>1, HeapStepComputes
  <2>2. CASE [Next]_vars
    BY <2>2, BasesStayRising, StepsKeep DEF HInv, CInv
  <2> QED
    BY <2>1, <2>2 DEF HeapNext, MachineStep, Next
<1> QED
  BY <1>1, <1>2, HeapInvariance, PTL DEF HeapSpec, KeepsContract, Contract!Spec

================================================================================
