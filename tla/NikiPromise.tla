------------------------------ MODULE NikiPromise ------------------------------
(***************************************************************************)
(* What the builder has to keep for the stages behind it.  The verifier    *)
(* checks the shape of the tables, and lowering what its encoding has room *)
(* for; neither looks at the rest of what makes code safe to run.          *)
(***************************************************************************)
EXTENDS NikiLowering

\* What the builder promises of an instruction in the n-th block of a function:
\* a name is a name, a literal one of the values, the arguments of a call are
\* registers, and a branch is taken to a block that comes later.
PromisedInst(func, n, i) ==
  /\ i.aux \in Nat
  /\ \A slot \in SlotsOfInst(i) :
       /\ slot.kind = "VReg"    => slot.value \in Nat
       /\ slot.kind = "BlockId" => slot.value \in Nat \cup {Unset}
  /\ i.kind = "Constant" /\ i.a.kind \in Immediate => lowerImmediateToValue(i.a) \in Value
  /\ i.kind = "LoadGlobal" => i.a.value \in NameId
  /\ i.kind = "Call" => IF i.b.kind = "VReg" THEN i.b.value + i.aux =< func.next_vreg ELSE i.aux = 0
  /\ i.kind = "Branch" /\ i.b.value # Unset => i.b.value >= n

\* The registers an instruction names: what it encodes, and the result of the one
\* that lowering refuses.
NamedBy(i) == IF i.kind = "GetMember" THEN {i.dst} ELSE {Registers(i)[j] : j \in DOMAIN Registers(i)}

\* Parameters are the first registers of a function, and every other register is
\* one an instruction names.
PromisedFunc(b, func) ==
  /\ func.first \in Nat /\ func.count \in Nat /\ func.name \in NameId
  /\ func.next_vreg \in Nat /\ func.arity \in 0..func.next_vreg
  /\ \A n \in 1..func.count : LET block == BlockOf(b, func, n) IN
       /\ block.count \in Nat /\ block.begin \in Nat \cup {Unset}
       /\ \A k \in InstsOf(block) : PromisedInst(func, n, b.insts[k])
  /\ \A r \in (func.arity)..(func.next_vreg - 1) :
       \E n \in 1..func.count : \E k \in InstsOf(BlockOf(b, func, n)) : VReg(r) \in NamedBy(b.insts[k])

Promised(b) == \A k \in DOMAIN b.funcs : PromisedFunc(b, b.funcs[k])
================================================================================
