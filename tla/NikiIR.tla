--------------------------------- MODULE NikiIR --------------------------------
(***************************************************************************)
(* The tables of a module's IR (module_ir.hpp), which the builder fills,   *)
(* the verifier judges and lowering reads.                                 *)
(*                                                                         *)
(* An instruction is [kind, dst, a, b, c, aux], a block the span [begin,   *)
(* count] of its instructions, a function [name, first, count, next_vreg,  *)
(* arity]: the span of its blocks, its registers and its parameters.  Ids  *)
(* and offsets start at 0 as in the code: instruction i is insts[i + 1].   *)
(***************************************************************************)
EXTENDS Integers

\* Operands: a value and the kind that says how to read it.
Operand(kind, value) == [kind |-> kind, value |-> value]
Invalid  == Operand("Invalid", 0)
VReg(r)  == Operand("VReg", r)
Block(k) == Operand("BlockId", k)

\* The begin of a block that holds no instruction yet, and the target of a
\* break whose loop is not finished.
Unset == -1

Terminators == {"Jump", "Branch", "Return"}

\* The instructions of a block, by their index in insts.
InstsOf(block) == (block.begin + 1)..(block.begin + block.count)

\* The n-th block of a function.
BlockOf(b, func, n) == b.blocks[func.first + n]
================================================================================
