---------------------------- MODULE NikiVMContract ----------------------------
(***************************************************************************)
(* The sliding windows of NikiVM keep the promise of CallContract: the     *)
(* frames share one stack, and yet each behaves as an activation with      *)
(* registers of its own.                                                   *)
(***************************************************************************)
EXTENDS NikiVM

\* A suspended frame can rely on the registers below its first argument.
Reliable(i) ==
  IF i = Len(frames) THEN Slots(frames[i].fn) ELSE frames[i + 1].base - frames[i].base

\* The activation a frame stands for.
ActivationOf(i) ==
  [fn       |-> frames[i].fn,
   arity    |-> Image(frames[i].fn).arity,
   regs     |-> [r \in 0..(Reliable(i) - 1) |-> stack[frames[i].base + r]],
   receiver |-> IF i = Len(frames) THEN 0 ELSE frames[i + 1].out]

Activations ==
  IF status = "running" THEN [i \in 1..Len(frames) |-> ActivationOf(i)] ELSE <<>>

Contract == INSTANCE CallContract WITH acts <- Activations

\* While its calls run, nested as they may be, a caller loses no register
\* below its arguments; the callee finds the arguments it was passed, and its
\* register 0 arrives in the caller's receiver (OP_CALL, OP_RETURN).
KeepsContract == Contract!Spec
=============================================================================
