------------------------------ MODULE NikiBackend ------------------------------
(***************************************************************************)
(* The contract between the back end and the VM, which checks no operand   *)
(* of the code it runs and rests on SafeImage.                             *)
(***************************************************************************)
EXTENDS NikiPromise, NikiVM

\* What the VM relies on and does not check, and what it checks only when it gets
\* there: no run leaves the code, by a jump or past its end.
SafeImage(image) == WellFormed(image) /\ Closed(image.code)
=============================================================================
