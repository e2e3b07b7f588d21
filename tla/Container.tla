------------------------------- MODULE Container -------------------------------
(***************************************************************************)
(* What the containers of the VM promise: an array is a sequence that      *)
(* grows at its end, a map a function on keys.  Equal keys are one key,    *)
(* which Canonical names; the keys it does not accept, the NaNs, are lost. *)
(***************************************************************************)
EXTENDS Integers, Sequences

CONSTANTS Key, Val, Acceptable, Canonical(_)

VARIABLES
  seq,    \* the elements of the array
  dict,   \* the map, on canonical keys
  op      \* the operation carried out last: no operation may go unanswered

vars == <<seq, dict, op>>

Init == seq = <<>> /\ dict = [k \in {} |-> k] /\ op = <<>>

Push(v) ==
  /\ op' = <<"Push", v>>
  /\ seq' = Append(seq, v)
  /\ UNCHANGED dict

Put(i, v) ==
  /\ op' = <<"Put", i, v>>
  /\ seq' = [seq EXCEPT ![i] = v]
  /\ UNCHANGED dict

Set(k, v) ==
  /\ op' = <<"Set", k, v>>
  /\ dict' = IF k \notin Acceptable THEN dict
             ELSE [c \in DOMAIN dict \cup {Canonical(k)} |->
                     IF c = Canonical(k) THEN v ELSE dict[c]]
  /\ UNCHANGED seq

Next ==
  \/ \E v \in Val : Push(v)
  \/ \E v \in Val, i \in DOMAIN seq : Put(i, v)
  \/ \E v \in Val, k \in Key : Set(k, v)

Spec == Init /\ [][Next]_vars
=============================================================================
