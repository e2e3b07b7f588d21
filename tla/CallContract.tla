----------------------------- MODULE CallContract ------------------------------
(***************************************************************************)
(* What the calling convention promises to compiled code: activations that *)
(* have registers of their own.  A caller hands over the registers from    *)
(* its first argument up and keeps the ones below; the callee finds the    *)
(* arguments in its first registers; when it returns, the caller finds     *)
(* what it kept, and the callee's register 0 in the receiver it chose.     *)
(* What an activation computes, whom it calls and how often is open.       *)
(***************************************************************************)
EXTENDS Naturals, Sequences

CONSTANTS Func, Value

VARIABLES
  acts,     \* the activations, the running one last, <<>> between executions:
            \* the function and its arity, the registers it can rely on, and
            \* the receiver of the call it waits for
  status,
  result

vars == <<acts, status, result>>

Top == acts[Len(acts)]

Init == acts = <<>> /\ status = "idle" /\ result \in Value

Start ==
  /\ status \in {"idle", "ok", "error"}
  /\ status' = "running"
  /\ Len(acts') = 1
  /\ acts'[1].fn \in Func

\* The activations below the n-th stay as they are.
Below(n) == \A i \in 1..(n - 1) : acts'[i] = acts[i]

Compute ==
  /\ status = "running" /\ status' = status
  /\ Len(acts') = Len(acts)
  /\ Below(Len(acts))
  /\ acts'[Len(acts)].fn = Top.fn
  /\ DOMAIN acts'[Len(acts)].regs = DOMAIN Top.regs

Enter ==
  LET n == Len(acts) IN
  /\ status = "running" /\ status' = status
  /\ Len(acts') = n + 1
  /\ Below(n)
  /\ \E kept \in DOMAIN Top.regs :
       /\ acts'[n].fn = Top.fn
       /\ acts'[n].regs = [r \in 0..(kept - 1) |-> Top.regs[r]]
       /\ \A r \in 0..(acts'[n + 1].arity - 1) :
            acts'[n + 1].regs[r] = Top.regs[kept + r]

Leave ==
  LET n == Len(acts)
      caller == acts[n - 1]
  IN
  /\ status = "running" /\ status' = status
  /\ n > 1
  /\ Len(acts') = n - 1
  /\ Below(n - 1)
  /\ acts'[n - 1].fn = caller.fn
  /\ acts'[n - 1].regs[caller.receiver] = Top.regs[0]
  /\ \A r \in DOMAIN caller.regs \ {caller.receiver} :
       acts'[n - 1].regs[r] = caller.regs[r]

Answer ==
  /\ status = "running" /\ status' = "ok"
  /\ Len(acts) = 1
  /\ acts' = <<>>
  /\ result' = Top.regs[0]

\* A failed run gives its caller nothing; an empty program answers at once.
Abandon == status' \in {"error", "trapped"} /\ acts' = <<>>
Nothing == status # "running" /\ status' = "ok" /\ acts' = <<>>

Next == Start \/ Compute \/ Enter \/ Leave \/ Answer \/ Abandon \/ Nothing

Spec == Init /\ [][Next]_vars
=============================================================================
