-------------------------- MODULE DispatchContract --------------------------
(***************************************************************************)
(* What the dispatching of entries to workers promises, whatever locks it  *)
(* takes: every goroutine that is asked to serve a target (an entry type   *)
(* of a NineCluster) starts its worker, unless another goroutine has       *)
(* started one for the same target.  NineInfra builds on this contract,    *)
(* Dispatch implements it.                                                 *)
(***************************************************************************)
CONSTANTS
  Workers,   \* goroutines
  Targets,   \* what they may be asked to serve
  None       \* nothing

VARIABLES
  phase,     \* phase[w]: "idle", "pending", "started" or "skipped"
  target     \* target[w]: what w was asked to serve, or None

vars == <<phase, target>>

Init ==
  /\ phase = [w \in Workers |-> "idle"]
  /\ target = [w \in Workers |-> None]

Ask(w, t) ==
  /\ phase[w] = "idle"
  /\ phase' = [phase EXCEPT ![w] = "pending"]
  /\ target' = [target EXCEPT ![w] = t]

Start(w) ==
  /\ phase[w] = "pending"
  /\ phase' = [phase EXCEPT ![w] = "started"]
  /\ UNCHANGED target

Skip(w) ==
  /\ phase[w] = "pending"
  /\ \E v \in Workers \ {w} : phase[v] = "started" /\ target[v] = target[w]
  /\ phase' = [phase EXCEPT ![w] = "skipped"]
  /\ UNCHANGED target

Next ==
  \E w \in Workers :
    \/ \E t \in Targets : Ask(w, t)
    \/ Start(w)
    \/ Skip(w)

Safety == Init /\ [][Next]_vars

(* A goroutine that was asked decides. *)
Spec == Safety /\ \A w \in Workers : WF_vars(Start(w) \/ Skip(w))
=============================================================================
