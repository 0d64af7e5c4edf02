------------------------------ MODULE JobTable ------------------------------
(***************************************************************************)
(* What the memory worker's job ledger promises: a job is unknown, active, *)
(* or has one terminal outcome. A known job stays known and an outcome is  *)
(* final. Several jobs may move at once: after a restart of the host, what *)
(* survived of their files is seen together.                               *)
(***************************************************************************)

CONSTANTS Jobs, Terminal

VARIABLE status

Init == status = [j \in Jobs |-> "none"]

(* What may become of one job in a step. *)
Moves(old, new) ==
  \/ new = old
  \/ old \notin Terminal /\ new \in Terminal
  \/ old = "none" /\ new = "active"

Next ==
  /\ status' \in [Jobs -> {"none", "active"} \cup Terminal]
  /\ \A j \in Jobs : Moves(status[j], status'[j])

Spec == Init /\ [][Next]_status
=============================================================================
