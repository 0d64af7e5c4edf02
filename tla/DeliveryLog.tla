---------------------------- MODULE DeliveryLog ----------------------------
(***************************************************************************)
(* What the Fold store promises the readers of one workspace's delivery    *)
(* order: the sequences a reader can see only ever grow at the end.  A     *)
(* reader that has scanned through sequence n can resume after n and miss  *)
(* nothing, because no row becomes visible below a row already visible.    *)
(*                                                                         *)
(* FoldStore implements this specification; EventConsumer is built on it.  *)
(***************************************************************************)
EXTENDS Naturals

VARIABLE log      \* the set of sequences that a reader can see

Init == log = {}

(***************************************************************************)
(* One transaction becomes visible: all of its rows at once, every one of  *)
(* them above everything visible before.                                   *)
(***************************************************************************)
Append ==
  /\ log' \subseteq Nat
  /\ log \subseteq log'
  /\ \A old \in log, new \in log' \ log : old < new

Spec == Init /\ [][Append]_log
============================================================================
