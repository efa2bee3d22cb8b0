---------------------------- MODULE MCReconciler ----------------------------
(* Instances of Reconciler for TLC. *)
EXTENDS Reconciler

CONSTANTS t1, t2, c1, c2, c3, c4

(* Every container has the same tag. *)
OneTag == [c \in Containers |-> t1]

=============================================================================
