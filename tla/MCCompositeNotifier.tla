------------------------ MODULE MCCompositeNotifier ------------------------
(* Instances of CompositeNotifier for TLC. *)
EXTENDS CompositeNotifier

CONSTANTS a, b

(* Enough to find the channel full behind a hanging dispatch. *)
FourAndOne == [c \in Callers |-> IF c = a THEN 4 ELSE 1]
=============================================================================
