-------------------------- MODULE MCServiceUpdate --------------------------
(* Instances of ServiceUpdate for TLC. *)
EXTENDS ServiceUpdate, TLC

Symmetric == Permutations(Instances)

=============================================================================
