---------------------------- MODULE MCTokenCache ----------------------------
(* Instances of TokenCache for TLC. *)
EXTENDS TokenCache

CONSTANTS p1, p2, r1, r2

=============================================================================
