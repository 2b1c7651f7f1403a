------------------------------ MODULE MCJobAdmin ------------------------------
(***************************************************************************)
(* JobAdmin with two uploads at a time, one client and two contents that   *)
(* can be told apart only by their digest.                                 *)
(***************************************************************************)
EXTENDS JobAdmin, TLC

CONSTANTS d1, d2, alice, u1, u2

Symmetry == Permutations({d1, d2}) \cup Permutations({u1, u2})
=============================================================================
