---------------------------- MODULE MCPolyServer ----------------------------
(***************************************************************************)
(* PolyServer with one workunit, two uploads at a time, two clients and    *)
(* three contents, one of which fails the sample check.                    *)
(***************************************************************************)
EXTENDS PolyServer, TLC

CONSTANTS d1, d2, alice, bob, u1, u2

Symmetry == Permutations({d1, d2}) \cup Permutations({alice, bob}) \cup Permutations({u1, u2})
=============================================================================
