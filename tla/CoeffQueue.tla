------------------------------ MODULE CoeffQueue ------------------------------
(***************************************************************************)
(* What the docstrings of polyserver/db.py promise about the coefficients  *)
(* as numbers: a number is listed once, however often it is inserted, and  *)
(* a lease gives out the lowest that waits.                                *)
(***************************************************************************)
EXTENDS Integers

VARIABLES
    listed,    \* the numbers that were listed
    waiting    \* those that can be leased

vars == <<listed, waiting>>

Init == listed = {} /\ waiting = {}

List ==
    /\ listed' \in SUBSET (Nat \ {0}) /\ listed \subseteq listed'
    /\ waiting' = waiting \cup (listed' \ listed)

TakeLowest ==
    /\ \E n \in waiting : /\ \A m \in waiting : n <= m
                          /\ waiting' = waiting \ {n}
    /\ UNCHANGED listed

Return(n) ==
    /\ n \in listed
    /\ waiting' = waiting \cup {n}
    /\ UNCHANGED listed

Next ==
    \/ List
    \/ TakeLowest
    \/ \E n \in listed : Return(n)

Spec == Init /\ [][Next]_vars
=============================================================================
