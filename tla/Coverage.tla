------------------------------ MODULE Coverage ------------------------------
(***************************************************************************)
(* What the poly-server promises about a job, with no word of leases,      *)
(* clients or time (DESIGN.md sections 1 and 5): every listed coefficient  *)
(* stays open until it is covered by exactly one result or is given up     *)
(* after a fixed budget of failed tries, and then stays that way.          *)
(***************************************************************************)
EXTENDS Naturals

CONSTANTS
    Coeffs,   \* the coefficients that may be listed
    Results,  \* the results a search may deliver
    Budget,   \* the failed tries after which a coefficient is given up
    None      \* no result

VARIABLES
    fate,     \* of each coefficient
    tries,    \* the failed tries of each coefficient
    result    \* the result that covers it, or None

vars == <<fate, tries, result>>

Init ==
    /\ fate \in [Coeffs -> {"unlisted", "open"}]
    /\ tries = [w \in Coeffs |-> 0]
    /\ result = [w \in Coeffs |-> None]

\* The operator lists more coefficients.
List(W) ==
    /\ \A w \in W : fate[w] = "unlisted"
    /\ fate' = [w \in Coeffs |-> IF w \in W THEN "open" ELSE fate[w]]
    /\ UNCHANGED <<tries, result>>

\* A result covers w.
Cover(w, r) ==
    /\ fate[w] = "open"
    /\ fate' = [fate EXCEPT ![w] = "covered"]
    /\ result' = [result EXCEPT ![w] = r]
    /\ UNCHANGED tries

\* A try fails on each coefficient of W; the last one of the budget gives up.
Fail(W) ==
    /\ \A w \in W : fate[w] = "open"
    /\ tries' = [w \in Coeffs |-> IF w \in W THEN tries[w] + 1 ELSE tries[w]]
    /\ fate' = [w \in Coeffs |-> IF w \in W /\ tries[w] + 1 = Budget
                                 THEN "given_up" ELSE fate[w]]
    /\ UNCHANGED result

Next ==
    \/ \E W \in SUBSET Coeffs : List(W) \/ Fail(W)
    \/ \E w \in Coeffs, r \in Results : Cover(w, r)

Spec == Init /\ [][Next]_vars
=============================================================================
