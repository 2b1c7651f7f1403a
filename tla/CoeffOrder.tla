------------------------------ MODULE CoeffOrder ------------------------------
(***************************************************************************)
(* The coefficients as polyserver has them: texts of decimal digits, in a  *)
(* column of type TEXT, inserted when no equal text is there and leased in *)
(* the order of their lengths and, at one length, of their characters.     *)
(* WorkUnits names a workunit by its number; here is what that rests on.   *)
(*                                                                         *)
(* A text is the sequence of its digits.  Only the digits 0 to 9 are       *)
(* modelled, of those that isdigit() accepts.                              *)
(***************************************************************************)
EXTENDS Integers, Sequences

CONSTANTS
    Base,      \* ten in the code
    Written    \* the texts that the operator's lists may hold

Digits == 0 .. Base - 1

ASSUME OrderAssumption ==
    /\ Base \in Nat /\ Base >= 2
    /\ Written \subseteq Seq(Digits)

VARIABLES
    rows,       \* the texts in the table
    available,  \* those with state 'available'
    leased      \* those with state 'leased'; the others are submitted or poisoned

orderVars == <<rows, available, leased>>

OrderInit == rows = {} /\ available = {} /\ leased = {}

\* _validate_coeffs: isdigit() of each line that is not empty.
Decimal(c) == c # <<>> /\ \A i \in DOMAIN c : c[i] \in Digits

\* init_job and extend_job: texts that are there already are skipped.
Insert(list) ==
    /\ list # {} /\ \A c \in list : Decimal(c)
    /\ rows' = rows \cup list
    /\ available' = available \cup (list \ rows)
    /\ UNCHANGED leased

\* Whether text c comes before text d.
TextBefore(c, d) ==
    \E k \in 1 .. Len(d) :
        /\ \A j \in 1 .. k - 1 : j \in DOMAIN c /\ c[j] = d[j]
        /\ k = Len(c) + 1 \/ (k \in DOMAIN c /\ c[k] < d[k])

\* Faulty ComesFirst: ORDER BY coeff.
ComesFirstAsText(c, d) == TextBefore(c, d)

\* ORDER BY length(coeff), coeff
ComesFirst(c, d) ==
    \/ Len(c) < Len(d)
    \/ Len(c) = Len(d) /\ TextBefore(c, d)

\* db.lease
LeaseFirst ==
    \E c \in available :
        /\ \A d \in available \ {c} : ComesFirst(c, d)
        /\ available' = available \ {c}
        /\ leased' = leased \cup {c}
        /\ UNCHANGED rows

\* A release, or a failed upload or lost lease before the last attempt.
Requeue(c) ==
    /\ c \in leased
    /\ available' = available \cup {c}
    /\ leased' = leased \ {c}
    /\ UNCHANGED rows

\* A result, or the last attempt.
Settle(c) ==
    /\ c \in leased
    /\ leased' = leased \ {c}
    /\ UNCHANGED <<rows, available>>

OrderNext ==
    \/ \E list \in SUBSET Written : Insert(list)
    \/ LeaseFirst
    \/ \E c \in leased : Requeue(c) \/ Settle(c)

OrderSpec == OrderInit /\ [][OrderNext]_orderVars

-----------------------------------------------------------------------------
\* The number that a text names, digit by digit.
Value(c) ==
    LET upTo[i \in 0 .. Len(c)] == IF i = 0 THEN 0 ELSE upTo[i - 1] * Base + c[i]
    IN  upTo[Len(c)]

Values(S) == {Value(c) : c \in S}

\* Texts without leading zeros, so without 0.
Canonical(c) == c # <<>> /\ c[1] # 0

Queue == INSTANCE CoeffQueue WITH listed <- Values(rows), waiting <- Values(available)

\* As long as lists are written without leading zeros, the table of texts is the queue
\* of numbers that db.lease and init_job speak of (db.py:45-46, 109-113).
QueueSpec == Queue!Spec

LowestStep == \A c \in available \ available', d \in available : Value(c) <= Value(d)

\* A lease takes the lowest coefficient that is available (db.py:109).
LowestLeased == [][LowestStep]_orderVars

\* A coefficient is listed once, duplicates are skipped (db.py:45-46).
OneRowPerNumber == \A c, d \in rows : Value(c) = Value(d) => c = d
=============================================================================
