----------------------------- MODULE CoeffRanges -----------------------------
(***************************************************************************)
(* How polylocal splits a resumed search around the leading coefficients   *)
(* its corpus has already (polylocal/__main__.py, _coeff_ranges).  msieve  *)
(* enumerates the multiples of high_coeff_mult in a range and can not be   *)
(* told to pass over one, so it is run once on each gap between them.      *)
(*                                                                         *)
(* The code goes through the sorted coefficients with `lo`, which after    *)
(* each of them is the coefficient plus one: LowEnd.  Its list ascends;    *)
(* the set here is used from its lowest range up.                          *)
(***************************************************************************)
EXTENDS Integers, FiniteSetsExt

CONSTANT NULL    \* None: the last range has no upper end

ASSUME OpenAssumption == NULL \notin Int

\* high_coeff_mult = 0 leaves the multiplier to msieve: every gap gets a run.
Multiplier(high_coeff_mult) == IF high_coeff_mult = 0 THEN 1 ELSE high_coeff_mult

\* The coefficients that split the search.
Splits(start, high_coeff_mult, skip) ==
    {c \in skip : c >= start /\ c % Multiplier(high_coeff_mult) = 0}

\* The first coefficient after those of S below c; the faulty form goes back to
\* the last one of them.
LowEndAtSplit(start, S, c) == Max({start} \cup {d \in S : d < c})
LowEnd(start, S, c) == Max({start} \cup {d + 1 : d \in {e \in S : e < c}})

\* Whether there is a multiple from lo up to c - 1; the faulty form misses one
\* that is lo itself.
HoldsMultipleAbove(lo, c, high_coeff_mult) ==
    LET mult == Multiplier(high_coeff_mult)
    IN  ((c - 1) \div mult) * mult > lo
HoldsMultiple(lo, c, high_coeff_mult) ==
    LET mult == Multiplier(high_coeff_mult)
    IN  ((c - 1) \div mult) * mult >= lo

CoeffRanges(start, high_coeff_mult, skip) ==
    LET S == Splits(start, high_coeff_mult, skip)
    IN  {[lo |-> LowEnd(start, S, c), hi |-> c - 1] :
            c \in {e \in S : HoldsMultiple(LowEnd(start, S, e), e, high_coeff_mult)}}
        \cup {[lo |-> Max({start} \cup {d + 1 : d \in S}), hi |-> NULL]}

InRange(c, r) == r.lo <= c /\ (r.hi # NULL => c <= r.hi)

\* What the ranges are for: of the multiples from `start` up, those of `skip` are
\* in none and each other one is in exactly one.
RangesAreExact(ranges, start, high_coeff_mult, skip, coeffs) ==
    \A c \in coeffs :
        c >= start /\ c % Multiplier(high_coeff_mult) = 0 =>
            /\ c \in skip => \A r \in ranges : ~InRange(c, r)
            /\ c \notin skip => \E r \in ranges :
                                   /\ InRange(c, r)
                                   /\ \A other \in ranges : InRange(c, other) => other = r
=============================================================================
