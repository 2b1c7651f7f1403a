--------------------------- MODULE LocalRunProofs ---------------------------
(***************************************************************************)
(* What LocalRun guarantees for every range of coefficients, multiplier,   *)
(* target and start, any number of hits and composites and any chain of    *)
(* runs.                                                                   *)
(***************************************************************************)
EXTENDS LocalRun, WellFoundedInduction, TLAPS

USE OpenAssumption

-----------------------------------------------------------------------------
(***************************************************************************)
(* The ranges of _coeff_ranges are exact for every start, every multiplier *)
(* and every finite set of coefficients to skip, given by a bound N of it. *)
(***************************************************************************)

\* Each set of naturals that is not empty has a least element.
LEMMA LeastExists ==
    ASSUME NEW S \in SUBSET Nat, S # {}
    PROVE  \E x \in S : \A y \in S : x <= y
<1> DEFINE R == OpToRel(<, Nat)
<1>1. IsWellFoundedOn(R, Nat)
  BY NatLessThanWellFounded
<1>2. \A x, y \in Nat : <<x, y>> \in R <=> x < y
  BY DEF OpToRel
<1> HIDE DEF R
<1>3. PICK x \in S : \A y \in S : <<y, x>> \notin R
  BY <1>1, WFMin
<1>4. \A y \in S : ~(y < x)
  BY <1>2, <1>3, Zenon
<1> QED
  BY <1>4

\* Max of a bounded set that is not empty is its greatest element.
LEMMA MaxOfBounded ==
    ASSUME NEW N \in Nat, NEW S \in SUBSET (0 .. N), S # {}
    PROVE  Max(S) \in S /\ \A y \in S : Max(S) >= y
<1> DEFINE U == {v \in Nat : \A y \in S : y <= v}
<1>1. N \in U
  OBVIOUS
<1>2. PICK u \in U : \A v \in U : u <= v
  <2>1. U \in SUBSET Nat
    OBVIOUS
  <2> HIDE DEF U
  <2> QED BY <1>1, <2>1, LeastExists
<1>3. u \in S
  <2> SUFFICES ASSUME u \notin S PROVE FALSE
    OBVIOUS
  <2>1. PICK y \in S : TRUE
    OBVIOUS
  <2>2. u > 0 /\ u - 1 \in Nat
    BY <2>1
  <2>3. u - 1 \in U
    BY <2>2
  <2> QED BY <1>2, <2>3
<1> QED
  BY <1>3 DEF Max

\* LowEnd is the start or follows a split, and is behind every split below c.
LEMMA LowEndBounds ==
    ASSUME NEW N \in Nat, NEW start \in Nat, NEW S \in SUBSET (0 .. N), NEW c \in Int
    PROVE  /\ LowEnd(start, S, c) \in Nat
           /\ LowEnd(start, S, c) >= start
           /\ \A d \in S : d < c => d < LowEnd(start, S, c)
           /\ \/ LowEnd(start, S, c) = start
              \/ \E d \in S : d < c /\ LowEnd(start, S, c) = d + 1
<1> DEFINE T == {start} \cup {d + 1 : d \in {e \in S : e < c}}
<1>1. T \in SUBSET (0 .. start + N + 1) /\ T # {} /\ start + N + 1 \in Nat
  OBVIOUS
<1>2. Max(T) \in T /\ \A y \in T : Max(T) >= y
  <2> HIDE DEF T
  <2> QED BY <1>1, MaxOfBounded
<1>3. LowEnd(start, S, c) = Max(T)
  BY DEF LowEnd
<1> DEFINE low == Max(T)
<1>4. low \in T /\ \A y \in T : low >= y
  BY <1>2
<1> HIDE DEF low
<1>5. low \in Nat
  BY <1>4
<1>6. low >= start
  BY <1>4
<1>7. \A d \in S : d < c => d < low
  <2> SUFFICES ASSUME NEW d \in S, d < c PROVE d < low
    OBVIOUS
  <2>1. d + 1 \in T
    OBVIOUS
  <2> QED BY <1>4, <1>5, <2>1
<1>8. low = start \/ \E d \in S : d < c /\ low = d + 1
  BY <1>4
<1> QED
  BY <1>3, <1>5, <1>6, <1>7, <1>8 DEF low

\* The low end of the last, open range is that below any number past the splits.
LEMMA OpenLowEnd ==
    ASSUME NEW N \in Nat, NEW start \in Nat, NEW S \in SUBSET (0 .. N)
    PROVE  Max({start} \cup {d + 1 : d \in S}) = LowEnd(start, S, N + 1)
<1>1. S = {e \in S : e < N + 1}
  <2>1. \A e \in S : e < N + 1
    OBVIOUS
  <2> QED BY <2>1
<1> QED
  BY <1>1, Zenon DEF LowEnd

\* The ranges are those of a search from the start up.
LEMMA RangesTyped ==
    ASSUME NEW N \in Nat, NEW start \in Nat, NEW m \in Nat, NEW skip \in SUBSET (1 .. N)
    PROVE  /\ CoeffRanges(start, m, skip) \in SUBSET [lo : Nat, hi : Nat \cup {NULL}]
           /\ \A r \in CoeffRanges(start, m, skip) : r.lo >= start
<1> DEFINE S == Splits(start, m, skip)
           Low(c) == LowEnd(start, S, c)
<1>1. S \in SUBSET (0 .. N) /\ \A c \in S : c - 1 \in Nat /\ c \in Int
  <2>1. S \subseteq 1 .. N
    BY DEF Splits
  <2> HIDE DEF S
  <2> QED BY <2>1
<1>2. \A c \in Int : Low(c) \in Nat /\ Low(c) >= start
  BY <1>1, LowEndBounds
<1>3. Max({start} \cup {d + 1 : d \in S}) = Low(N + 1)
  BY <1>1, OpenLowEnd
<1>4. \A r \in CoeffRanges(start, m, skip) :
         \/ \E c \in S : r = [lo |-> Low(c), hi |-> c - 1]
         \/ r = [lo |-> Low(N + 1), hi |-> NULL]
  BY <1>3 DEF CoeffRanges
<1> HIDE DEF S, Low
<1>5. SUFFICES ASSUME NEW r \in CoeffRanges(start, m, skip)
               PROVE  r \in [lo : Nat, hi : Nat \cup {NULL}] /\ r.lo >= start
  OBVIOUS
<1>6. CASE \E c \in S : r = [lo |-> Low(c), hi |-> c - 1]
  BY <1>1, <1>2, <1>6
<1>7. CASE r = [lo |-> Low(N + 1), hi |-> NULL]
  BY <1>2, <1>7
<1> QED
  BY <1>4, <1>6, <1>7

\* A multiple between lo and e - 1 makes the gap worth a run.
LEMMA GapWithMultiple ==
    ASSUME NEW m \in Nat, NEW lo \in Nat, NEW c \in Nat, NEW e \in Nat,
           c % Multiplier(m) = 0, lo <= c, c < e
    PROVE  HoldsMultiple(lo, e, m)
<1> DEFINE k == Multiplier(m)
<1>1. k \in Nat \ {0}
  BY DEF Multiplier
<1>2. c % k = 0
  OBVIOUS
<1> HIDE DEF k
<1>3. c = k * (c \div k)
  BY <1>1, <1>2
<1>4. c \div k <= (e - 1) \div k
  BY <1>1
<1>5. ((e - 1) \div k) * k >= lo
  BY <1>1, <1>3, <1>4
<1> QED
  BY <1>5 DEF HoldsMultiple, k

-----------------------------------------------------------------------------
(***************************************************************************)
(* Of the multiples from the start up, those of skip are in no range and   *)
(* each other one is in exactly one.                                       *)
(***************************************************************************)
THEOREM CoeffRangesExact ==
    ASSUME NEW N \in Nat, NEW start \in Nat, NEW m \in Nat,
           NEW skip \in SUBSET (0 .. N), NEW coeffs \in SUBSET Nat
    PROVE  RangesAreExact(CoeffRanges(start, m, skip), start, m, skip, coeffs)
<1> DEFINE S == Splits(start, m, skip)
           Low(c) == LowEnd(start, S, c)
           Closed == {[lo |-> Low(c), hi |-> c - 1] : c \in {e \in S : HoldsMultiple(Low(e), e, m)}}
           open == [lo |-> Low(N + 1), hi |-> NULL]
<1>1. S \in SUBSET (0 .. N)
  BY DEF Splits
<1>2. CoeffRanges(start, m, skip) = Closed \cup {open}
  <2>1. Max({start} \cup {d + 1 : d \in S}) = Low(N + 1)
    BY <1>1, OpenLowEnd
  <2> QED BY <2>1 DEF CoeffRanges
<1>3. \A c \in Int :
         /\ Low(c) \in Nat /\ Low(c) >= start
         /\ \A d \in S : d < c => d < Low(c)
         /\ Low(c) = start \/ \E d \in S : d < c /\ Low(c) = d + 1
  BY <1>1, LowEndBounds
<1>4. \A e \in S : e \in Nat /\ e <= N /\ e - 1 # NULL
  BY <1>1
<1> SUFFICES ASSUME NEW c \in coeffs, c >= start, c % Multiplier(m) = 0
             PROVE  /\ c \in skip => \A r \in Closed \cup {open} : ~InRange(c, r)
                    /\ c \notin skip => \E r \in Closed \cup {open} :
                          /\ InRange(c, r)
                          /\ \A other \in Closed \cup {open} : InRange(c, other) => other = r
  BY <1>2 DEF RangesAreExact
<1>5. c \in skip <=> c \in S
  BY DEF Splits
<1>6. ASSUME NEW e \in S
      PROVE  InRange(c, [lo |-> Low(e), hi |-> e - 1]) <=> Low(e) <= c /\ c <= e - 1
  BY <1>4 DEF InRange
<1>7. InRange(c, open) <=> Low(N + 1) <= c
  BY DEF InRange
<1>8. \A e \in S : e \in Nat /\ Low(e) \in Nat
  BY <1>3, <1>4
<1> HIDE DEF S, Low
<1>9. CASE c \in skip
  <2>1. c \in S
    BY <1>5, <1>9
  <2>2. ASSUME NEW e \in S
        PROVE  ~InRange(c, [lo |-> Low(e), hi |-> e - 1])
    BY <1>3, <1>4, <1>6, <2>1
  <2>3. ~InRange(c, open)
    BY <1>3, <1>4, <1>7, <2>1
  <2> QED BY <1>9, <2>2, <2>3
<1>10. CASE c \notin skip /\ \E e \in S : e > c
  <2> DEFINE Above == {e \in S : e > c}
  <2>1. PICK e \in Above : \A f \in Above : e <= f
    <3>1. Above \in SUBSET Nat /\ Above # {}
      BY <1>4, <1>10
    <3> HIDE DEF Above
    <3> QED BY <3>1, LeastExists
  <2>2. Low(e) <= c
    <3>1. \A d \in S : d < e => d < c
      BY <1>4, <1>5, <1>10, <2>1
    <3> QED BY <1>3, <1>4, <2>1, <3>1
  <2>3. HoldsMultiple(Low(e), e, m)
    BY <1>8, <2>1, <2>2, GapWithMultiple
  <2> DEFINE r == [lo |-> Low(e), hi |-> e - 1]
  <2>4. r \in Closed /\ InRange(c, r)
    BY <1>4, <1>6, <2>1, <2>2, <2>3
  <2>5. ASSUME NEW f \in S, InRange(c, [lo |-> Low(f), hi |-> f - 1])
        PROVE  f = e
    <3>1. Low(f) <= c /\ c < f
      BY <1>4, <1>6, <2>5
    <3>2. e <= f
      BY <2>1, <3>1
    <3>3. ~(e < f)
      BY <1>3, <1>4, <2>1, <3>1
    <3> QED BY <1>4, <2>1, <3>2, <3>3
  <2>6. ~InRange(c, open)
    BY <1>3, <1>4, <1>7, <2>1
  <2>7. ASSUME NEW other \in Closed, InRange(c, other)
        PROVE  other = r
    BY <2>5, <2>7
  <2> HIDE DEF Closed, open, r
  <2> QED BY <1>10, <2>4, <2>6, <2>7
<1>11. CASE c \notin skip /\ ~\E e \in S : e > c
  <2>1. Low(N + 1) <= c
    <3>1. \A d \in S : d < c
      BY <1>4, <1>5, <1>11
    <3> QED BY <1>3, <1>4, <3>1
  <2>2. ASSUME NEW e \in S
        PROVE  ~InRange(c, [lo |-> Low(e), hi |-> e - 1])
    BY <1>3, <1>4, <1>6, <1>11
  <2>3. InRange(c, open)
    BY <1>7, <2>1
  <2>4. ASSUME NEW r \in Closed
        PROVE  ~InRange(c, r)
    BY <2>2
  <2> HIDE DEF Closed, open
  <2> QED BY <1>11, <2>3, <2>4
<1> QED
  BY <1>9, <1>10, <1>11

-----------------------------------------------------------------------------
(***************************************************************************)
(* The parts of the inductive invariant.                                   *)
(***************************************************************************)
HIDE OpenAssumption
USE BoundsAssumption, SmoothAssumption, ParamsAssumption

\* Only a run that launched msieve has one, and worktodo.ini names its composite.
ChildOfRun == msieve["child"].pc # "none" => run.pc \in {"launched", "waiting"}
TodoWritten == run.pc \in {"launch", "launched", "waiting", "returned"} => todo = run.n

\* A msieve in the middle of a coefficient is on one that has an index.
BusyOnCoeff == \A s \in Slots : msieve[s].busy => msieve[s].at \in Coeffs

LInv == LocalTypeOK /\ ChildOfRun /\ TodoWritten /\ BusyOnCoeff

-----------------------------------------------------------------------------
(***************************************************************************)
(* Facts about the operators.                                              *)
(***************************************************************************)

\* Min of a set of naturals that is not empty is its least element.
LEMMA MinOfNaturals ==
    ASSUME NEW S \in SUBSET Nat, S # {}
    PROVE  Min(S) \in S /\ \A y \in S : Min(S) <= y
BY LeastExists DEF Min

\* The larger of a number and zero.
LEMMA FloorZero ==
    ASSUME NEW a \in Int
    PROVE  Max({a, 0}) = IF a >= 0 THEN a ELSE 0
<1>1. \E x \in {a, 0} : \A y \in {a, 0} : x >= y
  OBVIOUS
<1>2. Max({a, 0}) \in {a, 0} /\ \A y \in {a, 0} : Max({a, 0}) >= y
  BY <1>1 DEF Max
<1> QED
  BY <1>2

\* What a scan of the corpus gives is a number and a set of coefficients.
LEMMA ScanTyped ==
    ASSUME LocalTypeOK
    PROVE  Found \in Nat /\ Held \in SUBSET Coeffs
BY DEF LocalTypeOK, Found, Held, Readable, Coeffs

\* The parts of a state where no polylocal runs are of their types.
LEMMA OverTyped ==
    ASSUME NEW mult \in Mults, NEW plain \in BOOLEAN, NEW base \in Nat
    PROVE  Over(mult, plain, base) \in Runs
<1>1. Min(Targets) \in Targets
  BY MinOfNaturals
<1> QED
  BY <1>1 DEF Over, Runs

LEMMA EndTyped ==
    ASSUME run \in Runs
    PROVE  End(run) \in Runs
<1>1. run.mult \in Mults /\ run.plain \in BOOLEAN /\ run.base \in Nat
  BY DEF Runs
<1> QED
  BY <1>1, OverTyped DEF End

LEMMA NoProcessTyped == NoProcess \in Processes
<1>1. Min(Mults) \in Mults
  BY MinOfNaturals
<1> QED
  BY <1>1 DEF NoProcess, Processes

\* The coefficients that a search has ahead are smooth ones behind its last one.
LEMMA AheadTyped ==
    ASSUME NEW p \in Processes
    PROVE  /\ Ahead(p) \in SUBSET Coeffs
           /\ Ahead(p) # {} => /\ Min(Ahead(p)) \in Ahead(p)
                               /\ \A c \in Ahead(p) : Min(Ahead(p)) <= c
<1>1. Ahead(p) \in SUBSET Coeffs
  BY DEF Ahead, Candidates
<1>2. Ahead(p) \in SUBSET Nat
  BY <1>1 DEF Coeffs
<1> QED
  BY <1>1, <1>2, MinOfNaturals

\* A planned run is well formed.
LEMMA PlanTyped ==
    ASSUME LocalTypeOK, NEW min \in MinCoeffs \cup {NULL}, NEW mult \in Mults,
           NEW target \in Targets, NEW resume \in BOOLEAN, Plan(min, mult, target, resume)
    PROVE  /\ run' \in Runs /\ run'.pc = "planned" /\ run'.n = composite
           /\ run'.ranges = CoeffRanges(run'.start, run'.mult, run'.skip)
           /\ run'.target = target /\ run'.remaining = run'.polys
           /\ ~run'.interrupted
           /\ run'.skip = IF Prior THEN Held ELSE {}
           /\ run'.polys = IF Prior /\ target > 0 THEN ShortOf(target) ELSE target
           /\ Prior => todo = composite
           /\ Prior /\ target > 0 => run'.polys # 0
<1> DEFINE start == IF min # NULL THEN min
                    ELSE IF Prior THEN ResumeStart(mult) ELSE TableCoeff
           polys == IF Prior /\ target > 0 THEN ShortOf(target) ELSE target
           skip == IF Prior THEN Held ELSE {}
           chained == Prior /\ min = NULL /\ mult = run.mult /\ run.plain
           planned == [pc |-> "planned", n |-> composite, start |-> start, mult |-> mult,
                   target |-> target, polys |-> polys, remaining |-> polys, before |-> 0,
                   skip |-> skip, ranges |-> CoeffRanges(start, mult, skip),
                   interrupted |-> FALSE, plain |-> ~Prior \/ chained,
                   base |-> IF chained THEN run.base ELSE start]
<1>1. run' = planned
  BY DEF Plan
<1>2. Found \in Nat /\ Held \in SUBSET Coeffs
  BY ScanTyped
<1>3. start \in Nat \ {0}
  <2>1. CASE min # NULL
    BY <2>1 DEF Coeffs
  <2>2. CASE min = NULL /\ Prior
    <3>1. Held # {} /\ Held \in SUBSET (0 .. MaxCoeff)
      BY <1>2, <2>2 DEF Plan, Coeffs
    <3>2. Max(Held) \in 0 .. MaxCoeff
      BY <3>1, MaxOfBounded
    <3>3. ResumeStart(mult) \in Nat \ {0}
      BY <3>2 DEF ResumeStart
    <3> QED BY <2>2, <3>3
  <2>3. CASE min = NULL /\ ~Prior
    BY <2>3 DEF Coeffs
  <2> QED BY <2>1, <2>2, <2>3
<1>4. polys \in Nat
  BY <1>2, FloorZero DEF ShortOf
<1>5. skip \in SUBSET Coeffs
  BY <1>2
<1>6. CoeffRanges(start, mult, skip) \in SUBSET [lo : Nat \ {0}, hi : Nat \cup {NULL}]
  <2>1. skip \in SUBSET (1 .. MaxCoeff) /\ mult \in Nat
    BY <1>5 DEF Coeffs
  <2> HIDE DEF start, skip
  <2>2. CoeffRanges(start, mult, skip) \in SUBSET [lo : Nat, hi : Nat \cup {NULL}]
    BY <1>3, <2>1, RangesTyped
  <2>3. \A r \in CoeffRanges(start, mult, skip) : r.lo >= start
    BY <1>3, <2>1, RangesTyped
  <2> QED BY <1>3, <2>2, <2>3
<1>7. composite \in 1 .. Composites /\ run \in Runs
  BY DEF LocalTypeOK
<1>8. chained \in BOOLEAN /\ (IF chained THEN run.base ELSE start) \in Nat
  BY <1>3, <1>7 DEF Runs
<1>9. planned \in Runs
  <2> HIDE DEF start, skip, polys, chained
  <2> QED BY <1>3, <1>4, <1>5, <1>6, <1>7, <1>8 DEF Runs
<1>10. (Prior => todo = composite) /\ (Prior /\ target > 0 => polys # 0)
  BY DEF Plan, CorpusMatches
<1> HIDE DEF start, chained
<1> QED
  BY <1>1, <1>9, <1>10

-----------------------------------------------------------------------------
(***************************************************************************)
(* Types.                                                                  *)
(***************************************************************************)
LEMMA InitTyped == LocalInit => LInv
<1>1. Over(Min(Mults), FALSE, 0) \in Runs
  BY MinOfNaturals, OverTyped
<1>2. NoProcess \in Processes /\ NoProcess.pc = "none" /\ ~NoProcess.busy
  BY NoProcessTyped DEF NoProcess
<1>3. Over(Min(Mults), FALSE, 0).pc = "idle"
  BY DEF Over
<1> SUFFICES ASSUME LocalInit PROVE LInv
  OBVIOUS
<1>4. /\ run \in Runs /\ run.pc = "idle"
      /\ msieve \in [Slots -> Processes]
      /\ \A s \in Slots : msieve[s].pc = "none" /\ ~msieve[s].busy
  BY <1>1, <1>2, <1>3 DEF LocalInit
<1>5. /\ composite \in 1 .. Composites /\ todo = NULL /\ records \in Nat /\ leading = {}
      /\ torn = NULL /\ owners = {} /\ searched = {}
  BY DEF LocalInit
<1>6. LocalTypeOK
  BY <1>4, <1>5 DEF LocalTypeOK
<1> QED
  BY <1>4, <1>6 DEF LInv, ChildOfRun, TodoWritten, BusyOnCoeff, Slots

\* The steps of polylocal keep the types.
LEMMA RunStepTyped ==
    ASSUME LInv, RunStep
    PROVE  LInv'
<1> USE DEF LInv
<1>1. ASSUME NEW min \in MinCoeffs \cup {NULL}, NEW mult \in Mults,
             NEW target \in Targets, NEW resume \in BOOLEAN, Plan(min, mult, target, resume)
      PROVE  LInv'
  <2>1. run' \in Runs /\ run'.pc = "planned"
    BY <1>1, PlanTyped
  <2>2. run.pc = "idle" /\ UNCHANGED <<composite, workdir, msieve>>
    BY <1>1 DEF Plan
  <2> QED BY <2>1, <2>2 DEF LocalTypeOK, ChildOfRun, TodoWritten, BusyOnCoeff, workdir
<1>2. CASE BeginSelection
  <2>1. Found \in Nat
    BY ScanTyped
  <2>2. run' \in Runs /\ run'.pc = "launch" /\ run'.n = run.n
    BY <1>2, <2>1 DEF BeginSelection, LocalTypeOK, Runs
  <2>3. run.n \in 1 .. Composites
    BY DEF LocalTypeOK, Runs
  <2> QED BY <1>2, <2>2, <2>3 DEF BeginSelection, LocalTypeOK, ChildOfRun, TodoWritten, BusyOnCoeff
<1>3. CASE Launch
  <2>1. PICK r \in run.ranges :
           /\ run' = [run EXCEPT !.pc = "launched", !.ranges = @ \ {r}]
           /\ msieve' = [msieve EXCEPT !["child"] =
                [NoProcess EXCEPT
                    !.pc = "running", !.n = todo, !.mult = run.mult,
                    !.at = r.lo - 1, !.hi = r.hi,
                    !.left = IF run.remaining = 0 THEN NULL ELSE run.remaining]]
    BY <1>3 DEF Launch
  <2>2. /\ r.lo \in Nat \ {0} /\ r.hi \in Nat \cup {NULL}
        /\ run.mult \in Mults /\ run.remaining \in Nat
        /\ todo \in 1 .. Composites
    BY <1>3 DEF Launch, LocalTypeOK, Runs, TodoWritten
  <2> DEFINE q == [NoProcess EXCEPT
                      !.pc = "running", !.n = todo, !.mult = run.mult,
                      !.at = r.lo - 1, !.hi = r.hi,
                      !.left = IF run.remaining = 0 THEN NULL ELSE run.remaining]
  <2>3. q \in Processes
    <3>1. r.lo - 1 \in Nat /\ (IF run.remaining = 0 THEN NULL ELSE run.remaining) \in Nat \cup {NULL}
      BY <2>2
    <3> QED BY <2>2, <3>1, NoProcessTyped DEF Processes
  <2>4. ~q.busy
    BY DEF NoProcess
  <2>5. msieve'["child"] = q
    BY <2>1 DEF LocalTypeOK, Slots
  <2>6. msieve'["child"] \in Processes /\ ~msieve'["child"].busy
    BY <2>3, <2>4, <2>5
  <2>7. msieve' \in [Slots -> Processes]
    BY <2>1, <2>6 DEF LocalTypeOK, Slots
  <2>8. run' \in Runs /\ run'.pc = "launched" /\ run'.n = run.n
    BY <2>1 DEF LocalTypeOK, Runs
  <2>9. UNCHANGED <<composite, workdir>> /\ run.pc = "launch"
    BY <1>3 DEF Launch
  <2>10. \A s \in Slots : msieve'[s].busy => msieve'[s] = msieve[s]
    BY <2>1, <2>6 DEF LocalTypeOK, Slots
  <2> QED BY <2>7, <2>8, <2>9, <2>10 DEF LocalTypeOK, ChildOfRun, TodoWritten, BusyOnCoeff, workdir
<1>4. CASE InstallHandler
  <2>1. run' \in Runs /\ run'.pc = "waiting" /\ run'.n = run.n
    BY <1>4 DEF InstallHandler, LocalTypeOK, Runs
  <2> QED BY <1>4, <2>1 DEF InstallHandler, LocalTypeOK, ChildOfRun, TodoWritten, BusyOnCoeff, workdir
<1>5. CASE WaitReturns
  <2>1. run' \in Runs
    BY <1>5, EndTyped DEF WaitReturns, LocalTypeOK, Runs
  <2>2. run'.pc = "idle" \/ (run'.pc = "returned" /\ run'.n = run.n)
    BY <1>5 DEF WaitReturns, LocalTypeOK, Runs, End, Over
  <2>3. msieve' \in [Slots -> Processes] /\ msieve'["child"].pc = "none"
    BY <1>5, NoProcessTyped DEF WaitReturns, LocalTypeOK, Slots, NoProcess
  <2>4. \A s \in Slots : msieve'[s].busy => msieve'[s] = msieve[s]
    BY <1>5 DEF WaitReturns, LocalTypeOK, Slots, NoProcess
  <2> QED BY <1>5, <2>1, <2>2, <2>3, <2>4
          DEF WaitReturns, LocalTypeOK, ChildOfRun, TodoWritten, BusyOnCoeff, workdir
<1>6. CASE NextRange
  <2>1. CASE LastRange(run)
    <3>1. run' \in Runs /\ run'.pc = "idle"
      BY <1>6, <2>1, EndTyped DEF NextRange, LocalTypeOK, End, Over
    <3> QED BY <1>6, <3>1 DEF NextRange, LocalTypeOK, ChildOfRun, TodoWritten, BusyOnCoeff, workdir
  <2>2. CASE ~LastRange(run)
    <3>1. Missing(run) \in Int
      BY ScanTyped DEF Missing, LocalTypeOK, Runs
    <3>2. run.polys > 0 => Missing(run) \in Nat
      BY <2>2, <3>1 DEF LastRange
    <3>3. run' \in Runs /\ run'.pc = "launch" /\ run'.n = run.n
      BY <1>6, <2>2, <3>2 DEF NextRange, LocalTypeOK, Runs
    <3> QED BY <1>6, <3>3 DEF NextRange, LocalTypeOK, ChildOfRun, TodoWritten, BusyOnCoeff, workdir
  <2> QED BY <2>1, <2>2
<1>7. CASE RelaySigint
  <2>1. run' \in Runs /\ run'.pc = "waiting" /\ run'.n = run.n /\ run.pc = "waiting"
    BY <1>7 DEF RelaySigint, LocalTypeOK, Runs
  <2>2. msieve' \in [Slots -> Processes]
    BY <1>7 DEF RelaySigint, LocalTypeOK, Processes, Slots
  <2>3. UNCHANGED <<composite, workdir>>
    BY <1>7 DEF RelaySigint
  <2>4. \A s \in Slots : msieve'[s].busy = msieve[s].busy /\ msieve'[s].at = msieve[s].at
    BY <1>7 DEF RelaySigint, LocalTypeOK, Processes, Slots
  <2> QED BY <2>1, <2>2, <2>3, <2>4 DEF LocalTypeOK, ChildOfRun, TodoWritten, BusyOnCoeff, workdir
<1>8. CASE Die
  <2>1. run' \in Runs /\ run'.pc = "idle"
    BY <1>8, EndTyped DEF Die, LocalTypeOK, End, Over
  <2>2. msieve["child"] \in Processes /\ msieve["orphan"] \in Processes
    BY DEF LocalTypeOK, Slots
  <2>3. msieve' \in [Slots -> Processes] /\ msieve'["child"].pc = "none"
    <3>1. msieve' = [child |-> NoProcess, orphan |-> msieve'["orphan"]]
             /\ msieve'["orphan"] \in Processes
      BY <1>8, <2>2 DEF Die
    <3>2. NoProcess.pc = "none"
      BY DEF NoProcess
    <3> QED BY <3>1, <3>2, NoProcessTyped DEF Slots
  <2>4. \A s \in Slots : msieve'[s].busy => \E old \in Slots : msieve'[s] = msieve[old]
    BY <1>8 DEF Die, LocalTypeOK, Slots, NoProcess
  <2> QED BY <1>8, <2>1, <2>3, <2>4 DEF Die, LocalTypeOK, ChildOfRun, TodoWritten, BusyOnCoeff, workdir
<1> QED
  BY <1>1, <1>2, <1>3, <1>4, <1>5, <1>6, <1>7, <1>8 DEF RunStep

\* So do the steps of a msieve.
LEMMA MsieveStepTyped ==
    ASSUME LInv, NEW s \in Slots, MsieveStep(s)
    PROVE  LInv'
<1> USE DEF LInv
<1> DEFINE p == msieve[s]
<1>1. /\ p \in Processes /\ msieve \in [Slots -> Processes]
      /\ torn \in 0 .. MaxCoeff \cup {NULL} /\ (p.busy => p.at \in Coeffs)
      /\ records \in Nat /\ leading \subseteq Coeffs /\ searched \subseteq Coeffs
      /\ owners \subseteq 1 .. Composites
  BY DEF LocalTypeOK, BusyOnCoeff
<1>2. p.pc = "running" /\ UNCHANGED <<composite, todo, run>>
  BY DEF MsieveStep, TakeCoeff, Hit, FinishCoeff, SoftExit, HardExit, workdir
<1>3. ASSUME NEW q \in Processes, msieve' = [msieve EXCEPT ![s] = q],
             q.busy => q.at \in Coeffs,
             records' \in Nat, leading' \subseteq Coeffs, searched' \subseteq Coeffs,
             torn' \in 0 .. MaxCoeff \cup {NULL}, owners' \subseteq 1 .. Composites
      PROVE  LInv'
  <2>1. msieve' \in [Slots -> Processes] /\ BusyOnCoeff'
    BY <1>1, <1>3 DEF BusyOnCoeff
  <2>2. msieve'["child"].pc # "none" => msieve["child"].pc # "none"
    BY <1>1, <1>2, <1>3 DEF Slots
  <2> QED BY <1>2, <1>3, <2>1, <2>2 DEF LocalTypeOK, ChildOfRun, TodoWritten
<1>4. CASE TakeCoeff(s)
  <2> DEFINE c == Min(Ahead(p))
             q == [p EXCEPT !.at = c, !.busy = TRUE, !.hits = 0]
  <2>1. c \in Coeffs /\ c \in Nat
    BY <1>1, <1>4, AheadTyped DEF TakeCoeff, Coeffs
  <2>2. msieve' = [msieve EXCEPT ![s] = q] /\ UNCHANGED workdir
    BY <1>4 DEF TakeCoeff
  <2>3. q \in Processes /\ q.at \in Coeffs
    <3>1. 0 \in 0 .. MaxHits
      OBVIOUS
    <3> HIDE DEF c, p
    <3> QED BY <1>1, <2>1, <3>1 DEF Processes
  <2> HIDE DEF q
  <2> QED BY <1>1, <1>3, <2>2, <2>3 DEF workdir
<1>5. CASE Hit(s)
  <2> DEFINE q == [p EXCEPT !.hits = @ + 1,
                            !.left = IF @ = NULL \/ @ = 0 THEN @ ELSE @ - 1]
  <2>1. msieve' = [msieve EXCEPT ![s] = q] /\ p.busy /\ p.hits < MaxHits
    BY <1>5 DEF Hit
  <2>2. q \in Processes /\ q.at = p.at
    <3>1. p.hits + 1 \in 0 .. MaxHits
      BY <1>1, <2>1 DEF Processes
    <3>2. (IF p.left = NULL \/ p.left = 0 THEN p.left ELSE p.left - 1) \in Nat \cup {NULL}
      BY <1>1 DEF Processes
    <3> HIDE DEF p
    <3> QED BY <1>1, <3>1, <3>2 DEF Processes
  <2>3. /\ records' \in Nat /\ leading' \subseteq Coeffs /\ searched' \subseteq Coeffs
        /\ torn' \in 0 .. MaxCoeff \cup {NULL} /\ owners' \subseteq 1 .. Composites
    BY <1>1, <1>5, <2>1 DEF Hit, Processes
  <2> HIDE DEF q
  <2> QED BY <1>1, <1>3, <2>1, <2>2, <2>3
<1>6. CASE FinishCoeff(s)
  <2> DEFINE q == [p EXCEPT !.busy = FALSE]
  <2>1. msieve' = [msieve EXCEPT ![s] = q] /\ searched' \subseteq Coeffs
    BY <1>1, <1>6 DEF FinishCoeff
  <2>2. q \in Processes /\ ~q.busy
    BY <1>1 DEF Processes
  <2> HIDE DEF q
  <2> QED BY <1>1, <1>3, <1>6, <2>1, <2>2 DEF FinishCoeff
<1>7. CASE SoftExit(s)
  <2> DEFINE q == [p EXCEPT !.pc = "exited", !.ok = TRUE]
  <2>1. msieve' = [msieve EXCEPT ![s] = q] /\ UNCHANGED workdir
    BY <1>7 DEF SoftExit
  <2>2. q \in Processes /\ q.busy = p.busy /\ q.at = p.at
    BY <1>1 DEF Processes
  <2> HIDE DEF q
  <2> QED BY <1>1, <1>3, <2>1, <2>2 DEF workdir
<1>8. CASE HardExit(s)
  <2>1. PICK ok \in BOOLEAN :
           msieve' = [msieve EXCEPT ![s].pc = "exited", ![s].ok = ok]
    BY <1>8 DEF HardExit
  <2> DEFINE q == [p EXCEPT !.pc = "exited", !.ok = ok]
  <2>2. msieve' = [msieve EXCEPT ![s] = q]
    BY <2>1
  <2>3. q \in Processes /\ q.busy = p.busy /\ q.at = p.at
    BY <1>1 DEF Processes
  <2>4. p.busy => p.at \div 10 \in 0 .. MaxCoeff
    BY <1>1 DEF Coeffs
  <2>5. /\ UNCHANGED <<records, leading, searched>>
        /\ torn' \in 0 .. MaxCoeff \cup {NULL} /\ owners' \subseteq 1 .. Composites
    BY <1>1, <1>8, <2>4 DEF HardExit, Processes
  <2> HIDE DEF q
  <2> QED BY <1>1, <1>3, <2>2, <2>3, <2>5
<1> QED
  BY <1>4, <1>5, <1>6, <1>7, <1>8 DEF MsieveStep

\* And the steps of the world.
LEMMA StepTyped ==
    ASSUME LInv, [LocalNext]_localVars
    PROVE  LInv'
<1> USE DEF LInv
<1>1. CASE RunStep
  BY <1>1, RunStepTyped
<1>2. CASE \E s \in Slots : MsieveStep(s)
  BY <1>2, MsieveStepTyped
<1>3. CASE MoveAside
  <2>1. msieve' \in [Slots -> Processes] /\ \A s \in Slots : ~msieve'[s].busy /\ msieve'[s].pc = "none"
    BY <1>3, NoProcessTyped DEF MoveAside, NoProcess
  <2>2. "child" \in Slots
    BY DEF Slots
  <2> QED BY <1>3, <2>1, <2>2 DEF MoveAside, LocalTypeOK, ChildOfRun, TodoWritten, BusyOnCoeff
<1>4. CASE Advance
  BY <1>4 DEF Advance, LocalTypeOK, ChildOfRun, TodoWritten, BusyOnCoeff, workdir
<1>5. CASE UNCHANGED localVars
  BY <1>5 DEF localVars, workdir, LocalTypeOK, ChildOfRun, TodoWritten, BusyOnCoeff
<1> QED
  BY <1>1, <1>2, <1>3, <1>4, <1>5 DEF LocalNext

LEMMA LInvAlways == LocalSpec => []LInv
<1>1. LocalInit => LInv
  BY InitTyped
<1>2. LInv /\ [LocalNext]_localVars => LInv'
  BY StepTyped
<1> QED
  BY <1>1, <1>2, PTL DEF LocalSpec

\* Every variable keeps its type: what is asked of msieve is never negative, and no
\* coefficient outside the search is recorded or searched (__main__.py:203-332).
THEOREM LocalTypeCorrect == LocalSpec => []LocalTypeOK
<1>1. LInv => LocalTypeOK
  BY DEF LInv
<1> QED
  BY <1>1, LInvAlways, PTL

-----------------------------------------------------------------------------
(***************************************************************************)
(* What is planned, and Ctrl-C.                                            *)
(***************************************************************************)

\* Until msieve can be told of a Ctrl-C there was none.
NotYetInterrupted == run.pc \in {"planned", "launch", "launched"} => ~run.interrupted

\* Every candidate of a run is a multiple as _coeff_ranges understands it.
LEMMA CandidatesAreMultiples ==
    ASSUME NEW mult \in Mults, NEW c \in Candidates(mult)
    PROVE  c \in Coeffs /\ c \in Nat /\ c % Multiplier(mult) = 0
<1>1. c \in Coeffs /\ c \in Nat
  BY DEF Candidates, Coeffs
<1>2. CASE mult = 0
  BY <1>1, <1>2 DEF Multiplier
<1>3. CASE mult # 0
  BY <1>1, <1>3 DEF Multiplier, Candidates
<1> QED
  BY <1>1, <1>2, <1>3

\* The planned ranges are those of CoeffRangesExact.
LEMMA PlanExact ==
    ASSUME LInv, NEW min \in MinCoeffs \cup {NULL}, NEW mult \in Mults,
           NEW target \in Targets, NEW resume \in BOOLEAN, Plan(min, mult, target, resume)
    PROVE  /\ RangesAreExact(run'.ranges, run'.start, run'.mult, run'.skip, Coeffs)
           /\ \A r \in run'.ranges : r.lo >= run'.start
<1>1. /\ run'.start \in Nat /\ run'.mult \in Nat /\ run'.skip \in SUBSET Coeffs
      /\ run'.ranges = CoeffRanges(run'.start, run'.mult, run'.skip)
  BY PlanTyped DEF LInv, Runs
<1>2. /\ run'.skip \in SUBSET (0 .. MaxCoeff) /\ run'.skip \in SUBSET (1 .. MaxCoeff)
      /\ Coeffs \in SUBSET Nat /\ MaxCoeff \in Nat
  BY <1>1 DEF Coeffs
<1> DEFINE start == run'.start
           high_coeff_mult == run'.mult
           skip == run'.skip
<1>3. /\ start \in Nat /\ high_coeff_mult \in Nat
      /\ skip \in SUBSET (0 .. MaxCoeff) /\ skip \in SUBSET (1 .. MaxCoeff)
      /\ run'.ranges = CoeffRanges(start, high_coeff_mult, skip)
  BY <1>1, <1>2
<1> HIDE DEF start, high_coeff_mult, skip
<1>4. RangesAreExact(CoeffRanges(start, high_coeff_mult, skip), start, high_coeff_mult, skip, Coeffs)
  BY <1>2, <1>3, CoeffRangesExact
<1>5. \A r \in CoeffRanges(start, high_coeff_mult, skip) : r.lo >= start
  BY <1>2, <1>3, RangesTyped
<1> QED
  BY <1>3, <1>4, <1>5 DEF start, high_coeff_mult, skip

LEMMA PlannedStep ==
    ASSUME LInv, RangesExact, NotYetInterrupted, [LocalNext]_localVars
    PROVE  RangesExact' /\ NotYetInterrupted'
<1>1. run \in Runs
  BY DEF LInv, LocalTypeOK
<1>2. ASSUME NEW min \in MinCoeffs \cup {NULL}, NEW mult \in Mults,
             NEW target \in Targets, NEW resume \in BOOLEAN, Plan(min, mult, target, resume)
      PROVE  RangesExact' /\ NotYetInterrupted'
  BY <1>2, PlanExact, PlanTyped DEF LInv, RangesExact, NotYetInterrupted
<1>3. CASE BeginSelection
  BY <1>1, <1>3 DEF BeginSelection, Runs, RangesExact, NotYetInterrupted
<1>4. CASE Launch
  BY <1>1, <1>4 DEF Launch, Runs, RangesExact, NotYetInterrupted
<1>5. CASE InstallHandler
  BY <1>1, <1>5 DEF InstallHandler, Runs, RangesExact, NotYetInterrupted
<1>6. CASE WaitReturns
  BY <1>1, <1>6 DEF WaitReturns, Runs, End, Over, RangesExact, NotYetInterrupted
<1>7. CASE NextRange
  BY <1>1, <1>7 DEF NextRange, LastRange, Runs, End, Over, RangesExact, NotYetInterrupted
<1>8. CASE RelaySigint
  BY <1>1, <1>8 DEF RelaySigint, Runs, RangesExact, NotYetInterrupted
<1>9. CASE Die
  BY <1>1, <1>9 DEF Die, End, Over, RangesExact, NotYetInterrupted
<1>10. CASE UNCHANGED run
  BY <1>10 DEF RangesExact, NotYetInterrupted
<1> QED
  BY <1>2, <1>3, <1>4, <1>5, <1>6, <1>7, <1>8, <1>9, <1>10
     DEF LocalNext, RunStep, MsieveStep, TakeCoeff, Hit, FinishCoeff, SoftExit, HardExit,
         MoveAside, Advance, localVars

LEMMA PlannedAlways == LocalSpec => [](LInv /\ RangesExact /\ NotYetInterrupted)
<1>1. LocalInit => RangesExact /\ NotYetInterrupted
  BY DEF LocalInit, Over, RangesExact, NotYetInterrupted
<1>2. LInv /\ RangesExact /\ NotYetInterrupted /\ [LocalNext]_localVars
         => RangesExact' /\ NotYetInterrupted'
  BY PlannedStep
<1> QED
  BY <1>1, <1>2, LInvAlways, PTL DEF LocalSpec

\* After any chain of runs, Ctrl-Cs and torn records the planned ranges hold each
\* coefficient that the corpus lacks once and none that it has (__main__.py:277-292).
THEOREM RangesExactAlways == LocalSpec => []RangesExact
  BY PlannedAlways, PTL

\* No msieve is started by a run whose Ctrl-C was relayed (__main__.py:315-327).
THEOREM InterruptIsLastAlways == LocalSpec => InterruptIsLast
<1>1. LInv /\ NotYetInterrupted /\ [LocalNext]_localVars =>
         [run.interrupted /\ msieve'["child"].pc = "running"
             => msieve["child"].pc = "running"]_localVars
  <2> SUFFICES ASSUME LInv, NotYetInterrupted, LocalNext, run.interrupted,
                      msieve'["child"].pc = "running", msieve["child"].pc # "running"
               PROVE  FALSE
    BY DEF localVars, workdir
  <2>1. msieve \in [Slots -> Processes] /\ "child" \in Slots
    BY DEF LInv, LocalTypeOK, Slots
  <2>2. ~Launch
    BY DEF Launch, NotYetInterrupted
  <2>3. NoProcess.pc = "none"
    BY DEF NoProcess
  <2>4. ~RunStep
    BY <2>1, <2>2, <2>3 DEF RunStep, Plan, BeginSelection, InstallHandler, WaitReturns, NextRange,
            RelaySigint, Die, Processes
  <2>5. ~MoveAside /\ ~Advance
    BY <2>1, <2>3 DEF MoveAside, Advance
  <2>6. ~\E s \in Slots : MsieveStep(s)
    BY <2>1 DEF MsieveStep, TakeCoeff, Hit, FinishCoeff, SoftExit, HardExit, Processes
  <2> QED BY <2>4, <2>5, <2>6 DEF LocalNext
<1> QED
  BY <1>1, PlannedAlways, PTL DEF LocalSpec, InterruptIsLast

-----------------------------------------------------------------------------
(***************************************************************************)
(* One msieve at a time: when no msieve outlives its polylocal.            *)
(***************************************************************************)

\* The orphan slot is empty.
OneMsieve == msieve["orphan"].pc # "running"

\* The corpus is of the composite in worktodo.ini, and a planned run that finds a
\* corpus is of the same one.
CorpusOwned ==
    /\ owners \subseteq {todo}
    /\ owners # {} => Prior
    /\ run.pc = "planned" /\ Prior => todo = run.n
    /\ msieve["child"].pc = "running" => msieve["child"].n = todo

\* What is still asked for is what the corpus lacks.
CountKept ==
    /\ records = 0 <=> leading = {}
    /\ run.target > 0 =>
          /\ run.pc = "planned" =>
                /\ run.polys = run.target - Found /\ run.polys > 0
                /\ run.remaining = run.polys
          /\ run.pc = "launch" => run.remaining = run.target - Found /\ run.remaining > 0
          /\ run.pc \in {"launch", "launched", "waiting", "returned"} =>
                run.polys = run.target - run.before /\ run.polys > 0

\* The ranges that are left share no candidate with each other or with the search in
\* progress, and hold none that has a record.
RangesApart ==
    /\ \A r \in run.ranges, c \in Candidates(run.mult) : InRange(c, r) => c \notin leading
    /\ \A r1, r2 \in run.ranges, c \in Candidates(run.mult) :
          InRange(c, r1) /\ InRange(c, r2) => r1 = r2
    /\ msieve["child"].pc = "running" =>
          LET p == msieve["child"]
          IN  /\ p.mult = run.mult
              /\ \A c \in Ahead(p) : c \notin leading
              /\ \A c \in Ahead(p), r \in run.ranges : ~InRange(c, r)
              /\ p.busy => /\ p.at \in Candidates(run.mult)
                           /\ \A r \in run.ranges : ~InRange(p.at, r)

SInv == OneMsieve /\ CorpusOwned /\ CountKept /\ RangesApart

LEMMA InitSInv == LocalInit => SInv
<1>1. NoProcess.pc = "none"
  BY DEF NoProcess
<1> QED
  BY <1>1 DEF LocalInit, SInv, OneMsieve, CorpusOwned, CountKept, RangesApart, Over, Slots

\* A run is planned while no msieve runs.
LEMMA PlanSInv ==
    ASSUME LInv, SInv, NEW min \in MinCoeffs \cup {NULL}, NEW mult \in Mults,
           NEW target \in Targets, NEW resume \in BOOLEAN, Plan(min, mult, target, resume)
    PROVE  SInv'
<1>1. UNCHANGED <<composite, workdir, msieve>> /\ msieve["child"].pc = "none"
  BY DEF Plan, LInv, ChildOfRun
<1>2. /\ run'.pc = "planned" /\ run'.n = composite /\ run'.target = target
      /\ run'.remaining = run'.polys /\ run' \in Runs
      /\ run'.skip = IF Prior THEN Held ELSE {}
      /\ run'.polys = IF Prior /\ target > 0 THEN ShortOf(target) ELSE target
      /\ Prior => todo = composite
      /\ Prior /\ target > 0 => run'.polys # 0
  BY PlanTyped DEF LInv
<1>3. OneMsieve' /\ CorpusOwned'
  BY <1>1, <1>2 DEF SInv, OneMsieve, CorpusOwned, workdir, Prior
<1>4. CountKept'
  <2>1. Found' = Found /\ Found \in Nat /\ target \in Nat
    BY <1>1, ScanTyped DEF LInv, workdir, Found, Readable
  <2>2. CASE Prior /\ target > 0
    <3>1. ShortOf(target) = IF target - Found >= 0 THEN target - Found ELSE 0
      BY <2>1, FloorZero DEF ShortOf
    <3> QED BY <1>1, <1>2, <2>1, <2>2, <3>1 DEF SInv, CountKept, workdir
  <2>3. CASE ~Prior
    <3>1. Found = 0
      BY <2>3 DEF SInv, CountKept, Prior, Found, Readable
    <3> QED BY <1>1, <1>2, <2>1, <2>3, <3>1 DEF SInv, CountKept, workdir
  <2>4. CASE ~(target > 0)
    BY <1>1, <1>2, <2>4 DEF SInv, CountKept, workdir
  <2> QED BY <2>2, <2>3, <2>4
<1>5. RangesApart'
  <2>1. leading \subseteq run'.skip
    BY <1>2 DEF Prior, Held
  <2>2. ASSUME NEW c \in Candidates(run'.mult), NEW r \in run'.ranges, InRange(c, r)
        PROVE  c \notin run'.skip /\ \A other \in run'.ranges : InRange(c, other) => other = r
    <3>1. c \in Coeffs /\ c \in Nat /\ c % Multiplier(run'.mult) = 0
      BY <1>2, CandidatesAreMultiples DEF Runs
    <3>2. r.lo >= run'.start /\ r.lo \in Nat /\ run'.start \in Nat
      BY <1>2, PlanExact DEF Runs
    <3>3. c >= run'.start
      BY <2>2, <3>1, <3>2 DEF InRange
    <3> QED BY <2>2, <3>1, <3>3, PlanExact DEF RangesAreExact
  <2> QED BY <1>1, <2>1, <2>2 DEF RangesApart, workdir
<1> QED
  BY <1>3, <1>4, <1>5 DEF SInv

\* msieve is started on a range that leaves the list.
LEMMA LaunchSInv ==
    ASSUME LInv, SInv, Launch
    PROVE  SInv'
<1>1. PICK r \in run.ranges :
         /\ run' = [run EXCEPT !.pc = "launched", !.ranges = @ \ {r}]
         /\ msieve' = [msieve EXCEPT !["child"] =
              [NoProcess EXCEPT
                  !.pc = "running", !.n = todo, !.mult = run.mult,
                  !.at = r.lo - 1, !.hi = r.hi,
                  !.left = IF run.remaining = 0 THEN NULL ELSE run.remaining]]
  BY DEF Launch
<1>2. run \in Runs /\ msieve \in [Slots -> Processes] /\ UNCHANGED <<composite, workdir>>
      /\ run.pc = "launch"
  BY DEF LInv, LocalTypeOK, Launch
<1>3. /\ run'.pc = "launched" /\ run'.ranges = run.ranges \ {r} /\ run'.mult = run.mult
      /\ run'.target = run.target /\ run'.polys = run.polys /\ run'.before = run.before
  BY <1>1, <1>2 DEF Runs
<1> DEFINE p == msieve'["child"]
<1>4. /\ p.pc = "running" /\ p.n = todo /\ p.mult = run.mult /\ p.at = r.lo - 1
      /\ p.hi = r.hi /\ ~p.busy /\ msieve'["orphan"] = msieve["orphan"]
  BY <1>1, <1>2 DEF NoProcess, Slots
<1>5. OneMsieve' /\ CorpusOwned'
  BY <1>2, <1>3, <1>4 DEF SInv, OneMsieve, CorpusOwned, workdir, Prior
<1>6. CountKept'
  BY <1>2, <1>3 DEF SInv, CountKept, workdir
<1>7. \A c \in Ahead(p) : c \in Candidates(run.mult) /\ InRange(c, r)
  <2>1. ASSUME NEW c \in Ahead(p)
        PROVE  c \in Candidates(run.mult) /\ InRange(c, r)
    <3>1. c \in Candidates(run.mult) /\ c > r.lo - 1 /\ (r.hi # NULL => c <= r.hi)
      BY <1>4, <2>1 DEF Ahead
    <3>2. c \in Nat /\ r.lo \in Nat
      BY <1>2, <3>1, CandidatesAreMultiples DEF Runs
    <3> QED BY <3>1, <3>2 DEF InRange
  <2> QED BY <2>1
<1>8. RangesApart'
  <2>1. leading' = leading
    BY <1>2 DEF workdir
  <2>2. \A c \in Ahead(p) : c \notin leading
    BY <1>7 DEF SInv, RangesApart
  <2>3. \A c \in Ahead(p), other \in run'.ranges : ~InRange(c, other)
    BY <1>3, <1>7 DEF SInv, RangesApart
  <2>4. Ahead(p) = Ahead(msieve["child"])'
    BY DEF Ahead, Candidates
  <2> QED BY <1>3, <1>4, <2>1, <2>2, <2>3, <2>4 DEF SInv, RangesApart
<1> QED
  BY <1>5, <1>6, <1>8 DEF SInv

\* The other steps of polylocal, when it leaves no msieve behind.
LEMMA RunStepSInv ==
    ASSUME ~Orphans, LInv, SInv, RunStep
    PROVE  SInv'
<1>1. run \in Runs /\ msieve \in [Slots -> Processes]
  BY DEF LInv, LocalTypeOK
<1>2. ASSUME NEW min \in MinCoeffs \cup {NULL}, NEW mult \in Mults,
             NEW target \in Targets, NEW resume \in BOOLEAN, Plan(min, mult, target, resume)
      PROVE  SInv'
  BY <1>2, PlanSInv
<1>3. CASE BeginSelection
  <2>1. /\ run'.pc = "launch" /\ run'.ranges = run.ranges /\ run'.mult = run.mult
        /\ run'.target = run.target /\ run'.polys = run.polys
        /\ run'.remaining = run.remaining /\ run'.before = Found /\ todo' = run.n
        /\ run.pc = "planned" /\ UNCHANGED <<records, leading, torn, owners, msieve>>
    BY <1>1, <1>3 DEF BeginSelection, Runs
  <2>2. msieve["child"].pc = "none"
    BY <2>1 DEF LInv, ChildOfRun
  <2>3. OneMsieve' /\ CorpusOwned'
    BY <2>1, <2>2 DEF SInv, OneMsieve, CorpusOwned, Prior
  <2>4. Found \in Nat /\ run.target \in Nat
    BY <1>1, ScanTyped DEF LInv, Runs
  <2>5. Found' = Found
    BY <2>1 DEF Found, Readable
  <2>6. CountKept'
    BY <2>1, <2>4, <2>5 DEF SInv, CountKept
  <2>7. RangesApart'
    BY <2>1, <2>2 DEF SInv, RangesApart
  <2> QED BY <2>3, <2>6, <2>7 DEF SInv
<1>4. CASE Launch
  BY <1>4, LaunchSInv
<1>5. CASE InstallHandler
  <2>1. /\ run' = [run EXCEPT !.pc = "waiting"] /\ run.pc = "launched"
        /\ UNCHANGED <<workdir, msieve>>
    BY <1>5 DEF InstallHandler
  <2>2. /\ run'.ranges = run.ranges /\ run'.mult = run.mult /\ run'.target = run.target
        /\ run'.polys = run.polys /\ run'.before = run.before /\ run'.pc = "waiting"
    BY <1>1, <2>1 DEF Runs
  <2>3. OneMsieve' /\ CorpusOwned' /\ CountKept'
    BY <2>1, <2>2 DEF SInv, OneMsieve, CorpusOwned, CountKept, workdir, Prior
  <2>4. RangesApart'
    BY <2>1, <2>2 DEF SInv, RangesApart, Ahead, workdir
  <2> QED BY <2>3, <2>4 DEF SInv
<1>6. ASSUME UNCHANGED workdir, msieve' \in [Slots -> Processes],
             msieve'["child"].pc = "none", msieve'["orphan"].pc # "running",
             run' = End(run) \/ (run'.pc = "idle" /\ run' = run)
      PROVE  SInv'
  <2>1. run'.pc = "idle"
    BY <1>6 DEF End, Over
  <2>2. OneMsieve' /\ CorpusOwned' /\ CountKept'
    BY <1>6, <2>1 DEF SInv, OneMsieve, CorpusOwned, CountKept, workdir, Prior
  <2>3. RangesApart'
    BY <1>6 DEF SInv, RangesApart, End, Over, workdir
  <2> QED BY <2>2, <2>3 DEF SInv
<1>7. CASE WaitReturns
  <2>1. /\ msieve'["child"].pc = "none" /\ msieve'["orphan"].pc # "running"
        /\ msieve' \in [Slots -> Processes] /\ UNCHANGED workdir
    BY <1>1, <1>7, NoProcessTyped DEF WaitReturns, NoProcess, SInv, OneMsieve, Slots
  <2>2. CASE run' = End(run)
    BY <1>6, <2>1, <2>2
  <2>3. CASE run' = [run EXCEPT !.pc = "returned"]
    <3>1. /\ run'.ranges = run.ranges /\ run'.mult = run.mult /\ run'.target = run.target
          /\ run'.polys = run.polys /\ run'.before = run.before /\ run'.pc = "returned"
          /\ run.pc = "waiting"
      BY <1>1, <1>7, <2>3 DEF Runs, WaitReturns
    <3>2. OneMsieve' /\ CorpusOwned' /\ CountKept'
      BY <2>1, <3>1 DEF SInv, OneMsieve, CorpusOwned, CountKept, workdir, Prior
    <3>3. RangesApart'
      BY <2>1, <3>1 DEF SInv, RangesApart, workdir
    <3> QED BY <3>2, <3>3 DEF SInv
  <2> QED BY <1>7, <2>2, <2>3 DEF WaitReturns
<1>8. CASE NextRange
  <2>1. /\ msieve["child"].pc = "none" /\ msieve["orphan"].pc # "running"
        /\ UNCHANGED <<workdir, msieve>> /\ run.pc = "returned"
    BY <1>8 DEF NextRange, LInv, ChildOfRun, SInv, OneMsieve
  <2>2. CASE LastRange(run)
    BY <1>1, <1>6, <1>8, <2>1, <2>2 DEF NextRange
  <2>3. CASE ~LastRange(run)
    <3>1. /\ run'.ranges = run.ranges /\ run'.mult = run.mult /\ run'.target = run.target
          /\ run'.polys = run.polys /\ run'.before = run.before /\ run'.pc = "launch"
          /\ run'.remaining = IF run.polys > 0 THEN Missing(run) ELSE run.remaining
      BY <1>1, <1>8, <2>3 DEF Runs, NextRange
    <3>2. OneMsieve' /\ CorpusOwned'
      BY <2>1, <3>1 DEF SInv, OneMsieve, CorpusOwned, workdir, Prior
    <3>3. Found' = Found /\ Found \in Nat
      BY <2>1, ScanTyped DEF LInv, workdir, Found, Readable
    <3>4. run.target \in Nat /\ run.before \in Nat /\ run.polys \in Nat
      BY <1>1 DEF Runs
    <3>5. run.target > 0 => Missing(run) = run.target - Found /\ Missing(run) > 0 /\ run.polys > 0
      BY <2>1, <2>3, <3>3, <3>4 DEF SInv, CountKept, Missing, LastRange
    <3>6. CountKept'
      BY <2>1, <3>1, <3>3, <3>5 DEF SInv, CountKept, workdir
    <3>7. RangesApart'
      BY <2>1, <3>1 DEF SInv, RangesApart, workdir
    <3> QED BY <3>2, <3>6, <3>7 DEF SInv
  <2> QED BY <2>2, <2>3
<1>9. CASE RelaySigint
  <2>1. /\ run' = [run EXCEPT !.interrupted = TRUE] /\ run.pc = "waiting"
        /\ UNCHANGED workdir
    BY <1>9 DEF RelaySigint
  <2>2. /\ run'.ranges = run.ranges /\ run'.mult = run.mult /\ run'.target = run.target
        /\ run'.polys = run.polys /\ run'.before = run.before /\ run'.pc = "waiting"
    BY <1>1, <2>1 DEF Runs
  <2> DEFINE p == msieve["child"]
             q == msieve'["child"]
  <2>3. /\ q.pc = p.pc /\ q.n = p.n /\ q.mult = p.mult /\ q.at = p.at /\ q.hi = p.hi
        /\ q.busy = p.busy /\ msieve'["orphan"].pc = msieve["orphan"].pc
    BY <1>1, <1>9 DEF RelaySigint, Processes, Slots
  <2>4. OneMsieve' /\ CorpusOwned' /\ CountKept'
    BY <2>1, <2>2, <2>3 DEF SInv, OneMsieve, CorpusOwned, CountKept, workdir, Prior
  <2>5. Ahead(p)' = Ahead(p)
    BY <2>3 DEF Ahead, Candidates
  <2>6. RangesApart'
    BY <2>1, <2>2, <2>3, <2>5 DEF SInv, RangesApart, workdir
  <2> QED BY <2>4, <2>6 DEF SInv
<1>10. CASE Die
  <2>1. /\ msieve' = [child |-> NoProcess, orphan |-> msieve["orphan"]]
        /\ run' = End(run) /\ UNCHANGED workdir
    BY <1>10 DEF Die
  <2>2. msieve'["child"].pc = "none" /\ msieve'["orphan"].pc # "running"
    BY <2>1 DEF NoProcess, SInv, OneMsieve
  <2>3. msieve' \in [Slots -> Processes]
    BY <1>1, <2>1, NoProcessTyped DEF Slots
  <2> QED BY <1>6, <2>1, <2>2, <2>3
<1> QED
  BY <1>2, <1>3, <1>4, <1>5, <1>7, <1>8, <1>9, <1>10 DEF RunStep

\* The steps of the one msieve.
LEMMA MsieveStepSInv ==
    ASSUME ~Orphans, LInv, SInv, NEW s \in Slots, MsieveStep(s)
    PROVE  SInv'
<1> DEFINE p == msieve["child"]
           q == msieve'["child"]
<1>1. s = "child" /\ p.pc = "running" /\ UNCHANGED <<composite, todo, run>>
  BY DEF SInv, OneMsieve, Slots, MsieveStep, TakeCoeff, Hit, FinishCoeff, SoftExit, HardExit,
         workdir
<1>2. /\ msieve \in [Slots -> Processes] /\ p \in Processes /\ run \in Runs
      /\ run.pc \in {"launched", "waiting"} /\ records \in Nat
  BY <1>1 DEF LInv, LocalTypeOK, Slots, ChildOfRun
<1>3. msieve'["orphan"] = msieve["orphan"]
  BY <1>1, <1>2 DEF MsieveStep, TakeCoeff, Hit, FinishCoeff, SoftExit, HardExit, Slots
<1>4. q.n = p.n /\ q.mult = p.mult /\ q.hi = p.hi
  BY <1>1, <1>2 DEF MsieveStep, TakeCoeff, Hit, FinishCoeff, SoftExit, HardExit, Processes, Slots
<1>5. OneMsieve'
  BY <1>3 DEF SInv, OneMsieve
<1>6. CorpusOwned'
  <2>1. owners' \subseteq owners \cup {p.n} /\ (owners' # owners => Prior') /\ (Prior => Prior')
    <3>1. CASE TakeCoeff(s) \/ FinishCoeff(s) \/ SoftExit(s)
      BY <3>1 DEF TakeCoeff, FinishCoeff, SoftExit, workdir, Prior
    <3>2. CASE Hit(s)
      BY <1>1, <3>2 DEF Hit, Prior
    <3>3. CASE HardExit(s)
      <4>1. p.at \in Nat /\ 0 # NULL
        BY <1>2, OpenAssumption DEF Processes
      <4>2. p.at \div 10 \in Int
        BY <4>1
      <4>3. \/ torn' # NULL /\ owners' = owners \cup {p.n}
            \/ torn' = torn /\ owners' = owners
        BY <1>1, <3>3, <4>1, <4>2, OpenAssumption DEF HardExit
      <4>4. leading' = leading
        BY <3>3 DEF HardExit
      <4>5. torn # NULL => torn' # NULL
        BY <4>3
      <4> QED BY <4>3, <4>4, <4>5 DEF Prior
    <3> QED BY <3>1, <3>2, <3>3 DEF MsieveStep
  <2> QED BY <1>1, <1>2, <1>4, <2>1 DEF SInv, CorpusOwned
<1>7. CountKept'
  <2>0. records \in Nat /\ (records = 0 <=> leading = {})
    BY <1>1, <1>2 DEF SInv, CountKept, LInv, LocalTypeOK
  <2>1. records' = 0 <=> leading' = {}
    <3>1. CASE Hit(s)
      <4>1. \/ records' = records + 1 /\ leading' = leading \cup {msieve[s].at}
            \/ records' = records /\ leading' = leading
        BY <3>1 DEF Hit
      <4>2. CASE records' = records + 1 /\ leading' = leading \cup {msieve[s].at}
        <5>1. msieve[s].at \in leading'
          BY <4>2
        <5>2. leading' # {} /\ records' # 0
          BY <2>0, <4>2, <5>1
        <5> QED BY <5>2
      <4> QED BY <2>0, <4>1, <4>2
    <3>2. CASE ~Hit(s)
      <4>1. records' = records /\ leading' = leading
        BY <1>1, <3>2 DEF MsieveStep, TakeCoeff, FinishCoeff, SoftExit, HardExit, workdir
      <4> QED BY <2>0, <4>1
    <3> QED BY <3>1, <3>2
  <2> QED BY <1>1, <1>2, <2>1 DEF SInv, CountKept
<1>8. RangesApart'
  <2>1. p.mult = run.mult /\ \A c \in Ahead(p) : c \in Candidates(run.mult) /\ c \in Nat
    BY <1>1, <1>2, CandidatesAreMultiples DEF SInv, RangesApart, Ahead, Runs
  <2>2. CASE TakeCoeff(s)
    <3>1. /\ Min(Ahead(p)) \in Ahead(p) /\ q.at = Min(Ahead(p)) /\ leading' = leading
      BY <1>1, <1>2, <2>2, AheadTyped DEF TakeCoeff, Slots, Processes, workdir
    <3>2. Ahead(p)' \subseteq Ahead(p)
      <4>1. Min(Ahead(p)) > p.at /\ p.at \in Nat /\ Min(Ahead(p)) \in Nat
        BY <1>2, <2>1, <3>1 DEF Ahead, Processes
      <4>2. Ahead(p)' = {c \in Candidates(p.mult) : c > q.at /\ (p.hi # NULL => c <= p.hi)}
        BY <1>4 DEF Ahead, Candidates
      <4>3. \A c \in Candidates(p.mult) : c \in Nat
        BY <1>2, CandidatesAreMultiples DEF Processes
      <4>4. ASSUME NEW c \in Ahead(p)' PROVE c \in Ahead(p)
        <5>1. c \in Candidates(p.mult) /\ c > q.at /\ (p.hi # NULL => c <= p.hi)
          BY <4>2, <4>4
        <5>2. c > p.at
          BY <3>1, <4>1, <4>3, <5>1
        <5> QED BY <5>1, <5>2 DEF Ahead
      <4> QED BY <4>4
    <3> QED BY <1>1, <1>4, <2>1, <3>1, <3>2 DEF SInv, RangesApart
  <2>3. CASE Hit(s)
    <3>1. /\ q.at = p.at /\ q.busy = p.busy /\ p.busy /\ leading' \subseteq leading \cup {p.at}
      BY <1>1, <1>2, <2>3 DEF Hit, Slots, Processes
    <3>2. Ahead(p)' = Ahead(p)
      BY <1>4, <3>1 DEF Ahead, Candidates
    <3>3. p.at \notin Ahead(p)
      <4>1. p.at \in Nat /\ ~(p.at > p.at)
        BY <1>2 DEF Processes
      <4> QED BY <4>1 DEF Ahead
    <3> QED BY <1>1, <1>4, <2>1, <3>1, <3>2, <3>3 DEF SInv, RangesApart
  <2>4. CASE FinishCoeff(s) \/ SoftExit(s) \/ HardExit(s)
    <3>1. q.at = p.at /\ (q.busy => p.busy) /\ leading' = leading
      BY <1>1, <1>2, <2>4 DEF FinishCoeff, SoftExit, HardExit, Slots, Processes, workdir
    <3>2. Ahead(p)' = Ahead(p)
      BY <1>4, <3>1 DEF Ahead, Candidates
    <3> QED BY <1>1, <1>4, <3>1, <3>2 DEF SInv, RangesApart
  <2> QED BY <2>2, <2>3, <2>4 DEF MsieveStep
<1> QED
  BY <1>5, <1>6, <1>7, <1>8 DEF SInv

LEMMA StepSInv ==
    ASSUME ~Orphans, LInv, SInv, [LocalNext]_localVars
    PROVE  SInv'
<1>1. CASE RunStep
  BY <1>1, RunStepSInv
<1>2. CASE \E s \in Slots : MsieveStep(s)
  BY <1>2, MsieveStepSInv
<1>3. CASE MoveAside
  <2>1. msieve'["child"].pc = "none" /\ msieve'["orphan"].pc = "none"
    BY <1>3 DEF MoveAside, NoProcess, Slots
  <2> QED BY <1>3, <2>1
          DEF MoveAside, SInv, OneMsieve, CorpusOwned, CountKept, RangesApart
<1>4. CASE UNCHANGED <<workdir, run, msieve>>
  BY <1>4 DEF workdir, SInv, OneMsieve, CorpusOwned, CountKept, RangesApart, Prior, Found, Readable,
      Ahead
<1> QED
  BY <1>1, <1>2, <1>3, <1>4 DEF LocalNext, Advance, localVars

LEMMA SInvAlways ==
    ASSUME ~Orphans
    PROVE  LocalSpec => [](LInv /\ SInv)
<1>1. LocalInit => SInv
  BY InitSInv
<1>2. LInv /\ SInv /\ [LocalNext]_localVars => SInv'
  BY StepSInv
<1> QED
  BY <1>1, <1>2, LInvAlways, PTL DEF LocalSpec

\* The corpus never mixes two composites, however the sequence advances between and
\* during the runs (__main__.py:233-240), as long as no msieve is left behind.
THEOREM OneCompositeAlways ==
    ASSUME ~Orphans
    PROVE  LocalSpec => []OneComposite
<1>1. SInv => OneComposite
  BY DEF SInv, CorpusOwned, OneComposite
<1> QED
  BY <1>1, SInvAlways, PTL

\* Each msieve is asked for exactly what the corpus lacks (__main__.py:268, 320-331),
\* as long as no msieve is left behind.
THEOREM TargetKeptAlways ==
    ASSUME ~Orphans
    PROVE  LocalSpec => TargetKept
<1>1. LInv /\ SInv /\ [LocalNext]_localVars =>
         [run.pc = "launch" /\ run'.pc = "launched" /\ run.target > 0 =>
             /\ Found < run.target
             /\ msieve'["child"].left = run.target - Found]_localVars
  <2> SUFFICES ASSUME LInv, SInv, LocalNext, run.pc = "launch", run'.pc = "launched",
                      run.target > 0
               PROVE  /\ Found < run.target
                      /\ msieve'["child"].left = run.target - Found
    OBVIOUS
  <2>1. run \in Runs /\ msieve \in [Slots -> Processes]
    BY DEF LInv, LocalTypeOK
  <2>2. Launch
    <3>1. run' # run
      OBVIOUS
    <3>2. RunStep
      BY <3>1 DEF LocalNext, MoveAside, Advance, MsieveStep, TakeCoeff, Hit, FinishCoeff, SoftExit,
            HardExit
    <3>3. ~Die
      BY DEF Die, End, Over
    <3> QED BY <3>2, <3>3 DEF RunStep, Plan, BeginSelection, InstallHandler, WaitReturns, NextRange,
            RelaySigint
  <2>3. run.remaining = run.target - Found /\ run.remaining > 0
    BY DEF SInv, CountKept
  <2>4. Found \in Nat /\ run.target \in Nat
    BY <2>1, ScanTyped DEF LInv, Runs
  <2>5. msieve'["child"].left = run.remaining
    BY <2>1, <2>2, <2>3, <2>4 DEF Launch, NoProcess, Slots
  <2> QED BY <2>3, <2>4, <2>5
<1> QED
  BY <1>1, SInvAlways, PTL DEF LocalSpec, TargetKept

\* A coefficient with a record is never searched again (__main__.py:252-253), as long
\* as no msieve is left behind.
THEOREM NeverRevisitedAlways ==
    ASSUME ~Orphans
    PROVE  LocalSpec => NeverRevisited
<1>1. LInv /\ SInv /\ [LocalNext]_localVars =>
         [\A s \in Slots : TakeCoeff(s) => msieve'[s].at \notin leading]_localVars
  <2> SUFFICES ASSUME LInv, SInv, NEW s \in Slots, TakeCoeff(s)
               PROVE  msieve'[s].at \notin leading
    OBVIOUS
  <2>1. s = "child" /\ msieve \in [Slots -> Processes] /\ msieve["child"] \in Processes
    BY DEF LInv, LocalTypeOK, SInv, OneMsieve, Slots, TakeCoeff
  <2>2. msieve'[s].at \in Ahead(msieve["child"])
    BY <2>1, AheadTyped DEF TakeCoeff, Processes
  <2> QED BY <2>1, <2>2 DEF SInv, RangesApart, TakeCoeff
<1> QED
  BY <1>1, SInvAlways, PTL DEF LocalSpec, NeverRevisited

-----------------------------------------------------------------------------
(***************************************************************************)
(* Nothing is lost along a chain of plain resumes.                         *)
(***************************************************************************)
Covered(c) == c \in searched \/ c \in leading

\* Up to each coefficient that a scan reads, a cut one included, a plain chain has
\* covered what it began with.
HeldCovered ==
    run.plain => \A h \in Held, c \in Candidates(run.mult) :
                     run.base <= c /\ c <= h => Covered(c)

\* A run of a plain chain has one range, and everything before it is covered.
OneRange ==
    run.plain =>
        /\ run.pc \in {"launched", "waiting", "returned"} => run.ranges = {}
        /\ run.pc \in {"planned", "launch"} =>
              \A r \in run.ranges :
                  /\ \A other \in run.ranges : other = r
                  /\ \A c \in Candidates(run.mult) : run.base <= c /\ c < r.lo => Covered(c)

PInv == HeldCovered /\ OneRange /\ NothingLost

\* When all that is skipped lies below the start, there is nothing to split.
LEMMA NoSplitOneRange ==
    ASSUME NEW start \in Nat, NEW m \in Nat, NEW skip \in SUBSET Nat,
           \A c \in skip : c < start,
           NEW r \in CoeffRanges(start, m, skip), NEW other \in CoeffRanges(start, m, skip)
    PROVE  other = r
<1>1. ASSUME NEW c \in Splits(start, m, skip) PROVE FALSE
  <2>1. c \in skip /\ c >= start
    BY DEF Splits
  <2>2. c \in Nat /\ c < start
    BY <2>1
  <2> QED BY <2>1, <2>2
<1>2. Splits(start, m, skip) = {}
  BY <1>1
<1> QED BY <1>2 DEF CoeffRanges

LEMMA InitPInv == LocalInit => PInv
<1> SUFFICES ASSUME LocalInit PROVE PInv
  OBVIOUS
<1>1. run.plain = FALSE
  BY DEF LocalInit, Over
<1> QED BY <1>1 DEF PInv, HeldCovered, OneRange, NothingLost

LEMMA PlanPInv ==
    ASSUME LInv, PInv, NEW min \in MinCoeffs \cup {NULL}, NEW mult \in Mults,
           NEW target \in Targets, NEW resume \in BOOLEAN, Plan(min, mult, target, resume)
    PROVE  PInv'
<1> DEFINE chained == Prior /\ min = NULL /\ mult = run.mult /\ run.plain
<1>1. /\ UNCHANGED <<composite, workdir, msieve>> /\ msieve["child"].pc = "none"
      /\ run'.pc = "planned" /\ run' \in Runs
      /\ run'.skip = IF Prior THEN Held ELSE {}
      /\ run'.ranges = CoeffRanges(run'.start, run'.mult, run'.skip)
  BY PlanTyped DEF LInv, ChildOfRun, Plan
<1>2. /\ run'.mult = mult /\ (run'.plain <=> ~Prior \/ chained)
      /\ run'.start = IF min # NULL THEN min
                      ELSE IF Prior THEN ResumeStart(mult) ELSE TableCoeff
      /\ run'.base = IF chained THEN run.base ELSE run'.start
      /\ Prior => Held # {}
  BY DEF Plan
<1>3. Held' = Held /\ Held \in SUBSET Coeffs /\ searched' = searched /\ leading' = leading
  BY <1>1, ScanTyped DEF LInv, workdir, Held, Readable
<1>4. ~Prior => Held = {}
  BY DEF Prior, Held, Readable
<1>5. NothingLost'
  BY <1>1 DEF NothingLost
<1>6. HeldCovered'
  BY <1>2, <1>3, <1>4 DEF PInv, HeldCovered, Covered
<1>7. CASE run'.plain
  <2>1. chained => Max(Held) \in Held /\ (\A h \in Held : Max(Held) >= h)
                   /\ run'.start = Max(Held) + 1
    <3>1. Held \in SUBSET (0 .. MaxCoeff)
      BY <1>3 DEF Coeffs
    <3> QED BY <1>2, <3>1, MaxOfBounded DEF ResumeStart
  <2>2. \A c \in run'.skip : c < run'.start
    BY <1>1, <1>2, <1>3, <1>7, <2>1 DEF Coeffs
  <2>3. run'.start \in Nat /\ run'.mult \in Nat /\ run'.skip \in SUBSET Nat
    <3>1. run'.start \in Nat /\ run'.mult \in Mults
      BY <1>1 DEF Runs
    <3>2. run'.skip \in SUBSET Nat
      BY <1>1, <1>3 DEF Coeffs
    <3> QED BY <3>1, <3>2
  <2>4. \A r, other \in run'.ranges : other = r
    BY <1>1, <2>2, <2>3, NoSplitOneRange
  <2>5. ASSUME NEW r \in run'.ranges, NEW c \in Candidates(run'.mult), run'.base <= c, c < r.lo
        PROVE  Covered(c)
    <3>1. c \in Coeffs /\ c \in Nat /\ c % Multiplier(run'.mult) = 0
      BY <1>1, CandidatesAreMultiples DEF Runs
    <3>2. c < run'.start
      <4> SUFFICES ASSUME c >= run'.start PROVE FALSE
        BY <2>3, <3>1
      <4>1. c \notin run'.skip
        BY <2>2, <2>3, <3>1
      <4>2. PICK other \in run'.ranges : InRange(c, other)
        BY <3>1, <4>1, PlanExact DEF RangesAreExact
      <4>3. other = r /\ r.lo \in Nat
        BY <1>1, <2>4 DEF Runs
      <4> QED BY <2>5, <3>1, <4>2, <4>3 DEF InRange
    <3>3. chained
      BY <1>2, <2>3, <2>5, <3>1, <3>2
    <3>4. Max(Held) \in Nat /\ Max(Held) \in Held
      BY <1>3, <2>1, <3>3 DEF Coeffs
    <3>5. c <= Max(Held)
      BY <2>1, <3>1, <3>2, <3>3, <3>4
    <3> QED BY <1>2, <2>5, <3>3, <3>4, <3>5 DEF PInv, HeldCovered
  <2>6. OneRange'
    BY <1>1, <1>3, <2>4, <2>5 DEF OneRange, Covered
  <2> QED BY <1>5, <1>6, <2>6 DEF PInv
<1>8. CASE ~run'.plain
  BY <1>5, <1>6, <1>8 DEF PInv, OneRange
<1> QED BY <1>7, <1>8

LEMMA RunStepPInv ==
    ASSUME LInv, SInv, PInv, RunStep
    PROVE  PInv'
<1>1. run \in Runs /\ msieve \in [Slots -> Processes]
  BY DEF LInv, LocalTypeOK
<1>2. ASSUME NEW min \in MinCoeffs \cup {NULL}, NEW mult \in Mults,
             NEW target \in Targets, NEW resume \in BOOLEAN, Plan(min, mult, target, resume)
      PROVE  PInv'
  BY <1>2, PlanPInv
<1>3. \/ \E min \in MinCoeffs \cup {NULL}, mult \in Mults, target \in Targets,
            resume \in BOOLEAN : Plan(min, mult, target, resume)
      \/ UNCHANGED <<records, leading, torn, searched>>
  BY DEF RunStep, BeginSelection, Launch, InstallHandler, WaitReturns, NextRange, RelaySigint,
     Die, workdir
<1>4. ASSUME UNCHANGED <<records, leading, torn, searched>>
      PROVE  Held' = Held /\ \A c : Covered(c)' <=> Covered(c)
  BY <1>4 DEF Held, Readable, Covered
<1>5. ASSUME UNCHANGED <<records, leading, torn, searched>>, run' = End(run),
             msieve'["child"].pc = "none"
      PROVE  PInv'
  <2>1. /\ run'.pc = "idle" /\ run'.mult = run.mult /\ run'.plain = run.plain
        /\ run.plain => run'.base = run.base
    BY <1>5 DEF End, Over
  <2>2. Held' = Held /\ searched' = searched /\ leading' = leading
    BY <1>4, <1>5
  <2> QED BY <1>5, <2>1, <2>2 DEF PInv, HeldCovered, OneRange, NothingLost, Covered
<1>6. CASE BeginSelection
  <2>1. /\ run'.pc = "launch" /\ run'.mult = run.mult /\ run'.plain = run.plain
        /\ run'.base = run.base /\ run'.ranges = run.ranges /\ run.pc = "planned"
        /\ UNCHANGED <<records, leading, torn, searched, msieve>>
    BY <1>1, <1>6 DEF BeginSelection, Runs
  <2>2. msieve'["child"].pc = "none"
    BY <2>1 DEF LInv, ChildOfRun
  <2>3. Held' = Held
    BY <1>4, <2>1
  <2> QED BY <2>1, <2>2, <2>3 DEF PInv, HeldCovered, OneRange, NothingLost, Covered
<1>7. CASE Launch
  <2>1. PICK r \in run.ranges :
           /\ run' = [run EXCEPT !.pc = "launched", !.ranges = @ \ {r}]
           /\ msieve' = [msieve EXCEPT !["child"] =
                [NoProcess EXCEPT
                    !.pc = "running", !.n = todo, !.mult = run.mult,
                    !.at = r.lo - 1, !.hi = r.hi,
                    !.left = IF run.remaining = 0 THEN NULL ELSE run.remaining]]
    BY <1>7 DEF Launch
  <2>2. /\ run'.pc = "launched" /\ run'.mult = run.mult /\ run'.plain = run.plain
        /\ run'.base = run.base /\ run'.ranges = run.ranges \ {r} /\ run.pc = "launch"
        /\ UNCHANGED <<records, leading, torn, searched>>
    BY <1>1, <1>7, <2>1 DEF Launch, Runs, workdir
  <2>3. msieve'["child"].at = r.lo - 1 /\ r.lo \in Nat
    BY <1>1, <2>1 DEF NoProcess, Slots, Runs
  <2>4. Held' = Held
    BY <1>4, <2>2
  <2>5. HeldCovered'
    BY <2>2, <2>4 DEF PInv, HeldCovered, Covered
  <2>6. OneRange'
    BY <2>2 DEF PInv, OneRange
  <2>7. NothingLost'
    <3> SUFFICES ASSUME run.plain, NEW c \in Candidates(run.mult), run.base <= c, c <= r.lo - 1
                 PROVE  Covered(c)
      <4>1. \A c \in Candidates(run.mult) : c \in Nat
        BY <1>1, CandidatesAreMultiples DEF Runs
      <4> QED BY <2>2, <2>3, <4>1 DEF NothingLost, Behind, Covered
    <3>1. c \in Nat /\ c < r.lo
      BY <1>1, <2>3, CandidatesAreMultiples DEF Runs
    <3> QED BY <2>2, <3>1 DEF PInv, OneRange
  <2> QED BY <2>5, <2>6, <2>7 DEF PInv
<1>8. CASE InstallHandler
  <2>1. /\ run'.pc = "waiting" /\ run'.mult = run.mult /\ run'.plain = run.plain
        /\ run'.base = run.base /\ run'.ranges = run.ranges /\ run.pc = "launched"
        /\ UNCHANGED <<records, leading, torn, searched, msieve>>
    BY <1>1, <1>8 DEF InstallHandler, Runs, workdir
  <2>2. Held' = Held
    BY <1>4, <2>1
  <2> QED BY <2>1, <2>2 DEF PInv, HeldCovered, OneRange, NothingLost, Covered, Behind
<1>9. CASE WaitReturns
  <2>1. msieve'["child"].pc = "none" /\ UNCHANGED <<records, leading, torn, searched>>
        /\ run.pc = "waiting"
    BY <1>1, <1>9 DEF WaitReturns, NoProcess, Slots, workdir
  <2>2. CASE run' = End(run)
    BY <1>5, <2>1, <2>2
  <2>3. CASE run' = [run EXCEPT !.pc = "returned"]
    <3>1. /\ run'.pc = "returned" /\ run'.mult = run.mult /\ run'.plain = run.plain
          /\ run'.base = run.base /\ run'.ranges = run.ranges
      BY <1>1, <2>3 DEF Runs
    <3>2. Held' = Held
      BY <1>4, <2>1
    <3> QED BY <2>1, <3>1, <3>2 DEF PInv, HeldCovered, OneRange, NothingLost, Covered
  <2> QED BY <1>9, <2>2, <2>3 DEF WaitReturns
<1>10. CASE NextRange
  <2>1. /\ msieve' = msieve /\ msieve["child"].pc = "none" /\ run.pc = "returned"
        /\ UNCHANGED <<records, leading, torn, searched>>
    BY <1>10 DEF NextRange, LInv, ChildOfRun, workdir
  <2>2. CASE LastRange(run)
    BY <1>5, <1>10, <2>1, <2>2 DEF NextRange
  <2>3. CASE ~LastRange(run)
    <3>1. ~run.plain
      BY <2>1, <2>3 DEF PInv, OneRange, LastRange
    <3>2. run'.plain = run.plain
      BY <1>1, <1>10, <2>3 DEF NextRange, Runs
    <3> QED BY <3>1, <3>2 DEF PInv, HeldCovered, OneRange, NothingLost
  <2> QED BY <2>2, <2>3
<1>11. CASE RelaySigint
  <2>1. /\ run'.pc = "waiting" /\ run'.mult = run.mult /\ run'.plain = run.plain
        /\ run'.base = run.base /\ run'.ranges = run.ranges /\ run.pc = "waiting"
        /\ UNCHANGED <<records, leading, torn, searched>>
    BY <1>1, <1>11 DEF RelaySigint, Runs, workdir
  <2>2. /\ msieve'["child"].pc = msieve["child"].pc /\ msieve'["child"].at = msieve["child"].at
        /\ msieve'["child"].busy = msieve["child"].busy
    BY <1>1, <1>11 DEF RelaySigint, Processes, Slots
  <2>3. Held' = Held
    BY <1>4, <2>1
  <2> QED BY <2>1, <2>2, <2>3 DEF PInv, HeldCovered, OneRange, NothingLost, Covered, Behind
<1>12. CASE Die
  <2>1. msieve'["child"].pc = "none" /\ UNCHANGED <<records, leading, torn, searched>>
        /\ run' = End(run)
    BY <1>12 DEF Die, NoProcess, workdir
  <2> QED BY <1>5, <2>1
<1> QED
  BY <1>2, <1>6, <1>7, <1>8, <1>9, <1>10, <1>11, <1>12 DEF RunStep

LEMMA MsieveStepPInv ==
    ASSUME ~Orphans, LInv, SInv, PInv, NEW s \in Slots, MsieveStep(s)
    PROVE  PInv'
<1> DEFINE p == msieve["child"]
           q == msieve'["child"]
<1>1. s = "child" /\ p.pc = "running" /\ UNCHANGED run
  BY DEF SInv, OneMsieve, Slots, MsieveStep, TakeCoeff, Hit, FinishCoeff, SoftExit, HardExit
<1>2. /\ msieve \in [Slots -> Processes] /\ p \in Processes /\ run \in Runs
      /\ run.pc \in {"launched", "waiting"} /\ p.at \in Nat
  BY <1>1 DEF LInv, LocalTypeOK, Slots, ChildOfRun, Processes
<1>3. p.mult = run.mult
  BY <1>1 DEF SInv, RangesApart
<1>4. \A c \in Candidates(run.mult) : c \in Nat
  BY <1>2, CandidatesAreMultiples DEF Runs
<1>5. ASSUME run.plain
      PROVE  \A c \in Candidates(run.mult) :
                run.base <= c /\ (c < p.at \/ (c = p.at /\ ~p.busy)) => Covered(c)
  BY <1>1, <1>5 DEF PInv, NothingLost, Behind, Covered
<1>6. run.base \in Nat
  BY <1>2 DEF Runs
<1>7. CASE TakeCoeff(s)
  <2>1. /\ q.at = Min(Ahead(p)) /\ q.busy /\ UNCHANGED <<records, leading, torn, searched>>
        /\ ~p.busy
    BY <1>1, <1>2, <1>7 DEF TakeCoeff, Slots, Processes, workdir
  <2>2. Min(Ahead(p)) \in Ahead(p) /\ \A c \in Ahead(p) : Min(Ahead(p)) <= c
    BY <1>1, <1>2, <1>7, AheadTyped DEF TakeCoeff
  <2>3. q.at \in Nat /\ (p.hi # NULL => q.at <= p.hi)
    BY <1>3, <1>4, <2>1, <2>2 DEF Ahead
  <2>4. ASSUME run.plain, NEW c \in Candidates(run.mult), run.base <= c, c < q.at
        PROVE  Covered(c)
    <3>1. c <= p.at
      <4> SUFFICES ASSUME c > p.at PROVE FALSE
        BY <1>2, <1>4
      <4>1. p.hi # NULL => c <= p.hi
        BY <1>2, <1>4, <2>3, <2>4 DEF Processes
      <4>2. c \in Ahead(p)
        BY <1>3, <4>1 DEF Ahead
      <4> QED BY <1>4, <2>1, <2>2, <2>3, <2>4, <4>2
    <3>2. c < p.at \/ c = p.at
      BY <1>2, <1>4, <3>1
    <3> QED BY <1>5, <2>1, <2>4, <3>2
  <2>5. Held' = Held
    BY <2>1 DEF Held, Readable
  <2> QED BY <1>1, <2>1, <2>4, <2>5 DEF PInv, HeldCovered, OneRange, NothingLost, Behind, Covered
<1>8. CASE Hit(s)
  <2>1. /\ q.at = p.at /\ q.busy = p.busy /\ p.busy /\ searched' = searched
        /\ \/ leading' = leading \cup {p.at} /\ torn' = NULL
           \/ leading' = leading /\ torn' = torn
    BY <1>1, <1>2, <1>8 DEF Hit, Slots, Processes
  <2>2. Held' \subseteq Held \cup {p.at} /\ (p.at \in Held' => p.at \in Held \/ p.at \in leading')
    BY <2>1 DEF Held, Readable
  <2>3. \A c : Covered(c) => Covered(c)'
    BY <2>1 DEF Covered
  <2>4. HeldCovered'
    <3> SUFFICES ASSUME run.plain, NEW h \in Held', NEW c \in Candidates(run.mult),
                        run.base <= c, c <= h
                 PROVE  Covered(c)'
      BY <1>1 DEF HeldCovered
    <3>1. CASE h \in Held
      BY <2>3, <3>1 DEF PInv, HeldCovered
    <3>2. CASE h = p.at /\ p.at \notin Held
      <4>1. c < p.at \/ (c = p.at /\ c \in leading')
        BY <1>2, <1>4, <2>2, <3>2
      <4> QED BY <1>5, <2>3, <4>1 DEF Covered
    <3> QED BY <2>2, <3>1, <3>2
  <2>5. NothingLost'
    BY <1>1, <1>5, <2>1, <2>3 DEF NothingLost, Behind, Covered
  <2> QED BY <1>1, <2>3, <2>4, <2>5 DEF PInv, OneRange
<1>9. CASE FinishCoeff(s)
  <2>1. /\ q.at = p.at /\ searched' = searched \cup {p.at} /\ UNCHANGED <<records, leading, torn>>
    BY <1>1, <1>2, <1>9 DEF FinishCoeff, Slots, Processes
  <2>2. Held' = Held
    BY <2>1 DEF Held, Readable
  <2>3. NothingLost'
    BY <1>1, <1>5, <2>1 DEF NothingLost, Behind, Covered
  <2> QED BY <1>1, <2>1, <2>2, <2>3 DEF PInv, HeldCovered, OneRange, Covered
<1>10. CASE SoftExit(s) \/ HardExit(s)
  <2>1. /\ q.at = p.at /\ q.busy = p.busy /\ UNCHANGED <<leading, searched>>
        /\ torn' = torn \/ (p.busy /\ torn' \in {0, p.at \div 10})
    BY <1>1, <1>2, <1>10 DEF SoftExit, HardExit, Slots, Processes, workdir
  <2>2. NothingLost'
    BY <1>1, <1>5, <2>1 DEF NothingLost, Behind, Covered
  <2>3. HeldCovered'
    <3>1. CASE torn' = torn
      <4>1. Held' = Held
        BY <2>1, <3>1 DEF Held, Readable
      <4> QED BY <1>1, <2>1, <4>1 DEF PInv, HeldCovered, Covered
    <3>2. CASE p.busy /\ torn' \in {0, p.at \div 10}
      <4>1. p.at \in Coeffs
        BY <3>2 DEF LInv, BusyOnCoeff, Slots
      <4>2. p.at \div 10 < p.at /\ p.at \div 10 \in Nat
        BY <4>1 DEF Coeffs
      <4>3. Held' \subseteq leading \cup {p.at \div 10} /\ leading \subseteq Held
        BY <2>1, <3>2 DEF Held, Readable
      <4> SUFFICES ASSUME run.plain, NEW h \in Held', NEW c \in Candidates(run.mult),
                          run.base <= c, c <= h
                   PROVE  Covered(c)
        BY <1>1, <2>1 DEF HeldCovered, Covered
      <4>4. CASE h \in leading
        BY <4>3, <4>4 DEF PInv, HeldCovered
      <4>5. CASE h = p.at \div 10
        <5>1. c < p.at
          BY <1>2, <1>4, <4>2, <4>5
        <5> QED BY <1>5, <5>1
      <4> QED BY <4>3, <4>4, <4>5
    <3> QED BY <2>1, <3>1, <3>2
  <2> QED BY <1>1, <2>1, <2>2, <2>3 DEF PInv, OneRange, Covered
<1> QED
  BY <1>7, <1>8, <1>9, <1>10 DEF MsieveStep

LEMMA StepPInv ==
    ASSUME ~Orphans, LInv, SInv, PInv, [LocalNext]_localVars
    PROVE  PInv'
<1>1. CASE RunStep
  BY <1>1, RunStepPInv
<1>2. CASE \E s \in Slots : MsieveStep(s)
  BY <1>2, MsieveStepPInv
<1>3. CASE MoveAside
  <2>1. /\ msieve'["child"].pc = "none" /\ UNCHANGED run /\ run.pc = "idle"
        /\ leading' = {} /\ torn' = NULL
    BY <1>3 DEF MoveAside, NoProcess, Slots
  <2>2. Held' = {}
    BY <2>1 DEF Held, Readable
  <2> QED BY <2>1, <2>2 DEF PInv, HeldCovered, OneRange, NothingLost
<1>4. CASE UNCHANGED <<workdir, run, msieve>>
  <2>1. Held' = Held
    BY <1>4 DEF workdir, Held, Readable
  <2> QED BY <1>4, <2>1 DEF workdir, PInv, HeldCovered, OneRange, NothingLost, Behind, Covered
<1> QED
  BY <1>1, <1>2, <1>3, <1>4 DEF LocalNext, Advance, localVars

\* Along any chain of plain resumes, interrupts and cut records in between, no candidate
\* that msieve has behind it is left out, as long as no msieve is left behind
\* (README.md:88-96).
THEOREM NothingLostAlways ==
    ASSUME ~Orphans
    PROVE  LocalSpec => []NothingLost
<1>1. LInv /\ SInv /\ PInv /\ [LocalNext]_localVars => PInv'
  BY StepPInv
<1>2. PInv => NothingLost
  BY DEF PInv
<1> QED
  BY <1>1, <1>2, InitPInv, SInvAlways, PTL DEF LocalSpec
=============================================================================
