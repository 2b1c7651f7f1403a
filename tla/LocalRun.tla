------------------------------ MODULE LocalRun ------------------------------
(***************************************************************************)
(* polylocal: one operator, one box, one sequence.  A run of               *)
(* polylocal/__main__.py picks the composite of the sequence, looks at the *)
(* corpus earlier runs left in the workdir, and runs msieve on one range   *)
(* of leading coefficients after the other through                         *)
(* polyclient/msieve_runner.py, until num_polys polynomials are found, the *)
(* operator stops it or there is nothing left.                             *)
(*                                                                         *)
(* msieve is a process of its own session: it goes on when polylocal dies. *)
(* It is external; it is modelled by what polylocal's comments say of it.  *)
(* Optimizing, validating and submitting come after the search and change  *)
(* nothing here.                                                           *)
(***************************************************************************)
EXTENDS CoeffRanges

CONSTANTS
    MaxCoeff,       \* bound: the leading coefficients are 1 .. MaxCoeff
    Smooth,         \* those that msieve finds worth searching
    MsieveMult,     \* the multiplier msieve takes when it is given none
    TableCoeff,     \* min_coeff of the digit table
    MinCoeffs,      \* the values given to --min-coeff
    Mults,          \* the values of high_coeff_mult
    Targets,        \* the values of num_polys, 0 for no limit
    MaxHits,        \* bound: the hits of one search of a coefficient
    Composites,     \* bound: the composites of the sequence are 1 .. Composites
    Orphans         \* whether polylocal may die and leave msieve running

Coeffs == 1 .. MaxCoeff

ASSUME BoundsAssumption ==
    MaxCoeff \in Nat \ {0} /\ MaxHits \in Nat /\ Composites \in Nat \ {0}
ASSUME SmoothAssumption == Smooth \subseteq Coeffs
ASSUME ParamsAssumption ==
    /\ MsieveMult \in Nat \ {0} /\ TableCoeff \in Coeffs /\ MinCoeffs \subseteq Coeffs
    /\ Mults \subseteq Nat /\ Mults # {} /\ Targets \subseteq Nat /\ Targets # {}
    /\ Orphans \in BOOLEAN

VARIABLES
    composite,   \* the composite of the sequence at the tracker
    todo,        \* the composite in worktodo.ini, or NULL
    records,     \* how many whole records msieve.dat.ms has, the corpus
    leading,     \* their leading coefficients
    torn,        \* the number a cut last line of the corpus reads as, 0 when
                 \* it reads as none, NULL when the last line is not cut
    owners,      \* history: the composites whose records the corpus has
    searched,    \* history: the coefficients some msieve finished
    run,         \* the state of polylocal
    msieve       \* the msieve of this run, and one that an earlier run left

workdir == <<todo, records, leading, torn, owners, searched>>
localVars == <<composite, workdir, run, msieve>>

Slots == {"child", "orphan"}

Runs ==
    [pc : {"idle", "planned", "launch", "launched", "waiting", "returned"},
     n : 1 .. Composites, start : Nat, mult : Mults, target : Targets,
     polys : Nat, remaining : Nat, before : Nat, skip : SUBSET Coeffs,
     ranges : SUBSET [lo : Nat \ {0}, hi : Nat \cup {NULL}], interrupted : BOOLEAN,
     \* history: a fresh run, or a resume of a plain one with the same parameters,
     \* and where the first of them began
     plain : BOOLEAN, base : Nat]

Processes ==
    [pc : {"none", "running", "exited"}, n : 1 .. Composites, at : Nat, busy : BOOLEAN,
     hi : Nat \cup {NULL}, mult : Mults, left : Nat \cup {NULL}, hits : 0 .. MaxHits,
     stop : {"no", "soft", "hard"}, ok : BOOLEAN]

NoProcess ==
    [pc |-> "none", n |-> 1, at |-> 0, busy |-> FALSE, hi |-> NULL, mult |-> Min(Mults),
     left |-> NULL, hits |-> 0, stop |-> "no", ok |-> TRUE]

\* No polylocal runs; what the history says of the last run stays.
Over(mult, plain, base) ==
    [pc |-> "idle", n |-> 1, start |-> 0, mult |-> mult, target |-> Min(Targets),
     polys |-> 0, remaining |-> 0, before |-> 0, skip |-> {}, ranges |-> {},
     interrupted |-> FALSE, plain |-> plain, base |-> base]
End(r) == Over(r.mult, r.plain, IF r.plain THEN r.base ELSE 0)

LocalInit ==
    /\ composite = 1 /\ todo = NULL
    /\ records = 0 /\ leading = {} /\ torn = NULL /\ owners = {} /\ searched = {}
    /\ run = Over(Min(Mults), FALSE, 0)
    /\ msieve = [s \in Slots |-> NoProcess]

-----------------------------------------------------------------------------
(***************************************************************************)
(* The corpus.                                                             *)
(***************************************************************************)

\* _scan_corpus: the records found, and their leading coefficients.  A line that
\* was cut within its digits counts as a record of a smaller coefficient.
Readable == torn # NULL /\ torn # 0
Found == IF Readable THEN records + 1 ELSE records
Held == IF Readable THEN leading \cup {torn} ELSE leading

\* The corpus is there and not empty.
Prior == torn # NULL \/ leading # {}

\* _corpus_matches_composite; the faulty form trusts the directory.
MatchesAnything(n) == TRUE
CorpusMatches(n) == todo = n

-----------------------------------------------------------------------------
(***************************************************************************)
(* polylocal.                                                              *)
(***************************************************************************)

\* Where a plain resume begins: after the last coefficient of the corpus, which msieve
\* rounds up to a multiple.  The faulty form does that itself, one multiple too far.
ResumeAtMultiple(mult) == Max(Held) + mult + 1
ResumeStart(mult) == Max(Held) + 1

\* The polynomials that a resume is short of; without the floor of the faulty form a
\* corpus beyond the target asks for a negative number.
ShortOfSigned(target) == target - Found
ShortOf(target) == Max({target - Found, 0})

\* One invocation up to the planned ranges.  A corpus of another composite, one
\* without --resume and one without a readable record are refused, and a corpus that
\* has num_polys records needs no search: nothing changes then.
Plan(min, mult, target, resume) ==
    LET n == composite
        resumed == Prior
        start == IF min # NULL THEN min
                 ELSE IF resumed THEN ResumeStart(mult)
                 ELSE TableCoeff
        polys == IF resumed /\ target > 0 THEN ShortOf(target) ELSE target
        skip == IF resumed THEN Held ELSE {}
        chained == resumed /\ min = NULL /\ mult = run.mult /\ run.plain
    IN  /\ run.pc = "idle"
        /\ Prior => CorpusMatches(n) /\ resume /\ Held # {}
        /\ resumed /\ target > 0 => polys # 0
        /\ run' = [pc |-> "planned", n |-> n, start |-> start, mult |-> mult,
                   target |-> target, polys |-> polys, remaining |-> polys, before |-> 0,
                   skip |-> skip, ranges |-> CoeffRanges(start, mult, skip),
                   interrupted |-> FALSE, plain |-> ~resumed \/ chained,
                   base |-> IF chained THEN run.base ELSE start]
        /\ UNCHANGED <<composite, workdir, msieve>>

\* _run_selection up to its loop: build_workdir writes worktodo.ini, and the records
\* that are there are counted.
BeginSelection ==
    /\ run.pc = "planned"
    /\ todo' = run.n
    /\ run' = [run EXCEPT !.pc = "launch", !.before = Found]
    /\ UNCHANGED <<composite, records, leading, torn, owners, searched, msieve>>

\* msieve is started on the lowest range that is left.
Launch ==
    /\ run.pc = "launch"
    /\ \E r \in run.ranges :
          /\ \A other \in run.ranges : r.lo <= other.lo
          /\ run' = [run EXCEPT !.pc = "launched", !.ranges = @ \ {r}]
          /\ msieve' = [msieve EXCEPT !["child"] =
                [NoProcess EXCEPT
                    !.pc = "running", !.n = todo, !.mult = run.mult,
                    !.at = r.lo - 1, !.hi = r.hi,
                    !.left = IF run.remaining = 0 THEN NULL ELSE run.remaining]]
    /\ UNCHANGED <<composite, workdir>>

\* The handler that relays SIGINT is installed after that.
InstallHandler ==
    /\ run.pc = "launched"
    /\ run' = [run EXCEPT !.pc = "waiting"]
    /\ UNCHANGED <<composite, workdir, msieve>>

\* The wait returns and the old handler is put back; a failed msieve ends the run.
WaitReturns ==
    /\ run.pc = "waiting"
    /\ msieve["child"].pc = "exited"
    /\ run' = IF msieve["child"].ok THEN [run EXCEPT !.pc = "returned"] ELSE End(run)
    /\ msieve' = [msieve EXCEPT !["child"] = NoProcess]
    /\ UNCHANGED <<composite, workdir>>

\* The polynomials still missing after a range; the faulty form forgets that the
\* corpus was not empty before.
MissingOfAll(r) == r.polys - Found
Missing(r) == r.polys - (Found - r.before)

\* Whether the loop ends after a range.  The faulty form lets a Ctrl-C end one
\* range only.
LastOfUninterrupted(r) == r.ranges = {} \/ (r.polys > 0 /\ Missing(r) <= 0)
LastRange(r) == r.interrupted \/ r.ranges = {} \/ (r.polys > 0 /\ Missing(r) <= 0)

NextRange ==
    /\ run.pc = "returned"
    /\ run' = IF LastRange(run) THEN End(run)
              ELSE [run EXCEPT !.pc = "launch",
                               !.remaining = IF run.polys > 0 THEN Missing(run) ELSE @]
    /\ UNCHANGED <<composite, workdir, msieve>>

\* A Ctrl-C during the wait is noted and relayed to msieve, if it still runs.  Its
\* first one stops a CUDA build softly and a CPU build at once, the second any.
RelaySigint ==
    /\ run.pc = "waiting"
    /\ run' = [run EXCEPT !.interrupted = TRUE]
    /\ \/ /\ msieve["child"].pc = "running"
          /\ \E how \in {"soft", "hard"} :
                /\ msieve["child"].stop # "no" => how = "hard"
                /\ msieve' = [msieve EXCEPT !["child"].stop = how]
       \/ /\ msieve["child"].pc = "exited"
          /\ UNCHANGED msieve
    /\ UNCHANGED <<composite, workdir>>

\* polylocal dies: a Ctrl-C while the default handler is installed, another signal, a
\* closed terminal.  A running msieve stays behind.
Die ==
    LET left == msieve["child"].pc = "running"
    IN  /\ run.pc # "idle"
        /\ left => Orphans /\ msieve["orphan"].pc # "running"
        /\ run' = End(run)
        /\ msieve' = [child |-> NoProcess,
                      orphan |-> IF left THEN msieve["child"] ELSE msieve["orphan"]]
        /\ UNCHANGED <<composite, workdir>>

\* The operator moves the workdir aside; what a left msieve writes goes with it.
MoveAside ==
    /\ run.pc = "idle"
    /\ todo # NULL
    /\ todo' = NULL /\ records' = 0 /\ leading' = {} /\ torn' = NULL
    /\ owners' = {} /\ searched' = {}
    /\ msieve' = [s \in Slots |-> NoProcess]
    /\ UNCHANGED <<composite, run>>

\* The sequence has a new composite.
Advance ==
    /\ composite < Composites
    /\ composite' = composite + 1
    /\ UNCHANGED <<workdir, run, msieve>>

-----------------------------------------------------------------------------
(***************************************************************************)
(* msieve.                                                                 *)
(***************************************************************************)

\* The smooth multiples, in ascending order, up to the end of the range.
Candidates(mult) ==
    {c \in Smooth : c % (IF mult = 0 THEN MsieveMult ELSE mult) = 0}
Ahead(p) == {c \in Candidates(p.mult) : c > p.at /\ (p.hi # NULL => c <= p.hi)}

Stopping(p) == p.stop # "no" \/ p.left = 0

TakeCoeff(s) ==
    LET p == msieve[s]
    IN  /\ p.pc = "running" /\ ~p.busy /\ ~Stopping(p) /\ Ahead(p) # {}
        /\ msieve' = [msieve EXCEPT ![s].at = Min(Ahead(p)),
                                    ![s].busy = TRUE, ![s].hits = 0]
        /\ UNCHANGED <<composite, workdir, run>>

\* A hit counts towards num_polys; most are appended to the corpus as a record.  An
\* end that was cut joins with the new record and reads as nothing any more.
Hit(s) ==
    LET p == msieve[s]
    IN  /\ p.pc = "running" /\ p.busy /\ p.hits < MaxHits
        /\ msieve' = [msieve EXCEPT ![s].hits = @ + 1,
                                    ![s].left = IF @ = NULL \/ @ = 0 THEN @ ELSE @ - 1]
        /\ \/ /\ records' = records + 1
              /\ leading' = leading \cup {p.at}
              /\ torn' = NULL
              /\ owners' = owners \cup {p.n}
           \/ UNCHANGED <<records, leading, torn, owners>>
        /\ UNCHANGED <<composite, todo, searched, run>>

FinishCoeff(s) ==
    LET p == msieve[s]
    IN  /\ p.pc = "running" /\ p.busy
        /\ msieve' = [msieve EXCEPT ![s].busy = FALSE]
        /\ searched' = searched \cup {p.at}
        /\ UNCHANGED <<composite, todo, records, leading, torn, owners, run>>

\* The range is searched, the target is met, or a Ctrl-C was relayed: the search
\* ends after the coefficient in flight.
SoftExit(s) ==
    LET p == msieve[s]
    IN  /\ p.pc = "running" /\ ~p.busy /\ (Stopping(p) \/ Ahead(p) = {})
        /\ msieve' = [msieve EXCEPT ![s].pc = "exited", ![s].ok = TRUE]
        /\ UNCHANGED <<composite, workdir, run>>

\* It is stopped hard, or fails: the coefficient in flight is left as it is, and a
\* record may be cut before or within the digits of its leading coefficient (at most
\* two in the bounds used).
HardExit(s) ==
    LET p == msieve[s]
    IN  /\ p.pc = "running"
        /\ \E ok \in BOOLEAN :
              /\ ok => p.stop = "hard"
              /\ msieve' = [msieve EXCEPT ![s].pc = "exited", ![s].ok = ok]
        /\ \/ p.busy /\ torn' \in {0, p.at \div 10} /\ owners' = owners \cup {p.n}
           \/ UNCHANGED <<torn, owners>>
        /\ UNCHANGED <<composite, todo, records, leading, searched, run>>

MsieveStep(s) ==
    \/ TakeCoeff(s)
    \/ Hit(s)
    \/ FinishCoeff(s)
    \/ SoftExit(s)
    \/ HardExit(s)

RunStep ==
    \/ \E min \in MinCoeffs \cup {NULL}, mult \in Mults, target \in Targets,
          resume \in BOOLEAN : Plan(min, mult, target, resume)
    \/ BeginSelection
    \/ Launch
    \/ InstallHandler
    \/ WaitReturns
    \/ NextRange
    \/ RelaySigint
    \/ Die

LocalNext ==
    \/ RunStep
    \/ MoveAside
    \/ Advance
    \/ \E s \in Slots : MsieveStep(s)

LocalSpec == LocalInit /\ [][LocalNext]_localVars

-----------------------------------------------------------------------------
LocalTypeOK ==
    /\ composite \in 1 .. Composites
    /\ todo \in 1 .. Composites \cup {NULL}
    /\ records \in Nat
    /\ leading \subseteq Coeffs
    /\ torn \in 0 .. MaxCoeff \cup {NULL}
    /\ owners \subseteq 1 .. Composites
    /\ searched \subseteq Coeffs
    /\ run \in Runs
    /\ msieve \in [Slots -> Processes]

\* Whatever was searched before and however it was cut short, the planned ranges
\* hold each coefficient that the corpus lacks once and none that it has
\* (__main__.py:277-292).
RangesExact ==
    run.pc = "planned" =>
        RangesAreExact(run.ranges, run.start, run.mult, run.skip, Coeffs)

\* "A coefficient already in the corpus is never revisited" (__main__.py:252-253),
\* whatever runs, resumes, multipliers and interrupts came before: its records are
\* those of one search.
NeverRevisited ==
    [][\A s \in Slots : TakeCoeff(s) => msieve'[s].at \notin leading]_localVars

\* The candidates from a start on that the msieve of this run has behind it.
Behind(start) ==
    LET p == msieve["child"]
    IN  {c \in Candidates(run.mult) : start <= c /\ (c < p.at \/ (c = p.at /\ ~p.busy))}

\* Nothing that a chain of plain resumes has passed is left out: it was finished, or
\* was cut after it had records (README.md:88-96).
NothingLost ==
    run.plain /\ msieve["child"].pc # "none" =>
        \A c \in Behind(run.base) : c \in searched \/ c \in leading

\* The same of a run that goes back to fill the gaps: msieve has searched "across each
\* of `ranges`" (__main__.py:307-309) behind the coefficient in progress.
GapsFilled ==
    msieve["child"].pc # "none" =>
        \A c \in Behind(run.start) : c \in searched \/ c \in leading

\* "--num-polys is still a total across the whole corpus" (README.md:101): each msieve
\* is asked for what the corpus lacks, and none is started when it lacks nothing.
TargetKept ==
    [][run.pc = "launch" /\ run'.pc = "launched" /\ run.target > 0 =>
          /\ Found < run.target
          /\ msieve'["child"].left = run.target - Found]_localVars

\* A Ctrl-C that msieve was told of also stops the ranges that are left
\* (__main__.py:315-318): no other msieve is started by that run.
InterruptIsLast ==
    [][run.interrupted /\ msieve'["child"].pc = "running"
          => msieve["child"].pc = "running"]_localVars

\* The corpus never mixes the polynomials of two composites (__main__.py:233-240).
OneComposite == owners \subseteq {todo}
=============================================================================
