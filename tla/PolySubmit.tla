------------------------------ MODULE PolySubmit ------------------------------
(***************************************************************************)
(* The last part of a run of polylocal (polylocal/__main__.py): a          *)
(* polynomial is taken from a file the operator supplies or from the       *)
(* output of nfs_optimize.sh, validated against the composite that was     *)
(* fetched when the run began, and posted to the tracker.                  *)
(*                                                                         *)
(* The tracker is external: its sequence may advance to another composite  *)
(* at any time, also while the optimizer runs for hours.  It answers a     *)
(* polynomial for another n than its composite's with 400 and "does not    *)
(* match".  So are nfs_optimize.sh and the operator: the file may hold     *)
(* several polynomials in any layout, some incomplete, and be left from    *)
(* an earlier composite.                                                   *)
(***************************************************************************)
EXTENDS BestPoly, SequencesExt

CONSTANTS
    Composites,   \* bound: the composites of the sequence are 1 .. Composites
    MaxPolys,     \* bound: the polynomials of a file
    Scores        \* the Murphy E values

ASSUME SubmitAssumption ==
    /\ Composites \in Nat \ {0} /\ MaxPolys \in Nat
    /\ Scores \subseteq Nat \ {0} /\ Scores # {}

VARIABLES
    current,      \* the composite of the sequence at the tracker
    run           \* the state of polylocal

submitVars == <<current, run>>

\* How a polynomial of a file is laid out: its score before it, after it, not
\* given, or before it and a blank line within it; what is missing of it; and
\* whether a blank line follows.
Layouts == {"lead", "trail", "bare", "broken"}
Polys == [score : Scores, layout : Layouts, lacks : Sides \cup {"nothing"}, blank : BOOLEAN]

\* A file is about one composite, which it may name in n lines.
Files ==
    [polys : UNION {[1 .. k -> Polys] : k \in 0 .. MaxPolys},
     of : 1 .. Composites, n : NLines \cup {"none"}]

NoFile == [polys |-> <<>>, of |-> 1, n |-> "none"]

If(condition, line) == IF condition THEN <<line>> ELSE <<>>

LinesOf(file, i) ==
    LET p == file.polys[i]
    IN  If(p.layout \in {"lead", "broken"}, <<"msieve", i>>)
        \o If(file.n # "none", <<file.n, i>>)
        \o If(p.lacks # "c", <<"c", i>>)
        \o If(p.layout = "broken", <<"blank", i>>)
        \o If(p.lacks # "y", <<"y", i>>)
        \o If(p.layout = "trail", <<"cado", i>>)
        \o If(p.blank, <<"blank", i>>)

TextOf(file) == FlattenSeq([i \in DOMAIN file.polys |-> LinesOf(file, i)])
ScoreOf(file) == [i \in DOMAIN file.polys |-> file.polys[i].score]

Outcomes == {"none", "nothing", "nopoly", "invalid", "checked", "stored", "stale", "rejected"}

\* n: the composite fetched; poly, murphy: what was taken, the lines of its text
\* (an n line with the fetched composite comes first unless they name one) and
\* its score, 0 for none.
NewRun == [pc |-> "idle", n |-> 1, file |-> NoFile, poly |-> <<>>, murphy |-> 0,
           outcome |-> "none"]

SubmitInit ==
    /\ current = 1
    /\ run = NewRun

-----------------------------------------------------------------------------
End(outcome) == run' = [run EXCEPT !.pc = "over", !.outcome = outcome]

\* The candidates are fetched.  The one that is picked gives the composite used
\* from here on; without one that matches and can be run, polylocal ends.
Fetch ==
    /\ run.pc = "idle"
    /\ \/ run' = [run EXCEPT !.pc = "picked", !.n = current]
       \/ End("nothing")
    /\ UNCHANGED current

Advance ==
    /\ current < Composites
    /\ current' = current + 1
    /\ UNCHANGED run

\* Only an "n:" without a blank before the colon is dropped from the body.
KeptLine(line) == line[1] # "n:"

Take(file, poly, murphy) ==
    run' = [run EXCEPT !.pc = "taken", !.file = file, !.poly = poly, !.murphy = murphy]

\* The polynomial is taken from a file.  Without a complete block, a supplied file
\* is taken as it is (_prepare_supplied), and the output of the optimizer is an
\* error.
TakeFrom(file, supplied) ==
    LET text == TextOf(file)
        best == BestBlock(text, ScoreOf(file))
    IN  /\ \/ /\ best # <<>>
              /\ Take(file, RestrictValues(best[1].body, KeptLine),
                      MurphyE(best[1].comments, ScoreOf(file)))
           \/ /\ best = <<>> /\ supplied
              /\ Take(file, text, Scraped(text, ScoreOf(file)))
           \/ best = <<>> /\ ~supplied /\ End("nopoly")
        /\ UNCHANGED current

TakePoly ==
    /\ run.pc = "picked"
    /\ \E file \in Files, supplied \in BOOLEAN : TakeFrom(file, supplied)

\* The composite that the n line which counts names.
NOf(poly) == IF NamesN(poly) THEN run.file.of ELSE run.n

\* Two faulty validations: the n line is not looked at; nothing is.
ValidSides(poly) == SideOf(poly, "c") # 0 /\ SideOf(poly, "c") = SideOf(poly, "y")

\* validate_poly: n is the composite fetched, and the two sides share a root mod
\* n, which those of one polynomial for this composite do.
Valid(poly) ==
    /\ NOf(poly) = run.n
    /\ run.file.of = run.n
    /\ SideOf(poly, "c") # 0
    /\ SideOf(poly, "c") = SideOf(poly, "y")

Validate ==
    /\ run.pc = "taken"
    /\ IF Valid(run.poly) THEN run' = [run EXCEPT !.pc = "valid"] ELSE End("invalid")
    /\ UNCHANGED current

\* --dry-run, or no --submit.
DoNotSubmit ==
    /\ run.pc = "valid"
    /\ End("checked")
    /\ UNCHANGED current

\* The tracker's answers to a polynomial that names n: it stores it, finds that n
\* is not the composite of the sequence, or rejects the request for another reason
\* (credentials, a failure of its own).
Replies(n) == {IF n = current THEN "ok" ELSE "no match", "other"}

Post ==
    /\ run.pc = "valid"
    /\ \E reply \in Replies(NOf(run.poly)) :
          End(CASE reply = "ok" -> "stored"
                [] reply = "no match" -> "stale"
                [] reply = "other" -> "rejected")
    /\ UNCHANGED current

RunStep ==
    \/ Fetch
    \/ TakePoly
    \/ Validate
    \/ DoNotSubmit
    \/ Post

SubmitNext ==
    \/ RunStep
    \/ Advance

SubmitSpec == SubmitInit /\ [][SubmitNext]_submitVars

-----------------------------------------------------------------------------
\* The layouts that the two programs write: a blank line after each polynomial
\* but the last and none within it, or a score before each complete one.
Separated(file) ==
    \A i \in DOMAIN file.polys :
        /\ file.polys[i].layout # "broken"
        /\ file.polys[i].blank \/ i = Len(file.polys)
LedByScores(file) ==
    \A i \in DOMAIN file.polys :
        file.polys[i].layout = "lead" /\ file.polys[i].lacks = "nothing"

GivenScore(p) == IF p.layout = "bare" THEN 0 ELSE p.score

\* What is posted is the best complete polynomial of the file with the score the
\* file gives for it, whichever program wrote the file, and not the score of its
\* neighbour (optimize.py:76-94, 119-131).
BestChosen ==
    run.outcome \in {"stored", "stale"}
        /\ (Separated(run.file) \/ LedByScores(run.file)) =>
            LET p == run.file.polys[SideOf(run.poly, "c")]
            IN  /\ p.lacks = "nothing"
                /\ run.murphy = GivenScore(p)
                /\ \A i \in DOMAIN run.file.polys :
                      run.file.polys[i].lacks = "nothing" =>
                          GivenScore(run.file.polys[i]) <= run.murphy

\* When polylocal tells the operator that the sequence advanced and gives the
\* work up, it did advance: a polynomial that names another n, or one left from
\* an earlier composite, is stopped before it is posted (__main__.py:451-471).
StaleOnlyIfAdvanced == run.outcome = "stale" => current # run.n
=============================================================================
