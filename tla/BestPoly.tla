------------------------------- MODULE BestPoly -------------------------------
(***************************************************************************)
(* extract_best_and_count of polylocal/optimize.py: how a file of          *)
(* polynomials and their scores is cut into polynomials, and which one is  *)
(* taken.                                                                  *)
(*                                                                         *)
(* A text is a sequence of lines <<kind, i>>, where i is the number of the *)
(* polynomial of the file the line comes from, which the code cannot see:  *)
(* a comment in the form of msieve or of CADO that gives the Murphy E of   *)
(* polynomial i, a line with its algebraic ("c") or rational ("y") side,   *)
(* an "n" line, written with a blank before the colon or without, or a     *)
(* blank line.  The two sides stand for the keys c<k>, skew, Y0 and Y1.    *)
(* A part of a text is its restriction to some positions.                  *)
(***************************************************************************)
EXTENDS Integers, Sequences, Functions

Sides == {"c", "y"}
NLines == {"n:", "n :"}
Comments == {"msieve", "cado"}

IsComment(line) == line[1] \in Comments
IsBody(line) == line[1] \in Sides \cup NLines
IsNotBlank(line) == line[1] # "blank"

\* The key of a body line.
Key(line) == IF line[1] \in NLines THEN "n" ELSE line[1]

\* The lines from i on, as far as no line is blank and no other start is reached.
Stretch(text, i, starts) ==
    Restrict(text, {j \in i .. Len(text) :
                       \A k \in i + 1 .. j : IsNotBlank(text[k]) /\ k \notin starts})

\* Where a record begins; records are separated by blank lines.
RecordStarts(text) ==
    {i \in DOMAIN text : IsNotBlank(text[i]) /\ (i = 1 \/ ~IsNotBlank(text[i - 1]))}

SeveralPolys(record) ==
    \E i, j \in DOMAIN record :
        /\ i < j /\ IsBody(record[i]) /\ IsBody(record[j])
        /\ Key(record[i]) = Key(record[j])

\* _split_comment_leads: in a record of several polynomials a comment after a body
\* begins the next one.
CommentLeads(record) ==
    {k \in DOMAIN record :
        k - 1 \in DOMAIN record /\ IsComment(record[k]) /\ IsBody(record[k - 1])}

\* Faulty Starts: every record is one polynomial.
StartsOfRecords(text) == RecordStarts(text)

\* _poly_blocks: where a block begins.  A record whose keys are distinct is one
\* polynomial, with its comments, whether they come before the body or after it.
Starts(text) ==
    RecordStarts(text) \cup
        UNION {LET record == Stretch(text, r, {})
               IN  IF SeveralPolys(record) THEN CommentLeads(record) ELSE {}
               : r \in RecordStarts(text)}

Block(lines) ==
    [comments |-> RestrictValues(lines, IsComment), body |-> RestrictValues(lines, IsBody)]

\* _parse_murphy_e of the joined comments: the first in CADO's form, or else the
\* first in msieve's; 0 when there is none.  score[i] is the E of polynomial i.
MurphyE(comments, score) ==
    LET of(form) == {i \in DOMAIN comments : comments[i][1] = form}
        first(S) == CHOOSE i \in S : \A j \in S : i <= j
        taken == IF of("cado") # {} THEN of("cado") ELSE of("msieve")
    IN  IF taken = {} THEN 0 ELSE score[comments[first(taken)][2]]

Complete(body) == \A key \in Sides : \E i \in DOMAIN body : body[i][1] = key

\* The block that extract_best_and_count takes, or none: the first of the highest
\* score among the complete ones, an unscored one only when none has a score.
BestBlock(text, score) ==
    LET starts == Starts(text)
        block == [i \in starts |-> Block(Stretch(text, i, starts))]
        candidates == {i \in starts : Complete(block[i].body)}
        e == [i \in candidates |-> MurphyE(block[i].comments, score)]
        best == {i \in candidates : \A j \in candidates : e[j] <= e[i]}
    IN  IF best = {} THEN <<>>
        ELSE <<block[CHOOSE i \in best : \A j \in best : i <= j]>>

\* scrape_murphy_e of a whole text: the best of any comment line.
Scraped(text, score) ==
    LET values == {score[text[i][2]] : i \in {j \in DOMAIN text : IsComment(text[j])}}
    IN  IF values = {} THEN 0 ELSE CHOOSE v \in values : \A u \in values : u <= v

\* parse_poly: the last line with a key counts; the polynomial a side comes from,
\* 0 when there is no such line.
SideOf(lines, key) ==
    LET at == {i \in DOMAIN lines : lines[i][1] = key}
    IN  IF at = {} THEN 0 ELSE lines[CHOOSE i \in at : \A j \in at : j <= i][2]

NamesN(lines) == \E i \in DOMAIN lines : lines[i][1] \in NLines
=============================================================================
