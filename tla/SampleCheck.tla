----------------------------- MODULE SampleCheck -----------------------------
(***************************************************************************)
(* sample_check of polyserver/verify.py: the decompressed upload is read   *)
(* in chunks of whatever size the decompressor yields, cut into records at *)
(* blank lines, and the first records are compared with the coefficient of *)
(* the workunit.  Reading stops after k records or after _MAX_SCAN bytes,  *)
(* and what no blank line ends is never looked at.                         *)
(*                                                                         *)
(* A token stands for a run of bytes: a newline, a text that starts with   *)
(* "c<degree>:" and gives the right or another coefficient, or other text. *)
(***************************************************************************)
EXTENDS Integers, Sequences, FiniteSets

CONSTANTS
    MaxStream,   \* the length of the longest upload (a bound)
    ChunkSize,   \* the longest chunk (1 << 16 in the code)
    MaxScan,     \* _MAX_SCAN
    K            \* k, the number of records that are compared

ASSUME SampleAssumption ==
    /\ MaxStream \in Nat /\ MaxScan \in Nat
    /\ ChunkSize \in Nat \ {0} /\ K \in Nat \ {0}

VARIABLES
    stream,      \* what the upload decompresses to
    scanned,     \* how much of it was read
    buf,         \* what was read and not cut off yet
    records,     \* the records found
    verdict      \* "reading", then "accepted" or "rejected"

sampleVars == <<stream, scanned, buf, records, verdict>>

Tokens == {"nl", "own", "other", "text"}
Streams == UNION {[1 .. n -> Tokens] : n \in 0 .. MaxStream}

SampleInit ==
    /\ stream \in Streams
    /\ scanned = 0
    /\ buf = <<>>
    /\ records = <<>>
    /\ verdict = "reading"

-----------------------------------------------------------------------------
\* The places where a blank line ends a record.
Breaks(s) == {i \in 1 .. Len(s) - 1 : s[i] = "nl" /\ s[i + 1] = "nl"}
FirstBreak(s) == CHOOSE i \in Breaks(s) : \A j \in Breaks(s) : i <= j

NotBlank(rec) == \E i \in DOMAIN rec : rec[i] # "nl"

\* Whether rec.strip() leaves something; the faulty form keeps an empty record.
KeepsAny(rec) == TRUE
Keeps(rec) == NotBlank(rec)

\* The lines that start with "c<degree>:".
Leads(rec) == {i \in DOMAIN rec : rec[i] \in {"own", "other"} /\ (i = 1 \/ rec[i - 1] = "nl")}

\* _leading_coeff finds a line, and the first one has the coefficient and nothing else.
Good(rec) ==
    \E i \in Leads(rec) :
        /\ \A j \in Leads(rec) : i <= j
        /\ rec[i] = "own" /\ (i = Len(rec) \/ rec[i + 1] = "nl")

MoreWanted == Len(records) < K
CanCut == MoreWanted /\ Breaks(buf) # {}

\* Faulty ReadChunk: what is left of the chunk before is dropped.
ReadChunkAnew(n) ==
    /\ verdict = "reading" /\ ~CanCut
    /\ MoreWanted /\ scanned < MaxScan
    /\ scanned + n <= Len(stream)
    /\ scanned' = scanned + n
    /\ buf' = SubSeq(stream, scanned + 1, scanned + n)
    /\ UNCHANGED <<stream, records, verdict>>

\* The next chunk, of any size up to the largest, is appended to the rest.
ReadChunk(n) ==
    /\ verdict = "reading" /\ ~CanCut
    /\ MoreWanted /\ scanned < MaxScan
    /\ scanned + n <= Len(stream)
    /\ scanned' = scanned + n
    /\ buf' = buf \o SubSeq(stream, scanned + 1, scanned + n)
    /\ UNCHANGED <<stream, records, verdict>>

\* The text up to the first blank line is cut off, and kept unless it is blank.
CutRecord ==
    LET i == FirstBreak(buf)
        rec == SubSeq(buf, 1, i - 1)
    IN  /\ verdict = "reading" /\ CanCut
        /\ buf' = SubSeq(buf, i + 2, Len(buf))
        /\ records' = IF Keeps(rec) THEN Append(records, rec) ELSE records
        /\ UNCHANGED <<stream, scanned, verdict>>

\* An upload that is empty is accepted; one without a record is not.
Passes ==
    \/ scanned = 0
    \/ records # <<>> /\ \A i \in DOMAIN records : Good(records[i])

Judge ==
    /\ verdict = "reading" /\ ~CanCut
    /\ ~MoreWanted \/ scanned >= MaxScan \/ scanned = Len(stream)
    /\ verdict' = IF Passes THEN "accepted" ELSE "rejected"
    /\ UNCHANGED <<stream, scanned, buf, records>>

SampleNext ==
    \/ \E n \in 1 .. ChunkSize : ReadChunk(n)
    \/ CutRecord
    \/ Judge

SampleSpec == SampleInit /\ [][SampleNext]_sampleVars

-----------------------------------------------------------------------------
\* Besides the types: no more is read than the limit and a chunk, and no more
\* records are kept than are compared.
SampleTypeOK ==
    /\ stream \in Seq(Tokens)
    /\ scanned \in 0 .. Len(stream) /\ scanned < MaxScan + ChunkSize
    /\ buf \in Seq(Tokens)
    /\ records \in Seq(Seq(Tokens)) /\ Len(records) <= K
    /\ verdict \in {"reading", "accepted", "rejected"}

\* The paragraphs of a text, read as a whole: a paragraph is what lies between
\* two breaks, where a break is two newlines and each newline belongs to one
\* break, counted from where the newlines begin.  Ends(s) has the places where
\* the breaks start.
BeginsRun(s, j, i) ==
    /\ \A k \in j .. i : s[k] = "nl"
    /\ j = 1 \/ s[j - 1] # "nl"
Ends(s) == {i \in Breaks(s) : \E j \in 1 .. i : BeginsRun(s, j, i) /\ (i - j) % 2 = 0}

ParagraphBefore(s, i) ==
    LET before == {j + 2 : j \in {e \in Ends(s) : e < i}} \cup {1}
        start == CHOOSE j \in before : \A k \in before : k <= j
    IN  SubSeq(s, start, i - 1)

RecordEnds(s) == {i \in Ends(s) : NotBlank(ParagraphBefore(s, i))}
Before(S, i) == {j \in S : j < i}

\* The records of the upload that the check is there to look at: the first K
\* that a blank line ends within the first MaxScan of it.
Sampled ==
    {i \in RecordEnds(stream) :
        i + 1 <= MaxScan /\ Cardinality(Before(RecordEnds(stream), i)) < K}

\* A wrong record among the first K is caught, however the chunks fall: in the
\* middle of a record, of a line, or between the two newlines that end it
\* (verify.py:35-44).
BadRecordCaught ==
    verdict = "accepted" => \A i \in Sampled : Good(ParagraphBefore(stream, i))

\* An honest upload is not refused, and so no attempt charged for it: every
\* record right, and the first one ended before reading stops (verify.py:46-57).
HonestAccepted ==
    verdict = "rejected" =>
        \/ Sampled = {}
        \/ \E i \in RecordEnds(stream) : ~Good(ParagraphBefore(stream, i))
=============================================================================
