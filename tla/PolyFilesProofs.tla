-------------------------- MODULE PolyFilesProofs --------------------------
(***************************************************************************)
(* What SampleCheck guarantees for streams of any length and chunks of any *)
(* size, and PolySubmit for files of any number of polynomials, any scores *)
(* and any number of composites.                                           *)
(***************************************************************************)
EXTENDS SampleCheck, PolySubmit, FiniteSetTheorems, WellFoundedInduction, TLAPS

-----------------------------------------------------------------------------
(***************************************************************************)
(* Induction, in the form of a least element.                              *)
(***************************************************************************)

\* Each set of naturals that is not empty has a least element.
LEMMA LeastOfNaturals ==
    ASSUME NEW S \in SUBSET Nat, S # {}
    PROVE  \E x \in S : \A y \in S : x <= y
<1> DEFINE R == OpToRel(<, Nat)
<1>1. IsWellFoundedOn(R, Nat)
  BY NatLessThanWellFounded
<1>2. \A x, y \in Nat : <<x, y>> \in R <=> x < y
  BY DEF OpToRel
<1> HIDE DEF R
<1>3. PICK x \in S : \A y \in S : <<y, x>> \notin R
  BY <1>1, WFMin
<1>4. \A y \in S : ~(y < x)
  BY <1>2, <1>3, Zenon
<1> QED BY <1>4

\* A set that has 1 and with each number the next has all of 1 .. n.
LEMMA InductionTo ==
    ASSUME NEW n \in Nat, NEW S, 1 \in S,
           \A k \in 1 .. n - 1 : k \in S => k + 1 \in S
    PROVE  1 .. n \subseteq S
<1> SUFFICES ASSUME (1 .. n) \ S # {} PROVE FALSE
  OBVIOUS
<1>1. (1 .. n) \ S \in SUBSET Nat
  OBVIOUS
<1>2. PICK x \in (1 .. n) \ S : \A y \in (1 .. n) \ S : x <= y
  BY <1>1, LeastOfNaturals, Zenon
<1>3. x # 1 /\ x - 1 \in 1 .. n - 1
  BY <1>2
<1>4. x - 1 \in S
  BY <1>2, <1>3
<1> QED BY <1>2, <1>3, <1>4

-----------------------------------------------------------------------------
(***************************************************************************)
(* The sample check: what was cut off, and where.                          *)
(***************************************************************************)

\* FirstBreak is the least break.
LEMMA FirstBreakLeast ==
    ASSUME NEW s \in Seq(Tokens), Breaks(s) # {}
    PROVE  /\ FirstBreak(s) \in Breaks(s)
           /\ FirstBreak(s) \in 1 .. Len(s) - 1
           /\ \A j \in Breaks(s) : FirstBreak(s) <= j
<1>1. Breaks(s) \subseteq 1 .. Len(s) - 1
  BY DEF Breaks
<1>2. Breaks(s) \in SUBSET Nat
  BY <1>1
<1>3. \E i \in Breaks(s) : \A j \in Breaks(s) : i <= j
  BY <1>2, LeastOfNaturals
<1> QED BY <1>1, <1>3 DEF FirstBreak

\* How much of the stream was cut off.
Cut == scanned - Len(buf)

\* What was not cut off is the stream after it, and the cut is behind a break.
BufferBehindCut ==
    /\ Cut \in Nat
    /\ \A i \in DOMAIN buf : buf[i] = stream[Cut + i]
    /\ Cut = 0 \/ Cut - 1 \in Ends(stream)

CutEnds == Before(RecordEnds(stream), Cut)

\* The records are the paragraphs that were cut off, without the blank ones.
RecordsAreCut ==
    /\ Len(records) = Cardinality(CutEnds)
    /\ \A i \in CutEnds : \E r \in DOMAIN records : records[r] = ParagraphBefore(stream, i)
    /\ \A r \in DOMAIN records : \E i \in CutEnds : records[r] = ParagraphBefore(stream, i)

Stops == ~CanCut /\ (~MoreWanted \/ scanned >= MaxScan \/ scanned = Len(stream))

VerdictGiven ==
    verdict # "reading" => Stops /\ (verdict = "accepted" <=> Passes)

SampleInv == SampleTypeOK /\ BufferBehindCut /\ RecordsAreCut /\ VerdictGiven

LEMMA EndsBounded ==
    ASSUME NEW s \in Seq(Tokens)
    PROVE  Ends(s) \subseteq 1 .. Len(s) - 1 /\ RecordEnds(s) \subseteq Ends(s)
BY DEF Ends, Breaks, RecordEnds

LEMMA EndsFinite ==
    ASSUME NEW s \in Seq(Tokens), NEW T \in SUBSET RecordEnds(s)
    PROVE  IsFiniteSet(T) /\ Cardinality(T) \in Nat
<1>1. IsFiniteSet(1 .. Len(s) - 1)
  BY FS_Interval
<1>2. T \in SUBSET (1 .. Len(s) - 1)
  BY EndsBounded
<1> QED BY <1>1, <1>2, FS_Subset, FS_CardinalityType

\* Two breaks do not share a newline.
LEMMA EndsApart ==
    ASSUME NEW s \in Seq(Tokens), NEW e \in Ends(s)
    PROVE  e + 1 \notin Ends(s)
<1> SUFFICES ASSUME e + 1 \in Ends(s) PROVE FALSE
  OBVIOUS
<1>1. e \in 1 .. Len(s) - 1
  BY EndsBounded
<1>2. PICK j \in 1 .. e : BeginsRun(s, j, e) /\ (e - j) % 2 = 0
  BY DEF Ends
<1> DEFINE g == e + 1
<1> HIDE DEF g
<1>0. g \in Ends(s)
  BY DEF g
<1>3. PICK k \in 1 .. g : BeginsRun(s, k, g) /\ (g - k) % 2 = 0
  BY <1>0 DEF Ends
<1>4. j = k
  <2>1. ~(j < k)
    <3> SUFFICES ASSUME j < k PROVE FALSE
      OBVIOUS
    <3>1. k - 1 \in j .. e /\ k # 1
      BY <1>1 DEF g
    <3> QED BY <1>2, <1>3, <3>1 DEF BeginsRun
  <2>2. ~(k < j)
    <3> SUFFICES ASSUME k < j PROVE FALSE
      OBVIOUS
    <3>1. j - 1 \in k .. g /\ j # 1
      BY <1>1 DEF g
    <3> QED BY <1>2, <1>3, <3>1 DEF BeginsRun
  <2> QED BY <1>1, <2>1, <2>2 DEF g
<1> DEFINE x == e - j
<1>5. x \in Nat /\ x % 2 = 0 /\ (x + 1) % 2 = 0
  <2>1. g - k = x + 1 /\ x \in Nat
    BY <1>1, <1>4 DEF g
  <2> QED BY <1>2, <1>3, <2>1
<1> HIDE DEF x
<1> QED BY <1>5

\* The first break behind the cut is where the next paragraph ends.
LEMMA NextEnd ==
    ASSUME SampleTypeOK, BufferBehindCut, Breaks(buf) # {}
    PROVE  LET e == Cut + FirstBreak(buf)
           IN  /\ e \in Ends(stream) /\ e > Cut /\ e + 1 <= scanned
               /\ \A f \in Ends(stream) : f < e => f < Cut
<1> DEFINE i == FirstBreak(buf)
           e == Cut + i
<1>1. /\ stream \in Seq(Tokens) /\ buf \in Seq(Tokens) /\ Cut \in Nat /\ scanned \in Nat
      /\ scanned <= Len(stream) /\ Cut + Len(buf) = scanned
  BY DEF SampleTypeOK, BufferBehindCut, Cut
<1>2. i \in Breaks(buf) /\ i \in 1 .. Len(buf) - 1 /\ \A j \in Breaks(buf) : i <= j
  BY <1>1, FirstBreakLeast
<1>3. e \in Nat /\ e > Cut /\ e + 1 <= scanned /\ e \in 1 .. Len(stream) - 1
  BY <1>1, <1>2
<1>4. \A x \in 1 .. Len(buf) : buf[x] = stream[Cut + x]
  BY <1>1 DEF BufferBehindCut
<1>5. stream[e] = "nl" /\ stream[e + 1] = "nl"
  <2>1. buf[i] = "nl" /\ buf[i + 1] = "nl"
    BY <1>2 DEF Breaks
  <2>2. i \in 1 .. Len(buf) /\ i + 1 \in 1 .. Len(buf) /\ Cut + (i + 1) = e + 1
    BY <1>1, <1>2
  <2> QED BY <1>4, <2>1, <2>2
<1> HIDE DEF i, e
<1>6. e \in Breaks(stream)
  BY <1>1, <1>3, <1>5 DEF Breaks
<1>7. ASSUME NEW f \in Breaks(stream), Cut < f, f < e PROVE FALSE
  <2>1. f \in 1 .. Len(stream) - 1 /\ stream[f] = "nl" /\ stream[f + 1] = "nl"
    BY <1>7 DEF Breaks
  <2>2. f - Cut \in 1 .. Len(buf) - 1 /\ f - Cut < i
    BY <1>1, <1>2, <1>3, <1>7, <2>1 DEF e
  <2>3. f - Cut \in 1 .. Len(buf) /\ f - Cut + 1 \in 1 .. Len(buf)
    BY <1>1, <2>2
  <2>4. Cut + (f - Cut) = f /\ Cut + (f - Cut + 1) = f + 1
    BY <1>1, <2>1
  <2>5. buf[f - Cut] = "nl" /\ buf[f - Cut + 1] = "nl"
    BY <1>4, <2>1, <2>3, <2>4
  <2>6. f - Cut \in Breaks(buf)
    BY <2>2, <2>5 DEF Breaks
  <2> QED BY <1>2, <2>2, <2>6
<1>8. Cut \notin Ends(stream)
  <2>1. CASE Cut = 0
    BY <1>1, <2>1, EndsBounded
  <2>2. CASE Cut - 1 \in Ends(stream)
    <3>1. (Cut - 1) + 1 \notin Ends(stream)
      BY <1>1, <2>2, EndsApart
    <3> QED BY <1>1, <3>1
  <2> QED BY <2>1, <2>2 DEF BufferBehindCut
<1>9. \A f \in Ends(stream) : f < e => f < Cut
  <2> SUFFICES ASSUME NEW f \in Ends(stream), f < e PROVE f < Cut
    OBVIOUS
  <2>1. f \in Breaks(stream) /\ f \in Nat /\ f # Cut
    BY <1>1, <1>8, EndsBounded DEF Ends
  <2> QED BY <1>1, <1>3, <1>7, <2>1
<1>10. e \in Ends(stream)
  <2>1. CASE i = 1 /\ Cut # 0
    <3>1. Cut - 1 \in Ends(stream) /\ e = Cut + 1
      BY <1>1, <2>1 DEF BufferBehindCut, e
    <3>2. Cut - 1 \in 1 .. Len(stream) - 1 /\ stream[Cut - 1] = "nl" /\ stream[Cut - 1 + 1] = "nl"
      BY <3>1 DEF Ends, Breaks
    <3>3. PICK j \in 1 .. Cut - 1 : BeginsRun(stream, j, Cut - 1) /\ (Cut - 1 - j) % 2 = 0
      BY <3>1 DEF Ends
    <3>4. \A k \in j .. e : k \in j .. Cut - 1 \/ k = Cut - 1 + 1 \/ k = e
      BY <1>1, <3>1
    <3>5. BeginsRun(stream, j, e)
      BY <1>5, <3>2, <3>3, <3>4 DEF BeginsRun
    <3>6. (e - j) % 2 = 0 /\ j \in 1 .. e
      BY <1>1, <3>1, <3>3
    <3> QED BY <1>6, <3>5, <3>6 DEF Ends
  <2>2. CASE ~(i = 1 /\ Cut # 0)
    <3>1. e = 1 \/ stream[e - 1] # "nl"
      <4> SUFFICES ASSUME e # 1, stream[e - 1] = "nl" PROVE FALSE
        OBVIOUS
      <4>1. i # 1 /\ e - 1 > Cut /\ e - 1 \in 1 .. Len(stream) - 1
        BY <1>1, <1>2, <1>3, <2>2 DEF e
      <4>2. e - 1 \in Breaks(stream)
        BY <1>1, <1>3, <1>5, <4>1 DEF Breaks
      <4> QED BY <1>3, <1>7, <4>1, <4>2
    <3>2. \A k \in e .. e : k = e
      BY <1>3
    <3>3. BeginsRun(stream, e, e) /\ e \in 1 .. e /\ (e - e) % 2 = 0
      BY <1>3, <1>5, <3>1, <3>2 DEF BeginsRun
    <3> QED BY <1>6, <3>3 DEF Ends
  <2> QED BY <2>1, <2>2
<1> QED BY <1>3, <1>9, <1>10 DEF e, i

\* The text that the code cuts off is the next paragraph of the whole.
LEMMA NextParagraph ==
    ASSUME SampleTypeOK, BufferBehindCut, Breaks(buf) # {}
    PROVE  SubSeq(buf, 1, FirstBreak(buf) - 1) = ParagraphBefore(stream, Cut + FirstBreak(buf))
<1> DEFINE i == FirstBreak(buf)
           e == Cut + i
           before == {j + 2 : j \in {f \in Ends(stream) : f < e}} \cup {1}
           start == CHOOSE j \in before : \A k \in before : k <= j
<1>1. /\ stream \in Seq(Tokens) /\ buf \in Seq(Tokens) /\ Cut \in Nat /\ scanned \in Nat
      /\ scanned <= Len(stream) /\ Cut + Len(buf) = scanned
  BY DEF SampleTypeOK, BufferBehindCut, Cut
<1>2. i \in 1 .. Len(buf) - 1
  BY <1>1, FirstBreakLeast
<1>3. \A f \in Ends(stream) : f < e => f < Cut
  BY NextEnd
<1>4. e \in Nat /\ e > Cut /\ e <= Len(stream)
  BY <1>1, <1>2
<1>5. Ends(stream) \subseteq Nat
  BY <1>1, EndsBounded
<1> HIDE DEF i, e
<1>6. \A k \in before : k \in Nat /\ k <= Cut + 1
  BY <1>1, <1>3, <1>5
<1>7. Cut + 1 \in before
  <2>1. CASE Cut = 0
    BY <2>1
  <2>2. CASE Cut - 1 \in Ends(stream)
    <3>1. Cut - 1 < e /\ (Cut - 1) + 2 = Cut + 1
      BY <1>1, <1>4
    <3> QED BY <2>2, <3>1
  <2> QED BY <2>1, <2>2 DEF BufferBehindCut
<1> HIDE DEF before
<1>8. start = Cut + 1
  <2>1. start \in before /\ \A k \in before : k <= start
    BY <1>6, <1>7
  <2>2. start <= Cut + 1 /\ Cut + 1 <= start /\ start \in Nat
    BY <1>6, <1>7, <2>1
  <2> QED BY <1>1, <2>2
<1>9. ParagraphBefore(stream, e) = SubSeq(stream, Cut + 1, e - 1)
  <2>1. ParagraphBefore(stream, e) = SubSeq(stream, start, e - 1)
    BY DEF ParagraphBefore, before
  <2> QED BY <1>8, <2>1
<1>10. SubSeq(buf, 1, i - 1) = SubSeq(stream, Cut + 1, e - 1)
  <2> DEFINE a == SubSeq(buf, 1, i - 1)
             b == SubSeq(stream, Cut + 1, e - 1)
  <2>1. a \in Seq(Tokens) /\ Len(a) = i - 1 /\ \A x \in 1 .. i - 1 : a[x] = buf[x]
    BY <1>1, <1>2
  <2>2. b \in Seq(Tokens) /\ Len(b) = i - 1 /\ \A x \in 1 .. i - 1 : b[x] = stream[Cut + x]
    BY <1>1, <1>2, <1>4 DEF e
  <2>3. \A x \in 1 .. i - 1 : buf[x] = stream[Cut + x]
    BY <1>1, <1>2 DEF BufferBehindCut
  <2> HIDE DEF a, b
  <2>4. a = b
    BY <2>1, <2>2, <2>3
  <2> QED BY <2>4 DEF a, b
<1> QED BY <1>9, <1>10 DEF e, i

\* The steps keep the invariant.
LEMMA ReadChunkKeeps ==
    ASSUME SampleInv, NEW n \in 1 .. ChunkSize, ReadChunk(n)
    PROVE  SampleInv'
<1> DEFINE piece == SubSeq(stream, scanned + 1, scanned + n)
<1>1. /\ scanned' = scanned + n /\ buf' = buf \o piece /\ scanned + n <= Len(stream)
      /\ scanned < MaxScan /\ verdict = "reading"
      /\ stream' = stream /\ records' = records /\ verdict' = verdict
  BY DEF ReadChunk
<1>2. /\ stream \in Seq(Tokens) /\ buf \in Seq(Tokens) /\ scanned \in Nat /\ n \in Nat
      /\ Cut \in Nat /\ Cut + Len(buf) = scanned
  BY DEF SampleInv, SampleTypeOK, BufferBehindCut, Cut
<1>3. piece \in Seq(Tokens) /\ Len(piece) = n /\ \A x \in 1 .. n : piece[x] = stream[scanned + x]
  BY <1>1, <1>2
<1> HIDE DEF piece
<1>4. /\ buf' \in Seq(Tokens) /\ Len(buf') = Len(buf) + n
      /\ \A x \in 1 .. Len(buf) + n :
            buf'[x] = IF x <= Len(buf) THEN buf[x] ELSE piece[x - Len(buf)]
  <2>1. ASSUME NEW s \in Seq(Tokens), NEW t \in Seq(Tokens)
        PROVE  /\ s \o t \in Seq(Tokens) /\ Len(s \o t) = Len(s) + Len(t)
               /\ \A x \in 1 .. Len(s) + Len(t) :
                     (s \o t)[x] = IF x <= Len(s) THEN s[x] ELSE t[x - Len(s)]
    OBVIOUS
  <2> QED BY <1>1, <1>2, <1>3, <2>1
<1>5. SampleTypeOK'
  BY <1>1, <1>2, <1>4, SampleAssumption DEF SampleInv, SampleTypeOK
<1>6. Cut' = Cut
  BY <1>1, <1>2, <1>4 DEF Cut
<1>7. BufferBehindCut'
  <2>1. ASSUME NEW x \in 1 .. Len(buf) + n PROVE buf'[x] = stream[Cut + x]
    <3>1. CASE x <= Len(buf)
      <4>1. x \in 1 .. Len(buf) /\ x \in DOMAIN buf
        BY <1>2, <3>1
      <4>2. buf'[x] = buf[x]
        BY <1>4, <3>1
      <4> QED BY <4>1, <4>2 DEF SampleInv, BufferBehindCut
    <3>2. CASE x > Len(buf)
      <4>1. x - Len(buf) \in 1 .. n /\ scanned + (x - Len(buf)) = Cut + x
        BY <1>2, <3>2
      <4>2. buf'[x] = piece[x - Len(buf)]
        BY <1>2, <1>4, <3>2
      <4> QED BY <1>3, <4>1, <4>2
    <3> QED BY <1>2, <3>1, <3>2
  <2>2. DOMAIN buf' = 1 .. Len(buf) + n
    BY <1>4
  <2> QED BY <1>1, <1>6, <2>1, <2>2 DEF SampleInv, BufferBehindCut
<1>8. RecordsAreCut'
  BY <1>1, <1>6 DEF SampleInv, RecordsAreCut, CutEnds
<1>9. VerdictGiven'
  BY <1>1 DEF VerdictGiven
<1> QED BY <1>5, <1>7, <1>8, <1>9 DEF SampleInv

LEMMA CutRecordKeeps ==
    ASSUME SampleInv, CutRecord
    PROVE  SampleInv'
<1> DEFINE i == FirstBreak(buf)
           e == Cut + i
           rec == SubSeq(buf, 1, i - 1)
<1>1. /\ buf' = SubSeq(buf, i + 2, Len(buf))
      /\ records' = IF Keeps(rec) THEN Append(records, rec) ELSE records
      /\ stream' = stream /\ scanned' = scanned /\ verdict' = verdict
      /\ verdict = "reading" /\ Breaks(buf) # {} /\ Len(records) < K
  BY DEF CutRecord, CanCut, MoreWanted
<1>2. /\ stream \in Seq(Tokens) /\ buf \in Seq(Tokens) /\ Cut \in Nat /\ scanned \in Nat
      /\ scanned <= Len(stream) /\ Cut + Len(buf) = scanned
      /\ records \in Seq(Seq(Tokens))
  BY DEF SampleInv, SampleTypeOK, BufferBehindCut, Cut
<1>3. i \in 1 .. Len(buf) - 1
  BY <1>1, <1>2, FirstBreakLeast
<1>4. /\ e \in Ends(stream) /\ e > Cut /\ e + 1 <= scanned
      /\ \A f \in Ends(stream) : f < e => f < Cut
  BY <1>1, NextEnd DEF SampleInv
<1>5. rec = ParagraphBefore(stream, e)
  BY <1>1, NextParagraph DEF SampleInv
<1>6. rec \in Seq(Tokens)
  BY <1>2, <1>3
<1>7. /\ buf' \in Seq(Tokens) /\ Len(buf') = Len(buf) - i - 1
      /\ \A x \in 1 .. Len(buf) - i - 1 : buf'[x] = buf[x + i + 1]
  <2>1. ASSUME NEW s \in Seq(Tokens), NEW k \in 1 .. Len(s) - 1
        PROVE  /\ SubSeq(s, k + 2, Len(s)) \in Seq(Tokens)
               /\ Len(SubSeq(s, k + 2, Len(s))) = Len(s) - k - 1
               /\ \A x \in 1 .. Len(s) - k - 1 : SubSeq(s, k + 2, Len(s))[x] = s[x + k + 1]
    OBVIOUS
  <2> QED BY <1>1, <1>2, <1>3, <2>1
<1>8. Cut' = e + 1
  <2>1. Cut' = scanned' - Len(buf')
    BY DEF Cut
  <2>2. Cut' = scanned - (Len(buf) - i - 1)
    BY <1>1, <1>7, <2>1
  <2> QED BY <1>2, <1>3, <2>2
<1>9. e \in Nat /\ Cut + i = e
  BY <1>2, <1>3
<1> HIDE DEF rec, i, e
<1>10. BufferBehindCut'
  <2>1. ASSUME NEW x \in 1 .. Len(buf) - i - 1 PROVE buf'[x] = stream[e + 1 + x]
    <3>1. x + i + 1 \in 1 .. Len(buf) /\ Cut + (x + i + 1) = e + 1 + x
      BY <1>2, <1>3, <1>9
    <3> QED BY <1>2, <1>7, <3>1 DEF SampleInv, BufferBehindCut
  <2>2. DOMAIN buf' = 1 .. Len(buf) - i - 1
    BY <1>7
  <2>3. (e + 1) - 1 = e /\ e + 1 \in Nat
    BY <1>9
  <2> QED BY <1>1, <1>4, <1>8, <2>1, <2>2, <2>3 DEF BufferBehindCut
<1>11. CutEnds' = IF Keeps(rec) THEN CutEnds \cup {e} ELSE CutEnds
  <2>1. e \in RecordEnds(stream) <=> Keeps(rec)
    BY <1>4, <1>5 DEF RecordEnds, Keeps
  <2>2. \A f \in RecordEnds(stream) : f < e + 1 <=> f < Cut \/ f = e
    BY <1>2, <1>4, <1>9, EndsBounded
  <2>3. CutEnds' = {f \in RecordEnds(stream) : f < e + 1}
    BY <1>1, <1>8 DEF CutEnds, Before
  <2> QED BY <2>1, <2>2, <2>3 DEF CutEnds, Before
<1>12. CutEnds \in SUBSET RecordEnds(stream) /\ e \notin CutEnds
  BY <1>2, <1>4, <1>9 DEF CutEnds, Before
<1>13. IsFiniteSet(CutEnds) /\ Cardinality(CutEnds) \in Nat
  BY <1>2, <1>12, EndsFinite
<1>14. RecordsAreCut'
  <2>1. CASE Keeps(rec)
    <3>1. Cardinality(CutEnds') = Cardinality(CutEnds) + 1
      BY <1>11, <1>12, <1>13, <2>1, FS_AddElement
    <3>2. records' = Append(records, rec)
      BY <1>1, <2>1
    <3>3. /\ Len(records') = Len(records) + 1 /\ DOMAIN records' = 1 .. Len(records) + 1
          /\ \A r \in 1 .. Len(records) : records'[r] = records[r]
          /\ records'[Len(records) + 1] = rec
      BY <1>2, <1>6, <3>2
    <3>4. \A f \in CutEnds' : \E r \in DOMAIN records' : records'[r] = ParagraphBefore(stream, f)
      BY <1>2, <1>5, <1>11, <2>1, <3>3 DEF SampleInv, RecordsAreCut
    <3>5. \A r \in DOMAIN records' : \E f \in CutEnds' : records'[r] = ParagraphBefore(stream, f)
      BY <1>2, <1>5, <1>11, <2>1, <3>3 DEF SampleInv, RecordsAreCut
    <3> QED BY <1>1, <3>1, <3>3, <3>4, <3>5 DEF SampleInv, RecordsAreCut
  <2>2. CASE ~Keeps(rec)
    BY <1>1, <1>11, <2>2 DEF SampleInv, RecordsAreCut
  <2> QED BY <2>1, <2>2
<1>15. SampleTypeOK'
  <2>1. records' \in Seq(Seq(Tokens)) /\ Len(records') <= K
    BY <1>1, <1>2, <1>6, SampleAssumption DEF SampleInv, SampleTypeOK
  <2> QED BY <1>1, <1>7, <2>1 DEF SampleInv, SampleTypeOK
<1>16. VerdictGiven'
  BY <1>1 DEF VerdictGiven
<1> QED BY <1>10, <1>14, <1>15, <1>16 DEF SampleInv

LEMMA SampleStep ==
    ASSUME SampleInv, [SampleNext]_sampleVars
    PROVE  SampleInv'
<1>1. CASE Judge
  <2>1. /\ UNCHANGED <<stream, scanned, buf, records>> /\ Stops
        /\ verdict' = IF Passes THEN "accepted" ELSE "rejected"
    BY <1>1 DEF Judge, Stops
  <2>2. Cut' = Cut /\ (Stops <=> Stops') /\ (Passes <=> Passes')
    BY <2>1 DEF Cut, Stops, CanCut, MoreWanted, Passes
  <2>3. VerdictGiven'
    BY <2>1, <2>2 DEF VerdictGiven
  <2> QED BY <2>1, <2>2, <2>3 DEF SampleInv, SampleTypeOK, BufferBehindCut, RecordsAreCut, CutEnds
<1>2. CASE UNCHANGED sampleVars
  BY <1>2 DEF sampleVars, SampleInv, SampleTypeOK, BufferBehindCut, Cut, RecordsAreCut, CutEnds,
     VerdictGiven, Stops, CanCut, MoreWanted, Passes
<1> QED BY <1>1, <1>2, ReadChunkKeeps, CutRecordKeeps DEF SampleNext

LEMMA SampleStart == SampleInit => SampleInv
<1> SUFFICES ASSUME SampleInit PROVE SampleInv
  OBVIOUS
<1>1. PICK n \in 0 .. MaxStream : stream \in [1 .. n -> Tokens]
  BY DEF SampleInit, Streams
<1>2. stream \in Seq(Tokens)
  BY <1>1, SampleAssumption
<1>3. scanned = 0 /\ buf = <<>> /\ records = <<>> /\ verdict = "reading" /\ Cut = 0
  <2>1. scanned - Len(buf) = 0 - 0
    BY DEF SampleInit
  <2>2. Cut = 0
    BY <2>1 DEF Cut
  <2> QED BY <2>2 DEF SampleInit
<1>4. CutEnds = {}
  BY <1>2, <1>3, EndsBounded DEF CutEnds, Before
<1>5. Cardinality(CutEnds) = 0
  BY <1>4, FS_EmptySet
<1>6. SampleTypeOK
  BY <1>2, <1>3, SampleAssumption DEF SampleTypeOK
<1> QED BY <1>3, <1>4, <1>5, <1>6 DEF SampleInv, BufferBehindCut, RecordsAreCut, VerdictGiven

LEMMA SampleInvAlways == SampleSpec => []SampleInv
BY SampleStart, SampleStep, PTL DEF SampleSpec

\* Where reading stops, every record the check is there to look at was cut off.
LEMMA SampledAreCut ==
    ASSUME SampleInv, Stops, NEW i \in Sampled
    PROVE  i \in CutEnds
<1> SUFFICES ASSUME ~(i < Cut) PROVE FALSE
  BY DEF Sampled, CutEnds, Before
<1>1. /\ stream \in Seq(Tokens) /\ buf \in Seq(Tokens) /\ Cut \in Nat /\ scanned \in Nat
      /\ scanned <= Len(stream) /\ Cut + Len(buf) = scanned
  BY DEF SampleInv, SampleTypeOK, BufferBehindCut, Cut
<1>2. /\ i \in RecordEnds(stream) /\ i \in Ends(stream) /\ i \in 1 .. Len(stream) - 1
      /\ i + 1 <= MaxScan /\ Cardinality(Before(RecordEnds(stream), i)) < K
      /\ stream[i] = "nl" /\ stream[i + 1] = "nl"
  BY <1>1, EndsBounded DEF Sampled, Ends, Breaks
<1>3. MoreWanted
  <2>1. CutEnds \in SUBSET Before(RecordEnds(stream), i)
    BY <1>1, <1>2, EndsBounded DEF CutEnds, Before
  <2>2. /\ IsFiniteSet(Before(RecordEnds(stream), i))
        /\ Cardinality(Before(RecordEnds(stream), i)) \in Nat
    <3>1. Before(RecordEnds(stream), i) \in SUBSET RecordEnds(stream)
      BY DEF Before
    <3> QED BY <1>1, <3>1, EndsFinite
  <2>3. CutEnds \in SUBSET RecordEnds(stream)
    BY DEF CutEnds, Before
  <2>4. Cardinality(CutEnds) \in Nat
    BY <1>1, <2>3, EndsFinite
  <2>5. Cardinality(CutEnds) <= Cardinality(Before(RecordEnds(stream), i))
    BY <2>1, <2>2, FS_Subset
  <2> QED BY <1>2, <2>2, <2>4, <2>5, SampleAssumption DEF MoreWanted, SampleInv, RecordsAreCut
<1>4. i # Cut
  <2>1. CASE Cut = 0
    BY <1>2, <2>1
  <2>2. CASE Cut - 1 \in Ends(stream)
    <3>1. (Cut - 1) + 1 \notin Ends(stream)
      BY <1>1, <2>2, EndsApart
    <3> QED BY <1>1, <1>2, <3>1
  <2> QED BY <2>1, <2>2 DEF SampleInv, BufferBehindCut
<1>5. i + 1 <= scanned
  BY <1>1, <1>2, <1>3, SampleAssumption DEF Stops
<1>6. i - Cut \in Breaks(buf)
  <2>1. i - Cut \in 1 .. Len(buf) - 1 /\ i - Cut \in 1 .. Len(buf)
    BY <1>1, <1>2, <1>4, <1>5
  <2>2. i - Cut + 1 \in 1 .. Len(buf) /\ Cut + (i - Cut) = i /\ Cut + (i - Cut + 1) = i + 1
    BY <1>1, <1>2, <2>1
  <2>3. buf[i - Cut] = "nl" /\ buf[i - Cut + 1] = "nl"
    BY <1>1, <1>2, <2>1, <2>2 DEF SampleInv, BufferBehindCut
  <2> QED BY <2>1, <2>3 DEF Breaks
<1> QED BY <1>3, <1>6 DEF Stops, CanCut

\* The check reads no further than its limit and one chunk, and compares at most K
\* records.
THEOREM SampleTypeCorrect == SampleSpec => []SampleTypeOK
BY SampleInvAlways, PTL DEF SampleInv

\* Whatever the sizes of the chunks, an upload that passes has no wrong record among
\* the first K that are ended within the limit.
THEOREM BadRecordCaughtAlways == SampleSpec => []BadRecordCaught
<1>1. SampleInv => BadRecordCaught
  <2> SUFFICES ASSUME SampleInv, verdict = "accepted", NEW i \in Sampled
               PROVE  Good(ParagraphBefore(stream, i))
    BY DEF BadRecordCaught
  <2>1. Stops /\ Passes
    BY DEF SampleInv, VerdictGiven
  <2>2. i \in CutEnds
    BY <2>1, SampledAreCut
  <2>3. PICK r \in DOMAIN records : records[r] = ParagraphBefore(stream, i)
    BY <2>2 DEF SampleInv, RecordsAreCut
  <2>4. scanned # 0
    BY <2>2, EndsBounded DEF CutEnds, Before, Cut, SampleInv, SampleTypeOK
  <2> QED BY <2>1, <2>3, <2>4 DEF Passes
<1> QED BY <1>1, SampleInvAlways, PTL

\* An upload that is refused has a wrong record, or none that the check could look at.
THEOREM HonestAcceptedAlways == SampleSpec => []HonestAccepted
<1>1. SampleInv => HonestAccepted
  <2> SUFFICES ASSUME SampleInv, verdict = "rejected", NEW i \in Sampled
               PROVE  \E f \in RecordEnds(stream) : ~Good(ParagraphBefore(stream, f))
    BY DEF HonestAccepted
  <2>1. Stops /\ ~Passes
    BY DEF SampleInv, VerdictGiven
  <2>2. i \in CutEnds
    BY <2>1, SampledAreCut
  <2>3. records # <<>>
    BY <2>2 DEF SampleInv, RecordsAreCut
  <2>4. PICK r \in DOMAIN records : ~Good(records[r])
    BY <2>1, <2>3 DEF Passes
  <2>5. PICK f \in CutEnds : records[r] = ParagraphBefore(stream, f)
    BY <2>4 DEF SampleInv, RecordsAreCut
  <2> QED BY <2>4, <2>5 DEF CutEnds, Before
<1> QED BY <1>1, SampleInvAlways, PTL

-----------------------------------------------------------------------------
(***************************************************************************)
(* Files that are joined of texts.                                         *)
(***************************************************************************)

\* FlattenSeq joins the sequences one after the other.
LEMMA FlattenUnfolds ==
    ASSUME NEW S, NEW seqs \in Seq(S), Len(seqs) # 0
    PROVE  \E f : /\ f = [i \in 1 .. Len(seqs) |->
                             IF i = 1 THEN seqs[i] ELSE f[i - 1] \o seqs[i]]
                  /\ FlattenSeq(seqs) = f[Len(seqs)]
<1> DEFINE n == Len(seqs)
           Unfolds(m, f) == f = [i \in 1 .. m |-> IF i = 1 THEN seqs[i] ELSE f[i - 1] \o seqs[i]]
           Reached == {m \in 1 .. n : \E f : Unfolds(m, f)}
<1>0. n \in Nat /\ n # 0
  OBVIOUS
<1>1. 1 \in Reached
  <2>1. Unfolds(1, [i \in 1 .. 1 |-> seqs[i]])
    OBVIOUS
  <2> HIDE DEF Unfolds
  <2> QED BY <2>1, <1>0
<1>2. ASSUME NEW k \in 1 .. n - 1, k \in Reached PROVE k + 1 \in Reached
  <2>1. PICK f : Unfolds(k, f)
    BY <1>2
  <2> DEFINE g == [i \in 1 .. k + 1 |-> IF i <= k THEN f[i] ELSE f[k] \o seqs[i]]
  <2>2. ASSUME NEW i \in 1 .. k + 1 PROVE g[i] = IF i = 1 THEN seqs[i] ELSE g[i - 1] \o seqs[i]
    <3>0. k \in Nat /\ k >= 1 /\ i \in Nat
      BY <1>0
    <3>1. ASSUME NEW j \in 1 .. k
          PROVE  f[j] = IF j = 1 THEN seqs[j] ELSE f[j - 1] \o seqs[j]
      BY <2>1, Zenon
    <3>2. CASE i = k + 1
      <4>1. i \in 1 .. k + 1 /\ k \in 1 .. k + 1 /\ ~(i <= k) /\ i - 1 = k /\ i # 1 /\ k <= k
        BY <3>0, <3>2
      <4>2. g[i] = f[k] \o seqs[i]
        BY <4>1, Zenon
      <4>3. g[i - 1] = f[k]
        BY <4>1, Zenon
      <4> HIDE DEF g
      <4> QED BY <4>1, <4>2, <4>3
    <3>3. CASE i # k + 1
      <4>1. i \in 1 .. k /\ g[i] = f[i] /\ i \in Nat
        BY <3>0, <3>3
      <4>2. i # 1 => g[i - 1] = f[i - 1]
        BY <3>0, <4>1
      <4> HIDE DEF g
      <4> QED BY <3>1, <4>1, <4>2
    <3> QED BY <3>2, <3>3
  <2>3. Unfolds(k + 1, g)
    BY <2>2
  <2> HIDE DEF Unfolds, g
  <2>4. k + 1 \in 1 .. n
    BY <1>0
  <2> QED BY <2>3, <2>4
<1> HIDE DEF Reached
<1>3. 1 .. n \subseteq Reached
  BY <1>0, <1>1, <1>2, InductionTo
<1>4. n \in Reached
  BY <1>0, <1>3
<1>5. \E f : Unfolds(n, f)
  BY <1>4 DEF Reached
<1> DEFINE flatten[i \in 1 .. Len(seqs)] == IF i = 1 THEN seqs[i] ELSE flatten[i - 1] \o seqs[i]
<1>6. flatten = CHOOSE f : Unfolds(n, f)
  OBVIOUS
<1>7. Unfolds(n, flatten)
  <2> HIDE DEF Unfolds, flatten
  <2> QED BY <1>5, <1>6, Zenon
<1>8. FlattenSeq(seqs) = flatten[n]
  BY DEF FlattenSeq
<1> HIDE DEF flatten
<1> QED BY <1>7, <1>8

-----------------------------------------------------------------------------
(***************************************************************************)
(* The text of a file without broken polynomials is ordered by polynomial  *)
(* and, within one, by the kind of line: enough to reason about places in  *)
(* it without computing them.                                              *)
(***************************************************************************)
Kinds == Comments \cup NLines \cup Sides \cup {"blank"}
TextLines == Kinds \X Nat

\* The order of the kinds of lines in a polynomial.
Rank(kind) ==
    CASE kind = "msieve" -> 1
      [] kind \in NLines -> 2
      [] kind = "c" -> 3
      [] kind = "y" -> 4
      [] kind = "cado" -> 5
      [] kind = "blank" -> 6

Ahead(l, m) == l[2] < m[2] \/ (l[2] = m[2] /\ Rank(l[1]) < Rank(m[1]))

Ordered(t) == \A p, q \in DOMAIN t : p < q => Ahead(t[p], t[q])
LinesIn(t) == {t[p] : p \in DOMAIN t}

LEMMA Ranks ==
    /\ Rank("msieve") = 1 /\ \A kind \in NLines : Rank(kind) = 2
    /\ Rank("c") = 3 /\ Rank("y") = 4 /\ Rank("cado") = 5 /\ Rank("blank") = 6
    /\ \A kind \in Kinds : Rank(kind) \in 1 .. 6
<1>1. /\ Rank("msieve") = 1 /\ \A kind \in NLines : Rank(kind) = 2
      /\ Rank("c") = 3 /\ Rank("y") = 4 /\ Rank("cado") = 5 /\ Rank("blank") = 6
  BY DEF Rank, NLines
<1> QED BY <1>1 DEF Kinds, Comments, Sides

\* Joining ordered texts, all of one before all of the other.
LEMMA JoinOrdered ==
    ASSUME NEW t \in Seq(TextLines), NEW u \in Seq(TextLines), Ordered(t), Ordered(u),
           \A x \in LinesIn(t), y \in LinesIn(u) : Ahead(x, y)
    PROVE  /\ t \o u \in Seq(TextLines)
           /\ Ordered(t \o u)
           /\ LinesIn(t \o u) = LinesIn(t) \cup LinesIn(u)
<1> DEFINE s == t \o u
<1>1. /\ s \in Seq(TextLines)
      /\ Len(s) = Len(t) + Len(u) /\ Len(t) \in Nat /\ Len(u) \in Nat
      /\ DOMAIN t = 1 .. Len(t) /\ DOMAIN u = 1 .. Len(u) /\ DOMAIN s = 1 .. Len(s)
      /\ \A p \in 1 .. Len(t) : s[p] = t[p]
      /\ \A p \in 1 .. Len(u) : s[Len(t) + p] = u[p]
  OBVIOUS
<1>2. \A p \in DOMAIN s \ DOMAIN t : p - Len(t) \in DOMAIN u /\ s[p] = u[p - Len(t)]
  <2> TAKE p \in DOMAIN s \ DOMAIN t
  <2>1. p - Len(t) \in 1 .. Len(u) /\ Len(t) + (p - Len(t)) = p
    BY <1>1
  <2> HIDE DEF s
  <2> QED BY <1>1, <2>1
<1> HIDE DEF s
<1>3. LinesIn(s) = LinesIn(t) \cup LinesIn(u)
  <2>1. ASSUME NEW p \in DOMAIN s PROVE s[p] \in LinesIn(t) \cup LinesIn(u)
    BY <1>1, <1>2 DEF LinesIn
  <2>2. ASSUME NEW p \in DOMAIN t PROVE t[p] \in LinesIn(s)
    BY <1>1 DEF LinesIn
  <2>3. ASSUME NEW p \in DOMAIN u PROVE u[p] \in LinesIn(s)
    <3>1. Len(t) + p \in DOMAIN s
      BY <1>1
    <3> QED BY <1>1, <3>1 DEF LinesIn
  <2>4. LinesIn(s) \subseteq LinesIn(t) \cup LinesIn(u)
    BY <2>1 DEF LinesIn
  <2>5. LinesIn(t) \subseteq LinesIn(s) /\ LinesIn(u) \subseteq LinesIn(s)
    BY <2>2, <2>3 DEF LinesIn
  <2> QED BY <2>4, <2>5
<1>4. ASSUME NEW p \in DOMAIN s, NEW q \in DOMAIN s, p < q PROVE Ahead(s[p], s[q])
  <2>1. CASE q \in DOMAIN t
    <3>1. p \in DOMAIN t
      BY <1>1, <1>4, <2>1
    <3> QED BY <1>1, <1>4, <2>1, <3>1 DEF Ordered
  <2>2. CASE p \in DOMAIN t /\ q \notin DOMAIN t
    <3>1. s[p] = t[p] /\ s[q] = u[q - Len(t)] /\ q - Len(t) \in DOMAIN u
      BY <1>1, <1>2, <2>2
    <3>2. t[p] \in LinesIn(t) /\ u[q - Len(t)] \in LinesIn(u)
      BY <2>2, <3>1 DEF LinesIn
    <3> QED BY <3>1, <3>2
  <2>3. CASE p \notin DOMAIN t /\ q \notin DOMAIN t
    <3>1. p - Len(t) < q - Len(t)
      BY <1>1, <1>4
    <3> QED BY <1>2, <2>3, <3>1 DEF Ordered
  <2> QED BY <2>1, <2>2, <2>3
<1> QED BY <1>1, <1>3, <1>4 DEF Ordered, s

LEMMA IfOrdered ==
    ASSUME NEW b \in BOOLEAN, NEW x \in TextLines
    PROVE  /\ If(b, x) \in Seq(TextLines) /\ Ordered(If(b, x))
           /\ LinesIn(If(b, x)) = IF b THEN {x} ELSE {}
<1>1. CASE b
  <2>1. If(b, x) = <<x>>
    BY <1>1 DEF If
  <2>2. <<x>> \in Seq(TextLines) /\ DOMAIN <<x>> = {1} /\ <<x>>[1] = x
    OBVIOUS
  <2>3. Ordered(<<x>>) /\ LinesIn(<<x>>) = {x}
    BY <2>2 DEF Ordered, LinesIn
  <2> QED BY <1>1, <2>1, <2>2, <2>3
<1>2. CASE ~b
  <2>1. If(b, x) = <<>>
    BY <1>2 DEF If
  <2>2. DOMAIN <<>> = {} /\ <<>> \in Seq(TextLines)
    OBVIOUS
  <2> QED BY <1>2, <2>1, <2>2 DEF Ordered, LinesIn
<1> QED BY <1>1, <1>2

\* Joining a line, or none, that comes after all.
LEMMA LineJoined ==
    ASSUME NEW t \in Seq(TextLines), Ordered(t), NEW b \in BOOLEAN, NEW x \in TextLines,
           b => \A y \in LinesIn(t) : Ahead(y, x)
    PROVE  /\ t \o If(b, x) \in Seq(TextLines)
           /\ Ordered(t \o If(b, x))
           /\ LinesIn(t \o If(b, x)) = LinesIn(t) \cup (IF b THEN {x} ELSE {})
<1>1. /\ If(b, x) \in Seq(TextLines) /\ Ordered(If(b, x))
      /\ LinesIn(If(b, x)) = IF b THEN {x} ELSE {}
  BY IfOrdered
<1>2. \A y \in LinesIn(t), z \in LinesIn(If(b, x)) : Ahead(y, z)
  BY <1>1
<1> QED BY <1>1, <1>2, JoinOrdered

\* The kinds of the lines of polynomial i.
KindsOf(file, i) ==
    LET p == file.polys[i]
    IN  (IF p.layout = "lead" THEN {"msieve"} ELSE {})
        \cup (IF file.n # "none" THEN {file.n} ELSE {})
        \cup (Sides \ {p.lacks})
        \cup (IF p.layout = "trail" THEN {"cado"} ELSE {})
        \cup (IF p.blank THEN {"blank"} ELSE {})

LEMMA LinesOfPoly ==
    ASSUME NEW file \in Files, NEW i \in DOMAIN file.polys, file.polys[i].layout # "broken"
    PROVE  /\ LinesOf(file, i) \in Seq(TextLines)
           /\ Ordered(LinesOf(file, i))
           /\ LinesIn(LinesOf(file, i)) = {<<kind, i>> : kind \in KindsOf(file, i)}
<1> DEFINE p == file.polys[i]
           s1 == If(p.layout \in {"lead", "broken"}, <<"msieve", i>>)
           s2 == s1 \o If(file.n # "none", <<file.n, i>>)
           s3 == s2 \o If(p.lacks # "c", <<"c", i>>)
           s4 == s3 \o If(p.layout = "broken", <<"blank", i>>)
           s5 == s4 \o If(p.lacks # "y", <<"y", i>>)
           s6 == s5 \o If(p.layout = "trail", <<"cado", i>>)
           s7 == s6 \o If(p.blank, <<"blank", i>>)
           K1 == IF p.layout = "lead" THEN {"msieve"} ELSE {}
           K2 == K1 \cup (IF file.n # "none" THEN {file.n} ELSE {})
           K3 == K2 \cup ({"c"} \ {p.lacks})
           K5 == K3 \cup ({"y"} \ {p.lacks})
           K6 == K5 \cup (IF p.layout = "trail" THEN {"cado"} ELSE {})
           K7 == K6 \cup (IF p.blank THEN {"blank"} ELSE {})
           Has(s, kinds) == /\ s \in Seq(TextLines) /\ Ordered(s)
                        /\ LinesIn(s) = {<<kind, i>> : kind \in kinds}
<1>1. /\ i \in Nat /\ p.lacks \in Sides \cup {"nothing"} /\ p.blank \in BOOLEAN
      /\ p.layout \in Layouts \ {"broken"}
      /\ file.n \in NLines \cup {"none"}
  BY DEF Files, Polys
<1>2. LinesOf(file, i) = s7
  BY DEF LinesOf
<1>3. /\ <<"msieve", i>> \in TextLines /\ <<"c", i>> \in TextLines /\ <<"y", i>> \in TextLines
      /\ <<"cado", i>> \in TextLines /\ <<"blank", i>> \in TextLines
      /\ \A kind \in NLines : <<kind, i>> \in TextLines
  BY <1>1 DEF TextLines, Kinds, Sides, Comments
<1>4. Has(s1, K1)
  <2>0. (p.layout \in {"lead", "broken"}) \in BOOLEAN
    OBVIOUS
  <2>1. /\ s1 \in Seq(TextLines) /\ Ordered(s1)
        /\ LinesIn(s1) = IF p.layout \in {"lead", "broken"} THEN {<<"msieve", i>>} ELSE {}
    BY <1>3, <2>0, IfOrdered, Zenon
  <2>2. p.layout \in {"lead", "broken"} <=> p.layout = "lead"
    BY <1>1
  <2> QED BY <2>1, <2>2
<1>5. ASSUME NEW s, NEW kinds, NEW b \in BOOLEAN, NEW kind,
             Has(s, kinds), b => <<kind, i>> \in TextLines,
             \A k \in kinds : Rank(k) < Rank(kind)
      PROVE  Has(s \o If(b, <<kind, i>>), kinds \cup (IF b THEN {kind} ELSE {}))
  <2>1. CASE b
    <3>1. \A y \in LinesIn(s) : Ahead(y, <<kind, i>>)
      BY <1>5 DEF Ahead
    <3>2. /\ s \o If(b, <<kind, i>>) \in Seq(TextLines) /\ Ordered(s \o If(b, <<kind, i>>))
          /\ LinesIn(s \o If(b, <<kind, i>>)) = LinesIn(s) \cup {<<kind, i>>}
      BY <1>5, <2>1, <3>1, LineJoined
    <3> QED BY <1>5, <2>1, <3>2
  <2>2. CASE ~b
    BY <1>5, <2>2 DEF If
  <2> QED BY <2>1, <2>2
<1> HIDE DEF Has
<1>6. Has(s2, K2)
  <2>1. \A k \in K1 : Rank(k) < Rank(file.n) \/ file.n = "none"
    BY <1>1, Ranks
  <2>2. CASE file.n # "none"
    <3>1. <<file.n, i>> \in TextLines /\ \A k \in K1 : Rank(k) < Rank(file.n)
      BY <1>1, <1>3, <2>1, <2>2
    <3> HIDE DEF s1, K1
    <3> QED BY <1>4, <1>5, <3>1, <2>2, Zenon
  <2>3. CASE file.n = "none"
    <3>1. K2 = K1 /\ s2 = s1
      <4>1. s1 \in Seq(TextLines)
        BY <1>4 DEF Has
      <4> HIDE DEF s1, K1
      <4> QED BY <2>3, <4>1 DEF If
    <3> HIDE DEF s1, K1, s2, K2
    <3> QED BY <1>4, <3>1
  <2> QED BY <2>2, <2>3
<1>7. Has(s3, K3)
  <2>1. \A k \in K2 : Rank(k) < Rank("c")
    BY <1>1, Ranks
  <2>2. {"c"} \ {p.lacks} = IF p.lacks # "c" THEN {"c"} ELSE {}
    OBVIOUS
  <2> HIDE DEF s2, K2
  <2>3. Has(s3, K2 \cup (IF p.lacks # "c" THEN {"c"} ELSE {}))
    BY <1>3, <1>5, <1>6, <2>1, Zenon
  <2> QED BY <2>2, <2>3
<1>8. Has(s4, K3)
  <2>1. s4 = s3
    <3>1. s3 \in Seq(TextLines)
      BY <1>7 DEF Has
    <3> HIDE DEF s3
    <3> QED BY <1>1, <3>1 DEF If
  <2> HIDE DEF s3, s4, K3
  <2> QED BY <1>7, <2>1
<1>9. Has(s5, K5)
  <2>1. \A k \in K3 : Rank(k) < Rank("y")
    BY <1>1, Ranks
  <2>2. {"y"} \ {p.lacks} = IF p.lacks # "y" THEN {"y"} ELSE {}
    OBVIOUS
  <2> HIDE DEF s4, K3
  <2>3. Has(s5, K3 \cup (IF p.lacks # "y" THEN {"y"} ELSE {}))
    BY <1>3, <1>5, <1>8, <2>1, Zenon
  <2> QED BY <2>2, <2>3
<1>10. Has(s6, K6)
  <2>1. \A k \in K5 : Rank(k) < Rank("cado")
    BY <1>1, Ranks
  <2> HIDE DEF s5, K5
  <2> QED BY <1>3, <1>5, <1>9, <2>1, Zenon
<1>11. Has(s7, K7)
  <2>1. \A k \in K6 : Rank(k) < Rank("blank")
    BY <1>1, Ranks
  <2>2. p.blank \in BOOLEAN
    BY <1>1
  <2> HIDE DEF s6, K6
  <2> QED BY <1>3, <1>5, <1>10, <2>1, <2>2, Zenon
<1>12. K7 = KindsOf(file, i)
  BY DEF KindsOf, Sides
<1> HIDE DEF s7, K7
<1> QED BY <1>2, <1>11, <1>12 DEF Has

\* What the readers of a text see of the first m polynomials of a file.
TextUpTo(file, m, t) ==
    /\ t \in Seq(TextLines)
    /\ Ordered(t)
    /\ \A p \in DOMAIN t : t[p][2] \in 1 .. m /\ t[p][1] \in KindsOf(file, t[p][2])
    /\ \A i \in 1 .. m : \A kind \in KindsOf(file, i) : \E p \in DOMAIN t : t[p] = <<kind, i>>

LEMMA OnePolyText ==
    ASSUME NEW file \in Files, NEW i \in DOMAIN file.polys, file.polys[i].layout # "broken"
    PROVE  /\ LinesOf(file, i) \in Seq(TextLines)
           /\ Ordered(LinesOf(file, i))
           /\ \A p \in DOMAIN LinesOf(file, i) :
                 LinesOf(file, i)[p][2] = i /\ LinesOf(file, i)[p][1] \in KindsOf(file, i)
           /\ \A kind \in KindsOf(file, i) :
                 \E p \in DOMAIN LinesOf(file, i) : LinesOf(file, i)[p] = <<kind, i>>
<1> DEFINE s == LinesOf(file, i)
<1>1. s \in Seq(TextLines) /\ Ordered(s) /\ LinesIn(s) = {<<kind, i>> : kind \in KindsOf(file, i)}
  BY LinesOfPoly
<1> HIDE DEF s
<1>2. \A p \in DOMAIN s : s[p] \in {<<kind, i>> : kind \in KindsOf(file, i)}
  BY <1>1 DEF LinesIn
<1>3. \A kind \in KindsOf(file, i) : <<kind, i>> \in LinesIn(s)
  BY <1>1
<1>4. \A p \in DOMAIN s : s[p][2] = i /\ s[p][1] \in KindsOf(file, i)
  BY <1>2
<1>5. \A kind \in KindsOf(file, i) : \E p \in DOMAIN s : s[p] = <<kind, i>>
  BY <1>3 DEF LinesIn
<1> QED BY <1>1, <1>4, <1>5 DEF s

LEMMA TextOfFile ==
    ASSUME NEW file \in Files, \A i \in DOMAIN file.polys : file.polys[i].layout # "broken"
    PROVE  TextUpTo(file, Len(file.polys), TextOf(file))
<1> DEFINE polys == file.polys
           n == Len(polys)
           seqs == [i \in DOMAIN polys |-> LinesOf(file, i)]
<1>1. polys \in Seq(Polys) /\ n \in Nat /\ DOMAIN polys = 1 .. n
  BY DEF Files
<1>2. /\ seqs \in Seq(Seq(TextLines)) /\ Len(seqs) = n /\ TextOf(file) = FlattenSeq(seqs)
      /\ \A i \in 1 .. n : seqs[i] = LinesOf(file, i)
  <2>1. \A i \in 1 .. n : LinesOf(file, i) \in Seq(TextLines)
    BY <1>1, OnePolyText
  <2> QED BY <1>1, <2>1 DEF TextOf
<1> HIDE DEF seqs
<1>3. CASE n = 0
  <2>1. FlattenSeq(seqs) = <<>>
    BY <1>2, <1>3 DEF FlattenSeq
  <2> QED BY <1>2, <1>3, <2>1 DEF TextUpTo, Ordered
<1>4. CASE n # 0
  <2>1. PICK f : /\ f = [i \in 1 .. n |-> IF i = 1 THEN seqs[i] ELSE f[i - 1] \o seqs[i]]
                 /\ FlattenSeq(seqs) = f[n]
    <3> HIDE DEF n
    <3> QED BY <1>2, <1>4, FlattenUnfolds
  <2>2. ASSUME NEW j \in 1 .. n
        PROVE  f[j] = IF j = 1 THEN seqs[j] ELSE f[j - 1] \o seqs[j]
    BY <2>1, Zenon
  <2> DEFINE Reached == {m \in 1 .. n : TextUpTo(file, m, f[m])}
  <2>3. 1 \in Reached
    <3>1. 1 \in 1 .. n /\ 1 \in DOMAIN polys
      BY <1>1, <1>4
    <3>2. f[1] = LinesOf(file, 1)
      BY <1>2, <2>2, <3>1
    <3>3. TextUpTo(file, 1, LinesOf(file, 1))
      BY <1>1, <3>1, OnePolyText DEF TextUpTo
    <3> QED BY <3>1, <3>2, <3>3
  <2>4. ASSUME NEW m \in 1 .. n - 1, m \in Reached PROVE m + 1 \in Reached
    <3> DEFINE t == f[m]
               u == LinesOf(file, m + 1)
    <3>1. m + 1 \in 1 .. n /\ m + 1 \in DOMAIN polys /\ m \in Nat /\ m \in 1 .. n
      BY <1>1
    <3>2. f[m + 1] = t \o u
      <4>1. m + 1 # 1 /\ (m + 1) - 1 = m
        BY <3>1
      <4> QED BY <1>2, <2>2, <3>1, <4>1
    <3>3. TextUpTo(file, m, t)
      BY <2>4
    <3>4. /\ u \in Seq(TextLines) /\ Ordered(u)
          /\ \A p \in DOMAIN u : u[p][2] = m + 1 /\ u[p][1] \in KindsOf(file, m + 1)
          /\ \A kind \in KindsOf(file, m + 1) : \E p \in DOMAIN u : u[p] = <<kind, m + 1>>
      BY <1>1, <3>1, OnePolyText
    <3> HIDE DEF t, u
    <3>5. \A x \in LinesIn(t), y \in LinesIn(u) : Ahead(x, y)
      <4>1. \A x \in LinesIn(t) : x[2] \in 1 .. m
        BY <3>3 DEF TextUpTo, LinesIn
      <4>2. \A y \in LinesIn(u) : y[2] = m + 1
        BY <3>4 DEF LinesIn
      <4> QED BY <3>1, <4>1, <4>2 DEF Ahead
    <3>6. /\ t \o u \in Seq(TextLines) /\ Ordered(t \o u)
          /\ LinesIn(t \o u) = LinesIn(t) \cup LinesIn(u)
      BY <3>3, <3>4, <3>5, JoinOrdered DEF TextUpTo
    <3>7. ASSUME NEW x \in LinesIn(t \o u)
          PROVE  x[2] \in 1 .. m + 1 /\ x[1] \in KindsOf(file, x[2])
      <4>1. CASE x \in LinesIn(t)
        BY <3>1, <3>3, <4>1 DEF LinesIn, TextUpTo
      <4>2. CASE x \in LinesIn(u)
        BY <3>1, <3>4, <4>2 DEF LinesIn
      <4> QED BY <3>6, <3>7, <4>1, <4>2
    <3>8. ASSUME NEW i \in 1 .. m + 1, NEW kind \in KindsOf(file, i)
          PROVE  <<kind, i>> \in LinesIn(t \o u)
      <4>1. CASE i \in 1 .. m
        <5>1. <<kind, i>> \in LinesIn(t)
          BY <3>3, <3>8, <4>1 DEF LinesIn, TextUpTo
        <5> QED BY <3>6, <5>1
      <4>2. CASE i = m + 1
        <5>1. <<kind, i>> \in LinesIn(u)
          BY <3>4, <3>8, <4>2 DEF LinesIn
        <5> QED BY <3>6, <5>1
      <4> QED BY <3>1, <4>1, <4>2
    <3>9. TextUpTo(file, m + 1, t \o u)
      <4> DEFINE s == t \o u
      <4> HIDE DEF s
      <4> QED BY <3>6, <3>7, <3>8 DEF TextUpTo, LinesIn, s
    <3> QED BY <3>1, <3>2, <3>9
  <2> HIDE DEF Reached
  <2>5. 1 .. n \subseteq Reached
    BY <1>1, <1>4, <2>3, <2>4, InductionTo
  <2>6. n \in Reached
    BY <1>1, <1>4, <2>5
  <2> QED BY <1>2, <2>1, <2>6 DEF Reached
<1> QED BY <1>3, <1>4

-----------------------------------------------------------------------------
(***************************************************************************)
(* Where blocks begin and what they hold.                                  *)
(***************************************************************************)

\* The files whose text is ordered.
Laid(file) == file \in Files /\ \A i \in DOMAIN file.polys : file.polys[i].layout # "broken"

\* Where the lines of a polynomial begin.
FirstLines(t) ==
    {p \in DOMAIN t : IsNotBlank(t[p]) /\ (p = 1 \/ t[p - 1][2] # t[p][2])}

\* The lines of a polynomial, without the blank one behind it.
PolyLines(t, i) == {q \in DOMAIN t : t[q][2] = i /\ IsNotBlank(t[q])}

LEMMA TextFacts ==
    ASSUME NEW file, Laid(file), NEW t, t = TextOf(file)
    PROVE  /\ Len(t) \in Nat /\ DOMAIN t = 1 .. Len(t)
           /\ Len(file.polys) \in Nat /\ DOMAIN file.polys = 1 .. Len(file.polys)
           /\ \A p \in DOMAIN t : /\ t[p][1] \in Kinds /\ t[p][2] \in DOMAIN file.polys
                                  /\ t[p] = <<t[p][1], t[p][2]>>
                                  /\ t[p][1] \in KindsOf(file, t[p][2])
           /\ \A i \in DOMAIN file.polys, kind \in Kinds :
                 kind \in KindsOf(file, i) => \E p \in DOMAIN t : t[p] = <<kind, i>>
           /\ \A p, q \in DOMAIN t : p < q => Ahead(t[p], t[q])
           /\ \A p, q \in DOMAIN t : p <= q => t[p][2] <= t[q][2]
           /\ \A p, q \in DOMAIN t : p < q /\ ~IsNotBlank(t[p]) => t[p][2] < t[q][2]
<1>1. TextUpTo(file, Len(file.polys), t)
  BY TextOfFile DEF Laid
<1>2. /\ t \in Seq(TextLines) /\ Len(t) \in Nat /\ DOMAIN t = 1 .. Len(t)
      /\ file.polys \in Seq(Polys)
      /\ Len(file.polys) \in Nat /\ DOMAIN file.polys = 1 .. Len(file.polys)
  BY <1>1 DEF TextUpTo, Laid, Files
<1>3. \A p \in DOMAIN t : /\ t[p][1] \in Kinds /\ t[p][2] \in DOMAIN file.polys
                          /\ t[p] = <<t[p][1], t[p][2]>>
                          /\ t[p][1] \in KindsOf(file, t[p][2])
  <2> TAKE p \in DOMAIN t
  <2>1. t[p] \in TextLines
    BY <1>2
  <2> QED BY <1>1, <1>2, <2>1 DEF TextUpTo, TextLines
<1>4. \A p, q \in DOMAIN t : p < q => Ahead(t[p], t[q])
  BY <1>1 DEF TextUpTo, Ordered
<1>5. ASSUME NEW p \in DOMAIN t, NEW q \in DOMAIN t PROVE p <= q => t[p][2] <= t[q][2]
  <2>1. p = q \/ ~(p <= q) \/ p < q
    BY <1>2
  <2> QED BY <1>2, <1>3, <1>4, <2>1 DEF Ahead
<1>6. ASSUME NEW p \in DOMAIN t, NEW q \in DOMAIN t, p < q, ~IsNotBlank(t[p])
      PROVE  t[p][2] < t[q][2]
  <2>1. t[p][1] = "blank" /\ t[q][1] \in Kinds
    BY <1>3, <1>6 DEF IsNotBlank
  <2>2. ~(Rank(t[p][1]) < Rank(t[q][1]))
    BY <2>1, Ranks
  <2> QED BY <1>4, <1>6, <2>2 DEF Ahead
<1>7. \A i \in DOMAIN file.polys, kind \in Kinds :
         kind \in KindsOf(file, i) => \E p \in DOMAIN t : t[p] = <<kind, i>>
  BY <1>1, <1>2 DEF TextUpTo
<1> QED BY <1>2, <1>3, <1>4, <1>5, <1>6, <1>7

\* In the layout with blank lines a record is a polynomial, and begins with its first line.
LEMMA StartsWhenSeparated ==
    ASSUME NEW file \in Files, Separated(file), NEW t, t = TextOf(file)
    PROVE  Starts(t) = FirstLines(t)
<1>1. Laid(file)
  BY DEF Separated, Laid
<1>2. \A i \in DOMAIN file.polys : file.polys[i].blank \/ i = Len(file.polys)
  BY DEF Separated
<1>3. ASSUME NEW p \in DOMAIN t, NEW q \in DOMAIN t, t[p][2] < t[q][2]
      PROVE  \E b \in DOMAIN t : t[b][2] = t[p][2] /\ ~IsNotBlank(t[b]) /\ p <= b /\ b < q
  <2> DEFINE i == t[p][2]
  <2>1. i \in DOMAIN file.polys /\ i # Len(file.polys) /\ i \in Nat
    BY <1>1, <1>3, TextFacts
  <2>2. "blank" \in KindsOf(file, i) /\ "blank" \in Kinds
    BY <1>2, <2>1 DEF KindsOf, Kinds
  <2>3. PICK b \in DOMAIN t : t[b] = <<"blank", i>>
    BY <1>1, <2>1, <2>2, TextFacts
  <2>4. ~IsNotBlank(t[b]) /\ t[b][2] = i
    BY <2>3 DEF IsNotBlank
  <2>5. p <= b
    BY <1>1, <2>4, TextFacts
  <2>6. b < q
    BY <1>1, <1>3, <2>1, <2>4, TextFacts
  <2> QED BY <2>4, <2>5, <2>6
<1>4. RecordStarts(t) = FirstLines(t)
  <2>1. ASSUME NEW p \in DOMAIN t, p # 1, IsNotBlank(t[p])
        PROVE  ~IsNotBlank(t[p - 1]) <=> t[p - 1][2] # t[p][2]
    <3>1. p - 1 \in DOMAIN t /\ p \in Nat /\ p - 1 < p
      BY <1>1, <2>1, TextFacts
    <3>2. CASE ~IsNotBlank(t[p - 1])
      <4>1. t[p - 1][2] < t[p][2]
        BY <1>1, <3>1, <3>2, TextFacts
      <4>2. t[p - 1][2] \in Nat /\ t[p][2] \in Nat
        BY <1>1, <3>1, TextFacts
      <4> QED BY <3>2, <4>1, <4>2
    <3>3. CASE t[p - 1][2] # t[p][2]
      <4>1. t[p - 1][2] < t[p][2]
        BY <1>1, <3>1, <3>3, TextFacts
      <4>2. PICK b \in DOMAIN t : ~IsNotBlank(t[b]) /\ p - 1 <= b /\ b < p
        BY <1>3, <3>1, <4>1
      <4>3. b = p - 1
        BY <1>1, <3>1, <4>2, TextFacts
      <4> QED BY <3>3, <4>2, <4>3
    <3> QED BY <3>2, <3>3
  <2> QED BY <2>1 DEF RecordStarts, FirstLines
<1>5. ASSUME NEW r \in RecordStarts(t) PROVE ~SeveralPolys(Stretch(t, r, {}))
  <2> DEFINE record == Stretch(t, r, {})
  <2>1. /\ r \in DOMAIN t /\ IsNotBlank(t[r]) /\ DOMAIN t = 1 .. Len(t) /\ Len(t) \in Nat
    BY <1>1, TextFacts DEF RecordStarts
  <2>2. ASSUME NEW q \in DOMAIN record
        PROVE  q \in DOMAIN t /\ r <= q /\ record[q] = t[q] /\ t[q][2] = t[r][2]
    <3>1. /\ q \in r .. Len(t) /\ q \in DOMAIN t /\ record[q] = t[q]
          /\ \A k \in r + 1 .. q : IsNotBlank(t[k])
      BY <2>1, <2>2 DEF Stretch, Restrict
    <3>2. t[q][2] \in Nat /\ t[r][2] \in Nat /\ t[r][2] <= t[q][2]
      BY <1>1, <2>1, <3>1, TextFacts
    <3>3. CASE t[r][2] < t[q][2]
      <4>1. PICK b \in DOMAIN t : ~IsNotBlank(t[b]) /\ r <= b /\ b < q
        BY <1>3, <2>1, <3>1, <3>3
      <4>2. b \in r + 1 .. q
        BY <2>1, <3>1, <4>1
      <4> QED BY <3>1, <4>1, <4>2
    <3> QED BY <2>1, <3>1, <3>2, <3>3
  <2>3. ASSUME NEW i \in DOMAIN record, NEW j \in DOMAIN record, i < j,
               IsBody(record[i]), IsBody(record[j]), Key(record[i]) = Key(record[j])
        PROVE  FALSE
    <3>1. t[i][2] = t[j][2] /\ i \in DOMAIN t /\ j \in DOMAIN t /\ record[i] = t[i] /\ record[j] = t[j]
      BY <2>2
    <3> HIDE DEF record
    <3>2. t[i][2] \in Nat /\ Ahead(t[i], t[j])
      BY <1>1, <2>3, <3>1, TextFacts
    <3>3. Rank(t[i][1]) < Rank(t[j][1])
      BY <3>1, <3>2 DEF Ahead
    <3>4. t[i][1] \in Sides \cup NLines /\ t[j][1] \in Sides \cup NLines
      BY <2>3, <3>1 DEF IsBody
    <3>5. t[i][1] = t[j][1] \/ (t[i][1] \in NLines /\ t[j][1] \in NLines)
      BY <2>3, <3>1, <3>4 DEF Key, Sides, NLines
    <3>6. Rank(t[i][1]) = Rank(t[j][1]) /\ Rank(t[i][1]) \in Nat
      BY <3>4, <3>5, Ranks DEF Sides
    <3> QED BY <3>3, <3>6
  <2> QED BY <2>3 DEF SeveralPolys
<1> QED BY <1>4, <1>5 DEF Starts

\* In the layout where a score leads each polynomial, a record of several is cut at the scores.
LEMMA StartsWhenLed ==
    ASSUME NEW file \in Files, LedByScores(file), NEW t, t = TextOf(file)
    PROVE  Starts(t) = FirstLines(t)
<1>1. Laid(file)
  BY DEF LedByScores, Laid
<1>2. \A i \in DOMAIN file.polys :
         /\ file.polys[i].layout = "lead" /\ file.polys[i].lacks = "nothing"
         /\ {"msieve", "c", "y"} \subseteq KindsOf(file, i)
  BY DEF LedByScores, KindsOf, Sides
<1>3. DOMAIN t = 1 .. Len(t) /\ Len(t) \in Nat
  BY <1>1, TextFacts
<1>4. ASSUME NEW p \in DOMAIN t PROVE t[p][1] \notin {"cado"} /\ t[p][1] \in Kinds
  BY <1>1, <1>2, TextFacts DEF KindsOf, Sides, Files, NLines
<1>5. ASSUME NEW p \in DOMAIN t, p # 1, IsNotBlank(t[p - 1]), t[p - 1][2] # t[p][2]
      PROVE  /\ t[p - 1] = <<"y", t[p - 1][2]>> /\ t[p] = <<"msieve", t[p][2]>>
             /\ p - 1 \in DOMAIN t /\ t[p - 1][2] < t[p][2]
  <2> DEFINE j == t[p - 1][2]
             i == t[p][2]
  <2>1. /\ p \in Nat /\ p - 1 \in DOMAIN t /\ p - 1 < p
        /\ i \in Nat /\ j \in Nat /\ i \in DOMAIN file.polys /\ j \in DOMAIN file.polys /\ j < i
    <3>1. p \in Nat /\ p - 1 \in DOMAIN t /\ p - 1 < p
      BY <1>3, <1>5
    <3>2. i \in DOMAIN file.polys /\ j \in DOMAIN file.polys /\ i \in Nat /\ j \in Nat /\ j <= i
      BY <1>1, <3>1, TextFacts
    <3> QED BY <1>5, <3>1, <3>2
  <2>2. PICK q \in DOMAIN t : t[q] = <<"y", j>>
    BY <1>1, <1>2, <2>1, TextFacts DEF Kinds, Sides
  <2>3. PICK m \in DOMAIN t : t[m] = <<"msieve", i>>
    BY <1>1, <1>2, <2>1, TextFacts DEF Kinds, Comments
  <2>4. q = p - 1
    <3>1. q \in Nat /\ ~(p <= q)
      BY <1>1, <2>1, <2>2, TextFacts
    <3>2. CASE q < p - 1
      <4>1. Ahead(t[q], t[p - 1])
        BY <1>1, <2>1, <3>2, TextFacts
      <4>2. Rank("y") < Rank(t[p - 1][1])
        BY <2>1, <2>2, <4>1 DEF Ahead
      <4>3. t[p - 1][1] \in {"msieve", "c", "y"} \cup NLines
        BY <1>4, <1>5, <2>1 DEF Kinds, Comments, Sides, IsNotBlank
      <4> QED BY <4>2, <4>3, Ranks
    <3> QED BY <2>1, <3>1, <3>2
  <2>5. m = p
    <3>1. m \in Nat /\ ~(m <= p - 1)
      BY <1>1, <2>1, <2>3, TextFacts
    <3>2. CASE p < m
      <4>1. Ahead(t[p], t[m])
        BY <1>1, <2>1, <3>2, TextFacts
      <4>2. Rank(t[p][1]) < Rank("msieve")
        BY <2>1, <2>3, <4>1 DEF Ahead
      <4> QED BY <1>4, <4>2, Ranks
    <3> QED BY <2>1, <3>1, <3>2
  <2> QED BY <2>1, <2>2, <2>3, <2>4, <2>5
<1>6. RecordStarts(t) \subseteq FirstLines(t)
  <2> SUFFICES ASSUME NEW p \in RecordStarts(t), p # 1 PROVE t[p - 1][2] # t[p][2]
    BY DEF RecordStarts, FirstLines
  <2>1. p \in DOMAIN t /\ p - 1 \in DOMAIN t /\ p - 1 < p /\ ~IsNotBlank(t[p - 1])
    BY <1>3 DEF RecordStarts
  <2>2. t[p - 1][2] < t[p][2] /\ t[p][2] \in Nat
    BY <1>1, <2>1, TextFacts
  <2> QED BY <2>2
<1>7. ASSUME NEW r \in RecordStarts(t), NEW p \in CommentLeads(Stretch(t, r, {}))
      PROVE  p \in FirstLines(t)
  <2>1. /\ p \in DOMAIN t /\ p - 1 \in DOMAIN t /\ p - 1 < p
        /\ IsComment(t[p]) /\ IsBody(t[p - 1])
    BY <1>3, <1>7 DEF CommentLeads, Stretch, Restrict, RecordStarts
  <2>2. Ahead(t[p - 1], t[p]) /\ t[p][1] = "msieve" /\ t[p][2] \in Nat
    BY <1>1, <1>4, <2>1, TextFacts DEF IsComment, Comments
  <2>3. ~(Rank(t[p - 1][1]) < Rank(t[p][1]))
    BY <1>4, <2>1, <2>2, Ranks
  <2>4. t[p - 1][2] < t[p][2] /\ t[p - 1][2] \in Nat
    BY <1>1, <2>1, <2>2, <2>3, TextFacts DEF Ahead
  <2>5. IsNotBlank(t[p])
    BY <2>2 DEF IsNotBlank
  <2> QED BY <2>1, <2>2, <2>4, <2>5 DEF FirstLines
<1>8. ASSUME NEW p \in FirstLines(t), p \notin RecordStarts(t)
      PROVE  \E r \in RecordStarts(t) : /\ SeveralPolys(Stretch(t, r, {}))
                                        /\ p \in CommentLeads(Stretch(t, r, {}))
  <2>1. /\ p \in DOMAIN t /\ p \in Nat /\ p # 1 /\ IsNotBlank(t[p - 1]) /\ t[p - 1][2] # t[p][2]
        /\ IsNotBlank(t[p])
    BY <1>3, <1>8 DEF FirstLines, RecordStarts
  <2>2. /\ t[p - 1] = <<"y", t[p - 1][2]>> /\ t[p] = <<"msieve", t[p][2]>>
        /\ p - 1 \in DOMAIN t /\ t[p - 1][2] < t[p][2]
    BY <1>5, <2>1
  <2> DEFINE S == {q \in 1 .. p : \A k \in q .. p : IsNotBlank(t[k])}
  <2>3. PICK r \in S : \A q \in S : r <= q
    <3>1. p \in S /\ S \in SUBSET Nat
      BY <1>3, <2>1
    <3> HIDE DEF S
    <3> QED BY <3>1, LeastOfNaturals
  <2>4. r <= p - 1 /\ r \in DOMAIN t /\ r \in Nat
    <3>1. \A k \in p - 1 .. p : k = p - 1 \/ k = p
      BY <2>1
    <3>2. p - 1 \in S
      BY <1>3, <2>1, <2>2, <3>1
    <3> QED BY <1>3, <2>1, <2>3, <3>2
  <2>5. r \in RecordStarts(t)
    <3>1. IsNotBlank(t[r])
      BY <1>3, <2>3, <2>4
    <3>2. CASE r # 1 /\ IsNotBlank(t[r - 1])
      <4>1. \A k \in r - 1 .. p : k = r - 1 \/ k \in r .. p
        BY <2>1, <2>4
      <4>2. r - 1 \in S
        BY <1>3, <2>1, <2>3, <2>4, <3>2, <4>1
      <4> QED BY <2>3, <2>4, <4>2
    <3> QED BY <2>4, <3>1, <3>2 DEF RecordStarts
  <2> DEFINE record == Stretch(t, r, {})
  <2>6. \A q \in r .. Len(t) :
           (\A k \in r .. q : IsNotBlank(t[k])) => q \in DOMAIN record /\ record[q] = t[q]
    BY <2>4 DEF Stretch, Restrict
  <2>7. PICK y \in DOMAIN t : t[y] = <<"y", t[p][2]>>
    BY <1>1, <1>2, <2>1, TextFacts DEF Kinds, Sides
  <2>8. p < y /\ y \in Nat
    <3>1. y \in Nat /\ t[p][2] \in Nat
      BY <1>1, <2>1, <2>7, TextFacts
    <3>2. CASE y < p
      <4>1. y <= p - 1
        BY <2>1, <3>1, <3>2
      <4>2. t[y][2] <= t[p - 1][2] /\ t[p - 1][2] \in Nat
        BY <1>1, <2>2, <4>1, TextFacts
      <4> QED BY <2>2, <2>7, <3>1, <4>2
    <3>3. y # p
      BY <2>2, <2>7
    <3> QED BY <2>1, <3>1, <3>2, <3>3
  <2>9. \A k \in r .. y : IsNotBlank(t[k])
    <3> SUFFICES ASSUME NEW k \in r .. y, ~IsNotBlank(t[k]) PROVE FALSE
      OBVIOUS
    <3>1. k \in DOMAIN t /\ k \in Nat /\ ~(k \in r .. p)
      BY <1>3, <2>3, <2>4
    <3>2. p < k /\ k < y
      <4>1. IsNotBlank(t[y])
        BY <2>7 DEF IsNotBlank
      <4> QED BY <2>1, <2>4, <2>8, <3>1, <4>1
    <3>3. t[k][2] < t[y][2]
      BY <1>1, <3>1, <3>2, TextFacts
    <3>4. t[p][2] <= t[k][2]
      <4>1. p <= k
        BY <2>1, <3>1, <3>2
      <4> QED BY <1>1, <2>1, <3>1, <4>1, TextFacts
    <3>5. t[k][2] \in Nat /\ t[p][2] \in Nat
      <4>1. \A q \in DOMAIN t : t[q][2] \in Nat
        BY <1>1, TextFacts
      <4> QED BY <2>1, <3>1, <4>1
    <3> QED BY <2>7, <3>3, <3>4, <3>5
  <2>10. /\ \A q \in {p - 1, p, y} : q \in DOMAIN record /\ record[q] = t[q]
    <3> SUFFICES ASSUME NEW q \in {p - 1, p, y}
                 PROVE  q \in r .. Len(t) /\ \A k \in r .. q : IsNotBlank(t[k])
      BY <2>6
    <3> QED BY <1>3, <2>1, <2>4, <2>8, <2>9
  <2> HIDE DEF record
  <2>11. SeveralPolys(record)
    <3>1. IsBody(record[p - 1]) /\ IsBody(record[y]) /\ Key(record[p - 1]) = Key(record[y])
      <4>1. t[p - 1][1] = "y" /\ t[y][1] = "y" /\ record[p - 1] = t[p - 1] /\ record[y] = t[y]
        BY <2>2, <2>7, <2>10
      <4> QED BY <4>1 DEF IsBody, Key, Sides
    <3> QED BY <2>1, <2>8, <2>10, <3>1 DEF SeveralPolys
  <2>12. p \in CommentLeads(record)
    BY <2>2, <2>10 DEF CommentLeads, IsComment, IsBody, Comments, Sides
  <2> QED BY <2>5, <2>11, <2>12 DEF record
<1>9. Starts(t) \subseteq FirstLines(t)
  BY <1>6, <1>7 DEF Starts
<1>10. FirstLines(t) \subseteq Starts(t)
  <2> SUFFICES ASSUME NEW p \in FirstLines(t), p \notin RecordStarts(t) PROVE p \in Starts(t)
    BY DEF Starts
  <2>1. PICK r \in RecordStarts(t) : /\ SeveralPolys(Stretch(t, r, {}))
                                     /\ p \in CommentLeads(Stretch(t, r, {}))
    BY <1>8
  <2> QED BY <2>1 DEF Starts
<1> QED BY <1>9, <1>10

\* With each polynomial beginning a block, the block is the lines of the polynomial.
LEMMA StretchOfPoly ==
    ASSUME NEW file, Laid(file), NEW t, t = TextOf(file), NEW p \in FirstLines(t)
    PROVE  Stretch(t, p, FirstLines(t)) = Restrict(t, PolyLines(t, t[p][2]))
<1> DEFINE i == t[p][2]
           S == {j \in p .. Len(t) :
                    \A k \in p + 1 .. j : IsNotBlank(t[k]) /\ k \notin FirstLines(t)}
<1>1. /\ DOMAIN t = 1 .. Len(t) /\ Len(t) \in Nat /\ p \in DOMAIN t /\ p \in Nat
      /\ IsNotBlank(t[p]) /\ i \in Nat
      /\ p = 1 \/ t[p - 1][2] # i
  BY TextFacts DEF FirstLines
<1>2. ASSUME NEW q \in S PROVE q \in PolyLines(t, i)
  <2>1. q \in DOMAIN t /\ q \in Nat /\ p <= q /\ IsNotBlank(t[q])
    <3>1. q = p \/ q \in p + 1 .. q
      BY <1>1
    <3> QED BY <1>1, <3>1
  <2> SUFFICES ASSUME t[q][2] # i PROVE FALSE
    BY <2>1 DEF PolyLines
  <2> DEFINE D == {k \in p .. q : t[k][2] # i}
  <2>2. PICK k \in D : \A m \in D : k <= m
    <3>1. q \in D /\ D \in SUBSET Nat
      BY <1>1, <2>1
    <3> HIDE DEF D
    <3> QED BY <3>1, LeastOfNaturals
  <2>3. k \in p + 1 .. q /\ k \in DOMAIN t /\ k - 1 \in p .. q /\ k \in Nat
    BY <1>1, <2>1
  <2>4. k - 1 \notin D
    BY <2>2, <2>3
  <2>5. t[k - 1][2] = i /\ t[k][2] # i
    BY <2>3, <2>4
  <2>6. k \in FirstLines(t)
    BY <1>2, <2>3, <2>5 DEF FirstLines
  <2> QED BY <1>2, <2>3, <2>6
<1>3. ASSUME NEW q \in PolyLines(t, i) PROVE q \in S
  <2>1. q \in DOMAIN t /\ q \in Nat /\ t[q][2] = i /\ IsNotBlank(t[q])
    BY <1>1, <1>3 DEF PolyLines
  <2>2. p <= q
    <3> SUFFICES ASSUME q < p PROVE FALSE
      BY <1>1, <2>1
    <3>1. p - 1 \in DOMAIN t /\ q <= p - 1 /\ p - 1 <= p /\ p # 1
      BY <1>1, <2>1
    <3>2. t[q][2] <= t[p - 1][2] /\ t[p - 1][2] <= i /\ t[p - 1][2] \in Nat
      BY <1>1, <2>1, <3>1, TextFacts
    <3> QED BY <1>1, <2>1, <3>1, <3>2
  <2>3. ASSUME NEW k \in p .. q PROVE t[k][2] = i /\ k \in DOMAIN t /\ k \in Nat
    <3>1. k \in DOMAIN t /\ p <= k /\ k <= q
      BY <1>1, <2>1
    <3>2. t[p][2] <= t[k][2] /\ t[k][2] <= t[q][2] /\ t[k][2] \in Nat
      BY <1>1, <2>1, <3>1, TextFacts
    <3> QED BY <1>1, <2>1, <3>1, <3>2
  <2>4. ASSUME NEW k \in p + 1 .. q PROVE IsNotBlank(t[k]) /\ k \notin FirstLines(t)
    <3>1. k \in p .. q /\ k - 1 \in p .. q /\ k # 1 /\ k <= q
      BY <1>1, <2>1
    <3>2. k \notin FirstLines(t)
      BY <2>3, <3>1 DEF FirstLines
    <3>3. IsNotBlank(t[k])
      <4> SUFFICES ASSUME ~IsNotBlank(t[k]), k < q PROVE FALSE
        BY <2>1, <2>3, <3>1
      <4>1. t[k][2] < t[q][2]
        BY <2>1, <2>3, <3>1, TextFacts
      <4> QED BY <1>1, <2>1, <2>3, <3>1, <4>1
    <3> QED BY <3>2, <3>3
  <2>5. q \in p .. Len(t)
    BY <1>1, <2>1, <2>2
  <2> QED BY <2>4, <2>5
<1>4. S = PolyLines(t, i)
  BY <1>2, <1>3
<1>5. Stretch(t, p, FirstLines(t)) = Restrict(t, S)
  BY DEF Stretch
<1> QED BY <1>4, <1>5

\* The block of polynomial i.
BlockOf(t, i) == Block(Restrict(t, PolyLines(t, i)))

LEMMA BlockLines ==
    ASSUME NEW file, Laid(file), NEW t, t = TextOf(file), NEW i \in DOMAIN file.polys
    PROVE  LET comments == BlockOf(t, i).comments
               body == BlockOf(t, i).body
           IN  /\ \A q : q \in DOMAIN comments <=> q \in PolyLines(t, i) /\ IsComment(t[q])
               /\ \A q : q \in DOMAIN body <=> q \in PolyLines(t, i) /\ IsBody(t[q])
               /\ \A q \in DOMAIN comments : comments[q] = t[q]
               /\ \A q \in DOMAIN body : body[q] = t[q]
<1> DEFINE s == Restrict(t, PolyLines(t, i))
<1>1. DOMAIN s = PolyLines(t, i) /\ \A q \in PolyLines(t, i) : s[q] = t[q]
  BY DEF Restrict
<1> HIDE DEF s
<1>2. /\ BlockOf(t, i).comments = [q \in {x \in DOMAIN s : IsComment(s[x])} |-> s[q]]
      /\ BlockOf(t, i).body = [q \in {x \in DOMAIN s : IsBody(s[x])} |-> s[q]]
  BY DEF BlockOf, Block, RestrictValues, Restrict, s
<1> QED BY <1>1, <1>2

\* A line of polynomial i in the text.
LEMMA LineAt ==
    ASSUME NEW file, Laid(file), NEW t, t = TextOf(file), NEW i \in DOMAIN file.polys,
           NEW kind \in Kinds \ {"blank"}
    PROVE  kind \in KindsOf(file, i) <=> \E q \in PolyLines(t, i) : t[q][1] = kind
<1>1. ASSUME kind \in KindsOf(file, i) PROVE \E q \in PolyLines(t, i) : t[q][1] = kind
  <2>1. PICK q \in DOMAIN t : t[q] = <<kind, i>>
    BY <1>1, TextFacts
  <2> QED BY <2>1 DEF PolyLines, IsNotBlank
<1>2. ASSUME NEW q \in PolyLines(t, i), t[q][1] = kind PROVE kind \in KindsOf(file, i)
  BY <1>2, TextFacts DEF PolyLines
<1> QED BY <1>1, <1>2

LEMMA BlockComplete ==
    ASSUME NEW file, Laid(file), NEW t, t = TextOf(file), NEW i \in DOMAIN file.polys
    PROVE  Complete(BlockOf(t, i).body) <=> file.polys[i].lacks = "nothing"
<1> DEFINE body == BlockOf(t, i).body
<1>1. ASSUME NEW key \in Sides
      PROVE  (\E q \in DOMAIN body : body[q][1] = key) <=> key \in KindsOf(file, i)
  <2>1. key \in Kinds \ {"blank"}
    BY DEF Kinds, Sides
  <2>2. /\ \A q : q \in DOMAIN body <=> q \in PolyLines(t, i) /\ IsBody(t[q])
        /\ \A q \in DOMAIN body : body[q] = t[q]
    BY BlockLines
  <2> HIDE DEF body
  <2>3. key \in KindsOf(file, i) <=> \E q \in PolyLines(t, i) : t[q][1] = key
    BY <2>1, LineAt
  <2> QED BY <2>2, <2>3 DEF IsBody
<1>2. \A key \in Sides : key \in KindsOf(file, i) <=> file.polys[i].lacks # key
  <2>1. file.n \in NLines \cup {"none"}
    BY DEF Laid, Files
  <2> QED BY <2>1 DEF KindsOf, Sides, NLines
<1>3. file.polys[i].lacks \in Sides \cup {"nothing"}
  BY DEF Laid, Files, Polys
<1> HIDE DEF body
<1>4. Complete(body) <=> \A key \in Sides : file.polys[i].lacks # key
  BY <1>1, <1>2 DEF Complete
<1> QED BY <1>3, <1>4 DEF Sides, body

LEMMA BlockScore ==
    ASSUME NEW file, Laid(file), NEW t, t = TextOf(file), NEW i \in DOMAIN file.polys
    PROVE  MurphyE(BlockOf(t, i).comments, ScoreOf(file)) = GivenScore(file.polys[i])
<1> DEFINE comments == BlockOf(t, i).comments
           of(form) == {q \in DOMAIN comments : comments[q][1] = form}
           taken == IF of("cado") # {} THEN of("cado") ELSE of("msieve")
           layout == file.polys[i].layout
<1>1. /\ DOMAIN comments \subseteq Nat
      /\ \A q \in DOMAIN comments : comments[q][2] = i /\ comments[q][1] \in Kinds
      /\ \A form \in Comments : of(form) # {} <=> form \in KindsOf(file, i)
  <2>1. /\ \A q : q \in DOMAIN comments <=> q \in PolyLines(t, i) /\ IsComment(t[q])
        /\ \A q \in DOMAIN comments : comments[q] = t[q]
    BY BlockLines
  <2> HIDE DEF comments
  <2>2. ASSUME NEW q \in DOMAIN comments
        PROVE  q \in Nat /\ comments[q][2] = i /\ comments[q][1] \in Kinds
    BY <2>1, TextFacts DEF PolyLines
  <2>3. ASSUME NEW form \in Comments PROVE of(form) # {} <=> form \in KindsOf(file, i)
    <3>1. form \in Kinds \ {"blank"}
      BY DEF Kinds, Comments
    <3>2. form \in KindsOf(file, i) <=> \E q \in PolyLines(t, i) : t[q][1] = form
      BY <3>1, LineAt
    <3> QED BY <2>1, <3>2 DEF IsComment
  <2> QED BY <2>2, <2>3
<1>2. /\ "cado" \in KindsOf(file, i) <=> layout = "trail"
      /\ "msieve" \in KindsOf(file, i) <=> layout = "lead"
  <2>1. file.n \in NLines \cup {"none"}
    BY DEF Laid, Files
  <2> QED BY <2>1 DEF KindsOf, Sides, NLines
<1>3. layout \in {"lead", "trail", "bare"}
  BY DEF Laid, Files, Polys, Layouts
<1>4. ScoreOf(file)[i] = file.polys[i].score
  BY DEF ScoreOf
<1> HIDE DEF comments
<1>5. taken # {} <=> layout # "bare"
  BY <1>1, <1>2, <1>3 DEF Comments
<1>6. MurphyE(comments, ScoreOf(file)) =
         IF taken = {} THEN 0
         ELSE ScoreOf(file)[comments[CHOOSE q \in taken : \A r \in taken : q <= r][2]]
  BY DEF MurphyE
<1>7. taken \subseteq DOMAIN comments
  OBVIOUS
<1> HIDE DEF taken
<1>8. taken # {} => (CHOOSE q \in taken : \A r \in taken : q <= r) \in taken
  <2> SUFFICES ASSUME taken # {} PROVE \E q \in taken : \A r \in taken : q <= r
    OBVIOUS
  <2>1. taken \in SUBSET Nat
    BY <1>1, <1>7
  <2> QED BY <2>1, LeastOfNaturals
<1> QED BY <1>1, <1>4, <1>5, <1>6, <1>7, <1>8 DEF GivenScore, comments

-----------------------------------------------------------------------------
(***************************************************************************)
(* The choice.                                                             *)
(***************************************************************************)

\* Finitely many numbers have a greatest.
LEMMA GreatestOfValues ==
    ASSUME NEW n \in Nat, NEW C \in SUBSET (1 .. n), NEW f,
           \A i \in C : f[i] \in Nat, C # {}
    PROVE  \E i \in C : \A j \in C : f[j] <= f[i]
<1> DEFINE Reached == {m \in 1 .. n : C \cap (1 .. m) # {} =>
                       \E i \in C \cap (1 .. m) : \A j \in C \cap (1 .. m) : f[j] <= f[i]}
<1>1. n >= 1
  <2>1. PICK i \in C : i \in 1 .. n
    OBVIOUS
  <2> QED BY <2>1
<1>2. 1 \in Reached
  <2>1. \A i, j \in C \cap (1 .. 1) : i = j /\ f[j] \in Nat
    OBVIOUS
  <2> QED BY <1>1, <2>1
<1>3. ASSUME NEW m \in 1 .. n - 1, m \in Reached PROVE m + 1 \in Reached
  <2>1. m + 1 \in 1 .. n /\ \A i \in C : i \in 1 .. m + 1 <=> i \in 1 .. m \/ i = m + 1
    OBVIOUS
  <2>2. CASE m + 1 \notin C
    <3>1. C \cap (1 .. m + 1) = C \cap (1 .. m)
      BY <2>1, <2>2
    <3> QED BY <1>3, <2>1, <3>1
  <2>3. CASE m + 1 \in C /\ C \cap (1 .. m) = {}
    <3>1. C \cap (1 .. m + 1) = {m + 1} /\ f[m + 1] \in Nat
      BY <2>1, <2>3
    <3> QED BY <2>1, <3>1
  <2>4. CASE m + 1 \in C /\ C \cap (1 .. m) # {}
    <3>1. PICK i \in C \cap (1 .. m) : \A j \in C \cap (1 .. m) : f[j] <= f[i]
      BY <1>3, <2>4
    <3> DEFINE g == IF f[i] <= f[m + 1] THEN m + 1 ELSE i
    <3>2. f[i] \in Nat /\ f[m + 1] \in Nat
      BY <2>4, <3>1
    <3>3. g \in C \cap (1 .. m + 1) /\ f[i] <= f[g] /\ f[m + 1] <= f[g] /\ f[g] \in Nat
      BY <2>1, <2>4, <3>1, <3>2
    <3> HIDE DEF g
    <3>4. ASSUME NEW j \in C \cap (1 .. m + 1) PROVE f[j] <= f[g]
      <4>1. CASE j = m + 1
        BY <3>3, <4>1
      <4>2. CASE j \in C \cap (1 .. m)
        <5>1. f[j] <= f[i] /\ f[j] \in Nat
          BY <3>1, <4>2
        <5> QED BY <3>2, <3>3, <5>1
      <4> QED BY <2>1, <3>4, <4>1, <4>2
    <3> QED BY <2>1, <3>3, <3>4
  <2> QED BY <2>2, <2>3, <2>4
<1> HIDE DEF Reached
<1>4. n \in Reached
  <2>1. 1 .. n \subseteq Reached
    BY <1>2, <1>3, InductionTo
  <2> QED BY <1>1, <2>1
<1> QED BY <1>4 DEF Reached

\* The side that counts comes from a line of its kind.
LEMMA SideFound ==
    ASSUME NEW n \in Nat, NEW lines, DOMAIN lines \subseteq 1 .. n, NEW key,
           \E q \in DOMAIN lines : lines[q][1] = key
    PROVE  \E q \in DOMAIN lines : lines[q][1] = key /\ SideOf(lines, key) = lines[q][2]
<1> DEFINE at == {i \in DOMAIN lines : lines[i][1] = key}
           f == [i \in 1 .. n |-> i]
<1>1. at \in SUBSET (1 .. n) /\ at # {}
  OBVIOUS
<1>2. \E i \in at : \A j \in at : j <= i
  <2>1. \A i \in at : f[i] = i /\ f[i] \in Nat
    BY <1>1
  <2> HIDE DEF at, f
  <2>2. \E i \in at : \A j \in at : f[j] <= f[i]
    BY <1>1, <2>1, GreatestOfValues
  <2> QED BY <2>1, <2>2
<1>3. SideOf(lines, key) = lines[CHOOSE i \in at : \A j \in at : j <= i][2]
  BY <1>1 DEF SideOf
<1> DEFINE q == CHOOSE i \in at : \A j \in at : j <= i
<1>4. q \in at
  BY <1>2
<1> QED BY <1>3, <1>4

\* The layouts that the two programs write.
Written(file) == file \in Files /\ (Separated(file) \/ LedByScores(file))

LEMMA StartsOfPolys ==
    ASSUME NEW file, Written(file), NEW t, t = TextOf(file)
    PROVE  Laid(file) /\ Starts(t) = FirstLines(t)
BY StartsWhenSeparated, StartsWhenLed DEF Written, Laid, Separated, LedByScores

\* Each polynomial has a first line.
LEMMA FirstLineOf ==
    ASSUME NEW file, Laid(file), NEW t, t = TextOf(file), NEW i \in DOMAIN file.polys
    PROVE  \E p \in FirstLines(t) : t[p][2] = i
<1>1. file.polys[i].lacks \in Sides \cup {"nothing"}
  BY DEF Laid, Files, Polys
<1>2. PICK key \in Sides : key \in KindsOf(file, i)
  BY <1>1 DEF KindsOf, Sides
<1>3. PICK q \in PolyLines(t, i) : t[q][1] = key
  <2>1. key \in Kinds \ {"blank"}
    BY DEF Kinds, Sides
  <2> QED BY <1>2, <2>1, LineAt
<1> DEFINE S == {p \in DOMAIN t : t[p][2] = i}
<1>4. q \in S /\ S \in SUBSET Nat
  BY TextFacts DEF PolyLines
<1>5. PICK p \in S : \A r \in S : p <= r
  <2> HIDE DEF S
  <2> QED BY <1>4, LeastOfNaturals
<1>6. /\ p \in DOMAIN t /\ t[p][2] = i /\ p \in Nat /\ q \in DOMAIN t /\ p <= q /\ i \in Nat
      /\ IsNotBlank(t[q]) /\ t[q][2] = i /\ q \in Nat
  BY <1>4, <1>5, TextFacts DEF PolyLines
<1>7. IsNotBlank(t[p])
  <2> SUFFICES ASSUME ~IsNotBlank(t[p]), p < q PROVE FALSE
    BY <1>6
  <2>1. t[p][2] < t[q][2]
    BY <1>6, TextFacts
  <2> QED BY <1>6, <2>1
<1>8. p = 1 \/ t[p - 1][2] # i
  <2> SUFFICES ASSUME p # 1, p - 1 \in S PROVE FALSE
    <3>1. p # 1 => p - 1 \in DOMAIN t
      BY <1>6, TextFacts
    <3> QED BY <3>1
  <2> QED BY <1>5, <1>6
<1> QED BY <1>6, <1>7, <1>8 DEF FirstLines

\* The block that is taken is that of a complete polynomial, and no complete one
\* has a greater score.
LEMMA BestIsBest ==
    ASSUME NEW file, Written(file), NEW t, t = TextOf(file)
    PROVE  \/ /\ BestBlock(t, ScoreOf(file)) = <<>>
              /\ \A j \in DOMAIN file.polys : file.polys[j].lacks # "nothing"
           \/ \E i \in DOMAIN file.polys :
                 /\ BestBlock(t, ScoreOf(file)) = <<BlockOf(t, i)>>
                 /\ file.polys[i].lacks = "nothing"
                 /\ \A j \in DOMAIN file.polys :
                       file.polys[j].lacks = "nothing" =>
                           GivenScore(file.polys[j]) <= GivenScore(file.polys[i])
<1> DEFINE score == ScoreOf(file)
           starts == Starts(t)
           block == [i \in starts |-> Block(Stretch(t, i, starts))]
           candidates == {i \in starts : Complete(block[i].body)}
           e == [i \in candidates |-> MurphyE(block[i].comments, score)]
           best == {i \in candidates : \A j \in candidates : e[j] <= e[i]}
           chosen == CHOOSE i \in best : \A j \in best : i <= j
           GivenAt(p) == GivenScore(file.polys[t[p][2]])
<1>1. Laid(file) /\ starts = FirstLines(t)
  BY StartsOfPolys
<1>2. BestBlock(t, score) = IF best = {} THEN <<>> ELSE <<block[chosen]>>
  BY DEF BestBlock
<1>3. ASSUME NEW p \in starts
      PROVE  p \in DOMAIN t /\ t[p][2] \in DOMAIN file.polys /\ block[p] = BlockOf(t, t[p][2])
  <2>1. Stretch(t, p, starts) = Restrict(t, PolyLines(t, t[p][2]))
    BY <1>1, StretchOfPoly
  <2>2. p \in DOMAIN t /\ t[p][2] \in DOMAIN file.polys
    BY <1>1, TextFacts DEF FirstLines
  <2> QED BY <2>1, <2>2 DEF BlockOf
<1> HIDE DEF block
<1>4. \A p : p \in candidates <=> p \in starts /\ file.polys[t[p][2]].lacks = "nothing"
  BY <1>1, <1>3, BlockComplete
<1>5. \A p \in candidates : e[p] = GivenAt(p) /\ e[p] \in Nat
  <2> TAKE p \in candidates
  <2>1. e[p] = GivenAt(p)
    BY <1>1, <1>3, BlockScore
  <2>2. file.polys[t[p][2]].score \in Nat
    BY <1>1, <1>3, SubmitAssumption DEF Laid, Files, Polys
  <2> QED BY <2>1, <2>2 DEF GivenScore
<1> HIDE DEF candidates, e
<1>6. candidates \in SUBSET (1 .. Len(t)) /\ Len(t) \in Nat
  BY <1>1, <1>3, <1>4, TextFacts
<1>7. CASE candidates = {}
  <2>1. best = {}
    BY <1>7
  <2>2. ASSUME NEW j \in DOMAIN file.polys PROVE file.polys[j].lacks # "nothing"
    <3>1. PICK p \in FirstLines(t) : t[p][2] = j
      BY <1>1, FirstLineOf
    <3> QED BY <1>1, <1>4, <1>7, <3>1
  <2> QED BY <1>2, <2>1, <2>2
<1>8. CASE candidates # {}
  <2>1. best # {}
    BY <1>5, <1>6, <1>8, GreatestOfValues
  <2>2. chosen \in best
    <3>1. best \in SUBSET Nat
      <4>1. best \subseteq candidates
        OBVIOUS
      <4> HIDE DEF best
      <4> QED BY <1>6, <4>1
    <3>2. \E i \in best : \A j \in best : i <= j
      <4> HIDE DEF best
      <4> QED BY <2>1, <3>1, LeastOfNaturals
    <3> QED BY <3>2
  <2> DEFINE i == t[chosen][2]
  <2>3. chosen \in candidates /\ \A j \in candidates : e[j] <= e[chosen]
    BY <2>2
  <2> HIDE DEF chosen, best
  <2>4. /\ i \in DOMAIN file.polys /\ file.polys[i].lacks = "nothing"
        /\ BestBlock(t, score) = <<BlockOf(t, i)>>
        /\ e[chosen] = GivenScore(file.polys[i])
    BY <1>2, <1>3, <1>4, <1>5, <2>1, <2>3
  <2>5. ASSUME NEW j \in DOMAIN file.polys, file.polys[j].lacks = "nothing"
        PROVE  GivenScore(file.polys[j]) <= GivenScore(file.polys[i])
    <3>1. PICK p \in FirstLines(t) : t[p][2] = j
      BY <1>1, FirstLineOf
    <3>2. p \in candidates /\ e[p] = GivenScore(file.polys[j])
      BY <1>1, <1>4, <1>5, <2>5, <3>1
    <3> QED BY <2>3, <2>4, <3>2
  <2> QED BY <2>4, <2>5
<1> QED BY <1>7, <1>8

\* How a file became the polynomial of the run and its score.
Taken(file, poly, murphy) ==
    LET best == BestBlock(TextOf(file), ScoreOf(file))
    IN  /\ file \in Files
        /\ \/ /\ best # <<>>
              /\ poly = RestrictValues(best[1].body, KeptLine)
              /\ murphy = MurphyE(best[1].comments, ScoreOf(file))
           \/ best = <<>> /\ poly = TextOf(file)

\* The two sides of a polynomial that passed the validation.
OneSource(poly) == SideOf(poly, "c") # 0 /\ SideOf(poly, "c") = SideOf(poly, "y")

\* What BestChosen says of a file and what was made of it.
Best(file, poly, murphy) ==
    LET p == file.polys[SideOf(poly, "c")]
    IN  /\ p.lacks = "nothing"
        /\ murphy = GivenScore(p)
        /\ \A i \in DOMAIN file.polys :
              file.polys[i].lacks = "nothing" => GivenScore(file.polys[i]) <= murphy

LEMMA TakenIsBest ==
    ASSUME NEW file, Written(file), NEW poly, NEW murphy, Taken(file, poly, murphy), OneSource(poly)
    PROVE  Best(file, poly, murphy)
<1> DEFINE t == TextOf(file)
           best == BestBlock(t, ScoreOf(file))
<1>1. Laid(file) /\ DOMAIN t = 1 .. Len(t) /\ Len(t) \in Nat
  BY StartsOfPolys, TextFacts
<1>2. CASE /\ best = <<>>
           /\ \A j \in DOMAIN file.polys : file.polys[j].lacks # "nothing"
  <2>1. poly = t
    BY <1>2 DEF Taken
  <2>2. ASSUME NEW key \in Sides
        PROVE  /\ SideOf(poly, key) \in DOMAIN file.polys
               /\ file.polys[SideOf(poly, key)].lacks # key
    <3>1. \E q \in DOMAIN t : t[q][1] = key
      <4> SUFFICES ASSUME {q \in DOMAIN t : t[q][1] = key} = {} PROVE FALSE
        OBVIOUS
      <4>1. SideOf(poly, key) = 0
        BY <2>1 DEF SideOf
      <4> QED BY <2>2, <4>1 DEF OneSource, Sides
    <3>2. PICK q \in DOMAIN t : t[q][1] = key /\ SideOf(t, key) = t[q][2]
      BY <1>1, <3>1, SideFound
    <3>3. t[q][2] \in DOMAIN file.polys /\ key \in KindsOf(file, t[q][2])
      BY <1>1, <3>2, TextFacts
    <3>4. file.n \in NLines \cup {"none"}
      BY DEF Written, Files
    <3>5. file.polys[t[q][2]].lacks # key
      BY <3>3, <3>4 DEF KindsOf, Sides, NLines
    <3> QED BY <2>1, <3>2, <3>3, <3>5
  <2>3. file.polys[SideOf(poly, "c")].lacks \in Sides \cup {"nothing"}
    BY <2>2 DEF Written, Files, Polys, Sides
  <2> QED BY <1>2, <2>2, <2>3 DEF OneSource, Sides
<1>3. CASE \E i \in DOMAIN file.polys :
              /\ best = <<BlockOf(t, i)>>
              /\ file.polys[i].lacks = "nothing"
              /\ \A j \in DOMAIN file.polys :
                    file.polys[j].lacks = "nothing" =>
                        GivenScore(file.polys[j]) <= GivenScore(file.polys[i])
  <2>1. PICK i \in DOMAIN file.polys :
              /\ best = <<BlockOf(t, i)>>
              /\ file.polys[i].lacks = "nothing"
              /\ \A j \in DOMAIN file.polys :
                    file.polys[j].lacks = "nothing" =>
                        GivenScore(file.polys[j]) <= GivenScore(file.polys[i])
    BY <1>3
  <2> DEFINE body == BlockOf(t, i).body
  <2>2. /\ poly = RestrictValues(body, KeptLine)
        /\ murphy = MurphyE(BlockOf(t, i).comments, ScoreOf(file))
    <3>1. best # <<>> /\ best[1] = BlockOf(t, i)
      BY <2>1
    <3> HIDE DEF best
    <3> QED BY <3>1 DEF Taken, best
  <2>3. murphy = GivenScore(file.polys[i])
    BY <1>1, <2>2, BlockScore
  <2>4. SideOf(poly, "c") = i
    <3>1. Complete(body)
      BY <1>1, <2>1, BlockComplete
    <3>2. /\ \A q : q \in DOMAIN body <=> q \in PolyLines(t, i) /\ IsBody(t[q])
          /\ \A q \in DOMAIN body : body[q] = t[q]
      BY <1>1, BlockLines
    <3> HIDE DEF body
    <3>3. poly = [q \in {x \in DOMAIN body : body[x][1] # "n:"} |-> body[q]]
      BY <2>2 DEF RestrictValues, Restrict, KeptLine, body
    <3>4. /\ DOMAIN poly \subseteq 1 .. Len(t)
          /\ \A q \in DOMAIN poly : poly[q][2] = i
      BY <1>1, <3>2, <3>3 DEF PolyLines
    <3>5. \E q \in DOMAIN poly : poly[q][1] = "c"
      BY <3>1, <3>3 DEF Complete, Sides
    <3>6. PICK q \in DOMAIN poly : SideOf(poly, "c") = poly[q][2]
      BY <1>1, <3>4, <3>5, SideFound
    <3> QED BY <3>4, <3>6
  <2> QED BY <2>1, <2>3, <2>4 DEF Best
<1> QED BY <1>2, <1>3, BestIsBest

-----------------------------------------------------------------------------
(***************************************************************************)
(* The submission.                                                         *)
(***************************************************************************)

Posted(outcome) == outcome \in {"stored", "stale"}

\* What the run has in hand was taken from its file, up to the answer of the tracker,
\* and once it passed the validation its sides are of one polynomial.
InHand ==
    /\ run.pc \in {"taken", "valid"} \/ Posted(run.outcome) =>
          Taken(run.file, run.poly, run.murphy)
    /\ run.pc = "valid" \/ Posted(run.outcome) => OneSource(run.poly)

\* Besides: the sequence never goes back, and what passed the validation names the
\* composite fetched.
SubmitInv ==
    /\ current \in Nat /\ run.n \in Nat /\ run.n <= current
    /\ run = [pc |-> run.pc, n |-> run.n, file |-> run.file, poly |-> run.poly,
              murphy |-> run.murphy, outcome |-> run.outcome]
    /\ run.outcome \in Outcomes
    /\ run.pc = "valid" => NOf(run.poly) = run.n
    /\ run.pc # "over" => run.outcome = "none"
    /\ StaleOnlyIfAdvanced
    /\ InHand

LEMMA SubmitStart == SubmitInit => SubmitInv
BY DEF SubmitInit, NewRun, SubmitInv, StaleOnlyIfAdvanced, Outcomes, InHand, Posted

\* A step that ends the run, without a post of anything but what is valid, and finds n
\* out of date only if it is.
LEMMA EndKeeps ==
    ASSUME SubmitInv, NEW outcome \in Outcomes, End(outcome), UNCHANGED current,
           outcome = "stale" => current # run.n,
           Posted(outcome) => run.pc = "valid"
    PROVE  SubmitInv'
<1>1. run' = [pc |-> "over", n |-> run.n, file |-> run.file, poly |-> run.poly,
              murphy |-> run.murphy, outcome |-> outcome]
  BY DEF End, SubmitInv
<1> QED BY <1>1 DEF SubmitInv, StaleOnlyIfAdvanced, InHand, Posted

LEMMA SubmitStep ==
    ASSUME SubmitInv, [SubmitNext]_submitVars
    PROVE  SubmitInv'
<1>1. CASE Fetch
  <2>1. CASE End("nothing")
    BY <1>1, <2>1, EndKeeps DEF Fetch, Outcomes, Posted
  <2>2. CASE run' = [run EXCEPT !.pc = "picked", !.n = current]
    <3>1. run' = [pc |-> "picked", n |-> current, file |-> run.file, poly |-> run.poly,
                  murphy |-> run.murphy, outcome |-> run.outcome]
      BY <2>2 DEF SubmitInv
    <3> QED BY <1>1, <3>1 DEF Fetch, SubmitInv, StaleOnlyIfAdvanced, InHand, Posted
  <2> QED BY <1>1, <2>1, <2>2 DEF Fetch
<1>2. CASE TakePoly
  <2>1. PICK file \in Files, supplied \in BOOLEAN : TakeFrom(file, supplied)
    BY <1>2 DEF TakePoly
  <2>2. ASSUME NEW poly, NEW murphy, Take(file, poly, murphy), UNCHANGED current,
               Taken(file, poly, murphy)
        PROVE  SubmitInv'
    <3>1. run' = [pc |-> "taken", n |-> run.n, file |-> file, poly |-> poly,
                  murphy |-> murphy, outcome |-> run.outcome]
      BY <2>2 DEF Take, SubmitInv
    <3> QED BY <1>2, <2>2, <3>1 DEF TakePoly, SubmitInv, StaleOnlyIfAdvanced, InHand, Posted
  <2>3. CASE End("nopoly") /\ UNCHANGED current
    BY <2>3, EndKeeps DEF Outcomes, Posted
  <2> QED BY <2>1, <2>2, <2>3 DEF TakeFrom, Taken
<1>3. CASE Validate
  <2>1. CASE Valid(run.poly) /\ run' = [run EXCEPT !.pc = "valid"]
    <3>1. run' = [pc |-> "valid", n |-> run.n, file |-> run.file, poly |-> run.poly,
                  murphy |-> run.murphy, outcome |-> run.outcome]
      BY <2>1 DEF SubmitInv
    <3>2. NOf(run.poly) = run.n /\ OneSource(run.poly) /\ current' = current
      BY <1>3, <2>1 DEF Valid, Validate, OneSource
    <3> QED BY <1>3, <3>1, <3>2 DEF Validate, SubmitInv, StaleOnlyIfAdvanced, NOf, InHand, Posted
  <2>2. CASE End("invalid")
    BY <1>3, <2>2, EndKeeps DEF Validate, Outcomes, Posted
  <2> QED BY <1>3, <2>1, <2>2 DEF Validate
<1>4. CASE DoNotSubmit
  BY <1>4, EndKeeps DEF DoNotSubmit, Outcomes, Posted
<1>5. CASE Post
  <2>1. NOf(run.poly) = run.n /\ current' = current /\ run.pc = "valid"
    BY <1>5 DEF Post, SubmitInv
  <2>2. PICK reply \in Replies(NOf(run.poly)) :
            End(CASE reply = "ok" -> "stored"
                  [] reply = "no match" -> "stale"
                  [] reply = "other" -> "rejected")
    BY <1>5 DEF Post
  <2>3. \/ End("stored") \/ End("rejected")
        \/ End("stale") /\ current # run.n
    BY <2>1, <2>2 DEF Replies
  <2> QED BY <2>1, <2>3, EndKeeps DEF Outcomes
<1>6. CASE Advance
  BY <1>6 DEF Advance, SubmitInv, StaleOnlyIfAdvanced, NOf, InHand
<1>7. CASE UNCHANGED submitVars
  BY <1>7 DEF submitVars, SubmitInv, StaleOnlyIfAdvanced, NOf, InHand
<1> QED BY <1>1, <1>2, <1>3, <1>4, <1>5, <1>6, <1>7 DEF SubmitNext, RunStep

\* However long the optimizer runs and whatever file is taken, work is given up as
\* out of date only when the sequence did advance.
THEOREM StaleOnlyIfAdvancedAlways == SubmitSpec => []StaleOnlyIfAdvanced
<1>1. SubmitInv => StaleOnlyIfAdvanced
  BY DEF SubmitInv
<1> QED BY <1>1, SubmitStart, SubmitStep, PTL DEF SubmitSpec

\* Whatever the number of polynomials in the file, whichever of the two programs wrote
\* it: what is posted is its best complete polynomial, with its own score.
THEOREM BestChosenAlways == SubmitSpec => []BestChosen
<1>1. SubmitInv => BestChosen
  <2> SUFFICES ASSUME SubmitInv, Posted(run.outcome),
                      Separated(run.file) \/ LedByScores(run.file)
               PROVE  Best(run.file, run.poly, run.murphy)
    BY DEF BestChosen, Best, Posted
  <2>1. Taken(run.file, run.poly, run.murphy) /\ OneSource(run.poly)
    BY DEF SubmitInv, InHand
  <2>2. Written(run.file)
    BY <2>1 DEF Taken, Written
  <2> QED BY <2>1, <2>2, TakenIsBest
<1> QED BY <1>1, SubmitStart, SubmitStep, PTL DEF SubmitSpec
=============================================================================
