-------------------------- MODULE PolyServerProofs --------------------------
(***************************************************************************)
(* What PolyServer guarantees for every number of uploads, pieces and      *)
(* contents.  First, its steps are steps of the tables, so that every      *)
(* theorem of WorkUnitsProofs holds of the server.  Then the blobs: which  *)
(* file an open handle leads to, that one upload at a time is past its     *)
(* digest check, and from these what is on disk for a recorded row.        *)
(***************************************************************************)
EXTENDS PolyServer, WorkUnitsProofs

-----------------------------------------------------------------------------
(***************************************************************************)
(* The requests.                                                           *)
(***************************************************************************)

\* A request in progress is about a listed workunit and has its headers.
BusyNamed ==
    \A u \in Uploads : upload[u].pc # "idle" =>
        /\ upload[u].workunit \in Coeffs
        /\ upload[u].client \in Clients
        /\ upload[u].sha256 \in Digests

RequestsOK == upload \in [Uploads -> Requests] /\ BusyNamed

\* A request that is over is a request.
LEMMA AnsweredIsRequest ==
    /\ Idle \in Requests
    /\ \A w \in Coeffs, d \in Digests, answer \in Answers : Answered(w, d, answer) \in Requests
BY ChunksAssumption DEF Idle, Answered, Requests, Links, Answers

\* Moving a name changes the link of the other requests that write a file of
\* the workunit, and nothing else of them.
LEMMA RelinkFacts ==
    ASSUME RequestsOK, NEW u \in Uploads, NEW after \in Requests,
           NEW move \in [Links -> Links]
    PROVE  LET R == Relink(u, after, move) IN
           /\ R \in [Uploads -> Requests]
           /\ R[u] = after
           /\ \A v \in Uploads \ {u} :
                 /\ R[v].pc = upload[v].pc
                 /\ R[v].workunit = upload[v].workunit
                 /\ R[v].client = upload[v].client
                 /\ R[v].sha256 = upload[v].sha256
                 /\ R[v].received = upload[v].received
                 /\ R[v].answer = upload[v].answer
                 /\ v \in Receiving(upload[u].workunit) => R[v].link = move[upload[v].link]
                 /\ v \notin Receiving(upload[u].workunit) => R[v] = upload[v]
<1> DEFINE R == Relink(u, after, move)
<1>1. R[u] = after
  BY DEF Relink
<1>2. ASSUME NEW v \in Uploads \ {u}, v \in Receiving(upload[u].workunit)
      PROVE  R[v] = [upload[v] EXCEPT !.link = move[upload[v].link]]
  BY <1>2 DEF Relink
<1>3. ASSUME NEW v \in Uploads \ {u}, v \notin Receiving(upload[u].workunit)
      PROVE  R[v] = upload[v]
  BY <1>3 DEF Relink
<1>4. \A v \in Uploads : upload[v] \in Requests
  BY DEF RequestsOK
<1>5. ASSUME NEW v \in Uploads PROVE R[v] \in Requests
  <2>1. CASE v = u
    BY <1>1, <2>1
  <2>2. CASE v # u /\ v \in Receiving(upload[u].workunit)
    <3>1. R[v] = [upload[v] EXCEPT !.link = move[upload[v].link]]
      BY <1>2, <2>2
    <3>2. upload[v] \in Requests /\ upload[v].link \in Links
      BY <1>4 DEF Requests
    <3>3. move[upload[v].link] \in Links
      BY <3>2
    <3> HIDE DEF R
    <3> QED BY <3>1, <3>2, <3>3 DEF Requests
  <2>3. CASE v # u /\ v \notin Receiving(upload[u].workunit)
    BY <1>3, <1>4, <2>3
  <2> QED BY <2>1, <2>2, <2>3
<1>6. R \in [Uploads -> Requests]
  BY <1>5 DEF Relink
<1>7. ASSUME NEW v \in Uploads \ {u}, v \in Receiving(upload[u].workunit)
      PROVE  /\ R[v].pc = upload[v].pc
             /\ R[v].workunit = upload[v].workunit
             /\ R[v].client = upload[v].client
             /\ R[v].sha256 = upload[v].sha256
             /\ R[v].received = upload[v].received
             /\ R[v].answer = upload[v].answer
             /\ R[v].link = move[upload[v].link]
  BY <1>2, <1>4, <1>7 DEF Requests
<1> QED BY <1>1, <1>3, <1>6, <1>7

\* Both moves of a name are functions on links.
LEMMA MovesAreFunctions ==
    /\ \A name \in Links : Unlink(name) \in [Links -> Links]
    /\ \A d \in Digests : Rename(d) \in [Links -> Links]
BY DEF Unlink, Rename, Links

\* A server that starts has no requests.
LEMMA RequestsInit == ServerInit => RequestsOK
BY AnsweredIsRequest DEF ServerInit, RequestsOK, BusyNamed, Idle, Answered

\* A request that moves a name and ends or goes on leaves the others in order.
LEMMA RelinkNamed ==
    ASSUME RequestsOK, NEW u \in Uploads, NEW after \in Requests,
           NEW move \in [Links -> Links],
           upload' = Relink(u, after, move),
           after.pc # "idle" => /\ after.workunit \in Coeffs
                                /\ after.client \in Clients
                                /\ after.sha256 \in Digests
    PROVE  RequestsOK'
<1>1. upload' \in [Uploads -> Requests] /\ upload'[u] = after
  BY RelinkFacts
<1>2. ASSUME NEW v \in Uploads, v # u
      PROVE  /\ upload'[v].pc = upload[v].pc
             /\ upload'[v].workunit = upload[v].workunit
             /\ upload'[v].client = upload[v].client
             /\ upload'[v].sha256 = upload[v].sha256
  BY <1>2, RelinkFacts
<1>3. BusyNamed'
  BY <1>1, <1>2 DEF BusyNamed, RequestsOK
<1> QED BY <1>1, <1>3 DEF RequestsOK

\* Every step of the server keeps the requests in order.
LEMMA RequestsNext == RequestsOK /\ [ServerNext]_serverVars => RequestsOK'
<1> SUFFICES ASSUME RequestsOK, [ServerNext]_serverVars PROVE RequestsOK'
  OBVIOUS
<1>r. \A v \in Uploads : upload[v] \in Requests
  BY DEF RequestsOK
<1>m. Unlink("tmp") \in [Links -> Links]
  BY MovesAreFunctions DEF Links
<1>1. CASE UNCHANGED upload
  BY <1>1 DEF RequestsOK, BusyNamed
<1>2. ASSUME NEW u \in Uploads, NEW w \in Coeffs, NEW c \in Clients, NEW d \in Digests,
             OpenUpload(u, w, c, d)
      PROVE  RequestsOK'
  <2> DEFINE r == [pc |-> "receiving", workunit |-> w, client |-> c, sha256 |-> d,
                   received |-> 0, link |-> "tmp", answer |-> "none"]
  <2>1. upload' = [upload EXCEPT ![u] = r]
    BY <1>2 DEF OpenUpload
  <2>2. r \in Requests
    BY ChunksAssumption DEF Requests, Links, Answers
  <2>3. r.workunit \in Coeffs /\ r.client \in Clients /\ r.sha256 \in Digests
    OBVIOUS
  <2> HIDE DEF r
  <2> QED BY <2>1, <2>2, <2>3 DEF RequestsOK, BusyNamed
<1>3. ASSUME NEW u \in Uploads, NEW p \in Piece, ReceiveChunk(u, p)
      PROVE  RequestsOK'
  <2>1. /\ upload' = [upload EXCEPT ![u].received = upload[u].received + 1]
        /\ upload[u].received < Chunks
        /\ upload[u].pc = "receiving"
    BY <1>3 DEF ReceiveChunk
  <2>2. upload[u] \in Requests
    BY <1>r
  <2>3. upload[u].received + 1 \in 0 .. Chunks
    BY <2>1, <2>2, ChunksAssumption DEF Requests
  <2>4. [upload[u] EXCEPT !.received = upload[u].received + 1] \in Requests
    BY <2>2, <2>3 DEF Requests
  <2>5. /\ upload' \in [Uploads -> Requests]
        /\ \A v \in Uploads : /\ upload'[v].pc = upload[v].pc
                              /\ upload'[v].workunit = upload[v].workunit
                              /\ upload'[v].client = upload[v].client
                              /\ upload'[v].sha256 = upload[v].sha256
    BY <2>1, <2>2, <2>4 DEF RequestsOK, Requests
  <2> QED BY <2>5 DEF RequestsOK, BusyNamed
<1>4. ASSUME NEW u \in Uploads, CleanUp(u) PROVE RequestsOK'
  BY <1>4, <1>m, RelinkNamed, AnsweredIsRequest DEF CleanUp, Idle, Answered
<1>5. ASSUME NEW u \in Uploads, StoreBlob(u) PROVE RequestsOK'
  <2> DEFINE after == [upload[u] EXCEPT !.pc = "stored", !.link = "nameless"]
  <2>1. upload' = Relink(u, after, Rename(upload[u].sha256)) /\ upload[u].pc = "receiving"
    BY <1>5 DEF StoreBlob
  <2>2. /\ upload[u].workunit \in Coeffs
        /\ upload[u].client \in Clients
        /\ upload[u].sha256 \in Digests
    BY <2>1 DEF RequestsOK, BusyNamed
  <2>3. /\ after \in Requests
        /\ after.workunit = upload[u].workunit
        /\ after.client = upload[u].client
        /\ after.sha256 = upload[u].sha256
    BY <1>r DEF Requests, Links
  <2>4. Rename(upload[u].sha256) \in [Links -> Links]
    BY <2>2, MovesAreFunctions
  <2> HIDE DEF after
  <2> QED BY <2>1, <2>2, <2>3, <2>4, RelinkNamed
<1>6. ASSUME NEW u \in Uploads, PassCheck(u) PROVE RequestsOK'
  <2> DEFINE r == [upload[u] EXCEPT !.pc = "recording"]
  <2>1. upload' = [upload EXCEPT ![u] = r] /\ upload[u].pc = "stored"
    BY <1>6 DEF PassCheck
  <2>2. /\ r \in Requests
        /\ r.workunit = upload[u].workunit
        /\ r.client = upload[u].client
        /\ r.sha256 = upload[u].sha256
    BY <1>r DEF Requests
  <2> HIDE DEF r
  <2> QED BY <2>1, <2>2 DEF RequestsOK, BusyNamed
<1>7. ASSUME NEW u \in Uploads, FailCheck(u) PROVE RequestsOK'
  <2> DEFINE after == [upload[u] EXCEPT !.pc = "rejecting"]
  <2>1. upload' = Relink(u, after, Unlink(upload[u].sha256)) /\ upload[u].pc = "stored"
    BY <1>7 DEF FailCheck
  <2>2. /\ upload[u].workunit \in Coeffs
        /\ upload[u].client \in Clients
        /\ upload[u].sha256 \in Digests
    BY <2>1 DEF RequestsOK, BusyNamed
  <2>3. /\ after \in Requests
        /\ after.workunit = upload[u].workunit
        /\ after.client = upload[u].client
        /\ after.sha256 = upload[u].sha256
    BY <1>r DEF Requests
  <2>4. Unlink(upload[u].sha256) \in [Links -> Links]
    BY <2>2, MovesAreFunctions DEF Links
  <2> HIDE DEF after
  <2> QED BY <2>1, <2>2, <2>3, <2>4, RelinkNamed
<1>8. ASSUME NEW u \in Uploads, RejectUpload(u) PROVE RequestsOK'
  <2>1. upload' = [upload EXCEPT ![u] = Idle]
    BY <1>8 DEF RejectUpload
  <2>2. Idle \in Requests /\ Idle.pc = "idle"
    BY AnsweredIsRequest DEF Idle, Answered
  <2> QED BY <2>1, <2>2 DEF RequestsOK, BusyNamed
<1>9. ASSUME NEW u \in Uploads, RecordUpload(u) PROVE RequestsOK'
  <2> DEFINE answer == AnswerTo(SubmitStatus(upload[u].workunit, upload[u].client,
                                             upload[u].sha256))
             r == Answered(upload[u].workunit, upload[u].sha256, answer)
  <2>1. upload' = [upload EXCEPT ![u] = r] /\ upload[u].pc = "recording"
    BY <1>9 DEF RecordUpload
  <2>2. answer \in Answers
    BY DEF AnswerTo, Answers
  <2>3. upload[u].workunit \in Coeffs /\ upload[u].sha256 \in Digests
    BY <2>1 DEF RequestsOK, BusyNamed
  <2>4. r \in Requests
    BY <2>2, <2>3, AnsweredIsRequest
  <2>5. r.pc = "idle"
    BY DEF Answered
  <2> HIDE DEF r
  <2> QED BY <2>1, <2>4, <2>5 DEF RequestsOK, BusyNamed
<1>10. CASE Restart
  <2>1. Idle \in Requests /\ Idle.pc = "idle"
    BY AnsweredIsRequest DEF Idle, Answered
  <2> QED BY <1>10, <2>1 DEF Restart, RequestsOK, BusyNamed
<1> QED
  BY <1>1, <1>2, <1>3, <1>4, <1>5, <1>6, <1>7, <1>8, <1>9, <1>10
     DEF ServerNext, UploadStep, TableStep, AbortUpload, RefuseUpload, serverVars

\* The requests are in order in every reachable state.
LEMMA RequestsAlways == ServerSpec => []RequestsOK
BY RequestsInit, RequestsNext, PTL DEF ServerSpec

-----------------------------------------------------------------------------
(***************************************************************************)
(* The tables.                                                             *)
(***************************************************************************)

\* Every step of the server is a step of the tables or leaves them alone.
LEMMA TableSteps == RequestsOK /\ [ServerNext]_serverVars => [Next]_vars
<1> SUFFICES ASSUME RequestsOK, [ServerNext]_serverVars PROVE [Next]_vars
  OBVIOUS
<1>1. ASSUME TableStep PROVE Next
  BY <1>1 DEF TableStep, Next
<1>2. ASSUME NEW u \in Uploads, RejectUpload(u) PROVE [Next]_vars
  <2>1. upload[u].workunit \in Coeffs /\ upload[u].client \in Clients
    BY <1>2 DEF RejectUpload, RequestsOK, BusyNamed
  <2>2. FailWorkunit(upload[u].workunit, upload[u].client) \/ UNCHANGED vars
    BY <1>2 DEF RejectUpload
  <2> QED BY <2>1, <2>2 DEF Next
<1>3. ASSUME NEW u \in Uploads, RecordUpload(u) PROVE [Next]_vars
  <2>1. /\ upload[u].workunit \in Coeffs
        /\ upload[u].client \in Clients
        /\ upload[u].sha256 \in Digests
    BY <1>3 DEF RecordUpload, RequestsOK, BusyNamed
  <2>2. \/ Submit(upload[u].workunit, upload[u].client, upload[u].sha256)
        \/ UNCHANGED vars
    BY <1>3 DEF RecordUpload
  <2> QED BY <2>1, <2>2 DEF Next
<1>4. ASSUME NEW u \in Uploads, UploadStep(u), ~RejectUpload(u), ~RecordUpload(u)
      PROVE  UNCHANGED vars
  BY <1>4 DEF UploadStep, OpenUpload, ReceiveChunk, AbortUpload, RefuseUpload, CleanUp,
     StoreBlob, PassCheck, FailCheck
<1> QED BY <1>1, <1>2, <1>3, <1>4 DEF ServerNext, Restart, serverVars

\* The server implements the tables: what WorkUnitsProofs shows of every schedule
\* of calls holds of the calls that the upload path makes.
THEOREM ServerKeepsTables == ServerSpec => Spec
<1>1. ServerInit => Init
  BY DEF ServerInit
<1> QED BY <1>1, TableSteps, RequestsAlways, PTL DEF ServerSpec, Spec

\* In particular the server records one result per workunit, whatever uploads
\* overlap, are repeated or are interrupted by its death.
THEOREM ServerOneResult == ServerSpec => []OneResult
BY ServerKeepsTables, OneResultAlways, PTL

\* And it implements the abstract coverage of the job.
THEOREM ServerCovers == ServerSpec => CoverageSpec
BY ServerKeepsTables, ImplementsCoverage, PTL

\* The invariant of the tables holds of the server.
LEMMA TablesAlways == ServerSpec => []IInv
BY ServerKeepsTables, Invariance, PTL

-----------------------------------------------------------------------------
(***************************************************************************)
(* Contents of files.                                                      *)
(***************************************************************************)

\* A file that was just opened has a content.
LEMMA EmptyIsContent == <<>> \in Contents
<1>1. 0 \in 0 .. Chunks
  BY ChunksAssumption
<1>2. <<>> \in [1 .. 0 -> Piece]
  OBVIOUS
<1> QED BY <1>1, <1>2 DEF Contents

\* So has a file with a complete body.
LEMMA BodyIsContent == \A d \in Digests : Body(d) \in Contents
<1> SUFFICES ASSUME NEW d \in Digests PROVE Body(d) \in Contents
  OBVIOUS
<1>1. Chunks \in 0 .. Chunks
  BY ChunksAssumption
<1>2. Body(d) \in [1 .. Chunks -> Piece]
  BY DEF Body, Piece
<1> QED BY <1>1, <1>2 DEF Contents

\* A piece written within the length of a body gives a content: no file grows
\* beyond Chunks pieces, and gaps are Noise.
LEMMA WrittenIsContent ==
    ASSUME NEW file \in Contents, NEW k \in 1 .. Chunks, NEW p \in Piece
    PROVE  Written(file, k, p) \in Contents
<1>1. PICK n \in 0 .. Chunks : file \in [1 .. n -> Piece]
  BY DEF Contents
<1>2. n \in Nat /\ k \in Nat /\ Chunks \in Nat
  BY ChunksAssumption
<1>3. Len(file) = n
  BY <1>1, <1>2
<1> DEFINE m == IF n < k THEN k ELSE n
<1>4. m \in 0 .. Chunks
  BY <1>2, ChunksAssumption
<1>5. Written(file, k, p) \in [1 .. m -> Piece]
  BY <1>1, <1>2, <1>3 DEF Written, Piece
<1> QED BY <1>4, <1>5 DEF Contents

-----------------------------------------------------------------------------
(***************************************************************************)
(* The files.                                                              *)
(***************************************************************************)

FilesTyped ==
    /\ tmp \in [Coeffs -> Contents \cup {NULL}]
    /\ final \in [Coeffs -> [Digests -> Contents \cup {NULL}]]
    /\ spotcheck \in SpotChecks

\* A handle with a name leads to a file that is there.
LinksLive ==
    \A u \in Uploads : upload[u].pc = "receiving" =>
        /\ upload[u].link = "tmp" => tmp[upload[u].workunit] # NULL
        /\ upload[u].link \in Digests => final[upload[u].workunit][upload[u].link] # NULL

\* One request at a time is past its digest check.
AtWork(u) == upload[u].pc \in {"stored", "recording", "rejecting"}
OneAtWork == \A u, v \in Uploads : AtWork(u) /\ AtWork(v) => u = v

\* Its blob is intact until it fails its check.
BlobAtWork ==
    \A u \in Uploads :
        /\ upload[u].pc \in {"stored", "recording"} =>
              final[upload[u].workunit][upload[u].sha256] = Body(upload[u].sha256)
        /\ upload[u].pc = "rejecting" => spotcheck /\ upload[u].sha256 \in Failing
        /\ upload[u].pc = "recording" => ~(spotcheck /\ upload[u].sha256 \in Failing)

FilesInv ==
    /\ RequestsOK
    /\ FilesTyped
    /\ LinksLive
    /\ OneAtWork
    /\ BlobAtWork
    /\ NoStrayTmp

\* A fresh server has no files and no requests.
LEMMA FilesInit == ServerInit => FilesInv
<1> SUFFICES ASSUME ServerInit PROVE FilesInv
  OBVIOUS
<1>1. RequestsOK
  BY RequestsInit
<1>2. \A u \in Uploads : upload[u].pc = "idle"
  BY DEF ServerInit, Idle, Answered
<1>3. FilesTyped
  BY DEF ServerInit, FilesTyped
<1>4. NoStrayTmp
  BY DEF ServerInit, NoStrayTmp
<1> QED BY <1>1, <1>2, <1>3, <1>4 DEF FilesInv, LinksLive, OneAtWork, AtWork, BlobAtWork

\* app.py 101-127: the new request writes an empty file.
LEMMA OpenKeepsFiles ==
    ASSUME FilesInv, RequestsOK', NEW u \in Uploads, NEW w \in Coeffs, NEW c \in Clients,
           NEW d \in Digests, OpenUpload(u, w, c, d)
    PROVE  FilesInv'
<1> DEFINE r == [pc |-> "receiving", workunit |-> w, client |-> c, sha256 |-> d,
                 received |-> 0, link |-> "tmp", answer |-> "none"]
<1>1. /\ upload' = [upload EXCEPT ![u] = r] /\ tmp' = [tmp EXCEPT ![w] = <<>>]
      /\ UNCHANGED <<final, spotcheck>> /\ upload[u].pc = "idle"
  BY DEF OpenUpload
<1>2. /\ r.pc = "receiving" /\ r.link = "tmp" /\ r.workunit = w
      /\ upload \in [Uploads -> Requests]
  BY DEF FilesInv, RequestsOK
<1>3. upload'[u] = r /\ \A v \in Uploads \ {u} : upload'[v] = upload[v]
  BY <1>1, <1>2
<1> HIDE DEF r
<1>4. FilesTyped' /\ tmp'[w] = <<>> /\ \A x \in Coeffs \ {w} : tmp'[x] = tmp[x]
  BY <1>1, EmptyIsContent DEF FilesInv, FilesTyped
<1>5. <<>> # NULL
  BY EmptyIsContent, ContentsAssumption
<1>6. LinksLive'
  <2> SUFFICES ASSUME NEW v \in Uploads, upload'[v].pc = "receiving"
               PROVE  /\ upload'[v].link = "tmp" => tmp'[upload'[v].workunit] # NULL
                      /\ upload'[v].link \in Digests =>
                            final'[upload'[v].workunit][upload'[v].link] # NULL
    BY DEF LinksLive
  <2>1. CASE v = u
    BY <1>2, <1>3, <1>4, <1>5, <2>1, LinksAssumption
  <2>2. CASE v # u
    <3>1. upload'[v] = upload[v] /\ upload[v].workunit \in Coeffs
      BY <1>3, <2>2 DEF FilesInv, RequestsOK, BusyNamed
    <3> QED BY <1>1, <1>4, <1>5, <3>1 DEF FilesInv, LinksLive
  <2> QED BY <2>1, <2>2
<1>7. OneAtWork' /\ BlobAtWork'
  BY <1>1, <1>2, <1>3 DEF FilesInv, OneAtWork, AtWork, BlobAtWork
<1>8. NoStrayTmp'
  <2> SUFFICES ASSUME NEW x \in Coeffs, Receiving(x)' = {} PROVE tmp'[x] = NULL
    BY DEF NoStrayTmp
  <2>1. x # w
    BY <1>2, <1>3 DEF Receiving
  <2>2. Receiving(x) = {}
    BY <1>1, <1>2, <1>3 DEF Receiving
  <2> QED BY <1>4, <2>1, <2>2 DEF FilesInv, NoStrayTmp
<1> QED BY <1>4, <1>6, <1>7, <1>8 DEF FilesInv

\* app.py 128-131: no request is past its digest check, so that no file that a
\* piece may reach is a blob at work.
LEMMA ReceiveKeepsFiles ==
    ASSUME FilesInv, RequestsOK', NEW u \in Uploads, NEW p \in Piece, ReceiveChunk(u, p)
    PROVE  /\ FilesInv'
           /\ \A x \in Coeffs, e \in Digests : final[x][e] # NULL => final'[x][e] # NULL
<1> DEFINE w == upload[u].workunit
           k == upload[u].received + 1
           l == upload[u].link
<1>1. /\ upload' = [upload EXCEPT ![u].received = k]
      /\ upload[u].pc = "receiving" /\ upload[u].received < Chunks
      /\ tmp' = IF l = "tmp" THEN [tmp EXCEPT ![w] = Written(tmp[w], k, p)] ELSE tmp
      /\ final' = IF l \in Digests
                  THEN [final EXCEPT ![w][l] = Written(final[w][l], k, p)] ELSE final
      /\ UNCHANGED spotcheck /\ LoopFree
  BY DEF ReceiveChunk
<1>2. /\ upload[u] \in Requests /\ w \in Coeffs /\ upload \in [Uploads -> Requests]
  BY <1>1 DEF FilesInv, RequestsOK, BusyNamed
<1>3. k \in 1 .. Chunks
  BY <1>1, <1>2, ChunksAssumption DEF Requests
<1>4. \A v \in Uploads : /\ upload'[v].pc = upload[v].pc
                        /\ upload'[v].workunit = upload[v].workunit
                        /\ upload'[v].link = upload[v].link
  BY <1>1, <1>2 DEF Requests
<1>5. l = "tmp" => Written(tmp[w], k, p) \in Contents
  <2> SUFFICES ASSUME l = "tmp" PROVE Written(tmp[w], k, p) \in Contents
    OBVIOUS
  <2>1. tmp[w] \in Contents
    BY <1>1, <1>2 DEF FilesInv, FilesTyped, LinksLive
  <2> QED BY <1>3, <2>1, WrittenIsContent
<1>6. l \in Digests => Written(final[w][l], k, p) \in Contents
  <2> SUFFICES ASSUME l \in Digests PROVE Written(final[w][l], k, p) \in Contents
    OBVIOUS
  <2>1. final[w][l] \in Contents
    BY <1>1, <1>2 DEF FilesInv, FilesTyped, LinksLive
  <2> QED BY <1>3, <2>1, WrittenIsContent
<1> HIDE DEF w, k, l
<1>7. /\ FilesTyped'
      /\ \A x \in Coeffs : tmp'[x] = NULL <=> tmp[x] = NULL
      /\ \A x \in Coeffs, e \in Digests : final[x][e] # NULL => final'[x][e] # NULL
  <2>1. /\ tmp' \in [Coeffs -> Contents \cup {NULL}]
        /\ \A x \in Coeffs : tmp'[x] = NULL <=> tmp[x] = NULL
    <3>1. CASE l = "tmp"
      <4>1. tmp' = [tmp EXCEPT ![w] = Written(tmp[w], k, p)]
        BY <1>1, <3>1
      <4>2. tmp[w] # NULL
        BY <1>1, <3>1 DEF FilesInv, LinksLive, w, l
      <4> QED BY <1>2, <1>5, <3>1, <4>1, <4>2, ContentsAssumption DEF FilesInv, FilesTyped
    <3>2. CASE l # "tmp"
      BY <1>1, <3>2 DEF FilesInv, FilesTyped
    <3> QED BY <3>1, <3>2
  <2>2. /\ final' \in [Coeffs -> [Digests -> Contents \cup {NULL}]]
        /\ \A x \in Coeffs, e \in Digests : final[x][e] # NULL => final'[x][e] # NULL
    <3>1. CASE l \in Digests
      <4>1. final' = [final EXCEPT ![w][l] = Written(final[w][l], k, p)]
        BY <1>1, <3>1
      <4> QED BY <1>2, <1>6, <3>1, <4>1, ContentsAssumption DEF FilesInv, FilesTyped
    <3>2. CASE l \notin Digests
      BY <1>1, <3>2 DEF FilesInv, FilesTyped
    <3> QED BY <3>1, <3>2
  <2> QED BY <1>1, <2>1, <2>2 DEF FilesInv, FilesTyped
<1>8. LinksLive'
  <2> SUFFICES ASSUME NEW v \in Uploads, upload'[v].pc = "receiving"
               PROVE  /\ upload'[v].link = "tmp" => tmp'[upload'[v].workunit] # NULL
                      /\ upload'[v].link \in Digests =>
                            final'[upload'[v].workunit][upload'[v].link] # NULL
    BY DEF LinksLive
  <2>1. upload[v].pc = "receiving" /\ upload[v].workunit \in Coeffs
    BY <1>4 DEF FilesInv, RequestsOK, BusyNamed
  <2> QED BY <1>4, <1>7, <2>1 DEF FilesInv, LinksLive
<1>9. \A v \in Uploads : upload'[v].pc \in {"idle", "receiving"}
  BY <1>1, <1>4 DEF LoopFree
<1>10. OneAtWork' /\ BlobAtWork'
  BY <1>9 DEF OneAtWork, AtWork, BlobAtWork
<1>11. NoStrayTmp'
  <2>1. \A x \in Coeffs : Receiving(x)' = Receiving(x)
    BY <1>4 DEF Receiving
  <2> QED BY <1>7, <2>1 DEF FilesInv, NoStrayTmp
<1> QED BY <1>7, <1>8, <1>10, <1>11 DEF FilesInv

\* app.py 152-154: the handles on the temporary file lose its name with it.
LEMMA CleanUpKeepsFiles ==
    ASSUME FilesInv, RequestsOK', NEW u \in Uploads, upload[u].pc = "receiving", LoopFree,
           CleanUp(u)
    PROVE  FilesInv'
<1> DEFINE w == upload[u].workunit
<1>1. /\ tmp' = [tmp EXCEPT ![w] = NULL] /\ upload' = Relink(u, Idle, Unlink("tmp"))
      /\ UNCHANGED <<final, spotcheck>>
  BY DEF CleanUp
<1>2. w \in Coeffs /\ upload \in [Uploads -> Requests]
  BY DEF FilesInv, RequestsOK, BusyNamed
<1>3. Unlink("tmp") \in [Links -> Links]
  BY MovesAreFunctions DEF Links
<1>4. upload'[u].pc = "idle"
  BY <1>1, <1>3, RelinkFacts, AnsweredIsRequest DEF FilesInv, Idle, Answered
<1>5. \A v \in Uploads \ {u} :
         /\ upload'[v].pc = upload[v].pc
         /\ upload'[v].workunit = upload[v].workunit
         /\ v \in Receiving(w) => upload'[v].link = Unlink("tmp")[upload[v].link]
         /\ v \notin Receiving(w) => upload'[v] = upload[v]
  BY <1>1, <1>3, RelinkFacts, AnsweredIsRequest DEF FilesInv
<1> HIDE DEF w
<1>6. FilesTyped' /\ tmp'[w] = NULL /\ \A x \in Coeffs \ {w} : tmp'[x] = tmp[x]
  BY <1>1, <1>2 DEF FilesInv, FilesTyped
<1>7. LinksLive'
  <2> SUFFICES ASSUME NEW v \in Uploads, upload'[v].pc = "receiving"
               PROVE  /\ upload'[v].link = "tmp" => tmp'[upload'[v].workunit] # NULL
                      /\ upload'[v].link \in Digests =>
                            final'[upload'[v].workunit][upload'[v].link] # NULL
    BY DEF LinksLive
  <2>1. v # u /\ upload[v].pc = "receiving" /\ upload'[v].workunit = upload[v].workunit
    BY <1>4, <1>5
  <2>2. upload[v].workunit \in Coeffs /\ upload[v].link \in Links
    BY <1>2, <2>1 DEF FilesInv, RequestsOK, BusyNamed, Requests
  <2>3. CASE v \in Receiving(w)
    <3>1. upload'[v].link = IF upload[v].link = "tmp" THEN "nameless" ELSE upload[v].link
      BY <1>5, <2>1, <2>2, <2>3 DEF Unlink
    <3> QED BY <1>1, <2>1, <3>1, LinksAssumption DEF FilesInv, LinksLive
  <2>4. CASE v \notin Receiving(w)
    <3>1. upload'[v] = upload[v] /\ upload[v].workunit # w
      BY <1>5, <2>1, <2>4 DEF Receiving
    <3> QED BY <1>1, <1>6, <2>1, <2>2, <3>1 DEF FilesInv, LinksLive
  <2> QED BY <2>3, <2>4
<1>8. \A v \in Uploads : upload'[v].pc \in {"idle", "receiving"}
  BY <1>4, <1>5 DEF LoopFree
<1>9. OneAtWork' /\ BlobAtWork'
  BY <1>8 DEF OneAtWork, AtWork, BlobAtWork
<1>10. NoStrayTmp'
  <2> SUFFICES ASSUME NEW x \in Coeffs, Receiving(x)' = {} PROVE tmp'[x] = NULL
    BY DEF NoStrayTmp
  <2>1. CASE x = w
    BY <1>6, <2>1
  <2>2. CASE x # w
    <3>1. Receiving(x) = {}
      BY <1>5, <2>2 DEF Receiving, w
    <3> QED BY <1>6, <2>2, <3>1 DEF FilesInv, NoStrayTmp
  <2> QED BY <2>1, <2>2
<1> QED BY <1>6, <1>7, <1>9, <1>10 DEF FilesInv

\* app.py 150-151: the handles on the temporary file follow it to its new name,
\* and those on a blob that had the name lose it.
LEMMA StoreKeepsFiles ==
    ASSUME FilesInv, RequestsOK', NEW u \in Uploads, StoreBlob(u)
    PROVE  /\ FilesInv'
           /\ \A x \in Coeffs, e \in Digests : final[x][e] # NULL => final'[x][e] # NULL
<1> DEFINE w == upload[u].workunit
           d == upload[u].sha256
           after == [upload[u] EXCEPT !.pc = "stored", !.link = "nameless"]
<1>1. /\ upload[u].pc = "receiving" /\ tmp[w] = Body(d)
      /\ final' = [final EXCEPT ![w][d] = tmp[w]] /\ tmp' = [tmp EXCEPT ![w] = NULL]
      /\ upload' = Relink(u, after, Rename(d)) /\ LoopFree /\ UNCHANGED spotcheck
  BY DEF StoreBlob, DigestMatches
<1>2. w \in Coeffs /\ d \in Digests /\ upload \in [Uploads -> Requests]
  BY <1>1 DEF FilesInv, RequestsOK, BusyNamed
<1>3. Rename(d) \in [Links -> Links]
  BY <1>2, MovesAreFunctions
<1>4. /\ after \in Requests /\ after.pc = "stored"
      /\ after.workunit = w /\ after.sha256 = d
  BY <1>2 DEF Requests, Links
<1>5. upload'[u] = after
  BY <1>1, <1>3, <1>4, RelinkFacts DEF FilesInv
<1>6. \A v \in Uploads \ {u} :
         /\ upload'[v].pc = upload[v].pc
         /\ upload'[v].workunit = upload[v].workunit
         /\ v \in Receiving(w) => upload'[v].link = Rename(d)[upload[v].link]
         /\ v \notin Receiving(w) => upload'[v] = upload[v]
  BY <1>1, <1>3, <1>4, RelinkFacts DEF FilesInv
<1> HIDE DEF w, d, after
<1>7. /\ FilesTyped' /\ tmp'[w] = NULL /\ \A x \in Coeffs \ {w} : tmp'[x] = tmp[x]
      /\ final'[w][d] = Body(d) /\ final'[w][d] # NULL
      /\ \A x \in Coeffs, e \in Digests : final[x][e] # NULL => final'[x][e] # NULL
  BY <1>1, <1>2, BodyIsContent, ContentsAssumption DEF FilesInv, FilesTyped
<1>8. LinksLive'
  <2> SUFFICES ASSUME NEW v \in Uploads, upload'[v].pc = "receiving"
               PROVE  /\ upload'[v].link = "tmp" => tmp'[upload'[v].workunit] # NULL
                      /\ upload'[v].link \in Digests =>
                            final'[upload'[v].workunit][upload'[v].link] # NULL
    BY DEF LinksLive
  <2>1. v # u /\ upload[v].pc = "receiving" /\ upload'[v].workunit = upload[v].workunit
    BY <1>4, <1>5, <1>6
  <2>2. upload[v].workunit \in Coeffs /\ upload[v].link \in Links
    BY <1>2, <2>1 DEF FilesInv, RequestsOK, BusyNamed, Requests
  <2>3. CASE v \in Receiving(w)
    <3>1. upload'[v].link = IF upload[v].link = "tmp" THEN d
                            ELSE IF upload[v].link = d THEN "nameless" ELSE upload[v].link
      BY <1>6, <2>1, <2>2, <2>3 DEF Rename
    <3>2. upload[v].workunit = w
      BY <2>3 DEF Receiving
    <3>3. upload'[v].link # "tmp"
      BY <1>2, <3>1, LinksAssumption
    <3>4. upload'[v].link \in Digests => final'[w][upload'[v].link] # NULL
      BY <1>7, <2>1, <2>2, <3>1, <3>2, LinksAssumption DEF FilesInv, LinksLive
    <3> QED BY <2>1, <3>2, <3>3, <3>4
  <2>4. CASE v \notin Receiving(w)
    <3>1. upload'[v] = upload[v] /\ upload[v].workunit # w
      BY <1>6, <2>1, <2>4 DEF Receiving
    <3> QED BY <1>7, <2>1, <2>2, <3>1 DEF FilesInv, LinksLive
  <2> QED BY <2>3, <2>4
<1>9. \A v \in Uploads \ {u} : upload'[v].pc \in {"idle", "receiving"}
  BY <1>1, <1>6 DEF LoopFree
<1>10. OneAtWork' /\ BlobAtWork'
  BY <1>4, <1>5, <1>7, <1>9 DEF OneAtWork, AtWork, BlobAtWork
<1>11. NoStrayTmp'
  <2> SUFFICES ASSUME NEW x \in Coeffs, Receiving(x)' = {} PROVE tmp'[x] = NULL
    BY DEF NoStrayTmp
  <2>1. CASE x = w
    BY <1>7, <2>1
  <2>2. CASE x # w
    <3>1. Receiving(x) = {}
      BY <1>6, <2>2 DEF Receiving, w
    <3> QED BY <1>7, <2>2, <3>1 DEF FilesInv, NoStrayTmp
  <2> QED BY <2>1, <2>2
<1> QED BY <1>7, <1>8, <1>10, <1>11 DEF FilesInv

\* app.py 156-168: no file is touched.
LEMMA PassKeepsFiles ==
    ASSUME FilesInv, RequestsOK', NEW u \in Uploads, PassCheck(u)
    PROVE  FilesInv'
<1>1. /\ upload[u].pc = "stored" /\ upload' = [upload EXCEPT ![u].pc = "recording"]
      /\ UNCHANGED <<tmp, final, spotcheck>>
      /\ ~(spotcheck /\ upload[u].sha256 \in Failing)
  BY DEF PassCheck, SampleCheckFails, files
<1>2. upload \in [Uploads -> Requests]
  BY DEF FilesInv, RequestsOK
<1>3. \A v \in Uploads : /\ upload'[v].workunit = upload[v].workunit
                        /\ upload'[v].sha256 = upload[v].sha256
                        /\ upload'[v].link = upload[v].link
                        /\ v # u => upload'[v].pc = upload[v].pc
  BY <1>1, <1>2 DEF Requests
<1>4. upload'[u].pc = "recording"
  BY <1>1, <1>2 DEF Requests
<1>5. FilesTyped' /\ LinksLive'
  BY <1>1, <1>3, <1>4 DEF FilesInv, FilesTyped, LinksLive
<1>6. OneAtWork' /\ BlobAtWork'
  BY <1>1, <1>3, <1>4 DEF FilesInv, OneAtWork, AtWork, BlobAtWork
<1>7. \A x \in Coeffs : Receiving(x)' = Receiving(x)
  BY <1>1, <1>3, <1>4 DEF Receiving
<1>8. NoStrayTmp'
  BY <1>1, <1>7 DEF FilesInv, NoStrayTmp
<1> QED BY <1>5, <1>6, <1>8 DEF FilesInv

\* app.py 157-161: the handles on the blob that is removed lose its name.
LEMMA FailKeepsFiles ==
    ASSUME FilesInv, RequestsOK', NEW u \in Uploads, FailCheck(u)
    PROVE  FilesInv'
<1> DEFINE w == upload[u].workunit
           d == upload[u].sha256
           after == [upload[u] EXCEPT !.pc = "rejecting"]
<1>1. /\ upload[u].pc = "stored" /\ final' = [final EXCEPT ![w][d] = NULL]
      /\ upload' = Relink(u, after, Unlink(d)) /\ UNCHANGED <<tmp, spotcheck>>
      /\ spotcheck /\ d \in Failing
  BY DEF FailCheck, SampleCheckFails
<1>2. w \in Coeffs /\ d \in Digests /\ upload \in [Uploads -> Requests]
  BY <1>1 DEF FilesInv, RequestsOK, BusyNamed
<1>3. Unlink(d) \in [Links -> Links]
  BY <1>2, MovesAreFunctions DEF Links
<1>4. /\ after \in Requests /\ after.pc = "rejecting" /\ after.sha256 = d
  BY <1>2 DEF Requests
<1>5. upload'[u] = after
  BY <1>1, <1>3, <1>4, RelinkFacts DEF FilesInv
<1>6. \A v \in Uploads \ {u} :
         /\ upload'[v].pc = upload[v].pc
         /\ upload'[v].workunit = upload[v].workunit
         /\ v \in Receiving(w) => upload'[v].link = Unlink(d)[upload[v].link]
         /\ v \notin Receiving(w) => upload'[v] = upload[v]
  BY <1>1, <1>3, <1>4, RelinkFacts DEF FilesInv
<1> HIDE DEF w, d, after
<1>7. /\ FilesTyped'
      /\ \A x \in Coeffs, e \in Digests : x # w \/ e # d => final'[x][e] = final[x][e]
  BY <1>1, <1>2 DEF FilesInv, FilesTyped
<1>8. LinksLive'
  <2> SUFFICES ASSUME NEW v \in Uploads, upload'[v].pc = "receiving"
               PROVE  /\ upload'[v].link = "tmp" => tmp'[upload'[v].workunit] # NULL
                      /\ upload'[v].link \in Digests =>
                            final'[upload'[v].workunit][upload'[v].link] # NULL
    BY DEF LinksLive
  <2>1. v # u /\ upload[v].pc = "receiving" /\ upload'[v].workunit = upload[v].workunit
    BY <1>4, <1>5, <1>6
  <2>2. upload[v].workunit \in Coeffs /\ upload[v].link \in Links
    BY <1>2, <2>1 DEF FilesInv, RequestsOK, BusyNamed, Requests
  <2>3. CASE v \in Receiving(w)
    <3>1. upload'[v].link = IF upload[v].link = d THEN "nameless" ELSE upload[v].link
      BY <1>6, <2>1, <2>2, <2>3 DEF Unlink
    <3> QED BY <1>1, <1>7, <2>1, <2>2, <3>1, LinksAssumption DEF FilesInv, LinksLive
  <2>4. CASE v \notin Receiving(w)
    <3>1. upload'[v] = upload[v] /\ upload[v].workunit # w
      BY <1>6, <2>1, <2>4 DEF Receiving
    <3> QED BY <1>1, <1>7, <2>1, <2>2, <3>1 DEF FilesInv, LinksLive
  <2> QED BY <2>3, <2>4
<1>9. \A v \in Uploads \ {u} : upload[v].pc \in {"idle", "receiving"}
  BY <1>1, <1>2 DEF FilesInv, OneAtWork, AtWork, Requests
<1>10. OneAtWork' /\ BlobAtWork'
  BY <1>1, <1>4, <1>5, <1>6, <1>9 DEF OneAtWork, AtWork, BlobAtWork
<1>11. NoStrayTmp'
  <2>1. \A x \in Coeffs : Receiving(x)' = Receiving(x)
    BY <1>1, <1>4, <1>5, <1>6 DEF Receiving
  <2> QED BY <1>1, <2>1 DEF FilesInv, NoStrayTmp
<1> QED BY <1>7, <1>8, <1>10, <1>11 DEF FilesInv

\* app.py 162-180: the request at work gets its answer.
LEMMA AnswerKeepsFiles ==
    ASSUME FilesInv, RequestsOK', NEW u \in Uploads, AtWork(u), NEW r,
           r.pc = "idle", upload' = [upload EXCEPT ![u] = r],
           UNCHANGED <<tmp, final, spotcheck>>
    PROVE  FilesInv'
<1>1. upload'[u] = r /\ \A v \in Uploads \ {u} : upload'[v] = upload[v]
  BY DEF FilesInv, RequestsOK
<1>2. FilesTyped' /\ LinksLive' /\ OneAtWork' /\ BlobAtWork'
  BY <1>1 DEF FilesInv, FilesTyped, LinksLive, OneAtWork, AtWork, BlobAtWork
<1>3. \A x \in Coeffs : Receiving(x)' = Receiving(x)
  BY <1>1 DEF Receiving, AtWork
<1>4. NoStrayTmp'
  BY <1>3 DEF FilesInv, NoStrayTmp
<1> QED BY <1>2, <1>4 DEF FilesInv

\* The process dies: no request, no temporary name, the blobs stay.
LEMMA RestartKeepsFiles ==
    ASSUME FilesInv, RequestsOK', Restart
    PROVE  FilesInv'
<1>1. \A u \in Uploads : upload'[u].pc = "idle"
  BY DEF Restart, Idle, Answered
<1>2. FilesTyped' /\ NoStrayTmp'
  BY DEF Restart, FilesInv, FilesTyped, NoStrayTmp
<1> QED BY <1>1, <1>2 DEF FilesInv, LinksLive, OneAtWork, AtWork, BlobAtWork

\* Every step of the server keeps the files in order.
LEMMA FilesNext == FilesInv /\ [ServerNext]_serverVars => FilesInv'
<1> SUFFICES ASSUME FilesInv, [ServerNext]_serverVars PROVE FilesInv'
  OBVIOUS
<1>1. RequestsOK'
  BY RequestsNext DEF FilesInv
<1>2. CASE UNCHANGED <<upload, tmp, final, spotcheck>>
  BY <1>1, <1>2 DEF FilesInv, FilesTyped, LinksLive, OneAtWork, AtWork, BlobAtWork,
     NoStrayTmp, Receiving
<1>3. ASSUME NEW u \in Uploads, AbortUpload(u) \/ RefuseUpload(u) PROVE FilesInv'
  BY <1>1, <1>3, CleanUpKeepsFiles DEF AbortUpload, RefuseUpload
<1>4. ASSUME NEW u \in Uploads, RejectUpload(u) PROVE FilesInv'
  <2>1. upload' = [upload EXCEPT ![u] = Idle] /\ AtWork(u) /\ UNCHANGED <<tmp, final, spotcheck>>
    BY <1>4 DEF RejectUpload, AtWork, files
  <2>2. Idle.pc = "idle"
    BY DEF Idle, Answered
  <2> HIDE DEF Idle
  <2> QED BY <1>1, <2>1, <2>2, AnswerKeepsFiles
<1>5. ASSUME NEW u \in Uploads, RecordUpload(u) PROVE FilesInv'
  <2> DEFINE r == Answered(upload[u].workunit, upload[u].sha256,
                           AnswerTo(SubmitStatus(upload[u].workunit, upload[u].client,
                                                 upload[u].sha256)))
  <2>1. upload' = [upload EXCEPT ![u] = r] /\ AtWork(u) /\ UNCHANGED <<tmp, final, spotcheck>>
    BY <1>5 DEF RecordUpload, AtWork, files
  <2>2. r.pc = "idle"
    BY DEF Answered
  <2> HIDE DEF r
  <2> QED BY <1>1, <2>1, <2>2, AnswerKeepsFiles
<1> QED
  BY <1>1, <1>2, <1>3, <1>4, <1>5, OpenKeepsFiles, ReceiveKeepsFiles, StoreKeepsFiles,
     PassKeepsFiles, FailKeepsFiles, RestartKeepsFiles
     DEF ServerNext, UploadStep, TableStep, serverVars, files

\* The files are in order in every reachable state.
LEMMA FilesAlways == ServerSpec => []FilesInv
BY FilesInit, FilesNext, PTL DEF ServerSpec

\* Every variable of the server keeps its type.
THEOREM ServerTypeCorrect == ServerSpec => []ServerTypeOK
<1>1. IInv /\ FilesInv => ServerTypeOK
  BY SpotChecksAssumption DEF IInv, FilesInv, RequestsOK, FilesTyped, ServerTypeOK
<1> QED BY <1>1, TablesAlways, FilesAlways, PTL

\* When no upload of a workunit is receiving its body there is no temporary file.
THEOREM NoStrayTmpAlways == ServerSpec => []NoStrayTmp
BY FilesAlways, PTL DEF FilesInv

-----------------------------------------------------------------------------
(***************************************************************************)
(* The blobs of recorded rows.                                             *)
(***************************************************************************)

\* The rows grow only by the record of a request at work.
LEMMA RowsGrow ==
    ASSUME RequestsOK, [ServerNext]_serverVars, submissions' # submissions
    PROVE  \E u \in Uploads :
              /\ RecordUpload(u)
              /\ submissions' = Append(submissions,
                    [workunit |-> upload[u].workunit, sha256 |-> upload[u].sha256,
                     client |-> upload[u].client])
<1>1. ASSUME NEW u \in Uploads, UploadStep(u), ~RecordUpload(u) PROVE UNCHANGED submissions
  BY <1>1 DEF UploadStep, OpenUpload, ReceiveChunk, AbortUpload, RefuseUpload, CleanUp,
     StoreBlob, PassCheck, FailCheck, RejectUpload, FailWorkunit, ChargeAttempt, vars
<1>2. ASSUME TableStep PROVE UNCHANGED submissions
  BY <1>2 DEF TableStep, ExtendJob, Lease, LeaseTo, Release, SweepExpired, ChargeAttempt, Tick
<1>3. PICK u \in Uploads : RecordUpload(u)
  BY <1>1, <1>2 DEF ServerNext, Restart, serverVars, vars
<1>4. Submit(upload[u].workunit, upload[u].client, upload[u].sha256)
  BY <1>3 DEF RecordUpload, vars
<1> QED BY <1>3, <1>4 DEF Submit

\* A row that is appended comes after those that are there.
LEMMA AppendedRow ==
    ASSUME TypeOK, NEW row, submissions' = Append(submissions, row),
           NEW i \in DOMAIN submissions'
    PROVE  \/ i \in DOMAIN submissions /\ submissions'[i] = submissions[i]
           \/ i \notin DOMAIN submissions /\ submissions'[i] = row
BY DEF TypeOK

\* A blob stays unless it fails its check.
LEMMA BlobsStay ==
    ASSUME FilesInv, [ServerNext]_serverVars, NEW x \in Coeffs, NEW e \in Digests,
           final[x][e] # NULL, ~(spotcheck /\ e \in Failing)
    PROVE  final'[x][e] # NULL
<1>1. RequestsOK'
  BY RequestsNext DEF FilesInv
<1>2. CASE UNCHANGED final
  BY <1>2
<1>3. ASSUME NEW u \in Uploads, FailCheck(u) PROVE final'[x][e] # NULL
  <2>1. /\ final' = [final EXCEPT ![upload[u].workunit][upload[u].sha256] = NULL]
        /\ upload[u].sha256 # e
    BY <1>3 DEF FailCheck, SampleCheckFails
  <2> QED BY <2>1 DEF FilesInv, FilesTyped
<1> QED
  BY <1>1, <1>2, <1>3, ReceiveKeepsFiles, StoreKeepsFiles
     DEF ServerNext, UploadStep, TableStep, OpenUpload, AbortUpload, RefuseUpload, CleanUp,
         PassCheck, RejectUpload, RecordUpload, Restart, serverVars, files

\* At the moment a result is recorded its blob is intact: the request at work
\* is the only one past its check, and no other writes while it is.
THEOREM RecordedIntact == ServerSpec => IntactWhenRecorded
<1> DEFINE Step == \A i \in DOMAIN submissions' \ DOMAIN submissions :
                      Blob(i)' = Body(submissions'[i].sha256)
<1>1. IInv /\ FilesInv /\ [ServerNext]_serverVars => Step
  <2> SUFFICES ASSUME IInv, FilesInv, [ServerNext]_serverVars,
                      NEW i \in DOMAIN submissions', i \notin DOMAIN submissions
               PROVE  Blob(i)' = Body(submissions'[i].sha256)
    OBVIOUS
  <2>1. PICK u \in Uploads :
              /\ RecordUpload(u)
              /\ submissions' = Append(submissions,
                    [workunit |-> upload[u].workunit, sha256 |-> upload[u].sha256,
                     client |-> upload[u].client])
    BY RowsGrow DEF FilesInv
  <2>2. /\ submissions'[i].workunit = upload[u].workunit
        /\ submissions'[i].sha256 = upload[u].sha256
    BY <2>1, AppendedRow DEF IInv
  <2>3. /\ final[upload[u].workunit][upload[u].sha256] = Body(upload[u].sha256)
        /\ final' = final
    BY <2>1 DEF FilesInv, BlobAtWork, RecordUpload, files
  <2> QED BY <2>2, <2>3 DEF Blob
<1>2. IInv /\ FilesInv /\ [ServerNext]_serverVars => [Step]_serverVars
  BY <1>1
<1> QED BY <1>2, TablesAlways, FilesAlways, PTL DEF ServerSpec, IntactWhenRecorded

\* All starts of the server have the same setting of the sample check.
SameSetting == \A a, b \in SpotChecks : a = b

\* Nothing that fails the check is recorded while it is on, every row has its
\* blob, and what was answered 200 is recorded.
BlobsInv ==
    /\ spotcheck => \A i \in DOMAIN submissions : submissions[i].sha256 \notin Failing
    /\ RecordedBlobPresent
    /\ \A u \in Uploads : upload[u].answer = "stored" =>
          /\ upload[u].workunit \in Coeffs
          /\ upload[u].sha256 \in Digests
          /\ Recorded(upload[u].workunit, upload[u].sha256)

\* A fresh server has no rows and has answered nothing.
LEMMA BlobsInit == ServerInit => BlobsInv
BY DEF ServerInit, Init, BlobsInv, RecordedBlobPresent, Idle, Answered

\* A setting that is the same for all starts never changes.
LEMMA SettingStays ==
    ASSUME SameSetting, FilesInv, FilesInv'
    PROVE  spotcheck' = spotcheck
BY DEF SameSetting, FilesInv, FilesTyped

\* Rows and their blobs stay.
LEMMA RowsNext ==
    ASSUME SameSetting, IInv, FilesInv, BlobsInv, [ServerNext]_serverVars
    PROVE  /\ spotcheck' => \A i \in DOMAIN submissions' : submissions'[i].sha256 \notin Failing
           /\ RecordedBlobPresent'
           /\ \A w \in Coeffs, d \in Digests : Recorded(w, d) => Recorded(w, d)'
<1>1. spotcheck' = spotcheck
  BY FilesNext, SettingStays
<1>2. ASSUME NEW i \in DOMAIN submissions
      PROVE  final'[submissions[i].workunit][submissions[i].sha256] # NULL
  <2>1. submissions[i].workunit \in Coeffs /\ submissions[i].sha256 \in Digests
    BY RowTypes DEF IInv
  <2>2. ~(spotcheck /\ submissions[i].sha256 \in Failing)
    BY DEF BlobsInv
  <2>3. final[submissions[i].workunit][submissions[i].sha256] # NULL
    BY DEF BlobsInv, RecordedBlobPresent, Blob
  <2> QED BY <2>1, <2>2, <2>3, BlobsStay
<1>3. CASE submissions' = submissions
  BY <1>1, <1>2, <1>3 DEF BlobsInv, RecordedBlobPresent, Blob, Recorded
<1>4. CASE submissions' # submissions
  <2>1. PICK u \in Uploads :
              /\ RecordUpload(u)
              /\ submissions' = Append(submissions,
                    [workunit |-> upload[u].workunit, sha256 |-> upload[u].sha256,
                     client |-> upload[u].client])
    BY <1>4, RowsGrow DEF FilesInv
  <2>2. \A i \in DOMAIN submissions' :
           \/ i \in DOMAIN submissions /\ submissions'[i] = submissions[i]
           \/ /\ submissions'[i].workunit = upload[u].workunit
              /\ submissions'[i].sha256 = upload[u].sha256
    BY <2>1, AppendedRow DEF IInv
  <2>3. \A i \in DOMAIN submissions :
           i \in DOMAIN submissions' /\ submissions'[i] = submissions[i]
    BY <2>1 DEF IInv, TypeOK
  <2>4. upload[u].workunit \in Coeffs /\ upload[u].sha256 \in Digests
    BY <2>1 DEF FilesInv, RequestsOK, BusyNamed, RecordUpload
  <2>5. /\ final'[upload[u].workunit][upload[u].sha256] # NULL
        /\ ~(spotcheck /\ upload[u].sha256 \in Failing)
    BY <2>1, <2>4, BodyIsContent, ContentsAssumption
       DEF FilesInv, BlobAtWork, RecordUpload, files
  <2>6. spotcheck' => \A i \in DOMAIN submissions' : submissions'[i].sha256 \notin Failing
    BY <1>1, <2>2, <2>5 DEF BlobsInv
  <2>7. RecordedBlobPresent'
    BY <1>2, <2>2, <2>5 DEF RecordedBlobPresent, Blob
  <2>8. \A w \in Coeffs, d \in Digests : Recorded(w, d) => Recorded(w, d)'
    BY <2>3 DEF Recorded
  <2> QED BY <2>6, <2>7, <2>8
<1> QED BY <1>3, <1>4

\* A request is answered 200 only by the step that found or made its row.
LEMMA AnswersNext ==
    ASSUME IInv, FilesInv, BlobsInv, [ServerNext]_serverVars,
           \A w \in Coeffs, d \in Digests : Recorded(w, d) => Recorded(w, d)',
           NEW v \in Uploads, upload'[v].answer = "stored"
    PROVE  /\ upload'[v].workunit \in Coeffs
           /\ upload'[v].sha256 \in Digests
           /\ Recorded(upload[v].workunit, upload[v].sha256)'
<1> DEFINE Same == /\ upload'[v].answer = upload[v].answer
                   /\ upload'[v].workunit = upload[v].workunit
                   /\ upload'[v].sha256 = upload[v].sha256
<1>r. upload \in [Uploads -> Requests] /\ \A u \in Uploads : upload[u] \in Requests
  BY DEF FilesInv, RequestsOK
<1>0. Idle.answer = "none"
  BY DEF Idle, Answered
<1>1. CASE Same
  BY <1>1 DEF BlobsInv, Recorded
<1>2. ASSUME NEW u \in Uploads, NEW w \in Coeffs, NEW c \in Clients, NEW d \in Digests,
             OpenUpload(u, w, c, d)
      PROVE  Same
  BY <1>2, <1>r DEF OpenUpload
<1>3. ASSUME NEW u \in Uploads, NEW p \in Piece, ReceiveChunk(u, p) PROVE Same
  BY <1>3, <1>r DEF ReceiveChunk, Requests
<1>4. ASSUME NEW u \in Uploads, CleanUp(u) PROVE Same
  <2>1. Unlink("tmp") \in [Links -> Links]
    BY MovesAreFunctions DEF Links
  <2> QED BY <1>0, <1>4, <2>1, RelinkFacts, AnsweredIsRequest DEF FilesInv, CleanUp
<1>5. ASSUME NEW u \in Uploads, StoreBlob(u) PROVE Same
  <2> DEFINE after == [upload[u] EXCEPT !.pc = "stored", !.link = "nameless"]
  <2>1. upload' = Relink(u, after, Rename(upload[u].sha256)) /\ upload[u].pc = "receiving"
    BY <1>5 DEF StoreBlob
  <2>2. Rename(upload[u].sha256) \in [Links -> Links]
    BY <2>1, MovesAreFunctions DEF FilesInv, RequestsOK, BusyNamed
  <2>3. /\ after \in Requests /\ after.answer = upload[u].answer
        /\ after.workunit = upload[u].workunit /\ after.sha256 = upload[u].sha256
    BY <1>r DEF Requests, Links
  <2> HIDE DEF after
  <2> QED BY <2>1, <2>2, <2>3, RelinkFacts DEF FilesInv
<1>6. ASSUME NEW u \in Uploads, PassCheck(u) PROVE Same
  BY <1>6, <1>r DEF PassCheck, Requests
<1>7. ASSUME NEW u \in Uploads, FailCheck(u) PROVE Same
  <2> DEFINE after == [upload[u] EXCEPT !.pc = "rejecting"]
  <2>1. upload' = Relink(u, after, Unlink(upload[u].sha256)) /\ upload[u].pc = "stored"
    BY <1>7 DEF FailCheck
  <2>2. Unlink(upload[u].sha256) \in [Links -> Links]
    BY <2>1, MovesAreFunctions DEF FilesInv, RequestsOK, BusyNamed, Links
  <2>3. /\ after \in Requests /\ after.answer = upload[u].answer
        /\ after.workunit = upload[u].workunit /\ after.sha256 = upload[u].sha256
    BY <1>r DEF Requests
  <2> HIDE DEF after
  <2> QED BY <2>1, <2>2, <2>3, RelinkFacts DEF FilesInv
<1>8. ASSUME NEW u \in Uploads, RejectUpload(u) PROVE Same
  BY <1>0, <1>8, <1>r DEF RejectUpload
<1>9. ASSUME NEW u \in Uploads, RecordUpload(u), ~Same
      PROVE  /\ upload'[v].workunit \in Coeffs
             /\ upload'[v].sha256 \in Digests
             /\ Recorded(upload[v].workunit, upload[v].sha256)'
  <2> DEFINE w == upload[u].workunit
             d == upload[u].sha256
             status == SubmitStatus(w, upload[u].client, d)
  <2>1. /\ upload' = [upload EXCEPT ![u] = Answered(w, d, AnswerTo(status))]
        /\ Submit(w, upload[u].client, d) \/ (status # "accepted" /\ UNCHANGED vars)
        /\ w \in Coeffs /\ d \in Digests
    BY <1>9 DEF RecordUpload, FilesInv, RequestsOK, BusyNamed
  <2>2. v = u
    BY <1>9, <1>r, <2>1
  <2>3. /\ upload'[v].workunit = w /\ upload'[v].sha256 = d
        /\ AnswerTo(status) = "stored"
    BY <1>r, <2>1, <2>2 DEF Answered
  <2>4. CASE Submit(w, upload[u].client, d)
    <3>1. submissions' = Append(submissions,
                           [workunit |-> w, sha256 |-> d, client |-> upload[u].client])
      BY <2>4 DEF Submit
    <3>2. /\ Len(submissions) + 1 \in DOMAIN submissions'
          /\ submissions'[Len(submissions) + 1].workunit = w
          /\ submissions'[Len(submissions) + 1].sha256 = d
      BY <3>1 DEF IInv, TypeOK
    <3>3. \E i \in DOMAIN submissions' :
             submissions'[i].workunit = w /\ submissions'[i].sha256 = d
      BY <3>2
    <3> QED BY <2>1, <2>3, <3>3 DEF Recorded
  <2>5. CASE status # "accepted" /\ UNCHANGED vars
    <3>1. status = "duplicate"
      BY <2>3, <2>5 DEF AnswerTo
    <3>2. Recorded(w, d)
      BY <3>1 DEF SubmitStatus
    <3> QED BY <2>1, <2>3, <3>2 DEF Recorded
  <2> QED BY <2>1, <2>4, <2>5
<1>10. CASE Restart
  BY <1>0, <1>10 DEF Restart
<1> QED
  BY <1>1, <1>2, <1>3, <1>4, <1>5, <1>6, <1>7, <1>8, <1>9, <1>10
     DEF ServerNext, UploadStep, TableStep, AbortUpload, RefuseUpload, serverVars

\* The blobs stay in order as long as the setting of the check does.
LEMMA BlobsNext ==
    ASSUME SameSetting, IInv, FilesInv, BlobsInv, [ServerNext]_serverVars
    PROVE  BlobsInv'
<1>1. /\ spotcheck' => \A i \in DOMAIN submissions' : submissions'[i].sha256 \notin Failing
      /\ RecordedBlobPresent'
      /\ \A w \in Coeffs, d \in Digests : Recorded(w, d) => Recorded(w, d)'
  BY RowsNext
<1>2. \A u \in Uploads : upload'[u].answer = "stored" =>
         /\ upload'[u].workunit \in Coeffs
         /\ upload'[u].sha256 \in Digests
         /\ Recorded(upload[u].workunit, upload[u].sha256)'
  BY <1>1, AnswersNext
<1> QED BY <1>1, <1>2 DEF BlobsInv, Recorded

\* The blobs are in order in every reachable state.
LEMMA BlobsAlways == SameSetting => (ServerSpec => []BlobsInv)
<1> SUFFICES ASSUME SameSetting PROVE ServerSpec => []BlobsInv
  OBVIOUS
<1>1. IInv /\ FilesInv /\ BlobsInv /\ [ServerNext]_serverVars => BlobsInv'
  BY BlobsNext
<1> QED BY <1>1, BlobsInit, TablesAlways, FilesAlways, PTL DEF ServerSpec

\* A recorded row has its blob on disk, when the setting of the sample check is
\* the same in every start of the server.
THEOREM BlobPresentAlways == SameSetting => (ServerSpec => []RecordedBlobPresent)
BY BlobsAlways, PTL DEF BlobsInv

\* What was answered 200 is recorded and on disk, and stays so.
THEOREM StoredKeptAlways == SameSetting => (ServerSpec => []StoredIsKept)
<1>1. BlobsInv => StoredIsKept
  BY DEF BlobsInv, StoredIsKept, RecordedBlobPresent, Blob, Recorded
<1> QED BY <1>1, BlobsAlways, PTL

\* With the check on in every start, no content that fails it is recorded.
THEOREM FailingNeverRecorded == SpotChecks = {TRUE} => (ServerSpec => []FailingNotRecorded)
<1> SUFFICES ASSUME SpotChecks = {TRUE} PROVE ServerSpec => []FailingNotRecorded
  OBVIOUS
<1>1. SameSetting
  BY DEF SameSetting
<1>2. FilesInv /\ BlobsInv => FailingNotRecorded
  BY DEF FilesInv, FilesTyped, BlobsInv, FailingNotRecorded
<1> QED BY <1>1, <1>2, FilesAlways, BlobsAlways, PTL

-----------------------------------------------------------------------------
(***************************************************************************)
(* Without two uploads of a workunit at once, the blobs stay intact.       *)
(***************************************************************************)

\* Each upload has the temporary file of its workunit to itself.
OwnTmp ==
    \A u \in Uploads : upload[u].pc = "receiving" =>
        /\ upload[u].link = "tmp"
        /\ \A v \in Receiving(upload[u].workunit) : v = u

\* A step that moves a name leaves the links of the uploads of other workunits;
\* the upload of its own workunit is either the one that makes the step, or
\* has the temporary name and the move leaves that one.
LEMMA OwnTmpKept ==
    ASSUME OwnTmp, RequestsOK, NEW u \in Uploads, NEW after \in Requests,
           NEW move \in [Links -> Links], after.pc # "receiving",
           upload[u].pc = "receiving" \/ move["tmp"] = "tmp",
           upload' = Relink(u, after, move)
    PROVE  OwnTmp'
<1>1. upload'[u].pc # "receiving"
  BY RelinkFacts
<1>2. \A v \in Uploads \ {u} :
         /\ upload'[v].pc = upload[v].pc
         /\ upload'[v].workunit = upload[v].workunit
         /\ v \in Receiving(upload[u].workunit) => upload'[v].link = move[upload[v].link]
         /\ v \notin Receiving(upload[u].workunit) => upload'[v] = upload[v]
  BY RelinkFacts
<1> SUFFICES ASSUME NEW v \in Uploads, upload'[v].pc = "receiving"
             PROVE  /\ upload'[v].link = "tmp"
                    /\ \A x \in Receiving(upload[v].workunit)' : x = v
  BY DEF OwnTmp
<1>3. v # u /\ upload[v].pc = "receiving" /\ upload'[v].workunit = upload[v].workunit
  BY <1>1, <1>2
<1>4. upload[v].link = "tmp" /\ \A x \in Receiving(upload[v].workunit) : x = v
  BY <1>3 DEF OwnTmp
<1>5. \A x \in Receiving(upload[v].workunit)' : x = v
  BY <1>1, <1>2, <1>3, <1>4 DEF Receiving
<1>6. upload'[v].link = "tmp"
  <2>1. CASE v \in Receiving(upload[u].workunit)
    <3>1. upload[u].workunit = upload[v].workunit
      BY <2>1 DEF Receiving
    <3>2. upload[u].pc # "receiving"
      BY <1>3, <1>4, <3>1 DEF Receiving
    <3> QED BY <1>2, <1>3, <1>4, <2>1, <3>2
  <2>2. CASE v \notin Receiving(upload[u].workunit)
    BY <1>2, <1>3, <1>4, <2>2
  <2> QED BY <2>1, <2>2
<1> QED BY <1>5, <1>6

\* An upload begins only when no other of its workunit is receiving, and moves
\* of names do not touch it.
LEMMA OwnTmpNext ==
    ASSUME OneAtATime, OwnTmp, FilesInv, [ServerNext]_serverVars
    PROVE  OwnTmp'
<1>r. RequestsOK /\ upload \in [Uploads -> Requests] /\ \A u \in Uploads : upload[u] \in Requests
  BY DEF FilesInv, RequestsOK
<1>0. Idle.pc = "idle"
  BY DEF Idle, Answered
<1>1. CASE UNCHANGED upload
  BY <1>1 DEF OwnTmp, Receiving
<1>2. ASSUME NEW u \in Uploads, NEW w \in Coeffs, NEW c \in Clients, NEW d \in Digests,
             OpenUpload(u, w, c, d)
      PROVE  OwnTmp'
  <2> DEFINE r == [pc |-> "receiving", workunit |-> w, client |-> c, sha256 |-> d,
                   received |-> 0, link |-> "tmp", answer |-> "none"]
  <2>1. upload' = [upload EXCEPT ![u] = r] /\ Receiving(w) = {} /\ upload[u].pc = "idle"
    BY <1>2 DEF OpenUpload
  <2>2. r.pc = "receiving" /\ r.link = "tmp" /\ r.workunit = w
    OBVIOUS
  <2> HIDE DEF r
  <2>3. upload'[u] = r /\ \A v \in Uploads \ {u} : upload'[v] = upload[v]
    BY <1>r, <2>1
  <2> QED BY <2>1, <2>2, <2>3 DEF OwnTmp, Receiving
<1>3. ASSUME NEW u \in Uploads, NEW p \in Piece, ReceiveChunk(u, p) PROVE OwnTmp'
  <2>1. \A v \in Uploads : /\ upload'[v].pc = upload[v].pc
                          /\ upload'[v].workunit = upload[v].workunit
                          /\ upload'[v].link = upload[v].link
    BY <1>3, <1>r DEF ReceiveChunk, Requests
  <2> QED BY <2>1 DEF OwnTmp, Receiving
<1>4. ASSUME NEW u \in Uploads, upload[u].pc = "receiving", CleanUp(u) PROVE OwnTmp'
  <2>1. Unlink("tmp") \in [Links -> Links]
    BY MovesAreFunctions DEF Links
  <2>2. upload' = Relink(u, Idle, Unlink("tmp")) /\ Idle.pc # "receiving"
    BY <1>0, <1>4 DEF CleanUp
  <2> QED BY <1>4, <1>r, <2>1, <2>2, OwnTmpKept, AnsweredIsRequest
<1>5. ASSUME NEW u \in Uploads, StoreBlob(u) PROVE OwnTmp'
  <2> DEFINE after == [upload[u] EXCEPT !.pc = "stored", !.link = "nameless"]
  <2>1. upload' = Relink(u, after, Rename(upload[u].sha256)) /\ upload[u].pc = "receiving"
    BY <1>5 DEF StoreBlob
  <2>2. Rename(upload[u].sha256) \in [Links -> Links]
    BY <2>1, MovesAreFunctions DEF FilesInv, RequestsOK, BusyNamed
  <2>3. after \in Requests /\ after.pc # "receiving"
    BY <1>r DEF Requests, Links
  <2> HIDE DEF after
  <2> QED BY <1>r, <2>1, <2>2, <2>3, OwnTmpKept
<1>6. ASSUME NEW u \in Uploads, NEW r, r.pc # "receiving", upload' = [upload EXCEPT ![u] = r]
      PROVE  OwnTmp'
  <2>1. upload'[u] = r /\ \A v \in Uploads \ {u} : upload'[v] = upload[v]
    BY <1>6, <1>r
  <2> QED BY <1>6, <2>1 DEF OwnTmp, Receiving
<1>7. ASSUME NEW u \in Uploads, PassCheck(u) PROVE OwnTmp'
  <2> DEFINE r == [upload[u] EXCEPT !.pc = "recording"]
  <2>1. upload' = [upload EXCEPT ![u] = r] /\ r.pc # "receiving"
    BY <1>7, <1>r DEF PassCheck, Requests
  <2> HIDE DEF r
  <2> QED BY <1>6, <2>1
<1>8. ASSUME NEW u \in Uploads, FailCheck(u) PROVE OwnTmp'
  <2> DEFINE after == [upload[u] EXCEPT !.pc = "rejecting"]
             d == upload[u].sha256
  <2>1. upload' = Relink(u, after, Unlink(d)) /\ d \in Digests
    BY <1>8 DEF FailCheck, FilesInv, RequestsOK, BusyNamed
  <2>2. Unlink(d) \in [Links -> Links] /\ Unlink(d)["tmp"] = "tmp"
    BY <2>1, MovesAreFunctions, LinksAssumption DEF Links, Unlink
  <2>3. after \in Requests /\ after.pc # "receiving"
    BY <1>r DEF Requests
  <2> HIDE DEF after, d
  <2> QED BY <1>r, <2>1, <2>2, <2>3, OwnTmpKept
<1>9. ASSUME NEW u \in Uploads, RejectUpload(u) PROVE OwnTmp'
  <2>1. upload' = [upload EXCEPT ![u] = Idle] /\ Idle.pc # "receiving"
    BY <1>0, <1>9 DEF RejectUpload
  <2> HIDE DEF Idle
  <2> QED BY <1>6, <2>1
<1>10. ASSUME NEW u \in Uploads, RecordUpload(u) PROVE OwnTmp'
  <2> DEFINE r == Answered(upload[u].workunit, upload[u].sha256,
                           AnswerTo(SubmitStatus(upload[u].workunit, upload[u].client,
                                                 upload[u].sha256)))
  <2>1. upload' = [upload EXCEPT ![u] = r] /\ r.pc # "receiving"
    BY <1>10 DEF RecordUpload, Answered
  <2> HIDE DEF r
  <2> QED BY <1>6, <2>1
<1>11. CASE Restart
  BY <1>0, <1>11 DEF Restart, OwnTmp
<1> QED
  BY <1>1, <1>2, <1>3, <1>4, <1>5, <1>7, <1>8, <1>9, <1>10, <1>11
     DEF ServerNext, UploadStep, TableStep, AbortUpload, RefuseUpload, serverVars

\* When callers keep to one upload of a workunit at a time, each has its
\* temporary file to itself.
LEMMA OwnTmpAlways == OneAtATime => (ServerSpec => []OwnTmp)
<1> SUFFICES ASSUME OneAtATime PROVE ServerSpec => []OwnTmp
  OBVIOUS
<1>1. ServerInit => OwnTmp
  BY DEF ServerInit, OwnTmp, Idle, Answered
<1>2. FilesInv /\ OwnTmp /\ [ServerNext]_serverVars => OwnTmp'
  BY OwnTmpNext
<1> QED BY <1>1, <1>2, FilesAlways, PTL DEF ServerSpec

\* An intact blob stays so unless it fails its check: the only other step that
\* changes it puts a file with the same digest in its place.
LEMMA BlobStaysIntact ==
    ASSUME FilesInv, OwnTmp, [ServerNext]_serverVars, NEW x \in Coeffs, NEW e \in Digests,
           final[x][e] = Body(e), ~(spotcheck /\ e \in Failing)
    PROVE  final'[x][e] = Body(e)
<1>1. CASE UNCHANGED final
  BY <1>1
<1>2. ASSUME NEW u \in Uploads, NEW p \in Piece, ReceiveChunk(u, p)
      PROVE  UNCHANGED final
  BY <1>2, LinksAssumption DEF ReceiveChunk, OwnTmp
<1>3. ASSUME NEW u \in Uploads, StoreBlob(u) PROVE final'[x][e] = Body(e)
  <2> DEFINE w == upload[u].workunit
             d == upload[u].sha256
  <2>1. final' = [final EXCEPT ![w][d] = Body(d)]
    BY <1>3 DEF StoreBlob, DigestMatches
  <2> HIDE DEF w, d
  <2> QED BY <2>1 DEF FilesInv, FilesTyped
<1>4. ASSUME NEW u \in Uploads, FailCheck(u) PROVE final'[x][e] = Body(e)
  <2>1. /\ final' = [final EXCEPT ![upload[u].workunit][upload[u].sha256] = NULL]
        /\ upload[u].sha256 # e
    BY <1>4 DEF FailCheck, SampleCheckFails
  <2> QED BY <2>1 DEF FilesInv, FilesTyped
<1> QED
  BY <1>1, <1>2, <1>3, <1>4
     DEF ServerNext, UploadStep, TableStep, OpenUpload, AbortUpload, RefuseUpload, CleanUp,
         PassCheck, RejectUpload, RecordUpload, Restart, serverVars, files

\* A step keeps the recorded blobs intact, and records only an intact one.
LEMMA IntactNext ==
    ASSUME IInv, FilesInv, BlobsInv, OwnTmp, RecordedBlobIntact, [ServerNext]_serverVars
    PROVE  RecordedBlobIntact'
<1>1. ASSUME NEW i \in DOMAIN submissions
      PROVE  final'[submissions[i].workunit][submissions[i].sha256]
                = Body(submissions[i].sha256)
  <2>1. submissions[i].workunit \in Coeffs /\ submissions[i].sha256 \in Digests
    BY RowTypes DEF IInv
  <2>2. ~(spotcheck /\ submissions[i].sha256 \in Failing)
    BY DEF BlobsInv
  <2>3. final[submissions[i].workunit][submissions[i].sha256] = Body(submissions[i].sha256)
    BY DEF RecordedBlobIntact, Blob
  <2> QED BY <2>1, <2>2, <2>3, BlobStaysIntact
<1>2. CASE submissions' = submissions
  BY <1>1, <1>2 DEF RecordedBlobIntact, Blob
<1>3. CASE submissions' # submissions
  <2>1. PICK u \in Uploads :
              /\ RecordUpload(u)
              /\ submissions' = Append(submissions,
                    [workunit |-> upload[u].workunit, sha256 |-> upload[u].sha256,
                     client |-> upload[u].client])
    BY <1>3, RowsGrow DEF FilesInv
  <2>2. \A i \in DOMAIN submissions' :
           \/ i \in DOMAIN submissions /\ submissions'[i] = submissions[i]
           \/ /\ submissions'[i].workunit = upload[u].workunit
              /\ submissions'[i].sha256 = upload[u].sha256
    BY <2>1, AppendedRow DEF IInv
  <2>3. final'[upload[u].workunit][upload[u].sha256] = Body(upload[u].sha256)
    BY <2>1 DEF FilesInv, BlobAtWork, RecordUpload, files
  <2> QED BY <1>1, <2>2, <2>3 DEF RecordedBlobIntact, Blob
<1> QED BY <1>2, <1>3

\* As long as no two uploads of a workunit overlap, and the setting of the
\* sample check stays, a recorded blob has the content its name says, whatever
\* bodies are sent.
THEOREM BlobIntactAlways ==
    OneAtATime /\ SameSetting => (ServerSpec => []RecordedBlobIntact)
<1> SUFFICES ASSUME OneAtATime, SameSetting PROVE ServerSpec => []RecordedBlobIntact
  OBVIOUS
<1>1. ServerInit => RecordedBlobIntact
  BY DEF ServerInit, Init, RecordedBlobIntact
<1>2. IInv /\ FilesInv /\ BlobsInv /\ OwnTmp /\ RecordedBlobIntact /\ [ServerNext]_serverVars
        => RecordedBlobIntact'
  BY IntactNext
<1> QED BY <1>1, <1>2, TablesAlways, FilesAlways, BlobsAlways, OwnTmpAlways, PTL DEF ServerSpec

-----------------------------------------------------------------------------
(***************************************************************************)
(* Who is charged.                                                         *)
(***************************************************************************)

\* A workunit under a live lease keeps its attempts and is not poisoned, except
\* by a rejected upload that speaks for the holder.
LEMMA ChargedByRejection ==
    ASSUME IInv, FilesInv, [ServerNext]_serverVars, NEW w \in Coeffs,
           state[w] = "leased", lease_left[w] # -1,
           attempt_count'[w] # attempt_count[w] \/ state'[w] = "poisoned"
    PROVE  \E u \in Uploads : /\ RejectUpload(u)
                              /\ FailWorkunit(upload[u].workunit, upload[u].client)
                              /\ upload[u].workunit = w
<1>1. /\ attempt_count \in [Coeffs -> Int] /\ state \in [Coeffs -> States]
  BY DEF IInv, TypeOK
<1>2. ~TableStep
  <2> SUFFICES ASSUME TableStep PROVE FALSE
    OBVIOUS
  <2>1. ASSUME NEW listed \in SUBSET Coeffs, ExtendJob(listed) PROVE FALSE
    BY <2>1 DEF ExtendJob
  <2>2. ASSUME NEW c \in Clients, Lease(c) PROVE FALSE
    BY <1>1, <2>2 DEF Lease, LeaseTo
  <2>3. ASSUME NEW v \in Coeffs, NEW c \in Clients, Release(v, c) PROVE FALSE
    BY <1>1, <2>3 DEF Release
  <2>4. ASSUME SweepExpired PROVE FALSE
    BY <1>1, <2>4 DEF SweepExpired, Expired, ChargeAttempt
  <2>5. ASSUME Tick PROVE FALSE
    BY <2>5 DEF Tick
  <2> QED BY <2>1, <2>2, <2>3, <2>4, <2>5 DEF TableStep
<1>3. ASSUME NEW u \in Uploads, RecordUpload(u) PROVE FALSE
  <2>1. CASE Submit(upload[u].workunit, upload[u].client, upload[u].sha256)
    BY <1>1, <2>1 DEF Submit
  <2>2. CASE UNCHANGED vars
    BY <2>2 DEF vars
  <2> QED BY <1>3, <2>1, <2>2 DEF RecordUpload
<1>4. ASSUME NEW u \in Uploads, UploadStep(u), ~RejectUpload(u), ~RecordUpload(u) PROVE FALSE
  BY <1>4 DEF UploadStep, OpenUpload, ReceiveChunk, AbortUpload, RefuseUpload, CleanUp,
     StoreBlob, PassCheck, FailCheck, vars
<1>5. PICK u \in Uploads : RejectUpload(u)
  BY <1>2, <1>3, <1>4 DEF ServerNext, Restart, serverVars, vars
<1>6. FailWorkunit(upload[u].workunit, upload[u].client)
  BY <1>5 DEF RejectUpload, vars
<1>7. upload[u].workunit = w
  BY <1>1, <1>6 DEF FailWorkunit, ChargeAttempt
<1> QED BY <1>5, <1>6, <1>7

\* A live lease is charged only for a failing upload of its holder, or of a
\* caller that gives no id, whenever the upload began.
THEOREM ChargedForOwnAlways == ServerSpec => ChargedForOwnUpload
<1> DEFINE Step ==
      \A w \in Coeffs :
          /\ state[w] = "leased" /\ lease_left[w] # -1
          /\ attempt_count'[w] # attempt_count[w] \/ state'[w] = "poisoned"
          => \E u \in Uploads :
                /\ upload[u].pc = "rejecting" /\ upload[u].workunit = w
                /\ upload[u].sha256 \in Failing
                /\ upload[u].client \in {client_id[w], Anonymous}
<1>1. IInv /\ FilesInv /\ [ServerNext]_serverVars => Step
  <2> SUFFICES ASSUME IInv, FilesInv, [ServerNext]_serverVars, NEW w \in Coeffs,
                      state[w] = "leased", lease_left[w] # -1,
                      attempt_count'[w] # attempt_count[w] \/ state'[w] = "poisoned"
               PROVE  \E u \in Uploads :
                         /\ upload[u].pc = "rejecting" /\ upload[u].workunit = w
                         /\ upload[u].sha256 \in Failing
                         /\ upload[u].client \in {client_id[w], Anonymous}
    OBVIOUS
  <2>1. PICK u \in Uploads : /\ RejectUpload(u)
                             /\ FailWorkunit(upload[u].workunit, upload[u].client)
                             /\ upload[u].workunit = w
    BY ChargedByRejection
  <2>2. upload[u].pc = "rejecting" /\ upload[u].sha256 \in Failing
    BY <2>1 DEF RejectUpload, FilesInv, BlobAtWork
  <2>3. upload[u].client \in {client_id[w], Anonymous}
    BY <2>1 DEF FailWorkunit, MayResolve, SpeaksFor
  <2> QED BY <2>1, <2>2, <2>3
<1>2. IInv /\ FilesInv /\ [ServerNext]_serverVars => [Step]_serverVars
  BY <1>1
<1> QED BY <1>2, TablesAlways, FilesAlways, PTL DEF ServerSpec, ChargedForOwnUpload

=============================================================================
