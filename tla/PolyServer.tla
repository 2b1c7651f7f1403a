----------------------------- MODULE PolyServer -----------------------------
(***************************************************************************)
(* The poly-server: the tables of WorkUnits, the blob directory polys/ and *)
(* the requests being served.                                              *)
(*                                                                         *)
(* /submit (app.py) is a coroutine: while it waits for the next chunk of a *)
(* body, other requests are served; once the body is complete it runs to   *)
(* its answer without yielding the event loop, so no other upload moves.   *)
(* /lease and /release run in the thread pool and the sweep in a thread of *)
(* its own; they touch the tables only, under the lock, and come between   *)
(* any two steps of an upload.  The process may die between any two steps; *)
(* the tables and the renamed blobs survive, the requests do not.          *)
(*                                                                         *)
(* A body is named by the digest of its content and arrives in Chunks      *)
(* pieces <<digest, 1>>, <<digest, 2>>, ...  An open file is known by the  *)
(* name its inode has now, since a rename or an unlink by another upload   *)
(* moves the name and not the handle.                                      *)
(***************************************************************************)
EXTENDS WorkUnits

CONSTANTS
    Uploads,         \* the /submit requests that may be in progress at once
    Chunks,          \* the pieces in which a body arrives
    Failing,         \* the contents that do not pass the sample check
    SpotChecks,      \* whether spotcheck_k > 0, of each start of the server
    OneAtATime,      \* whether callers avoid two uploads of one workunit at once
    Truthful,        \* whether bodies have the digest their header gives
    Noise            \* a piece of some other content, or a gap in a file

ASSUME ChunksAssumption == Chunks \in Nat \ {0}
ASSUME FailingAssumption == Failing \subseteq Digests
ASSUME SpotChecksAssumption == SpotChecks \subseteq BOOLEAN /\ SpotChecks # {}
ASSUME EnvironmentAssumption == OneAtATime \in BOOLEAN /\ Truthful \in BOOLEAN

VARIABLES
    upload,       \* the state of each request
    tmp,          \* the file named .incoming-<workunit>-<pid>.tmp, or NULL
    final,        \* the file named <coeff>-<digest>.ms.zst, or NULL
    spotcheck     \* whether this process runs the sample check

files == <<tmp, final>>
serverVars == <<vars, upload, files, spotcheck>>

Piece == (Digests \X (1 .. Chunks)) \cup {Noise}
Contents == UNION {[1 .. n -> Piece] : n \in 0 .. Chunks}
Body(d) == [k \in 1 .. Chunks |-> <<d, k>>]

\* The last answer of a request that is over: 200, 409, or any other way to end.
Answers == {"stored", "conflict", "none"}

\* Where the handle of an open upload leads: to the temporary name, to the
\* blob of a digest, or to a file without a name.
Links == {"tmp", "nameless"} \cup Digests

\* A request; one that was answered 200 or 409 keeps what it was about.
Requests ==
    [pc : {"idle", "receiving", "stored", "recording", "rejecting"},
     workunit : Coeffs \cup {NULL}, client : Clients \cup {NULL},
     sha256 : Digests \cup {NULL}, received : 0 .. Chunks,
     link : Links, answer : Answers]

ASSUME ContentsAssumption == NULL \notin Contents
ASSUME LinksAssumption == {"tmp", "nameless"} \cap Digests = {}

Answered(w, d, answer) ==
    [pc |-> "idle", workunit |-> w, client |-> NULL, sha256 |-> d,
     received |-> 0, link |-> "nameless", answer |-> answer]
Idle == Answered(NULL, NULL, "none")

ServerInit ==
    /\ Init
    /\ upload = [u \in Uploads |-> Idle]
    /\ tmp = [w \in Coeffs |-> NULL]
    /\ final = [w \in Coeffs |-> [d \in Digests |-> NULL]]
    /\ spotcheck \in SpotChecks

-----------------------------------------------------------------------------
\* The event loop is free when every upload in progress waits for its body.
LoopFree == \A u \in Uploads : upload[u].pc \in {"idle", "receiving"}

Receiving(w) == {u \in Uploads : upload[u].pc = "receiving" /\ upload[u].workunit = w}

\* The requests when u goes on to `after` and the names of the files of its
\* workunit move: an open handle follows its file.
Relink(u, after, move) ==
    [v \in Uploads |->
        CASE v = u -> after
          [] v # u /\ v \in Receiving(upload[u].workunit) ->
                [upload[v] EXCEPT !.link = move[upload[v].link]]
          [] OTHER -> upload[v]]

Unlink(name) == [l \in Links |-> IF l = name THEN "nameless" ELSE l]
Rename(d) == [l \in Links |-> IF l = "tmp" THEN d ELSE IF l = d THEN "nameless" ELSE l]

\* A request with a body of digest d: the workunit is found, and its temporary
\* file is opened for writing, which empties the file of that name if there is
\* one.  An unknown workunit is answered 404 at once.
OpenUpload(u, w, c, d) ==
    /\ LoopFree
    /\ upload[u].pc = "idle"
    /\ state[w] # "absent"
    /\ OneAtATime => Receiving(w) = {}
    /\ tmp' = [tmp EXCEPT ![w] = <<>>]
    /\ upload' = [upload EXCEPT ![u] =
                    [pc |-> "receiving", workunit |-> w, client |-> c, sha256 |-> d,
                     received |-> 0, link |-> "tmp", answer |-> "none"]]
    /\ UNCHANGED <<vars, final, spotcheck>>

\* The file after piece p is written at position k: a gap reads as Noise.
Written(file, k, p) ==
    [i \in 1 .. (IF Len(file) < k THEN k ELSE Len(file)) |->
        IF i = k THEN p ELSE IF i <= Len(file) THEN file[i] ELSE Noise]

\* The next piece of the body is written through the handle, wherever the
\* file's name has gone since it was opened.  The piece is the one of the content
\* that the header announces, or something else.
ReceiveChunk(u, p) ==
    LET r == upload[u]
        w == r.workunit
        k == r.received + 1
    IN  /\ LoopFree
        /\ r.pc = "receiving"
        /\ r.received < Chunks
        /\ p = <<r.sha256, k>> \/ (~Truthful /\ p = Noise)
        /\ upload' = [upload EXCEPT ![u].received = k]
        /\ tmp' = IF r.link = "tmp" THEN [tmp EXCEPT ![w] = Written(tmp[w], k, p)] ELSE tmp
        /\ final' = IF r.link \in Digests
                    THEN [final EXCEPT ![w][r.link] = Written(final[w][r.link], k, p)]
                    ELSE final
        /\ UNCHANGED <<vars, spotcheck>>

\* The `except BaseException` clause: the temporary name is unlinked, whoever
\* put it there, and the request ends.
CleanUp(u) ==
    /\ tmp' = [tmp EXCEPT ![upload[u].workunit] = NULL]
    /\ upload' = Relink(u, Idle, Unlink("tmp"))
    /\ UNCHANGED <<vars, final, spotcheck>>

\* Faulty AbortUpload: the temporary name is left.
AbortLeavingTmp(u) ==
    /\ LoopFree
    /\ upload[u].pc = "receiving"
    /\ upload' = [upload EXCEPT ![u] = Idle]
    /\ UNCHANGED <<vars, files, spotcheck>>

\* The client hangs up, or a write fails.
AbortUpload(u) ==
    /\ LoopFree
    /\ upload[u].pc = "receiving"
    /\ CleanUp(u)

\* Faulty digest checks: that the file is there, that it is complete.
DigestNotCompared(u) == tmp[upload[u].workunit] # NULL
DigestOfLength(u) ==
    /\ tmp[upload[u].workunit] # NULL
    /\ Len(tmp[upload[u].workunit]) = Chunks

\* What is read back under the temporary name has the digest the client gave.
DigestMatches(u) == tmp[upload[u].workunit] = Body(upload[u].sha256)

\* The body is complete but the file is gone, does not decompress or has
\* another digest: 400 or 500.
RefuseUpload(u) ==
    /\ LoopFree
    /\ upload[u].pc = "receiving"
    /\ upload[u].received = Chunks
    /\ ~DigestMatches(u)
    /\ CleanUp(u)

\* The digest matches: the file takes the name of its content, in place of a
\* blob that had it.
StoreBlob(u) ==
    LET w == upload[u].workunit
        d == upload[u].sha256
    IN  /\ LoopFree
        /\ upload[u].pc = "receiving"
        /\ upload[u].received = Chunks
        /\ DigestMatches(u)
        /\ final' = [final EXCEPT ![w][d] = tmp[w]]
        /\ tmp' = [tmp EXCEPT ![w] = NULL]
        /\ upload' = Relink(u, [upload[u] EXCEPT !.pc = "stored", !.link = "nameless"],
                            Rename(d))
        /\ UNCHANGED <<vars, spotcheck>>

\* Faulty sample checks: one is skipped for a workunit that was tried before, one
\* also fails an upload that does not come from the holder.
SampleCheckOfFirstTry(u) ==
    /\ spotcheck /\ upload[u].sha256 \in Failing
    /\ attempt_count[upload[u].workunit] = 0
SampleCheckOfHolder(u) ==
    spotcheck /\ (upload[u].sha256 \in Failing
                    \/ ~SpeaksFor(upload[u].client, upload[u].workunit))

\* verify.sample_check on the blob, unless it is switched off.
SampleCheckFails(u) == spotcheck /\ upload[u].sha256 \in Failing

PassCheck(u) ==
    /\ upload[u].pc = "stored"
    /\ ~SampleCheckFails(u)
    /\ upload' = [upload EXCEPT ![u].pc = "recording"]
    /\ UNCHANGED <<vars, files, spotcheck>>

\* A blob that fails is removed before the workunit is charged.
FailCheck(u) ==
    LET w == upload[u].workunit
        d == upload[u].sha256
    IN  /\ upload[u].pc = "stored"
        /\ SampleCheckFails(u)
        /\ final' = [final EXCEPT ![w][d] = NULL]
        /\ upload' = Relink(u, [upload[u] EXCEPT !.pc = "rejecting"], Unlink(d))
        /\ UNCHANGED <<vars, tmp, spotcheck>>

\* db.fail_workunit, which may do nothing, and the answer 422.
RejectUpload(u) ==
    LET r == upload[u]
    IN  /\ r.pc = "rejecting"
        /\ \/ FailWorkunit(r.workunit, r.client)
           \/ (~MayResolve(r.workunit, r.client) /\ UNCHANGED vars)
        /\ upload' = [upload EXCEPT ![u] = Idle]
        /\ UNCHANGED <<files, spotcheck>>

\* The answer to db.submit's status ("unknown" does not occur any more: the row was
\* found before and none is ever deleted); the faulty form takes a lost lease for a
\* lost answer.
AnswerAlwaysStored(status) == "stored"
AnswerTo(status) == IF status \in {"accepted", "duplicate"} THEN "stored" ELSE "conflict"

\* db.submit, and the answer 200 or 409.
RecordUpload(u) ==
    LET r == upload[u]
        status == SubmitStatus(r.workunit, r.client, r.sha256)
    IN  /\ r.pc = "recording"
        /\ \/ Submit(r.workunit, r.client, r.sha256)
           \/ (status # "accepted" /\ UNCHANGED vars)
        /\ upload' = [upload EXCEPT ![u] =
                        Answered(r.workunit, r.sha256, AnswerTo(status))]
        /\ UNCHANGED <<files, spotcheck>>

\* The process dies and is started again: the requests are lost, and the
\* temporary files keep names with the old pid, which no one opens again.
Restart ==
    /\ upload' = [u \in Uploads |-> Idle]
    /\ tmp' = [w \in Coeffs |-> NULL]
    /\ spotcheck' \in SpotChecks
    /\ UNCHANGED <<vars, final>>

\* The calls that touch the tables only, and the clock.
TableStep ==
    /\ \/ \E listed \in SUBSET Coeffs : ExtendJob(listed)
       \/ \E c \in Clients : Lease(c)
       \/ \E w \in Coeffs, c \in Clients : Release(w, c)
       \/ SweepExpired
       \/ Tick
    /\ UNCHANGED <<upload, files, spotcheck>>

UploadStep(u) ==
    \/ \E w \in Coeffs, c \in Clients, d \in Digests : OpenUpload(u, w, c, d)
    \/ \E p \in Piece : ReceiveChunk(u, p)
    \/ AbortUpload(u)
    \/ RefuseUpload(u)
    \/ StoreBlob(u)
    \/ PassCheck(u)
    \/ FailCheck(u)
    \/ RejectUpload(u)
    \/ RecordUpload(u)

ServerNext ==
    \/ TableStep
    \/ \E u \in Uploads : UploadStep(u)
    \/ Restart

ServerSpec == ServerInit /\ [][ServerNext]_serverVars

-----------------------------------------------------------------------------
ServerTypeOK ==
    /\ TypeOK
    /\ upload \in [Uploads -> Requests]
    /\ tmp \in [Coeffs -> Contents \cup {NULL}]
    /\ final \in [Coeffs -> [Digests -> Contents \cup {NULL}]]
    /\ spotcheck \in BOOLEAN

Blob(i) == final[submissions[i].workunit][submissions[i].sha256]

\* The blob a recorded submission names is on disk, whatever other uploads of
\* the workunit are refused, fail their check or hang up, and whenever the
\* server dies (app.py:150-164: the rename comes before the row, and only a
\* blob that fails its check is unlinked).
RecordedBlobPresent == \A i \in DOMAIN submissions : Blob(i) # NULL

\* And it has the content its name says (app.py:123-151).  Two uploads of one
\* workunit share the temporary name, so this needs OneAtATime.
RecordedBlobIntact ==
    \A i \in DOMAIN submissions : Blob(i) = Body(submissions[i].sha256)

\* At the moment a result is recorded its blob is intact, even when uploads of
\* one workunit overlap: nothing is written between the digest check and the
\* row, since the handler does not yield in between (app.py:133-174).
IntactWhenRecorded ==
    [][\A i \in DOMAIN submissions' \ DOMAIN submissions :
          Blob(i)' = Body(submissions'[i].sha256)]_serverVars

\* A client that got 200 deletes its copy (client.py:127): its result is then
\* recorded and on disk, and stays so.
StoredIsKept ==
    \A u \in Uploads :
        upload[u].answer = "stored" =>
            /\ Recorded(upload[u].workunit, upload[u].sha256)
            /\ final[upload[u].workunit][upload[u].sha256] # NULL

\* Every way out of an upload takes the temporary name away (app.py:151-154).
NoStrayTmp == \A w \in Coeffs : Receiving(w) = {} => tmp[w] = NULL

\* No content that fails the sample check is recorded (app.py:156-170), when
\* the check is on in every run of the server.
FailingNotRecorded ==
    \A i \in DOMAIN submissions : submissions[i].sha256 \notin Failing

\* A lease that has not expired is charged only for a failing upload by its
\* holder (or by a caller that gives no id), however late that upload is
\* answered (app.py:162-164 runs long after the upload began).
ChargedForOwnUpload ==
    [][\A w \in Coeffs :
          /\ state[w] = "leased" /\ lease_left[w] # -1
          /\ attempt_count'[w] # attempt_count[w] \/ state'[w] = "poisoned"
          => \E u \in Uploads :
                /\ upload[u].pc = "rejecting" /\ upload[u].workunit = w
                /\ upload[u].sha256 \in Failing
                /\ upload[u].client \in {client_id[w], Anonymous}]_serverVars
=============================================================================
