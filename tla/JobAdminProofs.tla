--------------------------- MODULE JobAdminProofs ---------------------------
(***************************************************************************)
(* What JobAdmin guarantees for any number of jobs, coefficients, uploads  *)
(* and contents.  A step of the job directory is a step of the server of   *)
(* PolyServer, or it wipes the directory and leaves the server's state as  *)
(* it is on a fresh one (JobSteps); so what PolyServerProofs shows of the  *)
(* tables and the blobs holds across inits, forced ones included.  Then    *)
(* the job itself: whose coefficients, which N and which token.            *)
(***************************************************************************)
EXTENDS JobAdmin, PolyServerProofs

\* No uploads are in progress that a later server could see.
Quiet ==
    server # "up" =>
        upload = [u \in Uploads |-> Idle] /\ tmp = [w \in Coeffs |-> NULL]

-----------------------------------------------------------------------------
(***************************************************************************)
(* The job directory and the server.                                       *)
(***************************************************************************)

\* An empty directory, and one that was wiped, is where a server starts.
LEMMA ForgottenIsFresh ==
    ASSUME ForgetRows, ForgetUploads, ForgetBlobs, spotcheck \in SpotChecks,
           UNCHANGED spotcheck
    PROVE  ServerInit'
<1>1. {} \in SUBSET Coeffs
  OBVIOUS
<1>2. state' = [w \in Coeffs |-> IF w \in {} THEN "available" ELSE "absent"]
  BY DEF ForgetRows
<1>3. Init'
  BY <1>1, <1>2 DEF ForgetRows, Init
<1> QED BY <1>3 DEF ServerInit, ForgetUploads, ForgetBlobs

LEMMA JobInitIsFresh == JobInit => ServerInit /\ Quiet
<1> SUFFICES ASSUME JobInit PROVE ServerInit /\ Quiet
  OBVIOUS
<1>1. {} \in SUBSET Coeffs
  OBVIOUS
<1>2. state = [w \in Coeffs |-> IF w \in {} THEN "available" ELSE "absent"]
  BY DEF JobInit, NoRows
<1>3. Init
  BY <1>1, <1>2 DEF JobInit, NoRows, Init
<1> QED BY <1>3 DEF ServerInit, JobInit, Quiet

\* Every other step is one of the server.
LEMMA JobSteps ==
    ASSUME Quiet, spotcheck \in SpotChecks, [JobNext]_allVars
    PROVE  [ServerNext]_serverVars \/ ServerInit'
<1>1. CASE UnlinkDb
  BY <1>1, ForgottenIsFresh DEF UnlinkDb
<1>2. CASE InitStep /\ ~UnlinkDb /\ ~\E listed \in SUBSET Coeffs : CommitJob(listed)
  BY <1>2 DEF InitStep, BeginInit, RemovePolys, OpenDb, BadInput, WriteToken, AdminDies
<1>3. ASSUME NEW listed \in SUBSET Coeffs, CommitJob(listed) \/ Extend(listed)
      PROVE  [ServerNext]_serverVars
  <2>1. UNCHANGED <<upload, files, spotcheck>> /\ (ExtendJob(listed) \/ UNCHANGED vars)
    BY <1>3 DEF CommitJob, Extend, InsertFor
  <2> QED BY <2>1 DEF ServerNext, TableStep, serverVars
<1>4. CASE Serve
  BY <1>4 DEF Serve, ServerNext, Restart, Quiet, files, serverVars, procVars
<1>5. CASE ServerDies
  BY <1>5 DEF ServerDies, ForgetUploads, ServerNext, Restart
<1>6. CASE ServerWorks
  BY <1>6 DEF ServerWorks, ServerNext, TableStep
<1>7. CASE TimePasses
  BY <1>7 DEF TimePasses, ServerNext, TableStep
<1>8. CASE ServeFails \/ GhostStores \/ UNCHANGED allVars
  BY <1>8 DEF ServeFails, GhostStores, allVars
<1> QED BY <1>1, <1>2, <1>3, <1>4, <1>5, <1>6, <1>7, <1>8 DEF JobNext, InitStep

LEMMA QuietNext == ASSUME Quiet, [JobNext]_allVars PROVE Quiet'
<1>1. CASE UnlinkDb \/ ServerDies
  BY <1>1 DEF UnlinkDb, ServerDies, ForgetUploads, Quiet
<1>2. CASE UNCHANGED <<upload, files, server>>
  BY <1>2 DEF Quiet, files
<1>3. CASE ServerWorks
  BY <1>3 DEF ServerWorks, Quiet, adminVars, procVars
<1>4. CASE Serve
  BY <1>4 DEF Serve, Quiet, procVars, files
<1>5. CASE InitStep /\ ~UnlinkDb
  BY <1>2, <1>5 DEF InitStep, BeginInit, RemovePolys, OpenDb, BadInput, CommitJob, WriteToken,
     AdminDies, serverVars, procVars
<1> QED BY <1>1, <1>2, <1>3, <1>4, <1>5 DEF JobNext, Extend, ServeFails, TimePasses,
        GhostStores, allVars, serverVars, adminVars, procVars

\* The invariants of the server hold where it starts, after a wipe too.
LEMMA FreshHolds == ServerInit' => IInv' /\ FilesInv'
<1>1. ServerInit => IInv /\ FilesInv
  BY InitInv, FilesInit DEF ServerInit
<1> QED BY <1>1, PTL

\* What the server keeps at every step, and has when it is fresh, the job keeps.
LEMMA JobServerInv ==
    JobSpec => [](Quiet /\ IInv /\ FilesInv)
<1> DEFINE J == Quiet /\ IInv /\ FilesInv
<1>1. JobInit => J
  <2>1. ServerInit => IInv /\ FilesInv
    BY InitInv, FilesInit DEF ServerInit
  <2> QED BY <2>1, JobInitIsFresh
<1>2. J /\ [JobNext]_allVars => J'
  <2> SUFFICES ASSUME J, [JobNext]_allVars PROVE J'
    OBVIOUS
  <2>1. Quiet'
    BY QuietNext
  <2>2. spotcheck \in SpotChecks
    BY DEF FilesInv, FilesTyped
  <2>3. CASE [ServerNext]_serverVars
    <3>1. FilesInv'
      BY <2>3, FilesNext
    <3>2. [Next]_vars
      BY <2>3, TableSteps DEF FilesInv
    <3> QED BY <2>1, <3>1, <3>2, NextInv
  <2>4. CASE ServerInit'
    BY <2>1, <2>4, FreshHolds
  <2> QED BY <2>2, <2>3, <2>4, JobSteps
<1> HIDE DEF J
<1>3. JobSpec => []J
  BY <1>1, <1>2, PTL DEF JobSpec
<1> QED BY <1>3 DEF J

\* The job directory implements the server's promise to the tables: whatever jobs
\* came and went, a coefficient of this one has at most one result, and its row
\* says so.
THEOREM JobOneResult == JobSpec => []OneResult
BY JobServerInv, PTL DEF IInv

\* A recorded row has its blob, with the content of its name, also after an init
\* --force under a running server: the ghost's rows are not seen, and its blobs
\* have names of their own.  The conditions are those of BlobIntactAlways.
THEOREM JobBlobIntactAlways ==
    OneAtATime /\ SameSetting => (JobSpec => []RecordedBlobIntact)
<1> SUFFICES ASSUME OneAtATime, SameSetting PROVE JobSpec => []RecordedBlobIntact
  OBVIOUS
<1> DEFINE J == BlobsInv /\ OwnTmp /\ RecordedBlobIntact
<1>1. ServerInit => J
  <2>1. ServerInit => OwnTmp
    BY DEF ServerInit, OwnTmp, Idle, Answered
  <2>2. ServerInit => RecordedBlobIntact
    BY DEF ServerInit, Init, RecordedBlobIntact
  <2> QED BY <2>1, <2>2, BlobsInit
<1>2. JobInit => J
  BY <1>1, JobInitIsFresh
<1> HIDE DEF J
<1>3. ServerInit' => J'
  BY <1>1, PTL
<1>4. Quiet /\ IInv /\ FilesInv /\ J /\ [JobNext]_allVars => J'
  <2> SUFFICES ASSUME Quiet, IInv, FilesInv, J, [JobNext]_allVars PROVE J'
    OBVIOUS
  <2>1. spotcheck \in SpotChecks
    BY DEF FilesInv, FilesTyped
  <2>2. CASE [ServerNext]_serverVars
    BY <2>2, BlobsNext, OwnTmpNext, IntactNext DEF J
  <2> QED BY <1>3, <2>1, <2>2, JobSteps
<1>5. J => RecordedBlobIntact
  BY DEF J
<1> QED BY <1>2, <1>4, <1>5, JobServerInv, PTL DEF JobSpec

-----------------------------------------------------------------------------
(***************************************************************************)
(* The job.                                                                *)
(***************************************************************************)

AdminTypes ==
    /\ dbfile \in {"none", "bare", "tables"}
    /\ meta \in Jobs /\ jobs \in Jobs /\ tokenfile \in Jobs /\ loaded \in Jobs
    /\ listedFor \in [Coeffs -> Jobs]
    /\ tokenLost \in BOOLEAN /\ polysdir \in BOOLEAN /\ strangers \in BOOLEAN
    /\ server \in {"down", "up", "ghost"}
    /\ admin \in Inits

\* No workunit and no job.
Empty == meta = 0 /\ \A w \in Coeffs : state[w] = "absent"

\* Without tables, and from the guard of init (or the wipe) to the transaction that
\* writes the job, there is nothing in the database; a job has a workunit.
GuardHolds ==
    /\ dbfile # "tables" => Empty
    /\ admin.pc \in {"unlinked", "wiped", "opened"} => Empty
    /\ admin.pc = "guarded" /\ ~admin.force => Empty
    /\ admin.pc \in {"opened", "committed"} => dbfile = "tables"
    /\ meta # 0 => \E w \in Coeffs : state[w] # "absent"

\* What a forced init has achieved on the way, when no server came in between.
WipeHolds ==
    /\ admin.alone => server = "down"
    /\ admin.pc = "guarded" => ~admin.wiped
    /\ admin.wiped /\ admin.pc \in {"unlinked", "wiped", "opened"} =>
          \A w \in Coeffs, d \in Digests : final[w][d] = NULL
    /\ admin.wiped /\ admin.alone /\ admin.pc \in {"wiped", "opened"} => ~strangers

AdminInv ==
    /\ AdminTypes
    /\ GuardHolds
    /\ NoMixedJob
    /\ ServedJob
    /\ TokenFileTrue
    /\ WipeHolds

LEMMA AdminInit == JobInit => AdminInv
<1> SUFFICES ASSUME JobInit PROVE AdminInv
  OBVIOUS
<1>1. 0 \in Jobs
  BY MaxJobsAssumption DEF Jobs
<1>2. NoInit \in Inits /\ NoInit.pc = "idle" /\ ~NoInit.alone /\ ~NoInit.wiped
  BY DEF NoInit, Inits
<1>3. AdminTypes
  BY <1>1, <1>2 DEF AdminTypes, JobInit
<1>4. \A w \in Coeffs : state[w] = "absent"
  BY DEF JobInit, NoRows
<1> QED BY <1>2, <1>3, <1>4 DEF AdminInv, JobInit, GuardHolds, Empty, NoMixedJob, ServedJob,
        TokenFileTrue, WipeHolds

Places == {"idle", "guarded", "unlinked", "wiped", "opened", "committed"}

\* The fields of the progress of init after each kind of step.
LEMMA InitMoves ==
    ASSUME NEW a \in Inits, NEW pc \in Places
    PROVE  /\ [a EXCEPT !.pc = pc] \in Inits
           /\ [a EXCEPT !.pc = pc].pc = pc
           /\ [a EXCEPT !.pc = pc].force = a.force
           /\ [a EXCEPT !.pc = pc].alone = a.alone
           /\ [a EXCEPT !.pc = pc].wiped = a.wiped
<1>1. [a EXCEPT !.pc = pc] \in Inits /\ [a EXCEPT !.pc = pc].pc = pc
  BY DEF Inits, Places
<1>2. [a EXCEPT !.pc = pc].force = a.force
  BY DEF Inits
<1>3. [a EXCEPT !.pc = pc].alone = a.alone
  BY DEF Inits
<1>4. [a EXCEPT !.pc = pc].wiped = a.wiped
  BY DEF Inits
<1> QED BY <1>1, <1>2, <1>3, <1>4

\* The server at work lists no workunit and forgets none.
LEMMA WorkKeepsRows ==
    ASSUME IInv, FilesInv, ServerWorks \/ TimePasses, NEW w \in Coeffs
    PROVE  state'[w] = "absent" <=> state[w] = "absent"
<1>1. state \in [Coeffs -> States]
  BY DEF IInv, TypeOK
<1>2. ASSUME NEW W \in SUBSET Coeffs, \A x \in W : state[x] = "leased", ChargeAttempt(W)
      PROVE  state'[w] = "absent" <=> state[w] = "absent"
  BY <1>2 DEF ChargeAttempt
<1>3. ASSUME NEW x \in Coeffs, NEW c \in Clients,
             FailWorkunit(x, c) \/ LeaseTo(c, x) \/ Release(x, c)
      PROVE  state'[w] = "absent" <=> state[w] = "absent"
  <2>1. CASE FailWorkunit(x, c)
    <3>1. {x} \in SUBSET Coeffs /\ ChargeAttempt({x}) /\ state[x] = "leased"
      BY <2>1 DEF FailWorkunit, MayResolve
    <3> QED BY <1>2, <3>1
  <2>2. CASE LeaseTo(c, x)
    BY <1>1, <2>2 DEF LeaseTo, Leasable
  <2>3. CASE Release(x, c)
    BY <1>1, <2>3 DEF Release
  <2> QED BY <1>3, <2>1, <2>2, <2>3
<1>4. ASSUME NEW x \in Coeffs, NEW c \in Clients, NEW d \in Digests, Submit(x, c, d)
      PROVE  state'[w] = "absent" <=> state[w] = "absent"
  <2>1. state[x] = "leased"
    BY <1>4, AcceptedOnlyIfHeld
  <2> QED BY <1>1, <1>4, <2>1 DEF Submit
<1>5. CASE SweepExpired
  <2>1. Expired \in SUBSET Coeffs /\ \A x \in Expired : state[x] = "leased"
    BY DEF Expired
  <2> QED BY <1>2, <1>5, <2>1 DEF SweepExpired
<1>6. CASE UNCHANGED state
  BY <1>6
<1>7. ASSUME NEW u \in Uploads, UploadStep(u)
      PROVE  state'[w] = "absent" <=> state[w] = "absent"
  <2>1. CASE RejectUpload(u)
    <3>1. upload[u].workunit \in Coeffs /\ upload[u].client \in Clients
      BY <2>1 DEF RejectUpload, FilesInv, RequestsOK, BusyNamed
    <3> QED BY <1>3, <1>6, <2>1, <3>1 DEF RejectUpload, vars
  <2>2. CASE RecordUpload(u)
    <3>1. /\ upload[u].workunit \in Coeffs /\ upload[u].client \in Clients
          /\ upload[u].sha256 \in Digests
      BY <2>2 DEF RecordUpload, FilesInv, RequestsOK, BusyNamed
    <3> QED BY <1>4, <1>6, <2>2, <3>1 DEF RecordUpload, vars
  <2>3. CASE ~RejectUpload(u) /\ ~RecordUpload(u)
    <3>1. UNCHANGED vars
      BY <1>7, <2>3 DEF UploadStep, OpenUpload, ReceiveChunk, AbortUpload, RefuseUpload, CleanUp,
         StoreBlob, PassCheck, FailCheck
    <3> QED BY <1>6, <3>1 DEF vars
  <2> QED BY <2>1, <2>2, <2>3
<1> QED BY <1>3, <1>5, <1>6, <1>7 DEF ServerWorks, TimePasses, Tick, Lease

\* Every blob that the server adds or drops is its own doing.
LEMMA WorkersOnly ==
    ASSUME AdminInv, IInv, FilesInv, ServerWorks \/ TimePasses
    PROVE  AdminInv'
<1>1. \A w \in Coeffs : state'[w] = "absent" <=> state[w] = "absent"
  BY WorkKeepsRows
<1>2. UNCHANGED adminVars
  BY DEF ServerWorks, TimePasses
<1>3. UNCHANGED <<dbfile, meta, jobs, listedFor, tokenfile, tokenLost, polysdir, strangers,
                  server, loaded, admin>>
  BY <1>2 DEF adminVars, jobVars, dirVars, procVars
<1>4. AdminTypes' /\ GuardHolds' /\ NoMixedJob' /\ ServedJob' /\ TokenFileTrue'
  BY <1>1, <1>3 DEF AdminInv, AdminTypes, GuardHolds, Empty, NoMixedJob, ServedJob, TokenFileTrue
<1>5. WipeHolds'
  <2>1. CASE TimePasses
    BY <1>3, <2>1 DEF TimePasses, files, AdminInv, WipeHolds
  <2>2. CASE ServerWorks
    <3>1. ~(admin.pc \in {"unlinked", "wiped", "opened"})
      BY <2>2 DEF ServerWorks, AdminInv, GuardHolds, Empty, ServedJob
    <3> QED BY <1>3, <3>1 DEF AdminInv, WipeHolds
  <2> QED BY <2>1, <2>2
<1> QED BY <1>4, <1>5 DEF AdminInv

\* The steps of init.
LEMMA BeginInitKeeps ==
    ASSUME AdminInv, NEW force \in BOOLEAN, BeginInit(force)
    PROVE  AdminInv'
<1> DEFINE a == [pc |-> "guarded", force |-> force, alone |-> server = "down", wiped |-> FALSE]
<1>1. /\ admin' = a /\ (force \/ Existing = {})
      /\ UNCHANGED <<vars, final, dbfile, meta, jobs, listedFor, tokenfile, tokenLost,
                     polysdir, strangers, server, loaded>>
      /\ admin.pc = "idle"
  BY DEF BeginInit, serverVars, files, jobVars, dirVars, procVars
<1>2. a \in Inits /\ a.pc = "guarded" /\ (a.force <=> force) /\ ~a.wiped
  BY DEF Inits
<1>3. a.alone => server = "down"
  OBVIOUS
<1> HIDE DEF a
<1>4. \A w \in Coeffs : state'[w] = state[w]
  BY <1>1 DEF vars
<1>5. Existing = {} => Empty
  BY DEF Existing, Empty, AdminInv, GuardHolds
<1>6. ~force => Empty
  BY <1>1, <1>5
<1>7. AdminTypes' /\ NoMixedJob' /\ ServedJob' /\ TokenFileTrue'
  BY <1>1, <1>2, <1>4 DEF AdminInv, AdminTypes, NoMixedJob, ServedJob, TokenFileTrue
<1>8. GuardHolds'
  BY <1>1, <1>2, <1>4, <1>6 DEF AdminInv, GuardHolds, Empty
<1>9. WipeHolds'
  BY <1>1, <1>2, <1>3 DEF AdminInv, WipeHolds
<1> QED BY <1>7, <1>8, <1>9 DEF AdminInv

LEMMA UnlinkDbKeeps ==
    ASSUME AdminInv, UnlinkDb
    PROVE  AdminInv'
<1> DEFINE b == [admin EXCEPT !.pc = "unlinked"]
           a == [b EXCEPT !.wiped = TRUE]
<1>1. /\ admin' = a /\ admin.pc = "guarded" /\ dbfile' = "none" /\ meta' = 0
      /\ state' = [w \in Coeffs |-> "absent"]
      /\ listedFor' = [w \in Coeffs |-> 0]
      /\ final' = [w \in Coeffs |-> [d \in Digests |-> NULL]]
      /\ strangers' = (strangers \/ Blobs # {})
      /\ server' = IF server = "up" THEN "ghost" ELSE server
      /\ UNCHANGED <<jobs, tokenfile, tokenLost, polysdir, loaded>>
  BY DEF UnlinkDb, ForgetRows, ForgetBlobs
<1>2. admin \in Inits /\ 0 \in Jobs
  BY MaxJobsAssumption DEF AdminInv, AdminTypes, Jobs
<1>3. /\ b \in Inits /\ b.pc = "unlinked" /\ b.alone = admin.alone
  BY <1>2, InitMoves DEF Places
<1> HIDE DEF b
<1>4. a \in Inits
  BY <1>3 DEF Inits
<1>5. a.pc = "unlinked"
  BY <1>3 DEF Inits
<1>6. a.alone = admin.alone
  BY <1>3 DEF Inits
<1> HIDE DEF a
<1>7. strangers' \in BOOLEAN
  BY <1>1
<1>8. server' \in {"down", "ghost"} /\ (server = "down" => server' = "down")
  BY <1>1 DEF AdminInv, AdminTypes
<1>9. AdminTypes'
  BY <1>1, <1>2, <1>4, <1>7, <1>8 DEF AdminInv, AdminTypes
<1>10. NoMixedJob' /\ ServedJob' /\ TokenFileTrue' /\ GuardHolds'
  BY <1>1, <1>5, <1>8 DEF NoMixedJob, ServedJob, TokenFileTrue, GuardHolds, Empty
<1>11. WipeHolds'
  BY <1>1, <1>5, <1>6, <1>8 DEF AdminInv, WipeHolds
<1> QED BY <1>9, <1>10, <1>11 DEF AdminInv

LEMMA RemovePolysKeeps ==
    ASSUME AdminInv, RemovePolys
    PROVE  AdminInv'
<1> DEFINE a == [admin EXCEPT !.pc = "wiped"]
<1>1. /\ admin' = a /\ admin.pc = "unlinked"
      /\ UNCHANGED <<vars, final, dbfile, meta, jobs, listedFor, tokenfile, tokenLost,
                     server, loaded>>
      /\ polysdir' \in BOOLEAN /\ strangers' \in BOOLEAN
      /\ server = "down" => strangers' = FALSE
  BY DEF RemovePolys, serverVars, files, jobVars, procVars
<1>2. /\ a \in Inits /\ a.pc = "wiped" /\ a.force = admin.force
      /\ a.alone = admin.alone /\ a.wiped = admin.wiped
  BY InitMoves DEF Places, AdminInv, AdminTypes
<1> HIDE DEF a
<1>3. Empty /\ \A w \in Coeffs : state'[w] = state[w]
  BY <1>1 DEF AdminInv, GuardHolds, vars
<1>4. AdminTypes' /\ NoMixedJob' /\ ServedJob' /\ TokenFileTrue' /\ GuardHolds'
  BY <1>1, <1>2, <1>3 DEF AdminInv, AdminTypes, GuardHolds, Empty, NoMixedJob, ServedJob,
     TokenFileTrue
<1>5. WipeHolds'
  BY <1>1, <1>2 DEF AdminInv, WipeHolds
<1> QED BY <1>4, <1>5 DEF AdminInv

LEMMA OpenDbKeeps ==
    ASSUME AdminInv, OpenDb
    PROVE  AdminInv'
<1> DEFINE a == [admin EXCEPT !.pc = "opened"]
<1>1. /\ admin' = a /\ dbfile' = "tables"
      /\ admin.pc = "wiped" \/ (admin.pc = "guarded" /\ ~MustWipe)
      /\ UNCHANGED <<vars, final, meta, jobs, listedFor, tokenfile, tokenLost, polysdir,
                     strangers, server, loaded>>
  BY DEF OpenDb, serverVars, files, dirVars, procVars
<1>2. /\ a \in Inits /\ a.pc = "opened" /\ a.force = admin.force
      /\ a.alone = admin.alone /\ a.wiped = admin.wiped
  BY InitMoves DEF Places, AdminInv, AdminTypes
<1> HIDE DEF a
<1>3. Empty
  BY <1>1 DEF AdminInv, GuardHolds, MustWipe
<1>4. \A w \in Coeffs : state'[w] = state[w]
  BY <1>1 DEF vars
<1>5. AdminTypes' /\ NoMixedJob' /\ ServedJob' /\ TokenFileTrue' /\ GuardHolds'
  BY <1>1, <1>2, <1>3, <1>4 DEF AdminInv, AdminTypes, GuardHolds, Empty, NoMixedJob, ServedJob,
     TokenFileTrue
<1>6. WipeHolds'
  BY <1>1, <1>2 DEF AdminInv, WipeHolds
<1> QED BY <1>5, <1>6 DEF AdminInv

\* An init that is given up, or dies, leaves what it has reached.
LEMMA InitEndsKeeps ==
    ASSUME AdminInv, BadInput \/ AdminDies
    PROVE  AdminInv'
<1>1. /\ admin' = NoInit
      /\ UNCHANGED <<vars, final, dbfile, meta, jobs, listedFor, tokenfile, polysdir, strangers,
                     server, loaded>>
      /\ tokenLost' = (tokenLost \/ admin.pc = "committed")
  <2>1. CASE BadInput
    BY <2>1 DEF BadInput, serverVars, files, jobVars, dirVars, procVars, AdminInv, AdminTypes
  <2>2. CASE AdminDies
    BY <2>2 DEF AdminDies, serverVars, files, dirVars, procVars
  <2> QED BY <2>1, <2>2
<1>2. NoInit \in Inits /\ NoInit.pc = "idle" /\ ~NoInit.alone /\ ~NoInit.wiped
  BY DEF NoInit, Inits
<1>3. \A w \in Coeffs : state'[w] = state[w]
  BY <1>1 DEF vars
<1>4. tokenLost' \in BOOLEAN
  BY <1>1
<1>5. AdminTypes' /\ NoMixedJob' /\ ServedJob' /\ GuardHolds' /\ WipeHolds'
  BY <1>1, <1>2, <1>3, <1>4 DEF AdminInv, AdminTypes, GuardHolds, Empty, NoMixedJob,
     ServedJob, WipeHolds
<1>6. TokenFileTrue'
  BY <1>1 DEF AdminInv, TokenFileTrue
<1> QED BY <1>5, <1>6 DEF AdminInv

LEMMA WriteTokenKeeps ==
    ASSUME AdminInv, WriteToken
    PROVE  AdminInv'
<1>1. /\ admin' = NoInit /\ tokenfile' = meta /\ tokenLost' = FALSE
      /\ UNCHANGED <<vars, final, dbfile, meta, jobs, listedFor, polysdir, strangers,
                     server, loaded>>
  BY DEF WriteToken, serverVars, files, dirVars, procVars
<1>2. NoInit \in Inits /\ NoInit.pc = "idle" /\ ~NoInit.alone /\ ~NoInit.wiped
  BY DEF NoInit, Inits
<1>3. \A w \in Coeffs : state'[w] = state[w]
  BY <1>1 DEF vars
<1> QED BY <1>1, <1>2, <1>3 DEF AdminInv, AdminTypes, GuardHolds, Empty, NoMixedJob,
        ServedJob, TokenFileTrue, WipeHolds

\* Rows inserted for job j where every present row is of j.
LEMMA InsertForFacts ==
    ASSUME AdminInv, IInv, NEW listed \in SUBSET Coeffs, NEW j \in Jobs, InsertFor(listed, j),
           \A w \in Coeffs : state[w] # "absent" => listedFor[w] = j
    PROVE  /\ listedFor' \in [Coeffs -> Jobs]
           /\ \A w \in Coeffs : state'[w] # "absent" => listedFor'[w] = j
           /\ \A w \in Coeffs : state[w] # "absent" => state'[w] # "absent"
           /\ \A w \in listed : state'[w] # "absent"
BY DEF InsertFor, ExtendJob, AdminInv, AdminTypes

LEMMA CommitJobKeeps ==
    ASSUME AdminInv, IInv, NEW listed \in SUBSET Coeffs, CommitJob(listed)
    PROVE  AdminInv'
<1> DEFINE a == [admin EXCEPT !.pc = "committed"]
<1>1. /\ admin' = a /\ admin.pc = "opened" /\ listed # {} /\ jobs < MaxJobs
      /\ jobs' = jobs + 1 /\ meta' = jobs + 1 /\ InsertFor(listed, jobs + 1)
      /\ UNCHANGED <<final, dbfile, tokenfile, tokenLost, polysdir, strangers, server, loaded>>
  BY DEF CommitJob, files, dirVars, procVars
<1>2. a \in Inits /\ a.pc = "committed" /\ a.alone = admin.alone /\ a.wiped = admin.wiped
  BY InitMoves DEF Places, AdminInv, AdminTypes
<1> HIDE DEF a
<1>3. Empty /\ dbfile = "tables"
  BY <1>1 DEF AdminInv, GuardHolds
<1>4. jobs + 1 \in Jobs /\ jobs + 1 # 0
  BY <1>1, MaxJobsAssumption DEF AdminInv, AdminTypes, Jobs
<1>5. /\ listedFor' \in [Coeffs -> Jobs]
      /\ \A w \in Coeffs : state'[w] # "absent" => listedFor'[w] = jobs + 1
      /\ \A w \in listed : state'[w] # "absent"
  BY <1>1, <1>3, <1>4, InsertForFacts DEF Empty
<1>6. server # "up"
  BY <1>3 DEF AdminInv, ServedJob, Empty
<1>7. AdminTypes' /\ NoMixedJob' /\ ServedJob' /\ TokenFileTrue'
  BY <1>1, <1>2, <1>4, <1>5, <1>6 DEF AdminInv, AdminTypes, NoMixedJob, ServedJob, TokenFileTrue
<1>8. GuardHolds'
  BY <1>1, <1>2, <1>3, <1>4, <1>5 DEF AdminInv, GuardHolds
<1>9. WipeHolds'
  BY <1>1, <1>2 DEF AdminInv, WipeHolds
<1> QED BY <1>7, <1>8, <1>9 DEF AdminInv

LEMMA ExtendKeeps ==
    ASSUME AdminInv, IInv, NEW listed \in SUBSET Coeffs, Extend(listed)
    PROVE  AdminInv'
<1>1. /\ admin.pc = "idle"
      /\ UNCHANGED <<final, meta, jobs, tokenfile, tokenLost, polysdir, strangers, server,
                     loaded, admin>>
  BY DEF Extend, files, dirVars, procVars
<1>2. CASE dbfile = "tables"
  <2>1. InsertFor(listed, meta) /\ dbfile' = dbfile
    BY <1>2 DEF Extend
  <2>2. meta \in Jobs /\ state \in [Coeffs -> States] /\ listedFor \in [Coeffs -> Jobs]
    BY DEF AdminInv, AdminTypes, IInv, TypeOK
  <2>3. listedFor' \in [Coeffs -> Jobs]
    BY <2>1, <2>2 DEF InsertFor
  <2>4. meta # 0 => \A w \in Coeffs : state'[w] # "absent" => listedFor'[w] = meta
    BY <2>1, <2>2, InsertForFacts DEF AdminInv, NoMixedJob
  <2>5. \A w \in Coeffs : state[w] # "absent" => state'[w] # "absent"
    BY <2>1, <2>2 DEF InsertFor, ExtendJob
  <2>6. AdminTypes' /\ NoMixedJob' /\ ServedJob' /\ TokenFileTrue' /\ WipeHolds'
    BY <1>1, <2>1, <2>3, <2>4 DEF AdminInv, AdminTypes, NoMixedJob, ServedJob, TokenFileTrue,
       WipeHolds
  <2>7. GuardHolds'
    BY <1>1, <1>2, <2>1, <2>5 DEF AdminInv, GuardHolds
  <2> QED BY <2>6, <2>7 DEF AdminInv
<1>3. CASE dbfile # "tables"
  <2>1. dbfile' = "bare" /\ UNCHANGED <<vars, listedFor>>
    BY <1>3 DEF Extend
  <2>2. \A w \in Coeffs : state'[w] = state[w]
    BY <2>1 DEF vars
  <2> QED BY <1>1, <1>3, <2>1, <2>2 DEF AdminInv, AdminTypes, GuardHolds, Empty, NoMixedJob,
          ServedJob, TokenFileTrue, WipeHolds
<1> QED BY <1>2, <1>3

\* The server comes and goes.
LEMMA ServeKeeps ==
    ASSUME AdminInv, Serve
    PROVE  AdminInv'
<1> DEFINE a == [admin EXCEPT !.alone = FALSE]
<1>1. /\ admin' = a /\ meta # 0 /\ polysdir' = TRUE
      /\ server' \in {"up", server} /\ loaded' \in {meta, loaded}
      /\ server = "down" => loaded' = meta
      /\ server # "down" => server' = server /\ loaded' = loaded
      /\ UNCHANGED <<vars, final, dbfile, meta, jobs, listedFor, tokenfile, tokenLost,
                     strangers>>
  BY DEF Serve, files, jobVars, procVars
<1>2. admin \in Inits
  BY DEF AdminInv, AdminTypes
<1>3. a \in Inits
  BY <1>2 DEF Inits
<1>4. a.pc = admin.pc
  BY <1>2 DEF Inits
<1>5. a.force = admin.force
  BY <1>2 DEF Inits
<1>6. ~a.alone
  BY <1>2 DEF Inits
<1>7. a.wiped = admin.wiped
  BY <1>2 DEF Inits
<1> HIDE DEF a
<1>8. \A w \in Coeffs : state'[w] = state[w]
  BY <1>1 DEF vars
<1>9. AdminTypes'
  BY <1>1, <1>3 DEF AdminInv, AdminTypes
<1>10. GuardHolds' /\ NoMixedJob' /\ ServedJob' /\ TokenFileTrue'
  BY <1>1, <1>4, <1>5, <1>8 DEF AdminInv, GuardHolds, Empty, NoMixedJob, ServedJob, TokenFileTrue
<1>11. WipeHolds'
  BY <1>1, <1>4, <1>6, <1>7 DEF AdminInv, WipeHolds
<1> QED BY <1>9, <1>10, <1>11 DEF AdminInv

LEMMA ServeFailsKeeps ==
    ASSUME AdminInv, ServeFails
    PROVE  AdminInv'
<1>1. /\ dbfile' = IF dbfile = "none" THEN "bare" ELSE dbfile
      /\ UNCHANGED <<vars, final, meta, jobs, listedFor, tokenfile, tokenLost, polysdir,
                     strangers, server, loaded, admin>>
  BY DEF ServeFails, serverVars, files, dirVars, procVars
<1>2. \A w \in Coeffs : state'[w] = state[w]
  BY <1>1 DEF vars
<1> QED BY <1>1, <1>2 DEF AdminInv, AdminTypes, GuardHolds, Empty, NoMixedJob, ServedJob,
        TokenFileTrue, WipeHolds

LEMMA ServerDiesKeeps ==
    ASSUME AdminInv, ServerDies
    PROVE  AdminInv'
<1>1. /\ server' = "down" /\ loaded' = 0
      /\ UNCHANGED <<vars, final, dbfile, meta, jobs, listedFor, tokenfile, tokenLost, polysdir,
                     strangers, admin>>
  BY DEF ServerDies, jobVars, dirVars
<1>2. 0 \in Jobs /\ \A w \in Coeffs : state'[w] = state[w]
  BY <1>1, MaxJobsAssumption DEF vars, Jobs
<1> QED BY <1>1, <1>2 DEF AdminInv, AdminTypes, GuardHolds, Empty, NoMixedJob, ServedJob,
        TokenFileTrue, WipeHolds

LEMMA GhostStoresKeeps ==
    ASSUME AdminInv, GhostStores
    PROVE  AdminInv'
<1>1. /\ server = "ghost" /\ strangers' = TRUE
      /\ UNCHANGED <<vars, final, dbfile, meta, jobs, listedFor, tokenfile, tokenLost, polysdir,
                     server, loaded, admin>>
  BY DEF GhostStores, serverVars, files, jobVars, procVars
<1>2. \A w \in Coeffs : state'[w] = state[w]
  BY <1>1 DEF vars
<1> QED BY <1>1, <1>2 DEF AdminInv, AdminTypes, GuardHolds, Empty, NoMixedJob, ServedJob,
        TokenFileTrue, WipeHolds

LEMMA AdminNext ==
    ASSUME AdminInv, IInv, FilesInv, [JobNext]_allVars
    PROVE  AdminInv'
<1>1. CASE InitStep
  BY <1>1, BeginInitKeeps, UnlinkDbKeeps, RemovePolysKeeps, OpenDbKeeps, InitEndsKeeps,
     CommitJobKeeps, WriteTokenKeeps DEF InitStep
<1>2. CASE \E listed \in SUBSET Coeffs : Extend(listed)
  BY <1>2, ExtendKeeps
<1>3. CASE Serve \/ ServeFails \/ ServerDies \/ GhostStores
  BY <1>3, ServeKeeps, ServeFailsKeeps, ServerDiesKeeps, GhostStoresKeeps
<1>4. CASE ServerWorks \/ TimePasses
  BY <1>4, WorkersOnly
<1>5. CASE UNCHANGED allVars
  <2>1. /\ UNCHANGED <<vars, final, dbfile, meta, jobs, listedFor, tokenfile, tokenLost, polysdir,
                       strangers, server, loaded, admin>>
    BY <1>5 DEF allVars, adminVars, serverVars, files, jobVars, dirVars, procVars
  <2>2. \A w \in Coeffs : state'[w] = state[w]
    BY <2>1 DEF vars
  <2> QED BY <2>1, <2>2 DEF AdminInv, AdminTypes, GuardHolds, Empty, NoMixedJob, ServedJob,
          TokenFileTrue, WipeHolds
<1> QED BY <1>1, <1>2, <1>3, <1>4, <1>5 DEF JobNext

LEMMA JobAdminInv == JobSpec => []AdminInv
<1>1. AdminInv /\ IInv /\ FilesInv /\ [JobNext]_allVars => AdminInv'
  BY AdminNext
<1> QED BY <1>1, AdminInit, JobServerInv, PTL DEF JobSpec

\* Every row was listed for the job in meta, whenever inits and extends come and
\* however they end.
THEOREM NoMixedJobAlways == JobSpec => []NoMixedJob
BY JobAdminInv, PTL DEF AdminInv

\* A server on the job's database serves the job it read when it started: that job
\* cannot be replaced under it, only taken away.
THEOREM ServedJobAlways == JobSpec => []ServedJob
BY JobAdminInv, PTL DEF AdminInv

\* The token file is that of the job, but between the transaction and the write.
THEOREM TokenFileTrueAlways == JobSpec => []TokenFileTrue
BY JobAdminInv, PTL DEF AdminInv

\* Every variable of the job directory has its type.
THEOREM JobTypeCorrect == JobSpec => []JobTypeOK
<1>1. IInv /\ FilesInv /\ AdminInv => JobTypeOK
  <2> SUFFICES ASSUME IInv, FilesInv, AdminInv PROVE JobTypeOK
    OBVIOUS
  <2>1. ServerTypeOK
    BY SpotChecksAssumption DEF IInv, FilesInv, RequestsOK, FilesTyped, ServerTypeOK
  <2> QED BY <2>1 DEF AdminInv, AdminTypes, JobTypeOK
<1> QED BY <1>1, JobAdminInv, JobServerInv, PTL

\* What a forced init leaves for the new job, unless a server ran under it: only the
\* transaction of init writes a job, and from the wipe to it nothing adds a blob.
THEOREM ForcedJobIsCleanAlways == JobSpec => ForcedJobIsClean
<1> DEFINE Clean ==
      (meta' # meta /\ meta' # 0 /\ admin.wiped /\ admin.alone)
        => (~strangers' /\ \A w \in Coeffs, d \in Digests : final'[w][d] = NULL)
<1>1. AdminInv /\ [JobNext]_allVars => Clean
  <2> SUFFICES ASSUME AdminInv, [JobNext]_allVars, meta' # meta, meta' # 0,
                      admin.wiped, admin.alone
               PROVE  ~strangers' /\ \A w \in Coeffs, d \in Digests : final'[w][d] = NULL
    OBVIOUS
  <2>1. PICK listed \in SUBSET Coeffs : CommitJob(listed)
    <3>1. ~UnlinkDb
      BY DEF UnlinkDb, ForgetRows
    <3>2. ~BadInput /\ ~WriteToken /\ ~AdminDies /\ ~OpenDb /\ ~RemovePolys
          /\ ~\E force \in BOOLEAN : BeginInit(force)
      BY DEF BadInput, WriteToken, AdminDies, OpenDb, RemovePolys, BeginInit, jobVars
    <3>3. /\ ~Serve /\ ~ServeFails /\ ~ServerDies /\ ~ServerWorks /\ ~TimePasses /\ ~GhostStores
          /\ ~\E listed \in SUBSET Coeffs : Extend(listed)
          /\ ~UNCHANGED allVars
      BY DEF Serve, ServeFails, ServerDies, ServerWorks, TimePasses, GhostStores, Extend,
         allVars, adminVars, jobVars
    <3> QED BY <3>1, <3>2, <3>3 DEF JobNext, InitStep
  <2>2. admin.pc = "opened" /\ UNCHANGED <<final, strangers>>
    BY <2>1 DEF CommitJob, files, dirVars
  <2> QED BY <2>2 DEF AdminInv, WipeHolds
<1>2. AdminInv /\ [JobNext]_allVars => [Clean]_allVars
  BY <1>1
<1>3. JobSpec => [][Clean]_allVars
  BY <1>2, JobAdminInv, PTL DEF JobSpec
<1> QED BY <1>3 DEF ForcedJobIsClean
=============================================================================
