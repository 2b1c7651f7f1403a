------------------------------- MODULE JobAdmin -------------------------------
(***************************************************************************)
(* The life of a job directory: `init`, `extend` and `serve` of            *)
(* polyserver/__main__.py around the server of PolyServer.                 *)
(*                                                                         *)
(* `init` is a program of its own that works on the files under a server   *)
(* that may be running: it looks for an old job, unlinks the database and  *)
(* removes polys/ when forced to, makes the tables, writes the job in one  *)
(* transaction, and last the token file.  It may die between any two of    *)
(* these.  A server whose database was unlinked goes on with the file it   *)
(* has open: it is a ghost, whose rows no one sees again and whose blobs   *)
(* still arrive in polys/ by name.  One administrator works at a time; the *)
(* server is started and dies whenever it likes (polyserver.service).      *)
(*                                                                         *)
(* The number of a job stands for what `meta` holds of it, the composite   *)
(* and the token.                                                          *)
(***************************************************************************)
EXTENDS PolyServer

CONSTANT MaxJobs     \* how often `init` gets to write a job (a bound)

ASSUME MaxJobsAssumption == MaxJobs \in Nat

VARIABLES
    dbfile,      \* job.db: "none", "bare" (no tables yet) or "tables"
    meta,        \* the job in the table `meta`, 0 for none
    jobs,        \* the number of jobs written so far
    listedFor,   \* the job that `meta` named when a row was inserted
    tokenfile,   \* the job whose token is in <jobdir>/token, 0 for none
    tokenLost,   \* whether the last job's init died before the token file
    polysdir,    \* whether polys/ exists
    strangers,   \* whether polys/ holds blobs of an earlier job
    server,      \* "down", "up", or "ghost": up on an unlinked database
    loaded,      \* the job that create_app read when the server started
    admin        \* the progress of `init`

jobVars == <<dbfile, meta, jobs, listedFor, tokenfile, tokenLost>>
dirVars == <<polysdir, strangers>>
procVars == <<server, loaded>>
adminVars == <<jobVars, dirVars, procVars, admin>>
allVars == <<serverVars, adminVars>>

Jobs == 0 .. MaxJobs

\* pc: what the running `init` has done; force: its flag; alone: no server has
\* run since it began; wiped: it found an old database and unlinked it.
Inits ==
    [pc : {"idle", "guarded", "unlinked", "wiped", "opened", "committed"},
     force : BOOLEAN, alone : BOOLEAN, wiped : BOOLEAN]
NoInit == [pc |-> "idle", force |-> FALSE, alone |-> FALSE, wiped |-> FALSE]

NoRows ==
    /\ state = [w \in Coeffs |-> "absent"]
    /\ attempt_count = [w \in Coeffs |-> 0]
    /\ client_id = [w \in Coeffs |-> NULL]
    /\ lease_left = [w \in Coeffs |-> NULL]
    /\ submissions = <<>>

\* An empty job directory.
JobInit ==
    /\ NoRows
    /\ upload = [u \in Uploads |-> Idle]
    /\ tmp = [w \in Coeffs |-> NULL]
    /\ final = [w \in Coeffs |-> [d \in Digests |-> NULL]]
    /\ spotcheck \in SpotChecks
    /\ dbfile = "none" /\ meta = 0 /\ jobs = 0
    /\ listedFor = [w \in Coeffs |-> 0]
    /\ tokenfile = 0 /\ tokenLost = FALSE
    /\ polysdir = FALSE /\ strangers = FALSE
    /\ server = "down" /\ loaded = 0
    /\ admin = NoInit

-----------------------------------------------------------------------------
\* The rows that make init refuse to go on; the faulty form takes a job with
\* nothing left to hand out for no job.
ExistingAvailable == {w \in Coeffs : state[w] = "available"}
Existing == {w \in Coeffs : state[w] # "absent"}

\* init looks for an old job, which it does not mix with a new one.
BeginInit(force) ==
    /\ admin.pc = "idle"
    /\ force \/ Existing = {}
    /\ admin' = [pc |-> "guarded", force |-> force, alone |-> server = "down", wiped |-> FALSE]
    /\ UNCHANGED <<serverVars, jobVars, dirVars, procVars>>

MustWipe == admin.force /\ dbfile # "none"

\* The uploads in progress, and their temporary files, are out of sight.
ForgetUploads ==
    /\ upload' = [u \in Uploads |-> Idle]
    /\ tmp' = [w \in Coeffs |-> NULL]

ForgetBlobs == final' = [w \in Coeffs |-> [d \in Digests |-> NULL]]

Blobs == {b \in Coeffs \X Digests : final[b[1]][b[2]] # NULL}

ForgetRows ==
    /\ state' = [w \in Coeffs |-> "absent"]
    /\ attempt_count' = [w \in Coeffs |-> 0]
    /\ client_id' = [w \in Coeffs |-> NULL]
    /\ lease_left' = [w \in Coeffs |-> NULL]
    /\ submissions' = <<>>
    /\ meta' = 0
    /\ listedFor' = [w \in Coeffs |-> 0]

\* Two faulty forms of UnlinkDb: the tables are emptied in the file, which the
\* server keeps; polys/ is emptied before the database.
EmptyTables ==
    /\ admin.pc = "guarded" /\ MustWipe
    /\ ForgetRows /\ ForgetUploads /\ ForgetBlobs
    /\ strangers' = (strangers \/ Blobs # {})
    /\ admin' = [admin EXCEPT !.pc = "unlinked", !.wiped = TRUE]
    /\ UNCHANGED <<spotcheck, dbfile, jobs, tokenfile, tokenLost, polysdir, procVars>>

EmptyPolysFirst ==
    /\ admin.pc = "guarded" /\ MustWipe
    /\ ForgetUploads /\ ForgetBlobs
    /\ admin' = [admin EXCEPT !.pc = "unlinked", !.wiped = TRUE]
    /\ UNCHANGED <<vars, spotcheck, jobVars, dirVars, procVars>>

\* --force: the database goes first.  What polys/ holds is now of an earlier job,
\* and a running server becomes a ghost.
UnlinkDb ==
    /\ admin.pc = "guarded" /\ MustWipe
    /\ ForgetRows /\ ForgetUploads /\ ForgetBlobs
    /\ dbfile' = "none"
    /\ strangers' = (strangers \/ Blobs # {})
    /\ server' = IF server = "up" THEN "ghost" ELSE server
    /\ admin' = [admin EXCEPT !.pc = "unlinked", !.wiped = TRUE]
    /\ UNCHANGED <<spotcheck, jobs, tokenfile, tokenLost, polysdir, loaded>>

\* Faulty RemovePolys: it fails unnoticed (ignore_errors).
KeepPolys ==
    /\ admin.pc = "unlinked"
    /\ admin' = [admin EXCEPT !.pc = "wiped"]
    /\ UNCHANGED <<serverVars, jobVars, dirVars, procVars>>

\* Then polys/, with ignore_errors: a ghost that adds a blob meanwhile keeps the
\* directory.
RemovePolys ==
    /\ admin.pc = "unlinked"
    /\ \/ polysdir' = FALSE /\ strangers' = FALSE
       \/ server = "ghost" /\ polysdir /\ polysdir' = TRUE /\ strangers' = TRUE
    /\ admin' = [admin EXCEPT !.pc = "wiped"]
    /\ UNCHANGED <<serverVars, jobVars, procVars>>

\* connect makes the file and init_schema the tables that are not there.
OpenDb ==
    /\ admin.pc = "wiped" \/ (admin.pc = "guarded" /\ ~MustWipe)
    /\ dbfile' = "tables"
    /\ admin' = [admin EXCEPT !.pc = "opened"]
    /\ UNCHANGED <<serverVars, meta, jobs, listedFor, tokenfile, tokenLost, dirVars, procVars>>

\* A bad coefficient, an empty list, a missing file or a bad N ends init here,
\* after the old job is gone.
BadInput ==
    /\ admin.pc = "opened"
    /\ admin' = NoInit
    /\ UNCHANGED <<serverVars, jobVars, dirVars, procVars>>

\* Rows inserted while `meta` names job j; those present are left alone.
InsertFor(listed, j) ==
    /\ ExtendJob(listed)
    /\ listedFor' = [w \in Coeffs |-> IF state[w] = "absent" /\ w \in listed
                                      THEN j ELSE listedFor[w]]

\* init_job: the meta rows are replaced and the workunits inserted in one
\* transaction.
CommitJob(listed) ==
    /\ admin.pc = "opened"
    /\ listed # {}
    /\ jobs < MaxJobs
    /\ jobs' = jobs + 1
    /\ meta' = jobs + 1
    /\ InsertFor(listed, jobs + 1)
    /\ admin' = [admin EXCEPT !.pc = "committed"]
    /\ UNCHANGED <<upload, files, spotcheck, dbfile, tokenfile, tokenLost, dirVars, procVars>>

\* Faulty WriteToken: a token file that is there is kept.
WriteTokenOnce ==
    /\ admin.pc = "committed"
    /\ tokenfile' = IF tokenfile = 0 THEN meta ELSE tokenfile
    /\ tokenLost' = FALSE
    /\ admin' = NoInit
    /\ UNCHANGED <<serverVars, dbfile, meta, jobs, listedFor, dirVars, procVars>>

WriteToken ==
    /\ admin.pc = "committed"
    /\ tokenfile' = meta
    /\ tokenLost' = FALSE
    /\ admin' = NoInit
    /\ UNCHANGED <<serverVars, dbfile, meta, jobs, listedFor, dirVars, procVars>>

\* The administrator's program is killed.
AdminDies ==
    /\ admin.pc # "idle"
    /\ tokenLost' = (tokenLost \/ admin.pc = "committed")
    /\ admin' = NoInit
    /\ UNCHANGED <<serverVars, dbfile, meta, jobs, listedFor, tokenfile, dirVars, procVars>>

\* extend: without tables the insert fails, but connect has made the file;
\* without a job it inserts all the same.
Extend(listed) ==
    /\ admin.pc = "idle"
    /\ listed # {}
    /\ IF dbfile = "tables"
       THEN InsertFor(listed, meta) /\ UNCHANGED dbfile
       ELSE dbfile' = "bare" /\ UNCHANGED <<vars, listedFor>>
    /\ UNCHANGED <<upload, files, spotcheck, meta, jobs, tokenfile, tokenLost,
                   dirVars, procVars, admin>>

-----------------------------------------------------------------------------
\* serve on a directory with a job: create_app reads meta and makes polys/.  The
\* port is taken as long as another server runs, which shows only after that.
Serve ==
    /\ meta # 0
    /\ polysdir' = TRUE
    /\ \/ server = "down" /\ server' = "up" /\ loaded' = meta /\ spotcheck' \in SpotChecks
       \/ server # "down" /\ UNCHANGED <<procVars, spotcheck>>
    /\ admin' = [admin EXCEPT !.alone = FALSE]
    /\ UNCHANGED <<vars, upload, files, jobVars, strangers>>

\* serve without a job fails; connect has made the file.
ServeFails ==
    /\ meta = 0
    /\ dbfile' = IF dbfile = "none" THEN "bare" ELSE dbfile
    /\ UNCHANGED <<serverVars, meta, jobs, listedFor, tokenfile, tokenLost,
                   dirVars, procVars, admin>>

ServerDies ==
    /\ server # "down"
    /\ server' = "down"
    /\ loaded' = 0
    /\ ForgetUploads
    /\ UNCHANGED <<vars, final, spotcheck, jobVars, dirVars, admin>>

\* The server at work on the job (PolyServer).
ServerWorks ==
    /\ server = "up"
    /\ \/ \E u \in Uploads : UploadStep(u)
       \/ /\ \/ \E c \in Clients : Lease(c)
             \/ \E w \in Coeffs, c \in Clients : Release(w, c)
             \/ SweepExpired
          /\ UNCHANGED <<upload, files, spotcheck>>
    /\ UNCHANGED adminVars

TimePasses ==
    /\ Tick
    /\ UNCHANGED <<upload, files, spotcheck, adminVars>>

\* A ghost accepts one more upload of its job, where polys/ exists.
GhostStores ==
    /\ server = "ghost"
    /\ polysdir
    /\ strangers' = TRUE
    /\ UNCHANGED <<serverVars, jobVars, polysdir, procVars, admin>>

InitStep ==
    \/ \E force \in BOOLEAN : BeginInit(force)
    \/ UnlinkDb
    \/ RemovePolys
    \/ OpenDb
    \/ BadInput
    \/ \E listed \in SUBSET Coeffs : CommitJob(listed)
    \/ WriteToken
    \/ AdminDies

JobNext ==
    \/ InitStep
    \/ \E listed \in SUBSET Coeffs : Extend(listed)
    \/ Serve
    \/ ServeFails
    \/ ServerDies
    \/ ServerWorks
    \/ TimePasses
    \/ GhostStores

JobSpec == JobInit /\ [][JobNext]_allVars

-----------------------------------------------------------------------------
JobTypeOK ==
    /\ ServerTypeOK
    /\ dbfile \in {"none", "bare", "tables"}
    /\ meta \in Jobs /\ jobs \in Jobs /\ tokenfile \in Jobs /\ loaded \in Jobs
    /\ listedFor \in [Coeffs -> Jobs]
    /\ tokenLost \in BOOLEAN /\ polysdir \in BOOLEAN /\ strangers \in BOOLEAN
    /\ server \in {"down", "up", "ghost"}
    /\ admin \in Inits

\* The workunits of a job were all listed for that job: neither a second init,
\* whenever it comes and however the one before it ended, nor an extend that
\* came when there was no job, mixes the coefficients of one N with another
\* (__main__.py:57-61).
NoMixedJob ==
    meta # 0 => \A w \in Coeffs : state[w] # "absent" => listedFor[w] = meta

\* A server that works on the job's database hands out the N and asks for the
\* token of that job, which it read only once, when it started, and polys/ is
\* there for its uploads, whatever init did since then (app.py:54-58).
ServedJob == server = "up" => loaded = meta /\ meta # 0 /\ polysdir

\* The token file holds the token of the job in the database once init is
\* through, unless that init died just before it wrote the file, which the
\* next one to finish makes good (__main__.py:79-85).
TokenFileTrue ==
    meta # 0 => tokenfile = meta \/ admin.pc = "committed" \/ tokenLost

\* A job that --force puts in the place of an old one starts with an empty
\* polys/, so the corpus holds no polynomial of another N; when a server ran
\* meanwhile it may not (__main__.py:62-66).
ForcedJobIsClean ==
    [][meta' # meta /\ meta' # 0 /\ admin.wiped /\ admin.alone
        => ~strangers' /\ \A w \in Coeffs, d \in Digests : final'[w][d] = NULL]_allVars
=============================================================================
