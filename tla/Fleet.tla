-------------------------------- MODULE Fleet --------------------------------
(***************************************************************************)
(* The workers of a job (polyclient/client.py, one process per GPU) and    *)
(* the server they call, over a network that may lose or delay a call.     *)
(*                                                                         *)
(* A worker has one call outstanding at a time.  It waits for the answer   *)
(* or gives the call up (timeout, connection error, 5xx); a call given up  *)
(* may have been served already, may be lost, or may still be on its way   *)
(* and be served later.  The server's side of a call is one action here:   *)
(* PolyServer has the steps of /submit.                                    *)
(*                                                                         *)
(* msieve is external: a run ends with an output or fails.  It appends to  *)
(* the file that an earlier run left in the workdir, and the sample check  *)
(* reads the first records, so the earlier run decides the check.          *)
(***************************************************************************)
EXTENDS WorkUnits, FiniteSets

CONSTANTS
    Workers,      \* the client processes
    Id,           \* the --client-id of each
    MaxFailures,  \* max_failures of Client
    Failing,      \* the outputs that do not pass the sample check
    BadBuilds,    \* the workers whose msieve gives such outputs
    Broken,       \* the coefficients on which msieve fails
    Faults,       \* which of AllFaults happen to each worker
    MaxLate       \* bound on the calls that are still on their way

AllFaults == {"lost", "late", "kill", "refuse", "crash", "signal"}

ASSUME FleetAssumption ==
    /\ Id \in [Workers -> Clients]
    /\ MaxFailures \in Nat \ {0}
    /\ MaxLate \in Nat
    /\ Failing \subseteq Digests
    /\ BadBuilds \subseteq Workers
    /\ Broken \subseteq Coeffs
    /\ Faults \in [Workers -> SUBSET AllFaults]

VARIABLES
    worker,    \* the state of each client process
    workdir,   \* the output file of each worker for each workunit, or NULL
    call,      \* the outstanding call of each worker, or the last one
    late       \* calls that were given up and are still on their way

fleetVars == <<vars, worker, workdir, call, late>>

\* What the server answers; "sent" and "none" stand for no answer yet and no call.
Answers == {"granted", "empty", "stored", "conflict", "failed", "refused", "released"}

Call(p, kind, w, d, answer) ==
    [from |-> p, kind |-> kind, workunit |-> w, sha256 |-> d, answer |-> answer]
Sent(p, kind, w, d) == Call(p, kind, w, d, "sent")
NoCall(p) == Call(p, "lease", NULL, NULL, "none")

Fresh == [pc |-> "looking", workunit |-> NULL, fails |-> 0, drain |-> FALSE, cancel |-> FALSE]

FleetInit ==
    /\ Init
    /\ worker = [p \in Workers |-> Fresh]
    /\ workdir = [p \in Workers |-> [w \in Coeffs |-> NULL]]
    /\ call = [p \in Workers |-> NoCall(p)]
    /\ late = {}

-----------------------------------------------------------------------------
\* The server serves the call c of worker p: what it does and what it answers.
ServeLease(p, answer, w) ==
    \/ answer = "granted" /\ w \in Coeffs /\ LeaseTo(Id[p], w)
    \/ answer = "empty" /\ w = NULL /\ Leasable = {} /\ UNCHANGED vars

\* A refused upload (400, 413, 415 or 401) is not looked at any further.
ServeSubmit(p, w, d, answer) ==
    \/ /\ answer = "refused" /\ "refuse" \in Faults[p]
       /\ UNCHANGED vars
    \/ /\ answer = "failed" /\ d \in Failing
       /\ \/ FailWorkunit(w, Id[p])
          \/ (~MayResolve(w, Id[p]) /\ UNCHANGED vars)
    \/ /\ answer = "stored" /\ d \notin Failing
       /\ \/ Submit(w, Id[p], d)
          \/ (SubmitStatus(w, Id[p], d) = "duplicate" /\ UNCHANGED vars)
    \/ /\ answer = "conflict" /\ d \notin Failing
       /\ SubmitStatus(w, Id[p], d) = "conflict"
       /\ UNCHANGED vars

ServeRelease(p, w, answer) ==
    /\ answer = "released"
    /\ \/ Release(w, Id[p])
       \/ (~(state[w] = "leased" /\ client_id[w] = Id[p]) /\ UNCHANGED vars)

Served(c, answer, w) ==
    \/ c.kind = "lease" /\ ServeLease(c.from, answer, w)
    \/ c.kind = "submit" /\ w = c.workunit /\ ServeSubmit(c.from, w, c.sha256, answer)
    \/ c.kind = "release" /\ w = c.workunit /\ ServeRelease(c.from, w, answer)

Serve(p) ==
    /\ call[p].answer = "sent"
    /\ \E answer \in Answers, w \in Coeffs \cup {NULL} :
          /\ Served(call[p], answer, w)
          /\ call' = [call EXCEPT ![p].answer = answer, ![p].workunit = w]
    /\ UNCHANGED <<worker, workdir, late>>

\* A delayed call is served; nobody waits for its answer.
ServeLate ==
    /\ \E c \in late :
          /\ \E answer \in Answers, w \in Coeffs \cup {NULL} : Served(c, answer, w)
          /\ late' = late \ {c}
    /\ UNCHANGED <<worker, workdir, call>>

\* The worker gives its call up.  One that was not served yet is lost, or stays
\* on its way.
GivenUp(p) ==
    /\ "lost" \in Faults[p]
    /\ call' = [call EXCEPT ![p] = NoCall(p)]
    /\ \/ UNCHANGED late
       \/ /\ "late" \in Faults[p]
          /\ call[p].answer = "sent"
          /\ Cardinality(late) < MaxLate
          /\ late' = late \cup {call[p]}

-----------------------------------------------------------------------------
StoppingOnCancel(p) == worker[p].cancel    \* faulty: a drain is not seen
Stopping(p) == worker[p].drain \/ worker[p].cancel

\* The head of the main loop: stop on a signal, or ask for a workunit.
StopLooking(p) ==
    /\ worker[p].pc = "looking"
    /\ Stopping(p)
    /\ worker' = [worker EXCEPT ![p].pc = "stopped"]
    /\ UNCHANGED <<vars, workdir, call, late>>

AskLease(p) ==
    /\ worker[p].pc = "looking"
    /\ ~Stopping(p)
    /\ worker' = [worker EXCEPT ![p].pc = "leasing"]
    /\ call' = [call EXCEPT ![p] = Sent(p, "lease", NULL, NULL)]
    /\ UNCHANGED <<vars, workdir, late>>

\* A lease came, or there is no work, or the call failed.
LeaseAnswered(p) ==
    /\ worker[p].pc = "leasing"
    /\ \/ /\ call[p].answer = "granted"
          /\ worker' = [worker EXCEPT ![p].pc = "running", ![p].workunit = call[p].workunit]
       \/ /\ call[p].answer = "empty"
          /\ worker' = [worker EXCEPT ![p].pc = "looking"]
    /\ call' = [call EXCEPT ![p] = NoCall(p)]
    /\ UNCHANGED <<vars, workdir, late>>

LeaseCallFailed(p) ==
    /\ worker[p].pc = "leasing"
    /\ GivenUp(p)
    /\ worker' = [worker EXCEPT ![p].pc = "looking"]
    /\ UNCHANGED <<vars, workdir>>

\* What the output file may be after a run that leaves content d: d itself in a
\* fresh workdir, a longer file with the same first records in a used one.
Appended(old, d) ==
    IF old = NULL THEN {d} ELSE {e \in Digests : (e \in Failing) <=> (old \in Failing)}

Outputs(p) == IF p \in BadBuilds THEN Failing ELSE Digests \ Failing

\* msieve ends well and the output is hashed and compressed.
FinishRun(p) ==
    LET w == worker[p].workunit
    IN  /\ worker[p].pc = "running"
        /\ w \notin Broken
        /\ \E d \in Outputs(p) : \E e \in Appended(workdir[p][w], d) :
              workdir' = [workdir EXCEPT ![p][w] = e]
        /\ worker' = [worker EXCEPT ![p].pc = "uploading"]
        /\ UNCHANGED <<vars, call, late>>

\* The release that ends a unit which was not resolved.
SendRelease(p) ==
    call' = [call EXCEPT ![p] = Sent(p, "release", worker[p].workunit, NULL)]

\* msieve fails, perhaps with a part of its output written.
CrashRun(p) ==
    LET w == worker[p].workunit
    IN  /\ worker[p].pc = "running"
        /\ w \in Broken \/ "crash" \in Faults[p]
        /\ \/ UNCHANGED workdir
           \/ \E d \in Outputs(p) : \E e \in Appended(workdir[p][w], d) :
                 workdir' = [workdir EXCEPT ![p][w] = e]
        /\ worker' = [worker EXCEPT ![p].pc = "releasing", ![p].fails = @ + 1]
        /\ SendRelease(p)
        /\ UNCHANGED <<vars, late>>

\* The cancel flag kills msieve, perhaps with a part of its output written.
CancelRun(p) ==
    LET w == worker[p].workunit
    IN  /\ worker[p].pc = "running"
        /\ worker[p].cancel
        /\ \/ UNCHANGED workdir
           \/ \E d \in Outputs(p) : \E e \in Appended(workdir[p][w], d) :
                 workdir' = [workdir EXCEPT ![p][w] = e]
        /\ worker' = [worker EXCEPT ![p].pc = "releasing"]
        /\ SendRelease(p)
        /\ UNCHANGED <<vars, late>>

\* The head of the upload loop.
StartUpload(p) ==
    LET w == worker[p].workunit
    IN  /\ worker[p].pc = "uploading"
        /\ ~worker[p].cancel
        /\ worker' = [worker EXCEPT ![p].pc = "submitting"]
        /\ call' = [call EXCEPT ![p] = Sent(p, "submit", w, workdir[p][w])]
        /\ UNCHANGED <<vars, workdir, late>>

\* Faulty CancelUpload: the worker exits with the lease.
CancelUploadKeepingLease(p) ==
    /\ worker[p].pc = "uploading"
    /\ worker[p].cancel
    /\ worker' = [worker EXCEPT ![p].pc = "stopped"]
    /\ UNCHANGED <<vars, workdir, call, late>>

CancelUpload(p) ==
    /\ worker[p].pc = "uploading"
    /\ worker[p].cancel
    /\ worker' = [worker EXCEPT ![p].pc = "releasing"]
    /\ SendRelease(p)
    /\ UNCHANGED <<vars, workdir, late>>

\* The answers upon which the output is deleted; the faulty form takes "someone
\* else has the workunit" for "done".
DeletesUponConflict(answer) == answer \in {"stored", "conflict"}
DeletesUpon(answer) == answer = "stored"

\* Answered 200: the workdir is removed.  Answered 4xx: it stays.  Either way the
\* unit counts as resolved and is not released.
SubmitAnswered(p) ==
    LET w == worker[p].workunit
    IN  /\ worker[p].pc = "submitting"
        /\ call[p].answer \in {"stored", "conflict", "failed", "refused"}
        /\ workdir' = IF DeletesUpon(call[p].answer)
                      THEN [workdir EXCEPT ![p][w] = NULL] ELSE workdir
        /\ worker' = [worker EXCEPT ![p].pc = "looking", ![p].workunit = NULL,
                                    ![p].fails = 0]
        /\ call' = [call EXCEPT ![p] = NoCall(p)]
        /\ UNCHANGED <<vars, late>>

\* The server is unreachable or answers 5xx: try again.
SubmitCallFailed(p) ==
    /\ worker[p].pc = "submitting"
    /\ GivenUp(p)
    /\ worker' = [worker EXCEPT ![p].pc = "uploading"]
    /\ UNCHANGED <<vars, workdir>>

\* After the release, whether or not it arrived: exit on a cancel or on the last
\* failure in a row.
AfterRelease(p) ==
    IF worker[p].fails >= MaxFailures \/ worker[p].cancel THEN "stopped" ELSE "looking"

ReleaseAnswered(p) ==
    /\ worker[p].pc = "releasing"
    /\ call[p].answer = "released"
    /\ worker' = [worker EXCEPT ![p].pc = AfterRelease(p), ![p].workunit = NULL]
    /\ call' = [call EXCEPT ![p] = NoCall(p)]
    /\ UNCHANGED <<vars, workdir, late>>

ReleaseCallFailed(p) ==
    /\ worker[p].pc = "releasing"
    /\ GivenUp(p)
    /\ worker' = [worker EXCEPT ![p].pc = AfterRelease(p), ![p].workunit = NULL]
    /\ UNCHANGED <<vars, workdir>>

-----------------------------------------------------------------------------
Running(p) == worker[p].pc \notin {"stopped", "dead"}

\* The first SIGINT drains, the second one cancels.
Sigint(p) ==
    /\ "signal" \in Faults[p]
    /\ Running(p)
    /\ worker' = [worker EXCEPT ![p].drain = TRUE, ![p].cancel = @ \/ worker[p].drain]
    /\ UNCHANGED <<vars, workdir, call, late>>

Sigterm(p) ==
    /\ "signal" \in Faults[p]
    /\ Running(p)
    /\ worker' = [worker EXCEPT ![p].cancel = TRUE]
    /\ UNCHANGED <<vars, workdir, call, late>>

\* The process dies; its outstanding call is lost or served all the same.
Kill(p) ==
    /\ "kill" \in Faults[p]
    /\ Running(p)
    /\ worker' = [worker EXCEPT ![p] = [Fresh EXCEPT !.pc = "dead"]]
    /\ call' = [call EXCEPT ![p] = NoCall(p)]
    /\ UNCHANGED <<vars, workdir, late>>

\* A worker that died is started again on the same workroot.
StartAgain(p) ==
    /\ worker[p].pc = "dead"
    /\ worker' = [worker EXCEPT ![p] = Fresh]
    /\ UNCHANGED <<vars, workdir, call, late>>

\* The steps that a worker takes by itself, without any fault.
WorkerStep(p) ==
    \/ StopLooking(p)
    \/ AskLease(p)
    \/ LeaseAnswered(p)
    \/ FinishRun(p)
    \/ CrashRun(p)
    \/ CancelRun(p)
    \/ StartUpload(p)
    \/ CancelUpload(p)
    \/ SubmitAnswered(p)
    \/ ReleaseAnswered(p)

FaultStep(p) ==
    \/ LeaseCallFailed(p)
    \/ SubmitCallFailed(p)
    \/ ReleaseCallFailed(p)
    \/ Sigint(p)
    \/ Sigterm(p)
    \/ Kill(p)
    \/ StartAgain(p)

TimeStep ==
    /\ SweepExpired \/ Tick
    /\ UNCHANGED <<worker, workdir, call, late>>

FleetNext ==
    \/ \E p \in Workers : WorkerStep(p) \/ Serve(p) \/ FaultStep(p)
    \/ ServeLate
    \/ TimeStep

FleetSpec == FleetInit /\ [][FleetNext]_fleetVars

\* A worker does not stop between two steps, msieve ends (the deadline of the
\* job bounds it), the server keeps serving a worker that keeps calling, and
\* the sweep and the clock run.
FairFleetSpec ==
    /\ FleetSpec
    /\ \A p \in Workers : WF_fleetVars(WorkerStep(p)) /\ WF_fleetVars(Serve(p))
    /\ WF_fleetVars(SweepExpired /\ UNCHANGED <<worker, workdir, call, late>>)
    /\ WF_fleetVars(Tick /\ UNCHANGED <<worker, workdir, call, late>>)

-----------------------------------------------------------------------------
FleetTypeOK ==
    /\ TypeOK
    /\ worker \in [Workers ->
            [pc : {"looking", "leasing", "running", "uploading", "submitting",
                   "releasing", "stopped", "dead"},
             workunit : Coeffs \cup {NULL}, fails : 0 .. MaxFailures,
             drain : BOOLEAN, cancel : BOOLEAN]]
    /\ workdir \in [Workers -> [Coeffs -> Digests \cup {NULL}]]
    /\ \A c \in {call[p] : p \in Workers} \cup late :
          /\ c.from \in Workers /\ c.kind \in {"lease", "submit", "release"}
          /\ c.workunit \in Coeffs \cup {NULL} /\ c.sha256 \in Digests \cup {NULL}
          /\ c.answer \in Answers \cup {"sent", "none"}
    /\ Cardinality(late) <= MaxLate

Holds(p, w) == state[w] = "leased" /\ client_id[w] = Id[p]

\* The calls that this step serves or ends.
CallsMoved ==
    {call[p] : p \in {q \in Workers : call'[q] # call[q]}} \cup (late \ late')

\* A lease that has not expired is ended only by a call about it that was made
\* under the id of its holder, whatever calls of other workers are lost, late or
\* repeated (db.py:157, 185, 203-207).
EndedByHolder ==
    [][\A w \in Coeffs :
          state[w] = "leased" /\ lease_left[w] # -1 /\ state'[w] # "leased" =>
              \E c \in CallsMoved :
                  c.kind \in {"submit", "release"} /\ c.workunit = w
                  /\ Id[c.from] = client_id[w]]_fleetVars

\* An attempt (of which the last one poisons) is charged once for each lease that is
\* lost: to the sweep when it has expired, or to a failing upload made under the id of
\* its holder.  A release costs none, whether msieve failed, a signal came or it
\* arrives late; nor does an upload that was swept meanwhile, repeated or in conflict
\* (db.py:180-195, 200-207, 216-233).
ChargedForLostLease ==
    [][\A w \in Coeffs :
          Tries(w)' # Tries(w) =>
              /\ state[w] = "leased"
              /\ Tries(w)' = Tries(w) + 1
              /\ \/ lease_left[w] = -1 /\ UNCHANGED <<call, late>>
                 \/ \E c \in CallsMoved :
                       /\ c.kind = "submit" /\ c.workunit = w
                       /\ c.sha256 \in Failing
                       /\ Id[c.from] = client_id[w]]_fleetVars

\* A worker deletes an output only when the server has recorded it, so that no
\* lost answer, repeat or late call loses a result (client.py:123-139: the copy
\* goes on a 200 only, and a 200 is only given for a recorded result).
DeletedOnlyIfRecorded ==
    [][\A p \in Workers, w \in Coeffs :
          workdir[p][w] # NULL /\ workdir'[p][w] = NULL =>
              Recorded(w, workdir[p][w])]_fleetVars

\* A worker whose calls all get their answer, and none is refused, holds no
\* lease when it looks for work or has exited: after a result, a failed run, a
\* cancel in any place (client.py:173-191).  The ids are distinct.
Careful == {p \in Workers : Faults[p] \cap {"lost", "late", "kill", "refuse"} = {}}
IdleHoldsNothing ==
    \A p \in Careful, w \in Coeffs :
        worker[p].pc \in {"looking", "stopped"} => ~Holds(p, w)

\* Every coefficient of the job is settled, unless the workers that only signals and
\* failing runs can stop have all stopped: beside workers that are killed and started
\* again, cut off or refused, that upload wrong results, and however leases expire.
\* It is claimed only where these others neither fail a run nor get signals: a worker
\* that releases for that and is killed and started again before it stops can take the
\* same coefficient for ever (the loop of client.py:149-186 against db.py:108-127 and
\* 210-235).
Lasting == {p \in Workers : Faults[p] \subseteq {"signal", "crash"}}
OthersKeepTheirLease == \A p \in Workers \ Lasting : Faults[p] \cap {"signal", "crash"} = {}
JobSettles ==
    OthersKeepTheirLease =>
        \A w \in Coeffs :
            state[w] = "available" ~>
                \/ state[w] \in {"submitted", "poisoned"}
                \/ \A p \in Lasting : worker[p].pc = "stopped"

\* A drain or a cancel ends a worker whose calls are answered (client.py:53-64, 149,
\* 184, 194-201); without an answer a drained worker repeats its upload for ever.
SignalStops ==
    \A p \in {q \in Workers : "lost" \notin Faults[q]} :
        worker[p].drain \/ worker[p].cancel ~> worker[p].pc \in {"stopped", "dead"}

\* "4xx: server already resolved the lease" (client.py:134): when a 4xx comes,
\* the worker holds the workunit no more.
RejectedIsResolved ==
    \A p \in Workers :
        worker[p].pc = "submitting" /\ call[p].answer \in {"conflict", "failed", "refused"}
            => ~Holds(p, worker[p].workunit)

\* Failures loop back to 'available' with attempt_count++ and lead to 'poisoned'
\* after --max-attempts (DESIGN.md:77-79): a coefficient on which msieve always
\* fails is given up.
BrokenIsGivenUp == \A w \in Broken : state[w] = "available" ~> state[w] = "poisoned"
=============================================================================
