----------------------------- MODULE FleetProofs -----------------------------
(***************************************************************************)
(* What Fleet guarantees for any number of workers, of calls on their way  *)
(* and of coefficients, whatever faults happen to whom.  First, that every *)
(* worker is where its call says it is (FleetInv).  From this, every step  *)
(* of the fleet is a step of the tables, so that every theorem of          *)
(* WorkUnitsProofs holds of the fleet.  Then who ends a lease, what is     *)
(* deleted, and what a worker holds.                                       *)
(***************************************************************************)
EXTENDS Fleet, WorkUnitsProofs, FiniteSetTheorems

WorkerStates ==
    [pc : {"looking", "leasing", "running", "uploading", "submitting",
           "releasing", "stopped", "dead"},
     workunit : Coeffs \cup {NULL}, fails : 0 .. MaxFailures,
     drain : BOOLEAN, cancel : BOOLEAN]

Calls ==
    [from : Workers, kind : {"lease", "submit", "release"},
     workunit : Coeffs \cup {NULL}, sha256 : Digests \cup {NULL},
     answer : Answers \cup {"sent", "none"}]

WorkdirTypes == [Coeffs -> Digests \cup {NULL}]

\* A call about a workunit names it, and a submit has a digest.
Named(c) ==
    /\ c.kind \in {"submit", "release"} => c.workunit \in Coeffs
    /\ c.kind = "submit" => c.sha256 \in Digests

\* The call c that a worker in state k with the outputs d has outstanding is the
\* one it waits for, and is about the unit it has in hand.
CallFits(k, c, d) ==
    /\ k.pc = "leasing" => c.kind = "lease" /\ (c.answer = "granted" => c.workunit \in Coeffs)
    /\ k.pc = "submitting" =>
          c.kind = "submit" /\ c.workunit = k.workunit /\ c.sha256 = d[k.workunit]
    /\ k.pc = "releasing" => c.kind = "release" /\ c.workunit = k.workunit
    /\ k.pc \notin {"leasing", "submitting", "releasing"} => c.answer = "none"

\* The worker has a unit in hand from the grant to the last answer about it, with
\* its output from the end of the run, and is still below its last failure
\* unless it is about to stop.
PlaceFits(k, d) ==
    /\ k.pc \in {"running", "uploading", "submitting", "releasing"} => k.workunit \in Coeffs
    /\ k.pc \in {"uploading", "submitting"} => d[k.workunit] \in Digests
    /\ k.pc \notin {"releasing", "stopped"} => k.fails < MaxFailures

WorkerFits(p) ==
    /\ call[p].from = p
    /\ Named(call[p])
    /\ CallFits(worker[p], call[p], workdir[p])
    /\ PlaceFits(worker[p], workdir[p])

FleetTypes ==
    /\ worker \in [Workers -> WorkerStates]
    /\ workdir \in [Workers -> WorkdirTypes]
    /\ call \in [Workers -> Calls]

\* The calls on their way were not served yet, and come from workers whose calls
\* may be late.
LateFits ==
    /\ late \subseteq Calls
    /\ \A c \in late : Named(c) /\ "late" \in Faults[c.from]
    /\ IsFiniteSet(late)
    /\ Cardinality(late) <= MaxLate

FleetInv ==
    /\ FleetTypes
    /\ \A p \in Workers : WorkerFits(p)
    /\ LateFits

USE CoeffsAssumption, AttemptsAssumption, LeaseAssumption, NullAssumption, FleetAssumption

-----------------------------------------------------------------------------
(***************************************************************************)
(* One worker moves.                                                       *)
(***************************************************************************)

\* A worker that just started has no call and nothing in hand.
LEMMA FreshFits ==
    ASSUME NEW p \in Workers, NEW d \in WorkdirTypes
    PROVE  /\ Fresh \in WorkerStates
           /\ [Fresh EXCEPT !.pc = "dead"] \in WorkerStates
           /\ NoCall(p) \in Calls
           /\ NoCall(p).from = p
           /\ NoCall(p).kind = "lease"
           /\ NoCall(p).answer = "none"
           /\ Named(NoCall(p))
<1>1. 0 \in 0 .. MaxFailures
  OBVIOUS
<1>2. Fresh \in WorkerStates /\ [Fresh EXCEPT !.pc = "dead"] \in WorkerStates
  BY <1>1 DEF Fresh, WorkerStates
<1> QED BY <1>2 DEF NoCall, Call, Calls, Named

\* A call that a worker sends about its unit is a call.
LEMMA SentIsCall ==
    ASSUME NEW p \in Workers, NEW kind \in {"lease", "submit", "release"},
           NEW w \in Coeffs \cup {NULL}, NEW d \in Digests \cup {NULL}
    PROVE  /\ Sent(p, kind, w, d) \in Calls
           /\ Sent(p, kind, w, d) =
                 [from |-> p, kind |-> kind, workunit |-> w, sha256 |-> d, answer |-> "sent"]
BY DEF Sent, Call, Calls

LEMMA FleetInitInv == FleetInit => FleetInv
<1> SUFFICES ASSUME FleetInit PROVE FleetInv
  OBVIOUS
<1> USE DEF FleetInit
<1>1. FleetTypes
  BY FreshFits DEF FleetTypes, WorkdirTypes
<1>2. ASSUME NEW p \in Workers PROVE WorkerFits(p)
  BY FreshFits DEF WorkerFits, CallFits, PlaceFits, Fresh, WorkdirTypes
<1>3. LateFits
  BY FS_EmptySet DEF LateFits
<1> QED BY <1>1, <1>2, <1>3 DEF FleetInv

\* A step of one worker keeps the invariant when it leaves that worker in order.
LEMMA OneMoves ==
    ASSUME FleetInv, NEW p \in Workers,
           NEW k \in WorkerStates, NEW c \in Calls, NEW d \in WorkdirTypes,
           worker' = [worker EXCEPT ![p] = k],
           call' = [call EXCEPT ![p] = c],
           workdir' = [workdir EXCEPT ![p] = d],
           c.from = p, Named(c), CallFits(k, c, d), PlaceFits(k, d)
    PROVE  FleetTypes' /\ \A q \in Workers : WorkerFits(q)'
<1>1. FleetTypes'
  BY DEF FleetInv, FleetTypes
<1>2. ASSUME NEW q \in Workers PROVE WorkerFits(q)'
  <2>1. CASE q = p
    <3>1. worker'[q] = k /\ call'[q] = c /\ workdir'[q] = d
      BY <2>1 DEF FleetInv, FleetTypes
    <3> QED BY <2>1, <3>1 DEF WorkerFits
  <2>2. CASE q # p
    <3>1. worker'[q] = worker[q] /\ call'[q] = call[q] /\ workdir'[q] = workdir[q]
      BY <2>2 DEF FleetInv, FleetTypes
    <3> QED BY <3>1 DEF FleetInv, WorkerFits
  <2> QED BY <2>1, <2>2
<1> QED BY <1>1, <1>2

\* The fields of a worker and of its call, for the steps below.
LEMMA WorkerFields ==
    ASSUME FleetInv, NEW p \in Workers
    PROVE  /\ worker[p] \in WorkerStates
           /\ call[p] \in Calls
           /\ workdir[p] \in WorkdirTypes
           /\ worker = [worker EXCEPT ![p] = worker[p]]
           /\ call = [call EXCEPT ![p] = call[p]]
           /\ workdir = [workdir EXCEPT ![p] = workdir[p]]
           /\ WorkerFits(p)
BY DEF FleetInv, FleetTypes

\* The worker with another place and unit, and with another count of failures,
\* is a worker.
LEMMA MovedTo ==
    ASSUME NEW s \in WorkerStates,
           NEW pc \in {"looking", "leasing", "running", "uploading", "submitting",
                       "releasing", "stopped", "dead"},
           NEW w \in Coeffs \cup {NULL}
    PROVE  [s EXCEPT !.pc = pc, !.workunit = w] \in WorkerStates
<1>1. [s EXCEPT !.pc = pc] \in WorkerStates
  BY DEF WorkerStates
<1>2. ASSUME NEW t \in WorkerStates PROVE [t EXCEPT !.workunit = w] \in WorkerStates
  BY DEF WorkerStates
<1> QED BY <1>1, <1>2

LEMMA CountedTo ==
    ASSUME NEW s \in WorkerStates, NEW n \in 0 .. MaxFailures
    PROVE  [s EXCEPT !.fails = n] \in WorkerStates
BY DEF WorkerStates

\* The head of the loop.
LEMMA StopLookingInv ==
    ASSUME FleetInv, NEW p \in Workers, StopLooking(p)
    PROVE  FleetInv'
<1> DEFINE k == [worker[p] EXCEPT !.pc = "stopped"]
<1>1. worker' = [worker EXCEPT ![p] = k] /\ UNCHANGED <<call, workdir, late>>
  BY DEF StopLooking
<1>2. k \in WorkerStates
  BY WorkerFields DEF WorkerStates
<1>3. k.pc = "stopped" /\ worker[p].pc = "looking"
  BY WorkerFields DEF WorkerStates, StopLooking
<1>4. CallFits(k, call[p], workdir[p]) /\ PlaceFits(k, workdir[p])
  BY <1>3, WorkerFields DEF CallFits, PlaceFits, WorkerFits
<1>5. call[p].from = p /\ Named(call[p])
  BY WorkerFields DEF WorkerFits
<1> HIDE DEF k
<1>6. FleetTypes' /\ \A q \in Workers : WorkerFits(q)'
  BY <1>1, <1>2, <1>4, <1>5, OneMoves, WorkerFields
<1> QED BY <1>1, <1>6 DEF FleetInv, LateFits

LEMMA AskLeaseInv ==
    ASSUME FleetInv, NEW p \in Workers, AskLease(p)
    PROVE  FleetInv'
<1> DEFINE k == [worker[p] EXCEPT !.pc = "leasing"]
           c == Sent(p, "lease", NULL, NULL)
<1>1. /\ worker' = [worker EXCEPT ![p] = k]
      /\ call' = [call EXCEPT ![p] = c]
      /\ UNCHANGED <<workdir, late>>
  BY DEF AskLease
<1>2. k \in WorkerStates /\ k.pc = "leasing" /\ k.fails = worker[p].fails
  BY WorkerFields DEF WorkerStates
<1>3. c \in Calls /\ c.from = p /\ c.kind = "lease" /\ c.answer = "sent"
  BY SentIsCall
<1>4. worker[p].pc = "looking"
  BY DEF AskLease
<1> HIDE DEF k, c
<1>5. CallFits(k, c, workdir[p]) /\ PlaceFits(k, workdir[p]) /\ Named(c)
  BY <1>2, <1>3, <1>4, WorkerFields DEF CallFits, PlaceFits, WorkerFits, Named
<1>6. FleetTypes' /\ \A q \in Workers : WorkerFits(q)'
  BY <1>1, <1>2, <1>3, <1>5, OneMoves, WorkerFields
<1> QED BY <1>1, <1>6 DEF FleetInv, LateFits

LEMMA LeaseAnsweredInv ==
    ASSUME FleetInv, NEW p \in Workers, LeaseAnswered(p)
    PROVE  FleetInv'
<1> DEFINE c == NoCall(p)
<1>1. call' = [call EXCEPT ![p] = c] /\ UNCHANGED <<workdir, late>>
  BY DEF LeaseAnswered
<1>2. c \in Calls /\ c.from = p /\ Named(c) /\ c.answer = "none"
  BY FreshFits, WorkerFields
<1>3. worker[p].pc = "leasing"
  BY DEF LeaseAnswered
<1> HIDE DEF c
<1>4. ASSUME NEW k \in WorkerStates, worker' = [worker EXCEPT ![p] = k],
             k.pc \in {"looking", "running"}, k.fails = worker[p].fails,
             k.pc = "running" => k.workunit \in Coeffs
      PROVE  FleetTypes' /\ \A q \in Workers : WorkerFits(q)'
  <2>1. CallFits(k, c, workdir[p]) /\ PlaceFits(k, workdir[p])
    BY <1>2, <1>3, <1>4, WorkerFields DEF CallFits, PlaceFits, WorkerFits
  <2> QED BY <1>1, <1>2, <1>4, <2>1, OneMoves, WorkerFields
<1>5. CASE /\ call[p].answer = "granted"
           /\ worker' = [worker EXCEPT ![p].pc = "running", ![p].workunit = call[p].workunit]
  <2> DEFINE k == [worker[p] EXCEPT !.pc = "running", !.workunit = call[p].workunit]
  <2>1. call[p].workunit \in Coeffs
    BY <1>3, <1>5, WorkerFields DEF WorkerFits, CallFits
  <2>2. /\ k \in WorkerStates /\ k.pc = "running"
        /\ k.fails = worker[p].fails /\ k.workunit = call[p].workunit
    <3>1. worker[p] \in WorkerStates /\ call[p].workunit \in Coeffs \cup {NULL}
      BY <2>1, WorkerFields
    <3>2. k \in WorkerStates
      BY <3>1, MovedTo
    <3> QED BY <3>1, <3>2 DEF WorkerStates
  <2>3. worker' = [worker EXCEPT ![p] = k]
    BY <1>5, WorkerFields
  <2> HIDE DEF k
  <2>4. FleetTypes' /\ \A q \in Workers : WorkerFits(q)'
    BY <1>4, <2>1, <2>2, <2>3
  <2> QED BY <1>1, <2>4 DEF FleetInv, LateFits
<1>6. CASE worker' = [worker EXCEPT ![p].pc = "looking"]
  <2> DEFINE k == [worker[p] EXCEPT !.pc = "looking"]
  <2>1. k \in WorkerStates /\ k.pc = "looking" /\ k.fails = worker[p].fails
    BY WorkerFields DEF WorkerStates
  <2>2. worker' = [worker EXCEPT ![p] = k]
    BY <1>6
  <2> HIDE DEF k
  <2>3. FleetTypes' /\ \A q \in Workers : WorkerFits(q)'
    BY <1>4, <2>1, <2>2
  <2> QED BY <1>1, <2>3 DEF FleetInv, LateFits
<1> QED BY <1>5, <1>6 DEF LeaseAnswered

\* The run of msieve and what follows it.
LEMMA FinishRunInv ==
    ASSUME FleetInv, NEW p \in Workers, FinishRun(p)
    PROVE  FleetInv'
<1> DEFINE w == worker[p].workunit
           k == [worker[p] EXCEPT !.pc = "uploading"]
<1>1. /\ worker' = [worker EXCEPT ![p] = k]
      /\ UNCHANGED <<call, late>>
      /\ worker[p].pc = "running"
  BY DEF FinishRun
<1>2. w \in Coeffs
  BY <1>1, WorkerFields DEF WorkerFits, PlaceFits
<1>3. PICK e \in Digests : workdir' = [workdir EXCEPT ![p][w] = e]
  BY DEF FinishRun, Appended, Outputs
<1> DEFINE d == [workdir[p] EXCEPT ![w] = e]
<1>4. workdir' = [workdir EXCEPT ![p] = d] /\ d \in WorkdirTypes /\ d[w] = e
  BY <1>2, <1>3, WorkerFields DEF WorkdirTypes
<1>5. k \in WorkerStates /\ k.pc = "uploading" /\ k.fails = worker[p].fails
         /\ k.workunit = w
  BY WorkerFields DEF WorkerStates
<1> HIDE DEF k, d, w
<1>6. call[p].answer = "none" /\ call[p].from = p /\ Named(call[p]) /\ worker[p].fails < MaxFailures
  BY <1>1, WorkerFields DEF WorkerFits, CallFits, PlaceFits
<1>7. CallFits(k, call[p], d) /\ PlaceFits(k, d)
  BY <1>2, <1>4, <1>5, <1>6 DEF CallFits, PlaceFits
<1>8. FleetTypes' /\ \A q \in Workers : WorkerFits(q)'
  BY <1>1, <1>4, <1>5, <1>6, <1>7, OneMoves, WorkerFields
<1> QED BY <1>1, <1>8 DEF FleetInv, LateFits

\* A run that ends without a result, by a failure or a cancel: perhaps with a part
\* of its output, and with a release on its way.
LEMMA LostRunInv ==
    ASSUME FleetInv, NEW p \in Workers, worker[p].pc = "running",
           NEW k \in WorkerStates, worker' = [worker EXCEPT ![p] = k],
           k.pc = "releasing", k.workunit = worker[p].workunit,
           SendRelease(p), UNCHANGED late,
           \/ UNCHANGED workdir
           \/ \E e \in Digests : workdir' = [workdir EXCEPT ![p][worker[p].workunit] = e]
    PROVE  FleetInv'
<1> DEFINE w == worker[p].workunit
           c == Sent(p, "release", w, NULL)
<1>1. w \in Coeffs
  BY WorkerFields DEF WorkerFits, PlaceFits
<1>2. PICK d \in WorkdirTypes : workdir' = [workdir EXCEPT ![p] = d]
  <2>1. ASSUME NEW e \in Digests, workdir' = [workdir EXCEPT ![p][w] = e]
        PROVE  \E d \in WorkdirTypes : workdir' = [workdir EXCEPT ![p] = d]
    <3>1. [workdir[p] EXCEPT ![w] = e] \in WorkdirTypes
      BY <1>1, WorkerFields DEF WorkdirTypes
    <3>2. workdir' = [workdir EXCEPT ![p] = [workdir[p] EXCEPT ![w] = e]]
      BY <2>1
    <3> QED BY <3>1, <3>2
  <2> QED BY <2>1, WorkerFields
<1>3. call' = [call EXCEPT ![p] = c] /\ c \in Calls /\ c.from = p /\ c.kind = "release"
         /\ c.workunit = w
  BY <1>1, SentIsCall DEF SendRelease
<1> HIDE DEF c
<1>4. CallFits(k, c, d) /\ PlaceFits(k, d) /\ Named(c)
  BY <1>1, <1>3 DEF CallFits, PlaceFits, Named
<1>5. FleetTypes' /\ \A q \in Workers : WorkerFits(q)'
  BY <1>2, <1>3, <1>4, OneMoves
<1> QED BY <1>5 DEF FleetInv, LateFits

LEMMA CrashRunInv ==
    ASSUME FleetInv, NEW p \in Workers, CrashRun(p)
    PROVE  FleetInv'
<1> DEFINE k == [worker[p] EXCEPT !.pc = "releasing", !.fails = worker[p].fails + 1]
<1>1. /\ worker[p].pc = "running" /\ SendRelease(p) /\ UNCHANGED late
      /\ worker' = [worker EXCEPT ![p] = k]
  <2>1. worker[p].pc = "running" /\ SendRelease(p) /\ UNCHANGED late
    BY DEF CrashRun
  <2> DEFINE s == [worker EXCEPT ![p].pc = "releasing"]
  <2>2. worker' = [s EXCEPT ![p].fails = @ + 1]
    BY DEF CrashRun
  <2>3. s[p] = [worker[p] EXCEPT !.pc = "releasing"] /\ s[p].fails = worker[p].fails
    BY DEF FleetInv, FleetTypes, WorkerStates
  <2>4. worker' = [s EXCEPT ![p] = [s[p] EXCEPT !.fails = worker[p].fails + 1]]
    BY <2>2, <2>3
  <2>5. k = [s[p] EXCEPT !.fails = worker[p].fails + 1]
    BY <2>3
  <2>6. worker' = [s EXCEPT ![p] = k]
    BY <2>4, <2>5
  <2> HIDE DEF k
  <2>7. worker' = [worker EXCEPT ![p] = k]
    BY <2>6
  <2> QED BY <2>1, <2>7
<1>2. \/ UNCHANGED workdir
      \/ \E e \in Digests : workdir' = [workdir EXCEPT ![p][worker[p].workunit] = e]
  BY DEF CrashRun, Appended, Outputs
<1>3. worker[p].fails + 1 \in 0 .. MaxFailures
  BY <1>1, WorkerFields DEF WorkerFits, PlaceFits, WorkerStates
<1>4. k \in WorkerStates
  <2>1. [worker[p] EXCEPT !.pc = "releasing"] \in WorkerStates
    BY WorkerFields DEF WorkerStates
  <2>2. k = [[worker[p] EXCEPT !.pc = "releasing"] EXCEPT !.fails = worker[p].fails + 1]
    BY WorkerFields DEF WorkerStates
  <2> QED BY <1>3, <2>1, <2>2, CountedTo
<1>5. k.pc = "releasing" /\ k.workunit = worker[p].workunit
  BY WorkerFields DEF WorkerStates
<1> HIDE DEF k
<1> QED BY <1>1, <1>2, <1>4, <1>5, LostRunInv

LEMMA CancelRunInv ==
    ASSUME FleetInv, NEW p \in Workers, CancelRun(p)
    PROVE  FleetInv'
<1> DEFINE k == [worker[p] EXCEPT !.pc = "releasing"]
<1>1. /\ worker[p].pc = "running" /\ SendRelease(p) /\ UNCHANGED late
      /\ worker' = [worker EXCEPT ![p] = k]
  BY DEF CancelRun
<1>2. \/ UNCHANGED workdir
      \/ \E e \in Digests : workdir' = [workdir EXCEPT ![p][worker[p].workunit] = e]
  BY DEF CancelRun, Appended, Outputs
<1>3. k \in WorkerStates /\ k.pc = "releasing" /\ k.workunit = worker[p].workunit
  BY WorkerFields DEF WorkerStates
<1> HIDE DEF k
<1> QED BY <1>1, <1>2, <1>3, LostRunInv

\* The upload loop.
LEMMA StartUploadInv ==
    ASSUME FleetInv, NEW p \in Workers, StartUpload(p)
    PROVE  FleetInv'
<1> DEFINE w == worker[p].workunit
           d == workdir[p]
           k == [worker[p] EXCEPT !.pc = "submitting"]
           c == Sent(p, "submit", w, d[w])
<1>1. /\ worker' = [worker EXCEPT ![p] = k]
      /\ call' = [call EXCEPT ![p] = c]
      /\ UNCHANGED <<workdir, late>>
      /\ worker[p].pc = "uploading"
  BY DEF StartUpload
<1>2. w \in Coeffs /\ d[w] \in Digests /\ worker[p].fails < MaxFailures
  BY <1>1, WorkerFields DEF WorkerFits, PlaceFits
<1>3. /\ k \in WorkerStates /\ k.pc = "submitting"
      /\ k.fails = worker[p].fails /\ k.workunit = w
  BY WorkerFields DEF WorkerStates
<1>4. c \in Calls /\ c.from = p /\ c.kind = "submit" /\ c.workunit = w /\ c.sha256 = d[w]
  BY <1>2, SentIsCall
<1>5. workdir' = [workdir EXCEPT ![p] = d] /\ d \in WorkdirTypes
  BY <1>1, WorkerFields
<1> HIDE DEF k, c, d, w
<1>6. CallFits(k, c, d) /\ PlaceFits(k, d) /\ Named(c)
  BY <1>2, <1>3, <1>4 DEF CallFits, PlaceFits, Named
<1>7. FleetTypes' /\ \A q \in Workers : WorkerFits(q)'
  BY <1>1, <1>3, <1>4, <1>5, <1>6, OneMoves
<1> QED BY <1>1, <1>7 DEF FleetInv, LateFits

LEMMA CancelUploadInv ==
    ASSUME FleetInv, NEW p \in Workers, CancelUpload(p)
    PROVE  FleetInv'
<1> DEFINE w == worker[p].workunit
           k == [worker[p] EXCEPT !.pc = "releasing"]
           c == Sent(p, "release", w, NULL)
<1>1. /\ worker' = [worker EXCEPT ![p] = k]
      /\ call' = [call EXCEPT ![p] = c]
      /\ UNCHANGED <<workdir, late>>
      /\ worker[p].pc = "uploading"
  BY DEF CancelUpload, SendRelease
<1>2. w \in Coeffs
  BY <1>1, WorkerFields DEF WorkerFits, PlaceFits
<1>3. k \in WorkerStates /\ k.pc = "releasing" /\ k.workunit = w
  BY WorkerFields DEF WorkerStates
<1>4. c \in Calls /\ c.from = p /\ c.kind = "release" /\ c.workunit = w
  BY <1>2, SentIsCall
<1> HIDE DEF k, c, w
<1>5. CallFits(k, c, workdir[p]) /\ PlaceFits(k, workdir[p]) /\ Named(c)
  BY <1>2, <1>3, <1>4 DEF CallFits, PlaceFits, Named
<1>6. FleetTypes' /\ \A q \in Workers : WorkerFits(q)'
  BY <1>1, <1>3, <1>4, <1>5, OneMoves, WorkerFields
<1> QED BY <1>1, <1>6 DEF FleetInv, LateFits

-----------------------------------------------------------------------------
(***************************************************************************)
(* Calls that end.                                                         *)
(***************************************************************************)

\* A worker is left without a call.
LEMMA CallEnds ==
    ASSUME FleetInv, NEW p \in Workers, NEW k \in WorkerStates, NEW d \in WorkdirTypes,
           worker' = [worker EXCEPT ![p] = k],
           call' = [call EXCEPT ![p] = NoCall(p)],
           workdir' = [workdir EXCEPT ![p] = d],
           k.pc \notin {"leasing", "submitting", "releasing"},
           PlaceFits(k, d), LateFits'
    PROVE  FleetInv'
<1> DEFINE c == NoCall(p)
<1>1. c \in Calls /\ c.from = p /\ Named(c) /\ c.answer = "none"
  BY FreshFits
<1>2. call' = [call EXCEPT ![p] = c]
  OBVIOUS
<1> HIDE DEF c
<1>3. CallFits(k, c, d)
  BY <1>1 DEF CallFits
<1>4. FleetTypes' /\ \A q \in Workers : WorkerFits(q)'
  BY <1>1, <1>2, <1>3, OneMoves
<1> QED BY <1>4 DEF FleetInv

\* A call that is given up leaves the calls on their way in order.
LEMMA GivenUpFits ==
    ASSUME FleetInv, NEW p \in Workers, GivenUp(p)
    PROVE  call' = [call EXCEPT ![p] = NoCall(p)] /\ LateFits'
<1>1. CASE UNCHANGED late
  BY <1>1 DEF GivenUp, FleetInv, LateFits
<1>2. CASE /\ "late" \in Faults[p]
           /\ Cardinality(late) < MaxLate
           /\ late' = late \cup {call[p]}
  <2>1. call[p] \in Calls /\ Named(call[p]) /\ call[p].from = p
    BY WorkerFields DEF WorkerFits
  <2>2. IsFiniteSet(late) /\ Cardinality(late) \in Nat
    BY FS_CardinalityType DEF FleetInv, LateFits
  <2>3. IsFiniteSet(late') /\ Cardinality(late') <= Cardinality(late) + 1
    <3>1. /\ IsFiniteSet(late \cup {call[p]})
          /\ Cardinality(late \cup {call[p]}) =
                IF call[p] \in late THEN Cardinality(late) ELSE Cardinality(late) + 1
      BY <2>2, FS_AddElement
    <3> QED BY <1>2, <2>2, <3>1
  <2>4. Cardinality(late') \in Nat
    BY <2>3, FS_CardinalityType
  <2>5. Cardinality(late') <= MaxLate
    BY <1>2, <2>2, <2>3, <2>4
  <2>6. late' \subseteq Calls /\ \A c \in late' : Named(c) /\ "late" \in Faults[c.from]
    BY <1>2, <2>1 DEF FleetInv, LateFits
  <2> QED BY <2>3, <2>5, <2>6 DEF GivenUp, LateFits
<1> QED BY <1>1, <1>2 DEF GivenUp

LEMMA LateKept == ASSUME FleetInv, UNCHANGED late PROVE LateFits'
BY DEF FleetInv, LateFits

\* An upload is answered: the unit is done with, the output perhaps deleted.
LEMMA SubmitAnsweredInv ==
    ASSUME FleetInv, NEW p \in Workers, SubmitAnswered(p)
    PROVE  FleetInv'
<1> DEFINE w == worker[p].workunit
           k == [worker[p] EXCEPT !.pc = "looking", !.workunit = NULL, !.fails = 0]
           d == IF DeletesUpon(call[p].answer)
                THEN [workdir[p] EXCEPT ![w] = NULL] ELSE workdir[p]
<1>1. /\ worker' = [worker EXCEPT ![p] = k]
      /\ call' = [call EXCEPT ![p] = NoCall(p)]
      /\ UNCHANGED late
      /\ worker[p].pc = "submitting"
  BY WorkerFields DEF SubmitAnswered
<1>2. workdir' = [workdir EXCEPT ![p] = d]
  BY WorkerFields DEF SubmitAnswered
<1>3. d \in WorkdirTypes
  BY WorkerFields DEF WorkdirTypes
<1>4. k \in WorkerStates
  <2>1. worker[p] \in WorkerStates /\ 0 \in 0 .. MaxFailures
    BY WorkerFields
  <2>2. [worker[p] EXCEPT !.pc = "looking", !.workunit = NULL] \in WorkerStates
    BY <2>1, MovedTo
  <2> QED BY <2>1, <2>2, CountedTo
<1>5. k.pc = "looking" /\ k.fails = 0
  BY WorkerFields DEF WorkerStates
<1> HIDE DEF k, d, w
<1>6. PlaceFits(k, d)
  BY <1>5 DEF PlaceFits
<1> QED BY <1>1, <1>2, <1>3, <1>4, <1>5, <1>6, CallEnds, LateKept

\* The upload was not answered: the same worker is at the head of the loop again.
LEMMA SubmitCallFailedInv ==
    ASSUME FleetInv, NEW p \in Workers, SubmitCallFailed(p)
    PROVE  FleetInv'
<1> DEFINE k == [worker[p] EXCEPT !.pc = "uploading"]
<1>1. /\ worker' = [worker EXCEPT ![p] = k]
      /\ UNCHANGED workdir
      /\ worker[p].pc = "submitting"
  BY DEF SubmitCallFailed
<1>2. /\ k \in WorkerStates /\ k.pc = "uploading"
      /\ k.workunit = worker[p].workunit /\ k.fails = worker[p].fails
  BY WorkerFields DEF WorkerStates
<1>3. call' = [call EXCEPT ![p] = NoCall(p)] /\ LateFits'
  BY GivenUpFits DEF SubmitCallFailed
<1> HIDE DEF k
<1>4. PlaceFits(k, workdir[p])
  BY <1>1, <1>2, WorkerFields DEF WorkerFits, PlaceFits
<1> QED BY <1>1, <1>2, <1>3, <1>4, CallEnds, WorkerFields

LEMMA LeaseCallFailedInv ==
    ASSUME FleetInv, NEW p \in Workers, LeaseCallFailed(p)
    PROVE  FleetInv'
<1> DEFINE k == [worker[p] EXCEPT !.pc = "looking"]
<1>1. /\ worker' = [worker EXCEPT ![p] = k]
      /\ UNCHANGED workdir
      /\ worker[p].pc = "leasing"
  BY DEF LeaseCallFailed
<1>2. k \in WorkerStates /\ k.pc = "looking" /\ k.fails = worker[p].fails
  BY WorkerFields DEF WorkerStates
<1>3. call' = [call EXCEPT ![p] = NoCall(p)] /\ LateFits'
  BY GivenUpFits DEF LeaseCallFailed
<1> HIDE DEF k
<1>4. PlaceFits(k, workdir[p])
  BY <1>1, <1>2, WorkerFields DEF WorkerFits, PlaceFits
<1> QED BY <1>1, <1>2, <1>3, <1>4, CallEnds, WorkerFields

\* The release is over, answered or not: the worker goes on only below its limit of
\* failures.
LEMMA ReleasedInv ==
    ASSUME FleetInv, NEW p \in Workers, worker[p].pc = "releasing",
           worker' = [worker EXCEPT ![p].pc = AfterRelease(p), ![p].workunit = NULL],
           call' = [call EXCEPT ![p] = NoCall(p)], UNCHANGED workdir, LateFits'
    PROVE  FleetInv'
<1> DEFINE pc == AfterRelease(p)
           k == [worker[p] EXCEPT !.pc = pc, !.workunit = NULL]
<1>1. worker' = [worker EXCEPT ![p] = k]
  BY WorkerFields
<1>2. pc \in {"looking", "stopped"} /\ (pc = "looking" => ~(worker[p].fails >= MaxFailures))
  BY DEF AfterRelease
<1>3. worker[p] \in WorkerStates /\ worker[p].fails \in 0 .. MaxFailures
  BY WorkerFields DEF WorkerStates
<1> HIDE DEF pc
<1>4. k \in WorkerStates
  BY <1>2, <1>3, MovedTo
<1>5. k.pc = pc /\ k.fails = worker[p].fails
  BY <1>3 DEF WorkerStates
<1> HIDE DEF k
<1>6. PlaceFits(k, workdir[p])
  BY <1>2, <1>3, <1>5 DEF PlaceFits
<1> QED BY <1>1, <1>2, <1>4, <1>5, <1>6, CallEnds, WorkerFields

LEMMA ReleaseAnsweredInv ==
    ASSUME FleetInv, NEW p \in Workers, ReleaseAnswered(p) \/ ReleaseCallFailed(p)
    PROVE  FleetInv'
<1>1. CASE ReleaseAnswered(p)
  BY <1>1, ReleasedInv, LateKept DEF ReleaseAnswered
<1>2. CASE ReleaseCallFailed(p)
  BY <1>2, ReleasedInv, GivenUpFits DEF ReleaseCallFailed
<1> QED BY <1>1, <1>2

-----------------------------------------------------------------------------
(***************************************************************************)
(* Signals, deaths and restarts.                                           *)
(***************************************************************************)
LEMMA FlaggedWorker ==
    ASSUME NEW s \in WorkerStates, NEW b \in BOOLEAN
    PROVE  /\ [s EXCEPT !.drain = b] \in WorkerStates
           /\ [s EXCEPT !.cancel = b] \in WorkerStates
<1>1. [s EXCEPT !.drain = b] =
      [pc |-> s.pc, workunit |-> s.workunit, fails |-> s.fails, drain |-> b, cancel |-> s.cancel]
  BY DEF WorkerStates
<1>2. [s EXCEPT !.cancel = b] =
      [pc |-> s.pc, workunit |-> s.workunit, fails |-> s.fails, drain |-> s.drain, cancel |-> b]
  BY DEF WorkerStates
<1> QED BY <1>1, <1>2, Zenon DEF WorkerStates

LEMMA SignalInv ==
    ASSUME FleetInv, NEW p \in Workers, Sigint(p) \/ Sigterm(p)
    PROVE  FleetInv'
<1>1. PICK k \in WorkerStates :
         /\ worker' = [worker EXCEPT ![p] = k]
         /\ k.pc = worker[p].pc /\ k.fails = worker[p].fails
         /\ k.workunit = worker[p].workunit
  <2>1. CASE Sigterm(p)
    <3> DEFINE k == [worker[p] EXCEPT !.cancel = TRUE]
    <3>1. k \in WorkerStates
      BY WorkerFields, FlaggedWorker
    <3>2. k.pc = worker[p].pc /\ k.fails = worker[p].fails /\ k.workunit = worker[p].workunit
      BY WorkerFields DEF WorkerStates
    <3>3. worker' = [worker EXCEPT ![p] = k]
      BY <2>1 DEF Sigterm
    <3> HIDE DEF k
    <3> QED BY <3>1, <3>2, <3>3
  <2>2. CASE Sigint(p)
    <3> DEFINE b == worker[p].cancel \/ worker[p].drain
               s == [worker[p] EXCEPT !.drain = TRUE]
               k == [s EXCEPT !.cancel = b]
    <3>1. b \in BOOLEAN
      OBVIOUS
    <3>2. /\ s \in WorkerStates
          /\ s.cancel = worker[p].cancel /\ s.pc = worker[p].pc
          /\ s.fails = worker[p].fails /\ s.workunit = worker[p].workunit
      <4>1. s \in WorkerStates
        BY WorkerFields, FlaggedWorker
      <4>2. s.cancel = worker[p].cancel
        BY WorkerFields DEF WorkerStates
      <4>3. s.pc = worker[p].pc /\ s.fails = worker[p].fails /\ s.workunit = worker[p].workunit
        BY WorkerFields DEF WorkerStates
      <4> QED BY <4>1, <4>2, <4>3
    <3>3. worker' = [worker EXCEPT ![p] = k]
      <4> DEFINE t == [worker EXCEPT ![p].drain = TRUE]
      <4>1. worker' = [t EXCEPT ![p].cancel = @ \/ worker[p].drain]
        BY <2>2 DEF Sigint
      <4>2. t[p] = s /\ t[p].cancel = worker[p].cancel
        BY <3>2 DEF FleetInv, FleetTypes
      <4>3. worker' = [t EXCEPT ![p] = [s EXCEPT !.cancel = b]]
        BY <4>1, <4>2
      <4> HIDE DEF s, b
      <4> QED BY <4>3
    <3> HIDE DEF b, s
    <3>4. k \in WorkerStates /\ k.pc = s.pc /\ k.fails = s.fails /\ k.workunit = s.workunit
      BY <3>1, <3>2 DEF WorkerStates
    <3> QED BY <3>2, <3>3, <3>4
  <2> QED BY <2>1, <2>2
<1>2. UNCHANGED <<workdir, call, late>>
  BY DEF Sigint, Sigterm
<1>3. /\ CallFits(k, call[p], workdir[p]) /\ PlaceFits(k, workdir[p])
      /\ call[p].from = p /\ Named(call[p])
  BY <1>1, WorkerFields DEF WorkerFits, CallFits, PlaceFits
<1>4. FleetTypes' /\ \A q \in Workers : WorkerFits(q)'
  BY <1>1, <1>2, <1>3, OneMoves, WorkerFields
<1> QED BY <1>2, <1>4, LateKept DEF FleetInv

LEMMA KillInv ==
    ASSUME FleetInv, NEW p \in Workers, Kill(p)
    PROVE  FleetInv'
<1> DEFINE k == [Fresh EXCEPT !.pc = "dead"]
<1>1. /\ worker' = [worker EXCEPT ![p] = k]
      /\ call' = [call EXCEPT ![p] = NoCall(p)]
      /\ UNCHANGED <<workdir, late>>
  BY DEF Kill
<1>2. k \in WorkerStates /\ k.pc = "dead" /\ k.fails = 0
  BY FreshFits, WorkerFields DEF Fresh
<1> HIDE DEF k
<1>3. PlaceFits(k, workdir[p])
  BY <1>2 DEF PlaceFits
<1> QED BY <1>1, <1>2, <1>3, CallEnds, WorkerFields, LateKept

LEMMA StartAgainInv ==
    ASSUME FleetInv, NEW p \in Workers, StartAgain(p)
    PROVE  FleetInv'
<1> DEFINE k == Fresh
<1>1. /\ worker' = [worker EXCEPT ![p] = k]
      /\ UNCHANGED <<workdir, call, late>>
      /\ worker[p].pc = "dead"
  BY DEF StartAgain
<1>2. k \in WorkerStates /\ k.pc = "looking" /\ k.fails = 0
  BY FreshFits, WorkerFields DEF Fresh
<1> HIDE DEF k
<1>3. /\ CallFits(k, call[p], workdir[p]) /\ PlaceFits(k, workdir[p])
      /\ call[p].from = p /\ Named(call[p])
  BY <1>1, <1>2, WorkerFields DEF WorkerFits, CallFits, PlaceFits
<1>4. FleetTypes' /\ \A q \in Workers : WorkerFits(q)'
  BY <1>1, <1>2, <1>3, OneMoves, WorkerFields
<1> QED BY <1>1, <1>4, LateKept DEF FleetInv

-----------------------------------------------------------------------------
(***************************************************************************)
(* The server's side of a call, and time.                                  *)
(***************************************************************************)

\* A call that is served is a call of the tables by the client of its worker, or
\* leaves them alone; a grant names the workunit, and the other answers are about
\* the workunit of the call.
LEMMA ServedStep ==
    ASSUME NEW c \in Calls, Named(c), NEW answer \in Answers,
           NEW w \in Coeffs \cup {NULL}, Served(c, answer, w)
    PROVE  /\ [Next]_vars
           /\ c.kind # "lease" => w = c.workunit
           /\ c.kind = "lease" => (answer = "granted" => w \in Coeffs)
<1>1. Id[c.from] \in Clients
  BY DEF Calls
<1>2. CASE c.kind = "lease"
  BY <1>1, <1>2 DEF Served, ServeLease, Next, Lease
<1>3. CASE c.kind = "submit"
  <2>1. w = c.workunit /\ w \in Coeffs /\ c.sha256 \in Digests
    BY <1>3 DEF Served, Named
  <2>2. ServeSubmit(c.from, w, c.sha256, answer)
    BY <1>3, <2>1 DEF Served
  <2>3. \/ FailWorkunit(w, Id[c.from])
        \/ Submit(w, Id[c.from], c.sha256)
        \/ UNCHANGED vars
    BY <2>2 DEF ServeSubmit
  <2> QED BY <1>1, <1>3, <2>1, <2>3 DEF Next
<1>4. CASE c.kind = "release"
  <2>1. w = c.workunit /\ w \in Coeffs
    BY <1>4 DEF Served, Named
  <2>2. Release(w, Id[c.from]) \/ UNCHANGED vars
    BY <1>4 DEF Served, ServeRelease
  <2> QED BY <1>1, <1>4, <2>1, <2>2 DEF Next
<1> QED BY <1>2, <1>3, <1>4 DEF Calls

LEMMA ServeInv ==
    ASSUME FleetInv, NEW p \in Workers, Serve(p)
    PROVE  FleetInv' /\ [Next]_vars
<1>1. PICK answer \in Answers, w \in Coeffs \cup {NULL} :
         /\ Served(call[p], answer, w)
         /\ call' = [call EXCEPT ![p].answer = answer, ![p].workunit = w]
  BY DEF Serve
<1>2. call[p].answer = "sent" /\ UNCHANGED <<worker, workdir, late>>
  BY DEF Serve
<1> DEFINE c == [call[p] EXCEPT !.answer = answer, !.workunit = w]
<1>3. /\ [Next]_vars
      /\ call[p].kind # "lease" => w = call[p].workunit
      /\ call[p].kind = "lease" => (answer = "granted" => w \in Coeffs)
  BY <1>1, ServedStep, WorkerFields DEF WorkerFits
<1>4. call' = [call EXCEPT ![p] = c]
  BY <1>1, WorkerFields
<1>5. c \in Calls
  <2>1. [call[p] EXCEPT !.answer = answer] \in Calls
    BY WorkerFields DEF Calls
  <2>2. ASSUME NEW t \in Calls PROVE [t EXCEPT !.workunit = w] \in Calls
    BY DEF Calls
  <2> QED BY <2>1, <2>2
<1>6. /\ c.from = call[p].from /\ c.kind = call[p].kind /\ c.sha256 = call[p].sha256
      /\ c.answer = answer /\ c.workunit = w
  BY WorkerFields DEF Calls
<1> HIDE DEF c
<1>7. /\ CallFits(worker[p], c, workdir[p]) /\ PlaceFits(worker[p], workdir[p])
      /\ c.from = p /\ Named(c)
  BY <1>2, <1>3, <1>6, WorkerFields DEF WorkerFits, CallFits, Named
<1>8. FleetTypes' /\ \A q \in Workers : WorkerFits(q)'
  BY <1>2, <1>4, <1>5, <1>7, OneMoves, WorkerFields
<1> QED BY <1>2, <1>3, <1>8, LateKept DEF FleetInv

LEMMA ServeLateInv ==
    ASSUME FleetInv, ServeLate
    PROVE  FleetInv' /\ [Next]_vars
<1>1. PICK c \in late : /\ \E answer \in Answers, w \in Coeffs \cup {NULL} : Served(c, answer, w)
                        /\ late' = late \ {c}
  BY DEF ServeLate
<1>2. UNCHANGED <<worker, workdir, call>>
  BY DEF ServeLate
<1>3. [Next]_vars
  BY <1>1, ServedStep DEF FleetInv, LateFits
<1>4. IsFiniteSet(late') /\ Cardinality(late') <= Cardinality(late)
         /\ Cardinality(late) \in Nat /\ Cardinality(late') \in Nat
  BY <1>1, FS_Subset, FS_CardinalityType DEF FleetInv, LateFits
<1>5. LateFits'
  BY <1>1, <1>4 DEF FleetInv, LateFits
<1>6. FleetTypes' /\ \A q \in Workers : WorkerFits(q)'
  BY <1>2 DEF FleetInv, FleetTypes, WorkerFits
<1> QED BY <1>3, <1>5, <1>6 DEF FleetInv

LEMMA TimeStepInv ==
    ASSUME FleetInv, TimeStep
    PROVE  FleetInv' /\ [Next]_vars
<1>1. FleetTypes' /\ \A q \in Workers : WorkerFits(q)'
  BY DEF TimeStep, FleetInv, FleetTypes, WorkerFits
<1> QED BY <1>1, LateKept DEF TimeStep, FleetInv, Next

-----------------------------------------------------------------------------
(***************************************************************************)
(* The fleet and the tables.                                               *)
(***************************************************************************)

\* What a worker does by itself, and what happens to it, leaves the tables alone.
LEMMA WorkersLeaveTables ==
    ASSUME NEW p \in Workers, WorkerStep(p) \/ FaultStep(p)
    PROVE  UNCHANGED vars
BY DEF WorkerStep, FaultStep, StopLooking, AskLease, LeaseAnswered, FinishRun, CrashRun,
   CancelRun, StartUpload, CancelUpload, SubmitAnswered, ReleaseAnswered, LeaseCallFailed,
   SubmitCallFailed, ReleaseCallFailed, Sigint, Sigterm, Kill, StartAgain

LEMMA FleetNextInv == FleetInv /\ [FleetNext]_fleetVars => FleetInv' /\ [Next]_vars
<1> SUFFICES ASSUME FleetInv, [FleetNext]_fleetVars PROVE FleetInv' /\ [Next]_vars
  OBVIOUS
<1>1. ASSUME NEW p \in Workers, WorkerStep(p) PROVE FleetInv'
  BY <1>1, StopLookingInv, AskLeaseInv, LeaseAnsweredInv, FinishRunInv, CrashRunInv,
     CancelRunInv, StartUploadInv, CancelUploadInv, SubmitAnsweredInv, ReleaseAnsweredInv
     DEF WorkerStep
<1>2. ASSUME NEW p \in Workers, FaultStep(p) PROVE FleetInv'
  BY <1>2, LeaseCallFailedInv, SubmitCallFailedInv, ReleaseAnsweredInv, SignalInv, KillInv,
     StartAgainInv DEF FaultStep
<1>3. ASSUME UNCHANGED fleetVars PROVE FleetInv' /\ UNCHANGED vars
  BY <1>3, LateKept DEF fleetVars, FleetInv, FleetTypes, WorkerFits
<1> QED BY <1>1, <1>2, <1>3, ServeInv, ServeLateInv, TimeStepInv, WorkersLeaveTables
        DEF FleetNext

LEMMA FleetInvAlways == FleetSpec => []FleetInv
BY FleetInitInv, FleetNextInv, PTL DEF FleetSpec

\* The fleet implements the tables: whatever calls are lost, late or repeated, and
\* whatever happens to the workers, the server sees one of the schedules of calls
\* that WorkUnits allows.
THEOREM FleetKeepsTables == FleetSpec => Spec
<1>1. FleetInit => Init
  BY DEF FleetInit
<1> QED BY <1>1, FleetNextInv, FleetInvAlways, PTL DEF FleetSpec, Spec

\* So at most one result is recorded for each coefficient, and never is one lost.
THEOREM FleetOneResult == FleetSpec => []OneResult
BY FleetKeepsTables, OneResultAlways, PTL

\* And the fleet implements the abstract coverage of the job.
THEOREM FleetCovers == FleetSpec => CoverageSpec
BY FleetKeepsTables, ImplementsCoverage, PTL

LEMMA FleetTablesAlways == FleetSpec => []IInv
BY FleetKeepsTables, Invariance, PTL

\* FleetTypeOK holds of every fleet: in particular a worker never counts more
\* failures than the limit that stops it, and the calls on their way stay bounded.
THEOREM FleetTypeCorrect == FleetSpec => []FleetTypeOK
<1>1. IInv /\ FleetInv => FleetTypeOK
  BY DEF IInv, FleetInv, FleetTypes, LateFits, WorkerStates, WorkdirTypes, Calls, FleetTypeOK
<1> QED BY <1>1, FleetTablesAlways, FleetInvAlways, PTL

-----------------------------------------------------------------------------
(***************************************************************************)
(* Who ends a lease.                                                       *)
(***************************************************************************)

\* Losing leases ends those and changes the state of no other workunit.
LEMMA ChargedStates ==
    ASSUME NEW W \in SUBSET Coeffs, ChargeAttempt(W), NEW w \in Coeffs
    PROVE  /\ w \notin W => state'[w] = state[w] /\ client_id'[w] = client_id[w]
           /\ w \in W => state'[w] # "leased"
BY DEF ChargeAttempt

\* A call that ends a lease is about that workunit and comes from its holder.
LEMMA EndsOwnLease ==
    ASSUME IInv, NEW c \in Calls, Named(c), Id[c.from] # Anonymous,
           NEW answer \in Answers, NEW v \in Coeffs \cup {NULL}, Served(c, answer, v),
           NEW w \in Coeffs, state[w] = "leased", state'[w] # "leased"
    PROVE  c.kind \in {"submit", "release"} /\ c.workunit = w /\ Id[c.from] = client_id[w]
<1>1. state \in [Coeffs -> States] /\ Id[c.from] \in Clients
  BY DEF IInv, TypeOK, Calls
<1>2. CASE c.kind = "lease"
  BY <1>1, <1>2 DEF Served, ServeLease, LeaseTo, vars
<1>3. CASE c.kind = "submit"
  <2>1. v = c.workunit /\ v \in Coeffs /\ c.sha256 \in Digests
    BY <1>3 DEF Served, Named
  <2>2. \/ FailWorkunit(v, Id[c.from])
        \/ Submit(v, Id[c.from], c.sha256)
    BY <1>3, <2>1 DEF Served, ServeSubmit, vars
  <2>3. CASE FailWorkunit(v, Id[c.from])
    <3>1. {v} \in SUBSET Coeffs /\ ChargeAttempt({v}) /\ client_id[v] = Id[c.from]
      BY <2>1, <2>3 DEF FailWorkunit, MayResolve, SpeaksFor
    <3>2. w = v
      BY <3>1, ChargedStates
    <3> QED BY <1>3, <2>1, <3>1, <3>2
  <2>4. CASE Submit(v, Id[c.from], c.sha256)
    <3>1. client_id[v] = Id[c.from]
      BY <1>1, <2>1, <2>4, AcceptedOnlyIfHeld
    <3>2. w = v
      BY <1>1, <2>1, <2>4 DEF Submit
    <3> QED BY <1>3, <2>1, <3>1, <3>2
  <2> QED BY <2>2, <2>3, <2>4
<1>4. CASE c.kind = "release"
  <2>1. v = c.workunit /\ v \in Coeffs /\ Release(v, Id[c.from])
    BY <1>4 DEF Served, Named, ServeRelease, vars
  <2>2. w = v /\ client_id[v] = Id[c.from]
    BY <1>1, <2>1 DEF Release
  <2> QED BY <1>4, <2>1, <2>2
<1> QED BY <1>2, <1>3, <1>4 DEF Calls

\* EndedByHolder holds of workers that all have a client id: no lost, late or
\* repeated call of a former holder ends the lease of the present one.
THEOREM EndedByHolderAlways ==
    ASSUME \A p \in Workers : Id[p] # Anonymous
    PROVE  FleetSpec => EndedByHolder
<1> DEFINE Ender(c, w) ==
              c.kind \in {"submit", "release"} /\ c.workunit = w /\ Id[c.from] = client_id[w]
           Body == \A w \in Coeffs :
              state[w] = "leased" /\ lease_left[w] # -1 /\ state'[w] # "leased" =>
                 \E c \in CallsMoved : Ender(c, w)
<1>1. ASSUME IInv, FleetInv, [FleetNext]_fleetVars PROVE Body
  <2> SUFFICES ASSUME NEW w \in Coeffs, state[w] = "leased", lease_left[w] # -1,
                      state'[w] # "leased"
               PROVE  \E c \in CallsMoved : Ender(c, w)
    OBVIOUS
  <2>1. CASE \E p \in Workers : Serve(p)
    <3>1. PICK p \in Workers : Serve(p)
      BY <2>1
    <3>2. PICK answer \in Answers, v \in Coeffs \cup {NULL} :
             /\ Served(call[p], answer, v)
             /\ call' = [call EXCEPT ![p].answer = answer, ![p].workunit = v]
      BY <3>1 DEF Serve
    <3>3. call[p] \in Calls /\ Named(call[p]) /\ call[p].answer = "sent"
      BY <1>1, <3>1, WorkerFields DEF Serve, WorkerFits
    <3>4. call'[p].answer = answer /\ answer # "sent"
      BY <1>1, <3>2, WorkerFields DEF Answers, Calls, FleetInv, FleetTypes
    <3>5. call[p] \in CallsMoved
      BY <3>3, <3>4 DEF CallsMoved
    <3>6. Id[call[p].from] # Anonymous
      BY <3>3 DEF Calls
    <3>7. Ender(call[p], w)
      BY <1>1, <3>2, <3>3, <3>6, EndsOwnLease
    <3> QED BY <3>5, <3>7
  <2>2. CASE ServeLate
    <3>1. PICK c \in late : /\ \E answer \in Answers, v \in Coeffs \cup {NULL} : Served(c, answer, v)
                            /\ late' = late \ {c}
      BY <2>2 DEF ServeLate
    <3>2. c \in Calls /\ Named(c)
      BY <1>1 DEF FleetInv, LateFits
    <3>3. Id[c.from] # Anonymous
      BY <3>2 DEF Calls
    <3>4. Ender(c, w)
      BY <1>1, <3>1, <3>2, <3>3, EndsOwnLease
    <3>5. c \in CallsMoved
      BY <3>1 DEF CallsMoved
    <3> QED BY <3>4, <3>5
  <2>3. CASE TimeStep
    <3>1. w \notin Expired
      BY DEF Expired
    <3>2. Expired \in SUBSET Coeffs
      BY DEF Expired
    <3>3. state'[w] = state[w]
      BY <2>3, <3>1, <3>2, ChargedStates DEF TimeStep, SweepExpired, Tick
    <3> QED BY <3>3
  <2>4. CASE UNCHANGED vars
    BY <2>4 DEF vars
  <2> QED BY <1>1, <2>1, <2>2, <2>3, <2>4, WorkersLeaveTables DEF FleetNext, fleetVars
<1>2. IInv /\ FleetInv /\ [FleetNext]_fleetVars => [Body]_fleetVars
  BY <1>1
<1> HIDE DEF Body
<1>3. FleetSpec => [][Body]_fleetVars
  BY <1>2, FleetTablesAlways, FleetInvAlways, PTL DEF FleetSpec
<1> QED BY <1>3 DEF EndedByHolder, Body

-----------------------------------------------------------------------------
(***************************************************************************)
(* What an attempt is charged for.                                         *)
(***************************************************************************)

\* Losing leases charges one try for each of them and none for another workunit.
LEMMA ChargedOnce ==
    ASSUME IInv, NEW W \in SUBSET Coeffs, \A v \in W : state[v] = "leased",
           ChargeAttempt(W), NEW w \in Coeffs
    PROVE  /\ w \notin W => Tries(w)' = Tries(w)
           /\ w \in W => Tries(w)' = Tries(w) + 1
<1>1. state \in [Coeffs -> States] /\ attempt_count \in [Coeffs -> 0 .. MaxAttempts - 1]
  BY DEF IInv, TypeOK
<1>2. CASE w \notin W
  BY <1>1, <1>2 DEF ChargeAttempt, Tries
<1>3. CASE w \in W
  <2>1. state[w] = "leased"
    BY <1>3
  <2>2. CASE LastAttempt(w)
    <3>1. state'[w] = "poisoned" /\ attempt_count'[w] = attempt_count[w]
      BY <1>3, <2>2 DEF ChargeAttempt
    <3> QED BY <1>3, <2>1, <3>1 DEF Tries
  <2>3. CASE ~LastAttempt(w)
    <3>1. state'[w] = "available" /\ attempt_count'[w] = attempt_count[w] + 1
      BY <1>3, <2>3 DEF ChargeAttempt
    <3> QED BY <1>3, <2>1, <3>1 DEF Tries
  <2> QED BY <2>2, <2>3
<1> QED BY <1>2, <1>3

\* A call that charges a try is a failing upload of the holder.
LEMMA ChargesOwnFailure ==
    ASSUME IInv, NEW c \in Calls, Named(c), Id[c.from] # Anonymous,
           NEW answer \in Answers, NEW v \in Coeffs \cup {NULL}, Served(c, answer, v),
           NEW w \in Coeffs, Tries(w)' # Tries(w)
    PROVE  /\ c.kind = "submit" /\ c.workunit = w
           /\ c.sha256 \in Failing /\ Id[c.from] = client_id[w]
           /\ state[w] = "leased" /\ Tries(w)' = Tries(w) + 1
<1>1. state \in [Coeffs -> States] /\ Id[c.from] \in Clients
  BY DEF IInv, TypeOK, Calls
<1>2. ASSUME UNCHANGED vars PROVE FALSE
  BY <1>2 DEF vars, Tries
<1>3. ASSUME UNCHANGED attempt_count, state'[w] = "poisoned" <=> state[w] = "poisoned"
      PROVE  FALSE
  BY <1>3 DEF Tries
<1>4. CASE c.kind = "lease"
  <2>1. LeaseTo(Id[c.from], v) /\ v \in Coeffs
    BY <1>2, <1>4 DEF Served, ServeLease
  <2>2. UNCHANGED attempt_count /\ state' = [state EXCEPT ![v] = "leased"]
        /\ state[v] = "available"
    BY <2>1 DEF LeaseTo, Leasable
  <2>3. state'[w] = "poisoned" <=> state[w] = "poisoned"
    BY <1>1, <2>2
  <2> QED BY <1>3, <2>2, <2>3
<1>5. CASE c.kind = "release"
  <2>1. Release(v, Id[c.from]) /\ v \in Coeffs
    BY <1>2, <1>5 DEF Served, Named, ServeRelease
  <2>2. UNCHANGED attempt_count /\ state' = [state EXCEPT ![v] = "available"]
        /\ state[v] = "leased"
    BY <2>1 DEF Release
  <2>3. state'[w] = "poisoned" <=> state[w] = "poisoned"
    BY <1>1, <2>2
  <2> QED BY <1>3, <2>2, <2>3
<1>6. CASE c.kind = "submit"
  <2>1. v = c.workunit /\ v \in Coeffs /\ c.sha256 \in Digests
    BY <1>6 DEF Served, Named
  <2>2. \/ c.sha256 \in Failing /\ FailWorkunit(v, Id[c.from])
        \/ Submit(v, Id[c.from], c.sha256)
    BY <1>2, <1>6, <2>1 DEF Served, ServeSubmit
  <2>3. CASE Submit(v, Id[c.from], c.sha256)
    <3>1. state[v] = "leased"
      BY <1>1, <2>1, <2>3, AcceptedOnlyIfHeld
    <3>2. UNCHANGED attempt_count /\ state' = [state EXCEPT ![v] = "submitted"]
      BY <2>3 DEF Submit
    <3>3. state'[w] = "poisoned" <=> state[w] = "poisoned"
      BY <1>1, <3>1, <3>2
    <3> QED BY <1>3, <3>2, <3>3
  <2>4. CASE c.sha256 \in Failing /\ FailWorkunit(v, Id[c.from])
    <3>1. {v} \in SUBSET Coeffs /\ ChargeAttempt({v}) /\ client_id[v] = Id[c.from]
          /\ state[v] = "leased"
      BY <2>1, <2>4 DEF FailWorkunit, MayResolve, SpeaksFor
    <3>2. w = v
      BY <3>1, ChargedOnce
    <3> QED BY <1>6, <2>1, <2>4, <3>1, <3>2, ChargedOnce
  <2> QED BY <2>2, <2>3, <2>4
<1> QED BY <1>4, <1>5, <1>6 DEF Calls

\* ChargedForLostLease holds of workers that all have a client id: crashes, cancels and
\* late calls cost nobody an attempt, and a lost lease costs one.
THEOREM ChargedOnlyForLostLease ==
    ASSUME \A p \in Workers : Id[p] # Anonymous
    PROVE  FleetSpec => ChargedForLostLease
<1> DEFINE OwnFailure(c, w) ==
              /\ c.kind = "submit" /\ c.workunit = w
              /\ c.sha256 \in Failing
              /\ Id[c.from] = client_id[w]
           Body == \A w \in Coeffs :
              Tries(w)' # Tries(w) =>
                 /\ state[w] = "leased"
                 /\ Tries(w)' = Tries(w) + 1
                 /\ \/ lease_left[w] = -1 /\ UNCHANGED <<call, late>>
                    \/ \E c \in CallsMoved : OwnFailure(c, w)
<1>1. ASSUME IInv, FleetInv, [FleetNext]_fleetVars PROVE Body
  <2> SUFFICES ASSUME NEW w \in Coeffs, Tries(w)' # Tries(w)
               PROVE  /\ state[w] = "leased"
                      /\ Tries(w)' = Tries(w) + 1
                      /\ \/ lease_left[w] = -1 /\ UNCHANGED <<call, late>>
                         \/ \E c \in CallsMoved : OwnFailure(c, w)
    OBVIOUS
  <2>1. CASE \E p \in Workers : Serve(p)
    <3>1. PICK p \in Workers : Serve(p)
      BY <2>1
    <3>2. PICK answer \in Answers, v \in Coeffs \cup {NULL} :
             /\ Served(call[p], answer, v)
             /\ call' = [call EXCEPT ![p].answer = answer, ![p].workunit = v]
      BY <3>1 DEF Serve
    <3>3. call[p] \in Calls /\ Named(call[p]) /\ call[p].answer = "sent"
      BY <1>1, <3>1, WorkerFields DEF Serve, WorkerFits
    <3>4. call'[p].answer = answer /\ answer # "sent"
      BY <1>1, <3>2, WorkerFields DEF Answers, Calls, FleetInv, FleetTypes
    <3>5. call[p] \in CallsMoved
      BY <3>3, <3>4 DEF CallsMoved
    <3>6. Id[call[p].from] # Anonymous
      BY <3>3 DEF Calls
    <3>7. OwnFailure(call[p], w) /\ state[w] = "leased" /\ Tries(w)' = Tries(w) + 1
      BY <1>1, <3>2, <3>3, <3>6, ChargesOwnFailure
    <3> QED BY <3>5, <3>7
  <2>2. CASE ServeLate
    <3>1. PICK c \in late : /\ \E answer \in Answers, v \in Coeffs \cup {NULL} : Served(c, answer, v)
                            /\ late' = late \ {c}
      BY <2>2 DEF ServeLate
    <3>2. c \in Calls /\ Named(c)
      BY <1>1 DEF FleetInv, LateFits
    <3>3. Id[c.from] # Anonymous
      BY <3>2 DEF Calls
    <3>4. OwnFailure(c, w) /\ state[w] = "leased" /\ Tries(w)' = Tries(w) + 1
      BY <1>1, <3>1, <3>2, <3>3, ChargesOwnFailure
    <3>5. c \in CallsMoved
      BY <3>1 DEF CallsMoved
    <3> QED BY <3>4, <3>5
  <2>3. CASE TimeStep
    <3>1. UNCHANGED <<call, late>>
      BY <2>3 DEF TimeStep
    <3>2. ~Tick
      BY DEF Tick, Tries
    <3>3. Expired \in SUBSET Coeffs /\ ChargeAttempt(Expired)
          /\ \A v \in Expired : state[v] = "leased" /\ lease_left[v] = -1
      BY <2>3, <3>2 DEF TimeStep, SweepExpired, Expired
    <3>4. w \in Expired
      BY <1>1, <3>3, ChargedOnce
    <3> QED BY <1>1, <3>1, <3>3, <3>4, ChargedOnce
  <2>4. CASE UNCHANGED vars
    BY <2>4 DEF vars, Tries
  <2> QED BY <1>1, <2>1, <2>2, <2>3, <2>4, WorkersLeaveTables DEF FleetNext, fleetVars
<1>2. IInv /\ FleetInv /\ [FleetNext]_fleetVars => [Body]_fleetVars
  BY <1>1
<1> HIDE DEF Body
<1>3. FleetSpec => [][Body]_fleetVars
  BY <1>2, FleetTablesAlways, FleetInvAlways, PTL DEF FleetSpec
<1> QED BY <1>3 DEF ChargedForLostLease, Body

-----------------------------------------------------------------------------
(***************************************************************************)
(* What is deleted.                                                        *)
(***************************************************************************)

\* A 200 stands for a recorded result, from the answer to the end of the call and
\* for as long as the job goes on.
StoredIsRecorded ==
    \A p \in Workers :
        call[p].kind = "submit" /\ call[p].answer = "stored" =>
            Recorded(call[p].workunit, call[p].sha256)

\* Nothing that is recorded is ever lost.
LEMMA RecordedStays ==
    ASSUME IInv, [Next]_vars, NEW w \in Coeffs, NEW d \in Digests, Recorded(w, d)
    PROVE  Recorded(w, d)'
<1>1. SettledStep
  BY SettledStepHolds
<1>2. PICK i \in DOMAIN submissions :
         submissions[i].workunit = w /\ submissions[i].sha256 = d
  BY DEF Recorded
<1>3. i \in DOMAIN submissions' /\ submissions'[i] = submissions[i]
  BY <1>1 DEF SettledStep
<1> QED BY <1>2, <1>3 DEF Recorded

\* The server answers 200 only when the result is recorded after it.
LEMMA StoredWhenRecorded ==
    ASSUME IInv, NEW c \in Calls, Named(c), c.kind = "submit",
           NEW v \in Coeffs \cup {NULL}, Served(c, "stored", v)
    PROVE  v = c.workunit /\ Recorded(v, c.sha256)'
<1>1. v = c.workunit /\ v \in Coeffs /\ c.sha256 \in Digests /\ Id[c.from] \in Clients
  BY DEF Served, Named, Calls
<1>2. \/ Submit(v, Id[c.from], c.sha256)
      \/ SubmitStatus(v, Id[c.from], c.sha256) = "duplicate" /\ UNCHANGED vars
  BY DEF Served, ServeSubmit
<1>3. CASE Submit(v, Id[c.from], c.sha256)
  <2> DEFINE row == [workunit |-> v, sha256 |-> c.sha256, client |-> Id[c.from]]
             n == Len(submissions) + 1
  <2>1. row \in Rows /\ submissions \in Seq(Rows) /\ submissions' = Append(submissions, row)
    BY <1>1, <1>3 DEF Submit, Rows, IInv, TypeOK
  <2>2. n \in DOMAIN submissions' /\ submissions'[n] = row
    BY <2>1
  <2> QED BY <1>1, <2>2 DEF Recorded
<1>4. CASE /\ SubmitStatus(v, Id[c.from], c.sha256) = "duplicate"
           /\ UNCHANGED vars
  <2>1. Recorded(v, c.sha256)
    BY <1>4 DEF SubmitStatus
  <2> QED BY <1>1, <1>4, <2>1 DEF Recorded, vars
<1> QED BY <1>2, <1>3, <1>4

\* What the steps of a worker make of its call: none, a new one, or the same.
LEMMA CallAfterStep ==
    ASSUME FleetInv, NEW p \in Workers, WorkerStep(p) \/ FaultStep(p), NEW q \in Workers
    PROVE  call'[q] = call[q] \/ call'[q].answer \in {"sent", "none"}
<1>1. \/ UNCHANGED call
      \/ call' = [call EXCEPT ![p] = NoCall(p)]
      \/ \E kind \in {"lease", "submit", "release"}, w \in Coeffs \cup {NULL},
            d \in Digests \cup {NULL} : call' = [call EXCEPT ![p] = Sent(p, kind, w, d)]
  <2>1. worker[p].workunit \in Coeffs \cup {NULL}
    BY WorkerFields DEF WorkerStates
  <2>2. ASSUME StartUpload(p) PROVE workdir[p][worker[p].workunit] \in Digests
    BY <2>2, WorkerFields DEF StartUpload, WorkerFits, PlaceFits
  <2>3. CASE WorkerStep(p)
    BY <2>1, <2>2, <2>3 DEF WorkerStep, StopLooking, AskLease, LeaseAnswered, FinishRun,
       CrashRun, CancelRun, StartUpload, CancelUpload, SendRelease, SubmitAnswered,
       ReleaseAnswered
  <2>4. CASE FaultStep(p)
    BY <2>4 DEF FaultStep, LeaseCallFailed, SubmitCallFailed, ReleaseCallFailed, GivenUp,
       Sigint, Sigterm, Kill, StartAgain
  <2> QED BY <2>3, <2>4
<1>2. NoCall(p).answer = "none"
  BY DEF NoCall, Call
<1>3. ASSUME NEW kind, NEW w, NEW d PROVE Sent(p, kind, w, d).answer = "sent"
  BY DEF Sent, Call
<1> QED BY <1>1, <1>2, <1>3 DEF FleetInv, FleetTypes

LEMMA StoredIsRecordedNext ==
    ASSUME IInv, FleetInv, StoredIsRecorded, [FleetNext]_fleetVars
    PROVE  StoredIsRecorded'
<1>1. [Next]_vars
  BY FleetNextInv
<1> SUFFICES ASSUME NEW p \in Workers,
                    call'[p].kind = "submit", call'[p].answer = "stored"
             PROVE  Recorded(call[p].workunit, call[p].sha256)'
  BY DEF StoredIsRecorded
<1>2. CASE call'[p] = call[p]
  <2>1. call[p].workunit \in Coeffs /\ call[p].sha256 \in Digests
    BY <1>2, WorkerFields DEF WorkerFits, Named
  <2>2. Recorded(call[p].workunit, call[p].sha256)
    BY <1>2 DEF StoredIsRecorded
  <2>3. PICK w \in Coeffs, d \in Digests : w = call[p].workunit /\ d = call[p].sha256
    BY <2>1
  <2>4. Recorded(w, d)'
    BY <1>1, <2>2, <2>3, RecordedStays
  <2> QED BY <1>2, <2>3, <2>4 DEF Recorded
<1>3. CASE call'[p] # call[p] /\ \E q \in Workers : Serve(q)
  <2>1. PICK q \in Workers : Serve(q)
    BY <1>3
  <2>2. PICK answer \in Answers, v \in Coeffs \cup {NULL} :
           /\ Served(call[q], answer, v)
           /\ call' = [call EXCEPT ![q].answer = answer, ![q].workunit = v]
    BY <2>1 DEF Serve
  <2>3. p = q
    BY <1>3, <2>2 DEF FleetInv, FleetTypes
  <2>4. /\ call'[p].answer = answer /\ call'[p].workunit = v
        /\ call'[p].kind = call[p].kind /\ call'[p].sha256 = call[p].sha256
    BY <2>2, <2>3 DEF Calls, FleetInv, FleetTypes
  <2>5. Recorded(v, call[p].sha256)'
    BY <2>2, <2>3, <2>4, StoredWhenRecorded, WorkerFields DEF WorkerFits
  <2> QED BY <2>4, <2>5 DEF Recorded
<1>4. CASE call'[p] # call[p] /\ ~\E q \in Workers : Serve(q)
  <2>1. ASSUME NEW q \in Workers, WorkerStep(q) \/ FaultStep(q) PROVE FALSE
    BY <1>4, <2>1, CallAfterStep
  <2> QED BY <1>4, <2>1 DEF FleetNext, ServeLate, TimeStep, fleetVars
<1> QED BY <1>2, <1>3, <1>4

LEMMA StoredIsRecordedAlways == FleetSpec => []StoredIsRecorded
<1>1. FleetInit => StoredIsRecorded
  BY DEF FleetInit, StoredIsRecorded, NoCall, Call
<1> QED BY <1>1, StoredIsRecordedNext, FleetTablesAlways, FleetInvAlways, PTL DEF FleetSpec

\* DeletedOnlyIfRecorded holds of every fleet, under every fault.
THEOREM DeletedOnlyIfRecordedAlways == FleetSpec => DeletedOnlyIfRecorded
<1> DEFINE Body == \A p \in Workers, w \in Coeffs :
              workdir[p][w] # NULL /\ workdir'[p][w] = NULL => Recorded(w, workdir[p][w])
<1>1. ASSUME FleetInv, StoredIsRecorded, [FleetNext]_fleetVars PROVE Body
  <2> SUFFICES ASSUME NEW p \in Workers, NEW w \in Coeffs,
                      workdir[p][w] # NULL, workdir'[p][w] = NULL
               PROVE  Recorded(w, workdir[p][w])
    OBVIOUS
  <2>1. ASSUME NEW q \in Workers, NEW v \in Coeffs, NEW e \in Digests,
               workdir' = [workdir EXCEPT ![q][v] = e]
        PROVE  FALSE
    BY <1>1, <2>1 DEF FleetInv, FleetTypes, WorkdirTypes
  <2>2. ASSUME NEW q \in Workers, FinishRun(q) \/ CrashRun(q) \/ CancelRun(q)
        PROVE  FALSE
    <3>1. worker[q].pc = "running"
      BY <2>2 DEF FinishRun, CrashRun, CancelRun
    <3>2. worker[q].workunit \in Coeffs
      BY <1>1, <3>1, WorkerFields DEF WorkerFits, PlaceFits
    <3>3. \E e \in Digests : workdir' = [workdir EXCEPT ![q][worker[q].workunit] = e]
      BY <2>2 DEF FinishRun, CrashRun, CancelRun, Appended, Outputs
    <3> QED BY <2>1, <3>2, <3>3
  <2>3. PICK q \in Workers : SubmitAnswered(q)
    BY <1>1, <2>2 DEF FleetNext, WorkerStep, FaultStep, StopLooking, AskLease, LeaseAnswered,
       StartUpload, CancelUpload, ReleaseAnswered, LeaseCallFailed, SubmitCallFailed,
       ReleaseCallFailed, Sigint, Sigterm, Kill, StartAgain, Serve, ServeLate, TimeStep,
       fleetVars
  <2>4. /\ DeletesUpon(call[q].answer)
        /\ workdir' = [workdir EXCEPT ![q][worker[q].workunit] = NULL]
        /\ worker[q].pc = "submitting"
    BY <2>3 DEF SubmitAnswered
  <2>5. q = p /\ w = worker[q].workunit
    BY <1>1, <2>4 DEF FleetInv, FleetTypes, WorkdirTypes
  <2>6. /\ call[p].answer = "stored" /\ call[p].kind = "submit"
        /\ call[p].workunit = w /\ call[p].sha256 = workdir[p][w]
    BY <1>1, <2>4, <2>5, WorkerFields DEF DeletesUpon, WorkerFits, CallFits
  <2> QED BY <1>1, <2>6 DEF StoredIsRecorded
<1>2. FleetInv /\ StoredIsRecorded /\ [FleetNext]_fleetVars => [Body]_fleetVars
  BY <1>1
<1> HIDE DEF Body
<1>3. FleetSpec => [][Body]_fleetVars
  BY <1>2, FleetInvAlways, StoredIsRecordedAlways, PTL DEF FleetSpec
<1> QED BY <1>3 DEF DeletedOnlyIfRecorded, Body

-----------------------------------------------------------------------------
(***************************************************************************)
(* What a worker holds.                                                    *)
(***************************************************************************)

\* The worker has the lease on w in hand: granted, or worked on, or in a call about
\* it that the server has not served yet.
InHand(p, w) ==
    \/ worker[p].pc = "leasing" /\ call[p].answer = "granted" /\ call[p].workunit = w
    \/ worker[p].pc \in {"running", "uploading"} /\ worker[p].workunit = w
    \/ /\ worker[p].pc \in {"submitting", "releasing"}
       /\ call[p].answer = "sent"
       /\ worker[p].workunit = w

\* A careful worker holds only what it has in hand.
HeldInHand == \A p \in Careful, w \in Coeffs : Holds(p, w) => InHand(p, w)

\* No call but the worker's own request for a lease makes it hold a workunit.
LEMMA NotGivenByOthers ==
    ASSUME IInv, NEW c \in Calls, Named(c), NEW answer \in Answers,
           NEW v \in Coeffs \cup {NULL}, Served(c, answer, v),
           NEW p \in Workers, NEW w \in Coeffs, Holds(p, w)',
           Id[c.from] # Id[p] \/ c.kind # "lease" \/ answer # "granted" \/ v # w
    PROVE  Holds(p, w)
<1>1. /\ state \in [Coeffs -> States] /\ client_id \in [Coeffs -> Clients \cup {NULL}]
      /\ Id[c.from] \in Clients /\ Id[p] \in Clients
      /\ state'[w] = "leased" /\ client_id'[w] = Id[p]
  BY DEF IInv, TypeOK, Calls, Holds
<1>2. CASE UNCHANGED vars
  BY <1>1, <1>2 DEF vars, Holds
<1>3. CASE c.kind = "lease" /\ ~UNCHANGED vars
  <2>1. v \in Coeffs /\ LeaseTo(Id[c.from], v) /\ answer = "granted"
    BY <1>3 DEF Served, ServeLease
  <2>2. w # v
    BY <1>1, <1>3, <2>1 DEF LeaseTo
  <2> QED BY <1>1, <2>1, <2>2 DEF LeaseTo, Holds
<1>4. CASE c.kind = "submit" /\ ~UNCHANGED vars
  <2>1. v = c.workunit /\ v \in Coeffs
    BY <1>4 DEF Served, Named
  <2>2. FailWorkunit(v, Id[c.from]) \/ Submit(v, Id[c.from], c.sha256)
    BY <1>4, <2>1 DEF Served, ServeSubmit
  <2>3. CASE FailWorkunit(v, Id[c.from])
    <3>1. {v} \in SUBSET Coeffs /\ ChargeAttempt({v})
      BY <2>1, <2>3 DEF FailWorkunit
    <3>2. w \notin {v} /\ state'[w] = state[w] /\ client_id'[w] = client_id[w]
      BY <1>1, <3>1, ChargedStates
    <3> QED BY <1>1, <3>2 DEF Holds
  <2>4. CASE Submit(v, Id[c.from], c.sha256)
    <3>1. w # v /\ state'[w] = state[w] /\ client_id'[w] = client_id[w]
      BY <1>1, <2>1, <2>4 DEF Submit, lease_vars
    <3> QED BY <1>1, <3>1 DEF Holds
  <2> QED BY <2>2, <2>3, <2>4
<1>5. CASE c.kind = "release" /\ ~UNCHANGED vars
  <2>1. v \in Coeffs /\ Release(v, Id[c.from])
    BY <1>5 DEF Served, Named, ServeRelease
  <2>2. w # v /\ state'[w] = state[w] /\ client_id'[w] = client_id[w]
    BY <1>1, <2>1 DEF Release
  <2> QED BY <1>1, <2>2 DEF Holds
<1> QED BY <1>2, <1>3, <1>4, <1>5 DEF Calls

\* After an answer to its submit or release that is not a refusal, the worker does
\* not hold the workunit, whether or not the call had an effect.
LEMMA AnswerEndsHold ==
    ASSUME IInv, NEW c \in Calls, Named(c), c.kind \in {"submit", "release"},
           NEW answer \in Answers, "refuse" \notin Faults[c.from],
           Served(c, answer, c.workunit)
    PROVE  ~Holds(c.from, c.workunit)'
<1> DEFINE w == c.workunit
<1>1. /\ state \in [Coeffs -> States] /\ client_id \in [Coeffs -> Clients \cup {NULL}]
      /\ Id[c.from] \in Clients /\ w \in Coeffs
  BY DEF IInv, TypeOK, Calls, Named
<1>2. CASE FailWorkunit(w, Id[c.from])
  <2>1. {w} \in SUBSET Coeffs /\ ChargeAttempt({w})
    BY <1>1, <1>2 DEF FailWorkunit
  <2>2. state'[w] # "leased"
    BY <1>1, <2>1, ChargedStates
  <2> QED BY <2>2 DEF Holds
<1>3. CASE Submit(w, Id[c.from], c.sha256)
  BY <1>1, <1>3 DEF Submit, Holds
<1>4. CASE Release(w, Id[c.from])
  BY <1>1, <1>4 DEF Release, Holds
<1>5. CASE UNCHANGED vars /\ ~MayResolve(w, Id[c.from])
  BY <1>5 DEF vars, MayResolve, SpeaksFor, Holds
<1>6. CASE UNCHANGED vars /\ Recorded(w, c.sha256)
  <2>1. state[w] = "submitted"
    BY <1>1, <1>6 DEF Recorded, IInv, OneResult
  <2> QED BY <1>6, <2>1 DEF vars, Holds
<1>7. CASE UNCHANGED vars /\ ~(state[w] = "leased" /\ client_id[w] = Id[c.from])
  BY <1>7 DEF vars, Holds
<1>8. CASE c.kind = "submit"
  <2>1. ServeSubmit(c.from, w, c.sha256, answer)
    BY <1>8 DEF Served
  <2>2. SubmitStatus(w, Id[c.from], c.sha256) = "duplicate" => Recorded(w, c.sha256)
    BY DEF SubmitStatus
  <2>3. SubmitStatus(w, Id[c.from], c.sha256) = "conflict" => ~MayResolve(w, Id[c.from])
    BY DEF SubmitStatus
  <2> QED BY <1>2, <1>3, <1>5, <1>6, <2>1, <2>2, <2>3 DEF ServeSubmit
<1>9. CASE c.kind = "release"
  BY <1>4, <1>7, <1>9 DEF Served, ServeRelease
<1> QED BY <1>8, <1>9

\* The worker's own steps carry the lease along, to the call that gives it back.
LEMMA OwnStepKeepsHand ==
    ASSUME FleetInv, NEW p \in Careful, NEW w \in Coeffs, InHand(p, w),
           WorkerStep(p) \/ FaultStep(p)
    PROVE  InHand(p, w)'
<1> p \in Workers
  BY DEF Careful
<1>1. worker[p] \in WorkerStates /\ call[p] \in Calls /\ WorkerFits(p)
  BY WorkerFields
<1>2. ASSUME GivenUp(p) PROVE FALSE
  BY <1>2 DEF GivenUp, Careful
<1>3. CASE StopLooking(p) \/ AskLease(p)
  BY <1>3 DEF StopLooking, AskLease, InHand
<1>4. CASE LeaseAnswered(p)
  <2>1. worker[p].pc = "leasing" /\ call[p].answer = "granted" /\ call[p].workunit = w
    BY <1>4 DEF LeaseAnswered, InHand
  <2>2. worker' = [worker EXCEPT ![p].pc = "running", ![p].workunit = call[p].workunit]
    BY <1>4, <2>1 DEF LeaseAnswered
  <2>3. worker'[p].pc = "running" /\ worker'[p].workunit = w
    BY <2>1, <2>2 DEF FleetInv, FleetTypes, WorkerStates
  <2> QED BY <2>3 DEF InHand
<1>5. CASE FinishRun(p)
  <2>1. worker'[p].pc = "uploading" /\ worker'[p].workunit = worker[p].workunit
    BY <1>5 DEF FinishRun, FleetInv, FleetTypes, WorkerStates
  <2> QED BY <1>5, <2>1 DEF FinishRun, InHand
<1>6. CASE CrashRun(p) \/ CancelRun(p) \/ CancelUpload(p)
  <2>1. worker[p].pc \in {"running", "uploading"} /\ worker[p].workunit = w
    BY <1>6 DEF CrashRun, CancelRun, CancelUpload, InHand
  <2>2. worker'[p].pc = "releasing" /\ worker'[p].workunit = w
    BY <1>6, <2>1 DEF CrashRun, CancelRun, CancelUpload, FleetInv, FleetTypes, WorkerStates
  <2>3. call'[p].answer = "sent"
    BY <1>6 DEF CrashRun, CancelRun, CancelUpload, SendRelease, Sent, Call, FleetInv, FleetTypes
  <2> QED BY <2>2, <2>3 DEF InHand
<1>7. CASE StartUpload(p)
  <2>1. worker'[p].pc = "submitting" /\ worker'[p].workunit = worker[p].workunit
    BY <1>7 DEF StartUpload, FleetInv, FleetTypes, WorkerStates
  <2>2. call'[p].answer = "sent"
    BY <1>7 DEF StartUpload, Sent, Call, FleetInv, FleetTypes
  <2> QED BY <1>7, <2>1, <2>2 DEF StartUpload, InHand
<1>8. CASE SubmitAnswered(p) \/ ReleaseAnswered(p)
  BY <1>8 DEF SubmitAnswered, ReleaseAnswered, InHand
<1>9. CASE LeaseCallFailed(p) \/ SubmitCallFailed(p) \/ ReleaseCallFailed(p)
  BY <1>2, <1>9 DEF LeaseCallFailed, SubmitCallFailed, ReleaseCallFailed
<1>10. CASE Sigint(p) \/ Sigterm(p)
  <2>1. worker'[p].pc = worker[p].pc /\ worker'[p].workunit = worker[p].workunit
    <3>1. CASE Sigterm(p)
      BY <3>1 DEF Sigterm, FleetInv, FleetTypes, WorkerStates
    <3>2. CASE Sigint(p)
      <4> DEFINE t == [worker EXCEPT ![p].drain = TRUE]
      <4>1. worker' = [t EXCEPT ![p].cancel = @ \/ worker[p].drain]
        BY <3>2 DEF Sigint
      <4>2. t[p].pc = worker[p].pc /\ t[p].workunit = worker[p].workunit /\ p \in DOMAIN t
        BY DEF FleetInv, FleetTypes, WorkerStates
      <4>3. t[p] \in WorkerStates
        BY <1>1, FlaggedWorker DEF FleetInv, FleetTypes
      <4> HIDE DEF t
      <4> QED BY <4>1, <4>2, <4>3 DEF WorkerStates
    <3> QED BY <1>10, <3>1, <3>2
  <2>2. UNCHANGED call
    BY <1>10 DEF Sigint, Sigterm
  <2> QED BY <2>1, <2>2 DEF InHand
<1>11. CASE Kill(p) \/ StartAgain(p)
  BY <1>11 DEF Kill, StartAgain, InHand, Careful
<1> QED BY <1>3, <1>4, <1>5, <1>6, <1>7, <1>8, <1>9, <1>10, <1>11 DEF WorkerStep, FaultStep

\* What the others do leaves a worker and its call alone.
LEMMA OthersLeaveHand ==
    ASSUME FleetInv, NEW p \in Workers, NEW q \in Workers, q # p,
           WorkerStep(q) \/ FaultStep(q) \/ Serve(q)
    PROVE  worker'[p] = worker[p] /\ call'[p] = call[p]
<1>1. CASE Serve(q)
  BY <1>1 DEF Serve, FleetInv, FleetTypes
<1>2. CASE WorkerStep(q)
  BY <1>2 DEF WorkerStep, StopLooking, AskLease, LeaseAnswered, FinishRun, CrashRun, CancelRun,
     StartUpload, CancelUpload, SendRelease, SubmitAnswered, ReleaseAnswered, FleetInv, FleetTypes
<1>3. CASE FaultStep(q)
  BY <1>3 DEF FaultStep, LeaseCallFailed, SubmitCallFailed, ReleaseCallFailed, GivenUp,
     Sigint, Sigterm, Kill, StartAgain, FleetInv, FleetTypes
<1> QED BY <1>1, <1>2, <1>3

\* The server's step about the worker's own call.
LEMMA OwnServeKeepsHand ==
    ASSUME IInv, FleetInv, HeldInHand, NEW p \in Careful, NEW w \in Coeffs,
           Serve(p), Holds(p, w)'
    PROVE  InHand(p, w)'
<1>1. p \in Workers /\ "refuse" \notin Faults[p]
  BY DEF Careful
<1>2. PICK answer \in Answers, v \in Coeffs \cup {NULL} :
         /\ Served(call[p], answer, v)
         /\ call' = [call EXCEPT ![p].answer = answer, ![p].workunit = v]
  BY DEF Serve
<1>3. call[p].answer = "sent" /\ UNCHANGED worker
  BY DEF Serve
<1>4. call[p] \in Calls /\ Named(call[p]) /\ call[p].from = p /\ CallFits(worker[p], call[p], workdir[p])
  BY <1>1, WorkerFields DEF WorkerFits
<1>5. worker[p].pc \in {"leasing", "submitting", "releasing"}
  BY <1>3, <1>4 DEF CallFits
<1>6. CASE worker[p].pc = "leasing"
  <2>1. ~Holds(p, w)
    BY <1>3, <1>6 DEF HeldInHand, InHand
  <2>2. answer = "granted" /\ v = w
    BY <1>1, <1>2, <1>4, <2>1, NotGivenByOthers
  <2>3. call'[p].answer = "granted" /\ call'[p].workunit = w
    BY <1>1, <1>2, <2>2 DEF FleetInv, FleetTypes, Calls
  <2> QED BY <1>3, <1>6, <2>3 DEF InHand
<1>7. CASE worker[p].pc \in {"submitting", "releasing"}
  <2>1. /\ call[p].kind \in {"submit", "release"}
        /\ call[p].workunit = worker[p].workunit /\ v = call[p].workunit
    BY <1>2, <1>4, <1>7 DEF CallFits, Served
  <2>2. Holds(p, w)
    BY <1>1, <1>2, <1>4, <2>1, NotGivenByOthers
  <2>3. call[p].workunit = w
    BY <1>7, <2>1, <2>2 DEF HeldInHand, InHand
  <2>4. PICK c \in Calls : c = call[p]
    BY <1>4
  <2>5. ~Holds(c.from, c.workunit)'
    BY <1>1, <1>2, <1>4, <2>1, <2>4, AnswerEndsHold
  <2> QED BY <1>4, <2>3, <2>4, <2>5
<1> QED BY <1>5, <1>6, <1>7

LEMMA HeldInHandNext ==
    ASSUME \A p, q \in Workers : Id[p] = Id[q] => p = q,
           IInv, FleetInv, HeldInHand, [FleetNext]_fleetVars
    PROVE  HeldInHand'
<1> SUFFICES ASSUME NEW p \in Careful, NEW w \in Coeffs, Holds(p, w)'
             PROVE  InHand(p, w)'
  BY DEF HeldInHand, Careful
<1>1. p \in Workers /\ "late" \notin Faults[p]
  BY DEF Careful
<1>2. ASSUME Holds(p, w), worker'[p] = worker[p], call'[p] = call[p] PROVE InHand(p, w)'
  BY <1>2 DEF HeldInHand, InHand
<1>3. CASE WorkerStep(p) \/ FaultStep(p)
  <2>1. UNCHANGED vars
    BY <1>1, <1>3, WorkersLeaveTables
  <2>2. Holds(p, w)
    BY <2>1 DEF vars, Holds
  <2> QED BY <1>3, <2>2, OwnStepKeepsHand DEF HeldInHand
<1>4. CASE Serve(p)
  BY <1>4, OwnServeKeepsHand
<1>5. ASSUME NEW q \in Workers, q # p, WorkerStep(q) \/ FaultStep(q)
      PROVE  InHand(p, w)'
  <2>1. UNCHANGED vars
    BY <1>5, WorkersLeaveTables
  <2>2. Holds(p, w)
    BY <2>1 DEF vars, Holds
  <2> QED BY <1>1, <1>2, <1>5, <2>2, OthersLeaveHand
<1>6. ASSUME NEW q \in Workers, q # p, Serve(q) PROVE InHand(p, w)'
  <2>1. PICK answer \in Answers, v \in Coeffs \cup {NULL} : Served(call[q], answer, v)
    BY <1>6 DEF Serve
  <2>2. call[q] \in Calls /\ Named(call[q]) /\ call[q].from = q
    BY WorkerFields DEF WorkerFits
  <2>3. Id[q] # Id[p]
    BY <1>1, <1>6
  <2>4. Holds(p, w)
    BY <1>1, <2>1, <2>2, <2>3, NotGivenByOthers
  <2> QED BY <1>1, <1>2, <1>6, <2>4, OthersLeaveHand
<1>7. CASE ServeLate
  <2>1. PICK c \in late, answer \in Answers, v \in Coeffs \cup {NULL} : Served(c, answer, v)
    BY <1>7 DEF ServeLate
  <2>2. c \in Calls /\ Named(c) /\ "late" \in Faults[c.from]
    BY DEF FleetInv, LateFits
  <2>3. Id[c.from] # Id[p]
    BY <1>1, <2>2 DEF Calls
  <2>4. Holds(p, w)
    BY <1>1, <2>1, <2>2, <2>3, NotGivenByOthers
  <2> QED BY <1>2, <1>7, <2>4 DEF ServeLate
<1>8. CASE TimeStep
  <2>1. Expired \in SUBSET Coeffs
    BY DEF Expired
  <2>2. Holds(p, w)
    BY <1>8, <2>1, ChargedStates DEF TimeStep, SweepExpired, Tick, Holds
  <2> QED BY <1>2, <1>8, <2>2 DEF TimeStep
<1>9. CASE UNCHANGED fleetVars
  BY <1>2, <1>9 DEF fleetVars, vars, Holds
<1> QED BY <1>3, <1>4, <1>5, <1>6, <1>7, <1>8, <1>9 DEF FleetNext

\* IdleHoldsNothing holds of every fleet whose workers have ids of their own: a
\* worker whose calls are answered gives back every lease that it does not resolve.
THEOREM IdleHoldsNothingAlways ==
    ASSUME \A p, q \in Workers : Id[p] = Id[q] => p = q
    PROVE  FleetSpec => []IdleHoldsNothing
<1>1. FleetInit => HeldInHand
  BY DEF FleetInit, Init, HeldInHand, Holds
<1>2. HeldInHand => IdleHoldsNothing
  BY DEF HeldInHand, InHand, IdleHoldsNothing
<1>3. HeldInHand /\ IInv /\ FleetInv /\ [FleetNext]_fleetVars => HeldInHand'
  BY HeldInHandNext
<1> QED BY <1>1, <1>2, <1>3, FleetTablesAlways, FleetInvAlways, PTL DEF FleetSpec
=============================================================================
