------------------------------ MODULE WorkUnits ------------------------------
(***************************************************************************)
(* The workunit state machine of the poly-server: the tables `workunits`   *)
(* and `submissions` of schema.sql under the calls of polyserver/db.py.    *)
(* Every call runs under the one lock of polyserver/app.py and, where it   *)
(* makes more than one statement, inside one transaction: each is one      *)
(* action here.  The callers are unconstrained: any client may make any    *)
(* call about any workunit at any time, so that what holds here holds for  *)
(* every schedule of workers, retries, duplicates and delayed requests.    *)
(*                                                                         *)
(* A workunit is named by its coefficient, a number: db.lease orders the   *)
(* decimal texts by (length, text), which is the numeric order on decimals *)
(* without leading zeros.  The deadline `lease_expires` is kept relative   *)
(* to the clock, lease_left = lease_expires - now, and stays at -1 once it *)
(* has passed, so that time needs no bound.                                *)
(***************************************************************************)
EXTENDS Integers, Sequences

CONSTANTS
    Coeffs,        \* the coefficients that may ever be listed in the job
    Clients,       \* the client ids that callers quote
    Anonymous,     \* the empty client id, which /submit takes for "anyone"
    Digests,       \* the SHA-256 values that callers quote
    MaxAttempts,   \* max_attempts of create_app
    LeaseSeconds,  \* lease_seconds of create_app
    NULL           \* SQL NULL

ASSUME CoeffsAssumption == Coeffs \subseteq Nat
ASSUME AttemptsAssumption == MaxAttempts \in Nat \ {0}
ASSUME LeaseAssumption == LeaseSeconds \in Nat
ASSUME NullAssumption == NULL \notin Clients \cup Digests \cup Int

VARIABLES
    state,          \* workunits.state, or "absent" when there is no row
    attempt_count,  \* workunits.attempt_count
    client_id,      \* workunits.client_id
    lease_left,     \* workunits.lease_expires - now
    submissions     \* the rows of `submissions`, in the order of their id

lease_vars == <<client_id, lease_left>>
vars == <<state, attempt_count, client_id, lease_left, submissions>>

States == {"absent", "available", "leased", "submitted", "poisoned"}
Rows == [workunit : Coeffs, sha256 : Digests, client : Clients]

\* init_job of a fresh database: each coefficient of the list is available.
Init ==
    /\ \E listed \in SUBSET Coeffs :
          state = [w \in Coeffs |-> IF w \in listed THEN "available" ELSE "absent"]
    /\ attempt_count = [w \in Coeffs |-> 0]
    /\ client_id = [w \in Coeffs |-> NULL]
    /\ lease_left = [w \in Coeffs |-> NULL]
    /\ submissions = <<>>

-----------------------------------------------------------------------------
\* Faulty ExtendJob, for mutation: rows already present are replaced.
ExtendJobReplacing(listed) ==
    /\ state' = [w \in Coeffs |-> IF w \in listed THEN "available" ELSE state[w]]
    /\ attempt_count' = [w \in Coeffs |-> IF w \in listed THEN 0 ELSE attempt_count[w]]
    /\ UNCHANGED <<lease_vars, submissions>>

\* Some coefficients are appended; those already present are left alone.
ExtendJob(listed) ==
    /\ state' = [w \in Coeffs |-> IF state[w] = "absent" /\ w \in listed
                                  THEN "available" ELSE state[w]]
    /\ UNCHANGED <<attempt_count, lease_vars, submissions>>

\* The leases whose deadline is in the past (lease_expires < now).  Two faulty
\* forms: one looks at rows in every state, one passes over the empty id.
ExpiredInAnyState == {w \in Coeffs : lease_left[w] = -1}
ExpiredOfNamed ==
    {w \in Coeffs : state[w] = "leased" /\ lease_left[w] = -1 /\ client_id[w] # Anonymous}
Expired == {w \in Coeffs : state[w] = "leased" /\ lease_left[w] = -1}

\* What db.lease may hand out; the faulty form also takes expired leases over.
LeasableOrExpired == {w \in Coeffs : state[w] = "available"} \cup Expired
Leasable == {w \in Coeffs : state[w] = "available"}

\* The lowest available coefficient w is leased to client c.  When none is
\* available the call returns None and changes nothing.
LeaseTo(c, w) ==
    /\ w \in Leasable
    /\ \A v \in Leasable : w <= v
    /\ state' = [state EXCEPT ![w] = "leased"]
    /\ client_id' = [client_id EXCEPT ![w] = c]
    /\ lease_left' = [lease_left EXCEPT ![w] = LeaseSeconds]
    /\ UNCHANGED <<attempt_count, submissions>>

Lease(c) == \E w \in Coeffs : LeaseTo(c, w)

\* Whether a call about w that quotes c speaks for the holder of w.
SpeaksForAnyone(c, w) == TRUE    \* faulty: the id is not compared
SpeaksFor(c, w) == c = Anonymous \/ client_id[w] = c

\* The condition under which db.submit and db.fail_workunit act.
MayResolveAnyState(w, c) == SpeaksFor(c, w)    \* faulty: the state is not looked at
MayResolve(w, c) == state[w] = "leased" /\ SpeaksFor(c, w)

Recorded(w, sha) ==
    \E i \in DOMAIN submissions :
        submissions[i].workunit = w /\ submissions[i].sha256 = sha

\* The answer of db.submit, in the order in which it looks: a repeat of a
\* recorded result is recognised before the lease is looked at.  Every row has
\* verify_status 'passed' or 'skipped', so the `!= 'failed'` of the query
\* excludes none.
SubmitStatus(w, c, sha) ==
    CASE state[w] = "absent" -> "unknown"
      [] state[w] # "absent" /\ Recorded(w, sha) -> "duplicate"
      [] /\ state[w] # "absent"
         /\ ~Recorded(w, sha)
         /\ ~MayResolve(w, c) -> "conflict"
      [] OTHER -> "accepted"

\* The accepted case; the other three roll back.  The holder and the deadline
\* stay in the row.
Submit(w, c, sha) ==
    /\ SubmitStatus(w, c, sha) = "accepted"
    /\ state' = [state EXCEPT ![w] = "submitted"]
    /\ submissions' = Append(submissions, [workunit |-> w, sha256 |-> sha, client |-> c])
    /\ UNCHANGED <<attempt_count, lease_vars>>

\* Whether a lost lease is the last one; two off-by-one forms.
LastAttemptTooLate(w) == attempt_count[w] >= MaxAttempts
LastAttemptTooEarly(w) == attempt_count[w] + 2 >= MaxAttempts
LastAttempt(w) == attempt_count[w] + 1 >= MaxAttempts

\* The leases on W are lost and charged: the last attempt poisons the workunit
\* (attempt_count, holder and deadline keep their values), an earlier one makes
\* it available again.
ChargeAttempt(W) ==
    LET requeued == {w \in W : ~LastAttempt(w)}
    IN  /\ state' = [w \in Coeffs |-> IF w \notin W THEN state[w]
                                      ELSE IF w \in requeued THEN "available"
                                      ELSE "poisoned"]
        /\ attempt_count' = [w \in Coeffs |-> IF w \in requeued
                                              THEN attempt_count[w] + 1
                                              ELSE attempt_count[w]]
        /\ client_id' = [w \in Coeffs |-> IF w \in requeued THEN NULL ELSE client_id[w]]
        /\ lease_left' = [w \in Coeffs |-> IF w \in requeued THEN NULL ELSE lease_left[w]]
        /\ UNCHANGED submissions

\* The upload failed its check.  Does nothing unless c speaks for the holder.
FailWorkunit(w, c) ==
    /\ MayResolve(w, c)
    /\ ChargeAttempt({w})

\* Two faulty forms of Release: it costs an attempt; the holder and the deadline stay
\* in the row.
ReleaseCharging(w, c) ==
    /\ state[w] = "leased"
    /\ client_id[w] = c
    /\ ChargeAttempt({w})

ReleaseKeepingLease(w, c) ==
    /\ state[w] = "leased"
    /\ client_id[w] = c
    /\ state' = [state EXCEPT ![w] = "available"]
    /\ UNCHANGED <<attempt_count, lease_vars, submissions>>

\* The client gives the lease back; no attempt is charged.
Release(w, c) ==
    /\ state[w] = "leased"
    /\ client_id[w] = c
    /\ state' = [state EXCEPT ![w] = "available"]
    /\ client_id' = [client_id EXCEPT ![w] = NULL]
    /\ lease_left' = [lease_left EXCEPT ![w] = NULL]
    /\ UNCHANGED <<attempt_count, submissions>>

\* Faulty SweepExpired: an expired lease is taken for a released one.
SweepUncharged ==
    /\ Expired # {}
    /\ state' = [w \in Coeffs |-> IF w \in Expired THEN "available" ELSE state[w]]
    /\ client_id' = [w \in Coeffs |-> IF w \in Expired THEN NULL ELSE client_id[w]]
    /\ lease_left' = [w \in Coeffs |-> IF w \in Expired THEN NULL ELSE lease_left[w]]
    /\ UNCHANGED <<attempt_count, submissions>>

\* The sweep takes back every expired lease in one transaction.
SweepExpired ==
    /\ Expired # {}
    /\ ChargeAttempt(Expired)

\* One second of int(time.time()).
Tick ==
    /\ lease_left' = [w \in Coeffs |-> IF lease_left[w] \in 0 .. LeaseSeconds
                                       THEN lease_left[w] - 1 ELSE lease_left[w]]
    /\ UNCHANGED <<state, attempt_count, client_id, submissions>>

Next ==
    \/ \E listed \in SUBSET Coeffs : ExtendJob(listed)
    \/ \E c \in Clients : Lease(c)
    \/ \E w \in Coeffs, c \in Clients, sha \in Digests : Submit(w, c, sha)
    \/ \E w \in Coeffs, c \in Clients : FailWorkunit(w, c)
    \/ \E w \in Coeffs, c \in Clients : Release(w, c)
    \/ SweepExpired
    \/ Tick

Spec == Init /\ [][Next]_vars

\* The sweep thread of create_app runs for ever, catches every exception and
\* takes a lock that no one holds across I/O; the clock does not stop.
FairSpec == Spec /\ WF_vars(SweepExpired) /\ WF_vars(Tick)

-----------------------------------------------------------------------------
TypeOK ==
    /\ state \in [Coeffs -> States]
    /\ attempt_count \in [Coeffs -> 0 .. MaxAttempts - 1]
    /\ client_id \in [Coeffs -> Clients \cup {NULL}]
    /\ lease_left \in [Coeffs -> (-1 .. LeaseSeconds) \cup {NULL}]
    /\ submissions \in Seq(Rows)

\* A workunit is 'submitted' exactly when one result is recorded for it, and
\* never are there two: no schedule of expiry, re-lease, retry and late answer
\* of db.submit (db.py:147-170) records a second result of a coefficient or
\* loses the one that closed it.
OneResult ==
    /\ \A w \in Coeffs :
          state[w] = "submitted" <=> \E i \in DOMAIN submissions : submissions[i].workunit = w
    /\ \A i, j \in DOMAIN submissions :
          submissions[i].workunit = submissions[j].workunit => i = j

\* The recorded result is credited to the client that held the lease when it
\* came (or to a caller that gave no id): the check at db.py:157 against a
\* re-lease to someone else in the meantime.
CreditToHolder ==
    \A i \in DOMAIN submissions :
        submissions[i].client \in {client_id[submissions[i].workunit], Anonymous}

\* A leased workunit has a holder and a deadline, so the sweep can always get
\* it back; an available one has neither, so no late call of a former holder
\* finds itself named (the NULLs of db.py:191-195, 203-207 and 228-233).
LeaseRecorded ==
    \A w \in Coeffs :
        /\ state[w] \in {"leased", "submitted", "poisoned"} =>
              client_id[w] # NULL /\ lease_left[w] # NULL
        /\ state[w] \in {"absent", "available"} =>
              client_id[w] = NULL /\ lease_left[w] = NULL

\* A workunit is poisoned only when its attempts are used up to the last one,
\* and a workunit that is not in the job was never tried.
PoisonedWhenUsedUp ==
    \A w \in Coeffs :
        /\ state[w] = "poisoned" => attempt_count[w] = MaxAttempts - 1
        /\ state[w] = "absent" => attempt_count[w] = 0

\* Submitted and poisoned are final, a listed coefficient never disappears,
\* and a recorded row is never changed or removed: no sweep, late failure or
\* extension of the job reopens what is settled (db.py:63-87, 183-197, 217-234).
SettledStep ==
    /\ \A w \in Coeffs :
          /\ state[w] \in {"submitted", "poisoned"} => state'[w] = state[w]
          /\ state[w] # "absent" => state'[w] # "absent"
    /\ \A i \in DOMAIN submissions :
          i \in DOMAIN submissions' /\ submissions'[i] = submissions[i]
SettledIsFinal == [][SettledStep]_vars

\* A lease that goes on keeps its holder and is never prolonged: it passes to
\* another client only by way of 'available' (db.py:113-127 takes none but
\* available rows).
LeaseStep ==
    \A w \in Coeffs :
        state[w] = "leased" /\ state'[w] = "leased" =>
            client_id'[w] = client_id[w] /\ lease_left'[w] <= lease_left[w]
LeaseNotStolen == [][LeaseStep]_vars

\* No lease is held for ever: a client that died, or whose /release was lost,
\* loses the workunit to the sweep (app.py:73-84).
LeaseEnds == \A w \in Coeffs : state[w] = "leased" ~> state[w] # "leased"

-----------------------------------------------------------------------------
\* What the table promises to the job, without leases and clients (Coverage).
ResultIn(rows, w) ==
    IF \E i \in DOMAIN rows : rows[i].workunit = w
    THEN rows[CHOOSE i \in DOMAIN rows : rows[i].workunit = w].sha256
    ELSE NULL

Fate(w) ==
    CASE state[w] = "absent" -> "unlisted"
      [] state[w] \in {"available", "leased"} -> "open"
      [] state[w] = "submitted" -> "covered"
      [] state[w] = "poisoned" -> "given_up"

Tries(w) == IF state[w] = "poisoned" THEN attempt_count[w] + 1 ELSE attempt_count[w]

CoverageOf == INSTANCE Coverage WITH
    Coeffs <- Coeffs, Results <- Digests, Budget <- MaxAttempts, None <- NULL,
    fate <- [w \in Coeffs |-> Fate(w)],
    tries <- [w \in Coeffs |-> Tries(w)],
    result <- [w \in Coeffs |-> ResultIn(submissions, w)]

\* Refinement: the lease table implements the coverage of the job.
CoverageSpec == CoverageOf!Spec
=============================================================================
