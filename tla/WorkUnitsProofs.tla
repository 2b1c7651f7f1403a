-------------------------- MODULE WorkUnitsProofs --------------------------
(***************************************************************************)
(* What WorkUnits guarantees for every set of coefficients, clients and    *)
(* digests and every max_attempts and lease_seconds.  The inductive        *)
(* invariant is the conjunction of the invariants that TLC checks; the     *)
(* action properties and the refinement of Coverage follow from it.        *)
(***************************************************************************)
EXTENDS WorkUnits, TLAPS

IInv ==
    /\ TypeOK
    /\ OneResult
    /\ CreditToHolder
    /\ LeaseRecorded
    /\ PoisonedWhenUsedUp

USE CoeffsAssumption, AttemptsAssumption, LeaseAssumption, NullAssumption

-----------------------------------------------------------------------------
(***************************************************************************)
(* What one step may do.  A lost lease, whether by a failed check or by    *)
(* the sweep, is the same step of the tables: ChargeAttempt on a set of    *)
(* leased workunits.                                                       *)
(***************************************************************************)
LEMMA StepCases ==
    ASSUME Next
    PROVE  \/ \E listed \in SUBSET Coeffs : ExtendJob(listed)
           \/ \E c \in Clients : Lease(c)
           \/ \E w \in Coeffs, c \in Clients, sha \in Digests : Submit(w, c, sha)
           \/ \E W \in SUBSET Coeffs :
                 (\A w \in W : state[w] = "leased") /\ ChargeAttempt(W)
           \/ \E w \in Coeffs, c \in Clients : Release(w, c)
           \/ Tick
<1>1. ASSUME NEW w \in Coeffs, NEW c \in Clients, FailWorkunit(w, c)
      PROVE  state[w] = "leased" /\ ChargeAttempt({w})
  BY <1>1 DEF FailWorkunit, MayResolve
<1>2. ASSUME SweepExpired
      PROVE  /\ Expired \in SUBSET Coeffs
             /\ \A w \in Expired : state[w] = "leased"
             /\ ChargeAttempt(Expired)
  BY <1>2 DEF SweepExpired, Expired
<1>3. ASSUME NEW w \in Coeffs PROVE {w} \in SUBSET Coeffs
  OBVIOUS
<1> QED BY <1>1, <1>2, <1>3 DEF Next

\* A row of the submissions has its types: what db.submit appended.
LEMMA RowTypes ==
    ASSUME TypeOK
    PROVE  /\ Len(submissions) \in Nat
           /\ DOMAIN submissions = 1 .. Len(submissions)
           /\ \A i \in DOMAIN submissions :
                 submissions[i].workunit \in Coeffs /\ submissions[i].sha256 \in Digests
<1>1. submissions \in Seq(Rows)
  BY DEF TypeOK
<1>2. \A i \in DOMAIN submissions : submissions[i] \in Rows
  BY <1>1
<1> QED BY <1>1, <1>2 DEF Rows

\* A submit is accepted only for a leased workunit and only from its holder
\* (or from a caller without an id).
LEMMA AcceptedOnlyIfHeld ==
    ASSUME NEW w \in Coeffs, NEW c \in Clients, NEW sha \in Digests, Submit(w, c, sha)
    PROVE  /\ state[w] = "leased"
           /\ c = Anonymous \/ client_id[w] = c
<1>1. SubmitStatus(w, c, sha) = "accepted"
  BY DEF Submit
<1>2. CASE state[w] = "absent"
  BY <1>1, <1>2 DEF SubmitStatus
<1>3. CASE state[w] # "absent" /\ Recorded(w, sha)
  BY <1>1, <1>3 DEF SubmitStatus
<1>4. CASE state[w] # "absent" /\ ~Recorded(w, sha) /\ ~MayResolve(w, c)
  BY <1>1, <1>4 DEF SubmitStatus
<1>5. CASE MayResolve(w, c)
  BY <1>5 DEF MayResolve, SpeaksFor
<1> QED BY <1>2, <1>3, <1>4, <1>5

-----------------------------------------------------------------------------
\* The tables of a fresh job (db.init_job) satisfy the invariant.
LEMMA InitInv == Init => IInv
<1> SUFFICES ASSUME Init PROVE IInv
  OBVIOUS
<1> USE DEF Init
<1>1. TypeOK
  BY DEF TypeOK, States
<1>2. OneResult
  BY DEF OneResult
<1>3. CreditToHolder
  BY DEF CreditToHolder
<1>4. LeaseRecorded
  BY DEF LeaseRecorded
<1>5. PoisonedWhenUsedUp
  BY DEF PoisonedWhenUsedUp
<1> QED BY <1>1, <1>2, <1>3, <1>4, <1>5 DEF IInv

\* Steps that leave the submissions alone preserve OneResult and CreditToHolder
\* if they neither make a workunit submitted nor unmake one, and keep the holder
\* of the submitted ones.
LEMMA RowsUntouched ==
    ASSUME IInv, submissions' = submissions,
           \A w \in Coeffs : state'[w] = "submitted" <=> state[w] = "submitted",
           \A w \in Coeffs : state[w] = "submitted" => client_id'[w] = client_id[w]
    PROVE  OneResult' /\ CreditToHolder'
<1>1. OneResult'
  BY DEF IInv, OneResult
<1>2. ASSUME NEW i \in DOMAIN submissions
      PROVE  submissions[i].workunit \in Coeffs /\ state[submissions[i].workunit] = "submitted"
  <2>1. submissions[i].workunit \in Coeffs
    BY RowTypes DEF IInv
  <2> QED BY <2>1 DEF IInv, OneResult
<1>3. CreditToHolder'
  BY <1>2 DEF IInv, CreditToHolder
<1> QED BY <1>1, <1>3

\* db.extend_job preserves the invariant: it only makes absent rows available.
LEMMA ExtendJobInv ==
    ASSUME IInv, NEW listed \in SUBSET Coeffs, ExtendJob(listed)
    PROVE  IInv'
<1> USE DEF IInv, ExtendJob, lease_vars
<1>1. TypeOK'
  BY DEF TypeOK, States
<1>2. OneResult' /\ CreditToHolder'
  BY RowsUntouched DEF TypeOK
<1>3. LeaseRecorded'
  BY DEF LeaseRecorded, TypeOK
<1>4. PoisonedWhenUsedUp'
  BY DEF PoisonedWhenUsedUp, TypeOK
<1> QED BY <1>1, <1>2, <1>3, <1>4

\* db.lease preserves the invariant: the row gets a holder and a deadline.
LEMMA LeaseInv ==
    ASSUME IInv, NEW c \in Clients, Lease(c)
    PROVE  IInv'
<1> PICK w \in Coeffs :
        /\ state[w] = "available"
        /\ state' = [state EXCEPT ![w] = "leased"]
        /\ client_id' = [client_id EXCEPT ![w] = c]
        /\ lease_left' = [lease_left EXCEPT ![w] = LeaseSeconds]
        /\ UNCHANGED <<attempt_count, submissions>>
  BY DEF Lease, LeaseTo, Leasable
<1> USE DEF IInv
<1>1. TypeOK'
  BY DEF TypeOK, States
<1>2. OneResult' /\ CreditToHolder'
  BY RowsUntouched DEF TypeOK
<1>3. LeaseRecorded'
  BY DEF LeaseRecorded, TypeOK
<1>4. PoisonedWhenUsedUp'
  BY DEF PoisonedWhenUsedUp, TypeOK
<1> QED BY <1>1, <1>2, <1>3, <1>4

\* db.submit preserves the invariant: the row that was leased is closed by the
\* first result of its workunit, credited to its holder.
LEMMA SubmitInv ==
    ASSUME IInv, NEW w \in Coeffs, NEW c \in Clients, NEW sha \in Digests, Submit(w, c, sha)
    PROVE  IInv'
<1> DEFINE row == [workunit |-> w, sha256 |-> sha, client |-> c]
<1>1. /\ state[w] = "leased"
      /\ c = Anonymous \/ client_id[w] = c
  BY AcceptedOnlyIfHeld
<1>2. /\ state' = [state EXCEPT ![w] = "submitted"]
      /\ submissions' = Append(submissions, row)
      /\ UNCHANGED <<attempt_count, client_id, lease_left>>
  BY DEF Submit, lease_vars
<1> USE DEF IInv
<1>3. TypeOK'
  BY <1>1, <1>2 DEF TypeOK, States, Rows
<1>4. /\ Len(submissions') = Len(submissions) + 1
      /\ DOMAIN submissions = 1 .. Len(submissions)
      /\ DOMAIN submissions' = 1 .. Len(submissions) + 1
      /\ \A i \in DOMAIN submissions : submissions'[i] = submissions[i]
      /\ submissions'[Len(submissions) + 1] = row
      /\ Len(submissions) \in Nat
  BY <1>2 DEF TypeOK, Rows
<1>5. \A i \in DOMAIN submissions : submissions[i].workunit # w
  BY <1>1 DEF OneResult
<1>6. OneResult'
  <2>1. ASSUME NEW v \in Coeffs
        PROVE  (state[v] = "submitted" \/ v = w)
                  <=> \E i \in DOMAIN submissions' : submissions'[i].workunit = v
    <3>1. CASE v = w
      BY <1>4, <3>1
    <3>2. CASE v # w
      BY <1>4, <3>2 DEF OneResult
    <3> QED BY <3>1, <3>2
  <2>2. \A v \in Coeffs : state'[v] = "submitted" <=> state[v] = "submitted" \/ v = w
    BY <1>2 DEF TypeOK
  <2>3. \A i, j \in DOMAIN submissions' :
            submissions'[i].workunit = submissions'[j].workunit => i = j
    BY <1>4, <1>5 DEF OneResult
  <2> QED BY <2>1, <2>2, <2>3 DEF OneResult
<1>7. CreditToHolder'
  BY <1>1, <1>2, <1>4 DEF CreditToHolder
<1>8. LeaseRecorded'
  BY <1>1, <1>2 DEF LeaseRecorded, TypeOK
<1>9. PoisonedWhenUsedUp'
  BY <1>1, <1>2 DEF PoisonedWhenUsedUp, TypeOK
<1> QED BY <1>3, <1>6, <1>7, <1>8, <1>9

\* Losing leases (db.fail_workunit, db.sweep_expired) preserves the invariant.
LEMMA ChargeAttemptInv ==
    ASSUME IInv, NEW W \in SUBSET Coeffs, \A w \in W : state[w] = "leased", ChargeAttempt(W)
    PROVE  IInv'
<1> USE DEF IInv, ChargeAttempt, LastAttempt
<1>1. TypeOK'
  BY DEF TypeOK, States
<1>2. OneResult' /\ CreditToHolder'
  BY RowsUntouched DEF TypeOK
<1>3. LeaseRecorded'
  BY DEF LeaseRecorded, TypeOK
<1>4. PoisonedWhenUsedUp'
  BY DEF PoisonedWhenUsedUp, TypeOK
<1> QED BY <1>1, <1>2, <1>3, <1>4

\* db.release preserves the invariant: holder and deadline go with the lease.
LEMMA ReleaseInv ==
    ASSUME IInv, NEW w \in Coeffs, NEW c \in Clients, Release(w, c)
    PROVE  IInv'
<1> USE DEF IInv, Release
<1>1. TypeOK'
  BY DEF TypeOK, States
<1>2. OneResult' /\ CreditToHolder'
  BY RowsUntouched DEF TypeOK
<1>3. LeaseRecorded'
  BY DEF LeaseRecorded, TypeOK
<1>4. PoisonedWhenUsedUp'
  BY DEF PoisonedWhenUsedUp, TypeOK
<1> QED BY <1>1, <1>2, <1>3, <1>4

\* The passing of time preserves the invariant.
LEMMA TickInv ==
    ASSUME IInv, Tick
    PROVE  IInv'
<1> USE DEF IInv, Tick
<1>1. TypeOK'
  BY DEF TypeOK
<1>2. OneResult' /\ CreditToHolder'
  BY RowsUntouched
<1>3. LeaseRecorded'
  BY DEF LeaseRecorded, TypeOK
<1>4. PoisonedWhenUsedUp'
  BY DEF PoisonedWhenUsedUp
<1> QED BY <1>1, <1>2, <1>3, <1>4

\* Every step preserves the invariant.
LEMMA NextInv == IInv /\ [Next]_vars => IInv'
<1> SUFFICES ASSUME IInv, [Next]_vars PROVE IInv'
  OBVIOUS
<1>1. CASE Next
  BY <1>1, StepCases, ExtendJobInv, LeaseInv, SubmitInv, ChargeAttemptInv, ReleaseInv, TickInv
<1>2. CASE UNCHANGED vars
  BY <1>2 DEF vars, IInv, TypeOK, OneResult, CreditToHolder, LeaseRecorded, PoisonedWhenUsedUp
<1> QED BY <1>1, <1>2

\* The invariant holds in every reachable state of the tables.
LEMMA Invariance == Spec => []IInv
BY InitInv, NextInv, PTL DEF Spec

\* Every variable keeps its type; attempt_count stays below max_attempts.
THEOREM TypeCorrect == Spec => []TypeOK
BY Invariance, PTL DEF IInv

\* Whatever the schedule of expiry, re-lease, retry and late answer, a workunit
\* is submitted exactly when one result is recorded for it, and never two.
THEOREM OneResultAlways == Spec => []OneResult
BY Invariance, PTL DEF IInv

\* The recorded result is credited to the holder of the lease at that moment.
THEOREM CreditAlways == Spec => []CreditToHolder
BY Invariance, PTL DEF IInv

\* Every leased row can be swept, and no available row names a holder.
THEOREM LeaseRecordedAlways == Spec => []LeaseRecorded
BY Invariance, PTL DEF IInv

\* A workunit is poisoned only at its last attempt.
THEOREM PoisonedAlways == Spec => []PoisonedWhenUsedUp
BY Invariance, PTL DEF IInv

-----------------------------------------------------------------------------
(***************************************************************************)
(* The action properties, each from the invariant and the cases of a step. *)
(***************************************************************************)
\* No step reopens a settled workunit or changes a recorded row.
LEMMA SettledStepHolds == IInv /\ [Next]_vars => SettledStep
<1> SUFFICES ASSUME IInv, [Next]_vars PROVE SettledStep
  OBVIOUS
<1> USE DEF SettledStep, IInv, TypeOK
<1>1. ASSUME NEW listed \in SUBSET Coeffs, ExtendJob(listed) PROVE SettledStep
  BY <1>1 DEF ExtendJob
<1>2. ASSUME NEW c \in Clients, Lease(c) PROVE SettledStep
  BY <1>2 DEF Lease, LeaseTo, Leasable
<1>3. ASSUME NEW w \in Coeffs, NEW c \in Clients, NEW sha \in Digests, Submit(w, c, sha)
      PROVE  SettledStep
  <2>1. state[w] = "leased"
    BY <1>3, AcceptedOnlyIfHeld
  <2>2. \A i \in DOMAIN submissions :
           i \in DOMAIN submissions' /\ submissions'[i] = submissions[i]
    BY <1>3, RowTypes DEF Submit, Rows
  <2>3. state' = [state EXCEPT ![w] = "submitted"]
    BY <1>3 DEF Submit
  <2> QED BY <2>1, <2>2, <2>3
<1>4. ASSUME NEW W \in SUBSET Coeffs, \A w \in W : state[w] = "leased", ChargeAttempt(W)
      PROVE  SettledStep
  BY <1>4 DEF ChargeAttempt
<1>5. ASSUME NEW w \in Coeffs, NEW c \in Clients, Release(w, c) PROVE SettledStep
  BY <1>5 DEF Release
<1>6. ASSUME Tick PROVE SettledStep
  BY <1>6 DEF Tick
<1>7. CASE UNCHANGED vars
  BY <1>7 DEF vars
<1> QED BY <1>1, <1>2, <1>3, <1>4, <1>5, <1>6, <1>7, StepCases

\* Submitted and poisoned are final, and recorded rows are never changed.
THEOREM SettledForEver == Spec => SettledIsFinal
<1>1. IInv /\ [Next]_vars => [SettledStep]_vars
  BY SettledStepHolds
<1> QED BY <1>1, Invariance, PTL DEF Spec, SettledIsFinal

\* No step passes a lease on or prolongs it.
LEMMA LeaseStepHolds == IInv /\ [Next]_vars => LeaseStep
<1> SUFFICES ASSUME IInv, [Next]_vars, NEW w \in Coeffs,
                    state[w] = "leased", state'[w] = "leased"
             PROVE  client_id'[w] = client_id[w] /\ lease_left'[w] <= lease_left[w]
  BY DEF LeaseStep
<1>0. lease_left[w] \in Int
  BY DEF IInv, TypeOK, LeaseRecorded
<1> USE DEF IInv, TypeOK
<1>1. ASSUME NEW listed \in SUBSET Coeffs, ExtendJob(listed)
      PROVE  UNCHANGED <<client_id, lease_left>>
  BY <1>1 DEF ExtendJob, lease_vars
<1>2. ASSUME NEW c \in Clients, Lease(c)
      PROVE  client_id'[w] = client_id[w] /\ lease_left'[w] = lease_left[w]
  BY <1>2 DEF Lease, LeaseTo, Leasable
<1>3. ASSUME NEW v \in Coeffs, NEW c \in Clients, NEW sha \in Digests, Submit(v, c, sha)
      PROVE  UNCHANGED <<client_id, lease_left>>
  BY <1>3 DEF Submit, lease_vars
<1>4. ASSUME NEW W \in SUBSET Coeffs, \A v \in W : state[v] = "leased", ChargeAttempt(W)
      PROVE  client_id'[w] = client_id[w] /\ lease_left'[w] = lease_left[w]
  BY <1>4 DEF ChargeAttempt
<1>5. ASSUME NEW v \in Coeffs, NEW c \in Clients, Release(v, c)
      PROVE  client_id'[w] = client_id[w] /\ lease_left'[w] = lease_left[w]
  BY <1>5 DEF Release
<1>6. ASSUME Tick
      PROVE  client_id'[w] = client_id[w] /\ lease_left'[w] <= lease_left[w]
  BY <1>0, <1>6 DEF Tick
<1>7. CASE UNCHANGED vars
  BY <1>0, <1>7 DEF vars
<1> QED BY <1>0, <1>1, <1>2, <1>3, <1>4, <1>5, <1>6, <1>7, StepCases

\* A lease that goes on keeps its holder and is never prolonged.
THEOREM LeaseNeverStolen == Spec => LeaseNotStolen
<1>1. IInv /\ [Next]_vars => [LeaseStep]_vars
  BY LeaseStepHolds
<1> QED BY <1>1, Invariance, PTL DEF Spec, LeaseNotStolen

-----------------------------------------------------------------------------
(***************************************************************************)
(* WorkUnits implements Coverage: an extension lists, an accepted submit   *)
(* covers, a charged attempt fails, every other step stutters.             *)
(***************************************************************************)
\* The result of a workunit is the digest of its only row.
LEMMA ResultOfRow ==
    ASSUME NEW rows, NEW i \in DOMAIN rows,
           \A j \in DOMAIN rows : rows[j].workunit = rows[i].workunit => j = i
    PROVE  ResultIn(rows, rows[i].workunit) = rows[i].sha256
<1>1. (CHOOSE j \in DOMAIN rows : rows[j].workunit = rows[i].workunit) = i
  OBVIOUS
<1> QED BY <1>1 DEF ResultIn

\* A workunit without a row has no result.
LEMMA NoResult ==
    ASSUME NEW rows, NEW w, \A i \in DOMAIN rows : rows[i].workunit # w
    PROVE  ResultIn(rows, w) = NULL
BY DEF ResultIn

\* A fresh job starts with a coverage that is open and empty.
LEMMA InitCoverage == Init => CoverageOf!Init
<1> SUFFICES ASSUME Init PROVE CoverageOf!Init
  OBVIOUS
<1>1. PICK listed \in SUBSET Coeffs :
         state = [w \in Coeffs |-> IF w \in listed THEN "available" ELSE "absent"]
  BY DEF Init
<1>2. [w \in Coeffs |-> Fate(w)] \in [Coeffs -> {"unlisted", "open"}]
  BY <1>1 DEF Fate
<1>3. [w \in Coeffs |-> Tries(w)] = [w \in Coeffs |-> 0]
  BY <1>1 DEF Tries, Init
<1>4. [w \in Coeffs |-> ResultIn(submissions, w)] = [w \in Coeffs |-> NULL]
  BY NoResult DEF Init
<1> QED BY <1>2, <1>3, <1>4 DEF CoverageOf!Init

\* Steps that keep the fate and the tries of every workunit, and the rows, are
\* not seen by the coverage: grants, releases, time.
LEMMA StutterCoverage ==
    ASSUME submissions' = submissions,
           \A w \in Coeffs : Fate(w)' = Fate(w) /\ Tries(w)' = Tries(w)
    PROVE  UNCHANGED CoverageOf!vars
<1> QED BY DEF CoverageOf!vars

\* db.extend_job lists the coefficients that were absent.
LEMMA ExtendJobLists ==
    ASSUME TypeOK, PoisonedWhenUsedUp, NEW listed \in SUBSET Coeffs, ExtendJob(listed)
    PROVE  CoverageOf!List({w \in listed : state[w] = "absent"})
<1> DEFINE W == {w \in listed : state[w] = "absent"}
<1>1. \A w \in W : Fate(w) = "unlisted"
  BY DEF Fate
<1>2. \A w \in Coeffs : Fate(w)' = IF w \in W THEN "open" ELSE Fate(w)
  BY DEF Fate, ExtendJob, TypeOK, States
<1>3. \A w \in Coeffs : Tries(w)' = Tries(w)
  BY DEF Tries, ExtendJob, TypeOK
<1>4. submissions' = submissions
  BY DEF ExtendJob
<1> QED BY <1>1, <1>2, <1>3, <1>4 DEF CoverageOf!List

\* An accepted db.submit covers its workunit with its result.
LEMMA SubmitCovers ==
    ASSUME IInv, NEW w \in Coeffs, NEW c \in Clients, NEW sha \in Digests,
           Submit(w, c, sha), IInv'
    PROVE  CoverageOf!Cover(w, sha)
<1>1. state[w] = "leased" /\ state' = [state EXCEPT ![w] = "submitted"]
  BY AcceptedOnlyIfHeld DEF Submit
<1>2. Fate(w) = "open" /\ Fate(w)' = "covered"
  BY <1>1 DEF Fate, IInv, TypeOK
<1>3. \A v \in Coeffs \ {w} : Fate(v)' = Fate(v)
  BY <1>1 DEF Fate, IInv, TypeOK
<1>4. \A v \in Coeffs : Tries(v)' = Tries(v)
  BY <1>1 DEF Tries, Submit, IInv, TypeOK
<1>5. /\ DOMAIN submissions' = 1 .. Len(submissions) + 1
      /\ \A i \in DOMAIN submissions :
            i \in DOMAIN submissions' /\ submissions'[i] = submissions[i]
      /\ Len(submissions) + 1 \in DOMAIN submissions'
      /\ submissions'[Len(submissions) + 1].workunit = w
      /\ submissions'[Len(submissions) + 1].sha256 = sha
      /\ DOMAIN submissions = 1 .. Len(submissions)
      /\ Len(submissions) \in Nat
  BY RowTypes DEF Submit, IInv
<1>6. ResultIn(submissions', w) = sha
  BY <1>5, ResultOfRow DEF IInv, OneResult
<1>7. ASSUME NEW v \in Coeffs \ {w}
      PROVE  ResultIn(submissions', v) = ResultIn(submissions, v)
  <2>1. CASE \E i \in DOMAIN submissions : submissions[i].workunit = v
    <3> PICK i \in DOMAIN submissions : submissions[i].workunit = v
      BY <2>1
    <3>1. ResultIn(submissions, v) = submissions[i].sha256
      BY ResultOfRow DEF IInv, OneResult
    <3>2. ResultIn(submissions', v) = submissions'[i].sha256
      <4>1. i \in DOMAIN submissions' /\ submissions'[i].workunit = v
        BY <1>5
      <4>2. \A j \in DOMAIN submissions' :
               submissions'[j].workunit = submissions'[i].workunit => j = i
        BY <4>1 DEF IInv, OneResult
      <4> QED BY <4>1, <4>2, ResultOfRow
    <3> QED BY <1>5, <3>1, <3>2
  <2>2. CASE \A i \in DOMAIN submissions : submissions[i].workunit # v
    <3>1. \A i \in DOMAIN submissions' : submissions'[i].workunit # v
      BY <1>5, <1>7, <2>2
    <3> QED BY <2>2, <3>1, NoResult
  <2> QED BY <2>1, <2>2
<1> QED BY <1>2, <1>3, <1>4, <1>6, <1>7 DEF CoverageOf!Cover

\* Losing the leases on W fails one try of each workunit of W.
LEMMA ChargeAttemptFails ==
    ASSUME IInv, NEW W \in SUBSET Coeffs, \A w \in W : state[w] = "leased", ChargeAttempt(W)
    PROVE  CoverageOf!Fail(W)
<1> USE DEF IInv, TypeOK, ChargeAttempt, LastAttempt
<1>1. \A w \in W : Fate(w) = "open"
  BY DEF Fate
<1>2. \A w \in Coeffs : Tries(w)' = IF w \in W THEN Tries(w) + 1 ELSE Tries(w)
  BY DEF Tries
<1>3. \A w \in Coeffs : Fate(w)' = IF w \in W /\ Tries(w) + 1 = MaxAttempts
                                   THEN "given_up" ELSE Fate(w)
  BY DEF Fate, Tries, States
<1>4. submissions' = submissions
  OBVIOUS
<1> QED BY <1>1, <1>2, <1>3, <1>4 DEF CoverageOf!Fail

\* Every step of the tables is a step of the coverage or a stutter.
LEMMA NextCoverage == IInv /\ [Next]_vars => [CoverageOf!Next]_(CoverageOf!vars)
<1> SUFFICES ASSUME IInv, [Next]_vars PROVE CoverageOf!Next \/ UNCHANGED CoverageOf!vars
  OBVIOUS
<1>1. ASSUME NEW listed \in SUBSET Coeffs, ExtendJob(listed) PROVE CoverageOf!Next
  <2>1. {w \in listed : state[w] = "absent"} \in SUBSET Coeffs
    OBVIOUS
  <2> QED BY <1>1, <2>1, ExtendJobLists DEF IInv, CoverageOf!Next
<1>2. ASSUME NEW c \in Clients, Lease(c) PROVE UNCHANGED CoverageOf!vars
  <2>1. \A w \in Coeffs : Fate(w)' = Fate(w) /\ Tries(w)' = Tries(w)
    BY <1>2 DEF Lease, LeaseTo, Leasable, IInv, TypeOK, Fate, Tries
  <2> QED BY <1>2, <2>1, StutterCoverage DEF Lease, LeaseTo
<1>3. ASSUME NEW w \in Coeffs, NEW c \in Clients, NEW sha \in Digests, Submit(w, c, sha)
      PROVE  CoverageOf!Next
  BY <1>3, NextInv, SubmitCovers DEF CoverageOf!Next
<1>4. ASSUME NEW W \in SUBSET Coeffs, \A w \in W : state[w] = "leased", ChargeAttempt(W)
      PROVE  CoverageOf!Next
  BY <1>4, ChargeAttemptFails DEF CoverageOf!Next
<1>5. ASSUME NEW w \in Coeffs, NEW c \in Clients, Release(w, c)
      PROVE  UNCHANGED CoverageOf!vars
  <2>1. \A v \in Coeffs : Fate(v)' = Fate(v) /\ Tries(v)' = Tries(v)
    BY <1>5 DEF Release, IInv, TypeOK, Fate, Tries
  <2> QED BY <1>5, <2>1, StutterCoverage DEF Release
<1>6. ASSUME Tick PROVE UNCHANGED CoverageOf!vars
  BY <1>6, StutterCoverage DEF Tick, Fate, Tries
<1>7. CASE UNCHANGED vars
  BY <1>7, StutterCoverage DEF vars, Fate, Tries
<1> QED BY <1>1, <1>2, <1>3, <1>4, <1>5, <1>6, <1>7, StepCases

\* The lease table implements the coverage of the job.
THEOREM ImplementsCoverage == Spec => CoverageSpec
BY InitCoverage, NextCoverage, Invariance, PTL DEF Spec, CoverageSpec, CoverageOf!Spec
=============================================================================
