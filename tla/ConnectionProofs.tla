-------------------------- MODULE ConnectionProofs --------------------------
(***************************************************************************)
(* What the file holds whatever statements raise and however often the     *)
(* server is restarted, for every value of the constants of WorkUnits.     *)
(***************************************************************************)
EXTENDS Connection, WorkUnitsProofs

\* The tables as a record, of which `committed` is one.
IsTables(t) ==
    t = [state |-> t.state, attempt_count |-> t.attempt_count, client_id |-> t.client_id,
         lease_left |-> t.lease_left, submissions |-> t.submissions]

\* Outside a transaction the connection sees what is in the file.
SeesCommitted == ~inTxn => tables = committed

ConnInv ==
    /\ IsTables(committed) /\ inTxn \in BOOLEAN
    /\ committed.submissions \in Seq(Rows)
    /\ SeesCommitted
    /\ AnsweredIsCommitted

-----------------------------------------------------------------------------
(***************************************************************************)
(* A call that begins with the connection in step with the file and ends   *)
(* with a commit is the same call on the file.                             *)
(***************************************************************************)
InStep ==
    /\ state = committed.state /\ attempt_count = committed.attempt_count
    /\ client_id = committed.client_id /\ lease_left = committed.lease_left
    /\ submissions = committed.submissions

LEMMA TablesFields ==
    /\ tables.state = state /\ tables.attempt_count = attempt_count
    /\ tables.client_id = client_id /\ tables.lease_left = lease_left
    /\ tables.submissions = submissions
    /\ IsTables(tables)
BY DEF tables, IsTables

LEMMA InStepOfTables ==
    ASSUME tables = committed
    PROVE  InStep
BY TablesFields DEF InStep

LEMMA InStepAfterCommit ==
    ASSUME committed' = tables'
    PROVE  InStep' /\ IsTables(committed')
<1>1. InStep'
  BY DEF InStep, tables
<1>2. IsTables(committed')
  BY DEF IsTables, tables
<1> QED BY <1>1, <1>2

LEMMA LeaseOnFile ==
    ASSUME InStep, InStep', NEW c \in Clients, Lease(c)
    PROVE  Disk!Next
<1>1. Disk!Lease(c)
  BY DEF InStep, Lease, LeaseTo, Leasable, Disk!Lease, Disk!LeaseTo, Disk!Leasable
<1> QED BY <1>1 DEF Disk!Next

LEMMA ReleaseOnFile ==
    ASSUME InStep, InStep', NEW w \in Coeffs, NEW c \in Clients, Release(w, c)
    PROVE  Disk!Next
<1>1. Disk!Release(w, c)
  BY DEF InStep, Release, lease_vars, Disk!Release, Disk!lease_vars
<1> QED BY <1>1 DEF Disk!Next

LEMMA SubmitOnFile ==
    ASSUME InStep, InStep', NEW w \in Coeffs, NEW c \in Clients, NEW sha \in Digests,
           Submit(w, c, sha)
    PROVE  Disk!Next
<1>1. Disk!SubmitStatus(w, c, sha) = SubmitStatus(w, c, sha)
  BY DEF InStep, SubmitStatus, Recorded, MayResolve, SpeaksFor,
         Disk!SubmitStatus, Disk!Recorded, Disk!MayResolve, Disk!SpeaksFor
<1>2. Disk!Submit(w, c, sha)
  BY <1>1 DEF InStep, Submit, lease_vars, Disk!Submit, Disk!lease_vars
<1> QED BY <1>2 DEF Disk!Next

LEMMA ChargeOnFile ==
    ASSUME InStep, InStep', NEW W \in SUBSET Coeffs, ChargeAttempt(W)
    PROVE  Disk!ChargeAttempt(W)
BY DEF InStep, ChargeAttempt, LastAttempt, Disk!ChargeAttempt, Disk!LastAttempt

LEMMA FailOnFile ==
    ASSUME InStep, InStep', NEW w \in Coeffs, NEW c \in Clients, FailWorkunit(w, c)
    PROVE  Disk!Next
<1>1. Disk!MayResolve(w, c)
  BY DEF InStep, FailWorkunit, MayResolve, SpeaksFor, Disk!MayResolve, Disk!SpeaksFor
<1>2. Disk!ChargeAttempt({w})
  BY ChargeOnFile DEF FailWorkunit
<1>3. Disk!FailWorkunit(w, c)
  BY <1>1, <1>2 DEF Disk!FailWorkunit
<1> QED BY <1>3 DEF Disk!Next

LEMMA ExtendOnFile ==
    ASSUME InStep, InStep', NEW listed \in SUBSET Coeffs, ExtendJob(listed)
    PROVE  Disk!Next
<1>1. Disk!ExtendJob(listed)
  BY DEF InStep, ExtendJob, lease_vars, Disk!ExtendJob, Disk!lease_vars
<1> QED BY <1>1 DEF Disk!Next

LEMMA SweepOnFile ==
    ASSUME InStep, InStep', SweepExpired
    PROVE  Disk!Next
<1>1. Disk!Expired = Expired /\ Expired # {} /\ Expired \in SUBSET Coeffs
  BY DEF InStep, SweepExpired, Expired, Disk!Expired
<1>2. Disk!ChargeAttempt(Expired)
  BY <1>1, ChargeOnFile DEF SweepExpired
<1>3. Disk!SweepExpired
  BY <1>1, <1>2 DEF Disk!SweepExpired
<1> QED BY <1>3 DEF Disk!Next

\* A step that leaves the file alone.
LEMMA FileUntouched ==
    ASSUME committed' = committed
    PROVE  UNCHANGED Disk!vars
BY DEF Disk!vars

\* Time passes for the deadlines in the file, whatever the connection sees.
LEMMA SecondOnFile ==
    ASSUME IsTables(committed), Second
    PROVE  Disk!Next /\ IsTables(committed') /\ committed'.submissions = committed.submissions
<1>1. /\ committed'.lease_left = [w \in Coeffs |-> IF committed.lease_left[w] \in 0 .. LeaseSeconds
                                                   THEN committed.lease_left[w] - 1
                                                   ELSE committed.lease_left[w]]
      /\ committed'.state = committed.state
      /\ committed'.attempt_count = committed.attempt_count
      /\ committed'.client_id = committed.client_id
      /\ committed'.submissions = committed.submissions
      /\ IsTables(committed')
  BY DEF IsTables, Second
<1>2. Disk!Tick
  BY <1>1 DEF Disk!Tick
<1> QED BY <1>1, <1>2 DEF Disk!Next

-----------------------------------------------------------------------------
(***************************************************************************)
(* What a step of the connection is for the file: a whole call or nothing. *)
(***************************************************************************)
LEMMA OnFile ==
    ASSUME ConnInv, [ConnNext]_connVars
    PROVE  [Disk!Next]_(Disk!vars)
<1> SUFFICES Disk!Next \/ UNCHANGED Disk!vars
  OBVIOUS
<1> USE DEF ConnInv
<1>0. ~inTxn => InStep
  BY InStepOfTables DEF SeesCommitted
<1>1. ASSUME NEW c \in Clients, Autocommit(Lease(c)) PROVE Disk!Next \/ UNCHANGED Disk!vars
  <2>1. CASE inTxn
    BY <1>1, <2>1, FileUntouched DEF Autocommit
  <2>2. CASE ~inTxn
    BY <1>0, <1>1, <2>2, InStepAfterCommit, LeaseOnFile DEF Autocommit
  <2> QED BY <2>1, <2>2
<1>2. ASSUME NEW w \in Coeffs, NEW c \in Clients, Autocommit(Release(w, c))
      PROVE  Disk!Next \/ UNCHANGED Disk!vars
  <2>1. CASE inTxn
    BY <1>2, <2>1, FileUntouched DEF Autocommit
  <2>2. CASE ~inTxn
    BY <1>0, <1>2, <2>2, InStepAfterCommit, ReleaseOnFile DEF Autocommit
  <2> QED BY <2>1, <2>2
<1>3. ASSUME NEW w \in Coeffs, NEW c \in Clients, NEW sha \in Digests, SubmitCall(w, c, sha)
      PROVE  Disk!Next \/ UNCHANGED Disk!vars
  <2>1. CASE SubmitStatus(w, c, sha) = "accepted"
    BY <1>0, <1>3, <2>1, InStepAfterCommit, SubmitOnFile DEF SubmitCall, Begins, Commit
  <2>2. CASE SubmitStatus(w, c, sha) # "accepted"
    BY <1>3, <2>2, FileUntouched DEF SubmitCall, SeesFile
  <2> QED BY <2>1, <2>2
<1>4. ASSUME NEW w \in Coeffs, NEW c \in Clients, FailCall(w, c)
      PROVE  Disk!Next \/ UNCHANGED Disk!vars
  <2>1. CASE MayResolve(w, c)
    BY <1>0, <1>4, <2>1, InStepAfterCommit, FailOnFile DEF FailCall, Begins, Commit
  <2>2. CASE ~MayResolve(w, c)
    BY <1>4, <2>2, FileUntouched DEF FailCall, SeesFile
  <2> QED BY <2>1, <2>2
<1>5. ASSUME SweepCall PROVE Disk!Next \/ UNCHANGED Disk!vars
  <2>1. CASE Expired # {}
    BY <1>0, <1>5, <2>1, InStepAfterCommit, SweepOnFile DEF SweepCall, Begins, Commit
  <2>2. CASE Expired = {}
    <3>1. UNCHANGED tables /\ committed' = tables' /\ tables = committed
      BY <1>5, <2>2 DEF SweepCall, Begins, Commit, vars, tables, SeesCommitted
    <3> QED BY <3>1, FileUntouched
  <2> QED BY <2>1, <2>2
<1>6. ASSUME NEW listed \in SUBSET Coeffs, ExtendCall(listed) PROVE Disk!Next
  BY <1>0, <1>6, InStepAfterCommit, ExtendOnFile DEF ExtendCall, Commit
<1>7. CASE StatementRaises
  BY <1>7, FileUntouched DEF StatementRaises
<1>8. CASE Restart
  BY <1>8, FileUntouched DEF Restart, SeesFile
<1>9. CASE Second
  BY <1>9, SecondOnFile
<1>10. CASE UNCHANGED connVars
  BY <1>10, FileUntouched DEF connVars
<1> QED BY <1>1, <1>2, <1>3, <1>4, <1>5, <1>6, <1>7, <1>8, <1>9, <1>10 DEF ConnNext

-----------------------------------------------------------------------------
(***************************************************************************)
(* The invariant.                                                          *)
(***************************************************************************)
LEMMA StartInStep == ConnInit => ConnInv
<1> SUFFICES ASSUME ConnInit PROVE ConnInv
  OBVIOUS
<1>1. IsTables(committed) /\ SeesCommitted /\ committed.submissions = <<>>
  BY TablesFields DEF ConnInit, SeesCommitted, Init
<1>2. AnsweredIsCommitted
  BY DEF ConnInit, AnsweredIsCommitted
<1>3. inTxn \in BOOLEAN
  BY Zenon DEF ConnInit
<1>4. <<>> \in Seq(Rows)
  OBVIOUS
<1> QED BY <1>1, <1>2, <1>3, <1>4 DEF ConnInv

\* A call that ends with a commit: rows are only added, and no worker is answered.
LEMMA CommitKeeps ==
    ASSUME ConnInv, committed' = tables', inTxn' \in BOOLEAN, answered' = answered,
           submissions' = committed.submissions
    PROVE  ConnInv'
<1>1. IsTables(committed') /\ committed'.submissions = committed.submissions
  BY InStepAfterCommit DEF InStep
<1>2. SeesCommitted'
  BY DEF SeesCommitted
<1>3. AnsweredIsCommitted'
  BY <1>1 DEF ConnInv, AnsweredIsCommitted
<1> QED BY <1>1, <1>2, <1>3 DEF ConnInv

\* A step that leaves the file alone and either leaves a transaction open or shows the
\* connection the file again.
LEMMA FileKeeps ==
    ASSUME ConnInv, committed' = committed, answered' = answered, inTxn' \in BOOLEAN,
           inTxn' \/ tables' = committed
    PROVE  ConnInv'
BY DEF ConnInv, SeesCommitted, AnsweredIsCommitted

\* After ROLLBACK, or in a new process.
LEMMA SeesFileInStep ==
    ASSUME ConnInv, SeesFile
    PROVE  tables' = committed /\ committed' = committed /\ inTxn' = FALSE
BY DEF ConnInv, IsTables, SeesFile, tables

\* What db.submit answers as recorded is in the file.
LEMMA SubmitKeeps ==
    ASSUME ConnInv, NEW w \in Coeffs, NEW c \in Clients, NEW sha \in Digests,
           SubmitCall(w, c, sha)
    PROVE  ConnInv'
<1>1. InStep /\ ~inTxn
  BY InStepOfTables DEF ConnInv, SeesCommitted, SubmitCall, Begins
<1>2. SubmitStatus(w, c, sha) = "duplicate" => Recorded(w, sha)
  <2>1. CASE state[w] = "absent"
    BY <2>1 DEF SubmitStatus
  <2>2. CASE state[w] # "absent" /\ ~Recorded(w, sha) /\ ~MayResolve(w, c)
    BY <2>2 DEF SubmitStatus
  <2>3. CASE state[w] # "absent" /\ ~Recorded(w, sha) /\ MayResolve(w, c)
    BY <2>3 DEF SubmitStatus
  <2> QED BY <2>1, <2>2, <2>3
<1>3. CASE SubmitStatus(w, c, sha) = "accepted"
  <2> DEFINE row == [workunit |-> w, sha256 |-> sha, client |-> c]
             rows == committed.submissions
  <2>1. /\ committed' = tables' /\ inTxn' = FALSE /\ submissions' = Append(rows, row)
        /\ answered' = answered \cup {<<w, sha>>}
    BY <1>1, <1>3 DEF SubmitCall, Commit, Submit, InStep
  <2>2. IsTables(committed') /\ committed'.submissions = Append(rows, row)
    BY <2>1, InStepAfterCommit DEF InStep
  <2>3. row \in Rows /\ rows \in Seq(Rows)
    BY DEF Rows, ConnInv
  <2> HIDE DEF rows
  <2>4. /\ Append(rows, row) \in Seq(Rows)
        /\ \A i \in DOMAIN rows :
              i \in DOMAIN Append(rows, row) /\ Append(rows, row)[i] = rows[i]
        /\ \E i \in DOMAIN Append(rows, row) : Append(rows, row)[i] = row
    <3>1. Len(rows) + 1 \in DOMAIN Append(rows, row) /\ Append(rows, row)[Len(rows) + 1] = row
      BY <2>3
    <3> HIDE DEF row
    <3> QED BY <2>3, <3>1
  <2>5. AnsweredIsCommitted'
    <3> SUFFICES ASSUME NEW a \in answered'
                 PROVE  \E i \in DOMAIN Append(rows, row) :
                           /\ Append(rows, row)[i].workunit = a[1]
                           /\ Append(rows, row)[i].sha256 = a[2]
      BY <2>2 DEF AnsweredIsCommitted
    <3>1. CASE a \in answered
      BY <2>4, <3>1 DEF ConnInv, AnsweredIsCommitted, rows
    <3>2. CASE a = <<w, sha>>
      BY <2>4, <3>2
    <3> QED BY <2>1, <3>1, <3>2
  <2>6. SeesCommitted'
    BY <2>1 DEF SeesCommitted
  <2> QED BY <2>1, <2>2, <2>4, <2>5, <2>6 DEF ConnInv
<1>4. CASE SubmitStatus(w, c, sha) # "accepted"
  <2>1. tables' = committed /\ committed' = committed /\ inTxn' = FALSE
    BY <1>4, SeesFileInStep DEF SubmitCall
  <2>2. ASSUME NEW a \in answered'
        PROVE  \E i \in DOMAIN committed.submissions :
                  /\ committed.submissions[i].workunit = a[1]
                  /\ committed.submissions[i].sha256 = a[2]
    <3>1. CASE a \in answered
      BY <3>1 DEF ConnInv, AnsweredIsCommitted
    <3>2. CASE a \notin answered
      <4>1. a = <<w, sha>> /\ Recorded(w, sha)
        BY <1>2, <1>4, <2>2, <3>2 DEF SubmitCall
      <4> QED BY <1>1, <4>1 DEF Recorded, InStep
    <3> QED BY <3>1, <3>2
  <2>3. AnsweredIsCommitted'
    BY <2>1, <2>2 DEF AnsweredIsCommitted
  <2> QED BY <2>1, <2>3 DEF ConnInv, SeesCommitted
<1> QED BY <1>3, <1>4

LEMMA ConnStep == ConnInv /\ [ConnNext]_connVars => ConnInv'
<1> SUFFICES ASSUME ConnInv, [ConnNext]_connVars PROVE ConnInv'
  OBVIOUS
<1>0. inTxn \in BOOLEAN /\ IsTables(committed) /\ (~inTxn => InStep /\ tables = committed)
  BY InStepOfTables DEF ConnInv, SeesCommitted
<1>1. ASSUME NEW c \in Clients, Autocommit(Lease(c)) PROVE ConnInv'
  <2>1. CASE inTxn
    BY <1>1, <2>1, FileKeeps DEF Autocommit
  <2>2. CASE ~inTxn
    BY <1>0, <1>1, <2>2, CommitKeeps DEF Autocommit, Lease, LeaseTo, InStep
  <2> QED BY <1>0, <2>1, <2>2
<1>2. ASSUME NEW w \in Coeffs, NEW c \in Clients, Autocommit(Release(w, c)) PROVE ConnInv'
  <2>1. CASE inTxn
    BY <1>2, <2>1, FileKeeps DEF Autocommit
  <2>2. CASE ~inTxn
    BY <1>0, <1>2, <2>2, CommitKeeps DEF Autocommit, Release, InStep
  <2> QED BY <1>0, <2>1, <2>2
<1>3. ASSUME NEW w \in Coeffs, NEW c \in Clients, NEW sha \in Digests, SubmitCall(w, c, sha)
      PROVE  ConnInv'
  BY <1>3, SubmitKeeps
<1>4. ASSUME NEW w \in Coeffs, NEW c \in Clients, FailCall(w, c) PROVE ConnInv'
  <2>1. CASE MayResolve(w, c)
    BY <1>0, <1>4, <2>1, CommitKeeps
    DEF FailCall, Begins, Commit, FailWorkunit, ChargeAttempt, InStep
  <2>2. CASE ~MayResolve(w, c)
    <3>1. tables' = committed /\ committed' = committed /\ inTxn' = FALSE
      BY <1>4, <2>2, SeesFileInStep DEF FailCall
    <3> QED BY <1>4, <3>1, FileKeeps DEF FailCall
  <2> QED BY <2>1, <2>2
<1>5. ASSUME SweepCall PROVE ConnInv'
  <2>1. submissions' = submissions
    BY <1>5 DEF SweepCall, Commit, SweepExpired, ChargeAttempt, vars
  <2> QED BY <1>0, <1>5, <2>1, CommitKeeps DEF SweepCall, Begins, Commit, InStep
<1>6. ASSUME NEW listed \in SUBSET Coeffs, ExtendCall(listed) PROVE ConnInv'
  BY <1>0, <1>6, CommitKeeps DEF ExtendCall, Commit, ExtendJob, InStep
<1>7. CASE StatementRaises
  BY <1>7, FileKeeps DEF StatementRaises
<1>8. CASE Restart
  <2>1. tables' = committed /\ committed' = committed /\ inTxn' = FALSE
    BY <1>8, SeesFileInStep DEF Restart
  <2> QED BY <1>8, <2>1, FileKeeps DEF Restart
<1>9. CASE Second
  <2>1. IsTables(committed') /\ committed'.submissions = committed.submissions
    BY <1>0, <1>9, SecondOnFile
  <2>2. AnsweredIsCommitted'
    BY <1>9, <2>1 DEF Second, ConnInv, AnsweredIsCommitted
  <2>3. SeesCommitted'
    <3> SUFFICES ASSUME ~inTxn PROVE tables' = committed'
      BY <1>9 DEF Second, SeesCommitted
    <3>1. tables = committed
      BY <1>0
    <3>2. committed' = [committed EXCEPT !.lease_left = lease_left']
      BY <1>9, <3>1 DEF Second, Tick, tables
    <3>3. committed' = [tables EXCEPT !.lease_left = lease_left']
      BY <3>1, <3>2
    <3>4. tables' = [tables EXCEPT !.lease_left = lease_left']
      BY <1>9 DEF Second, Tick, tables
    <3> QED BY <3>3, <3>4
  <2> QED BY <1>9, <2>1, <2>2, <2>3 DEF ConnInv, Second
<1>10. CASE UNCHANGED connVars
  BY <1>10 DEF connVars, vars, ConnInv, SeesCommitted, AnsweredIsCommitted, tables
<1> QED BY <1>1, <1>2, <1>3, <1>4, <1>5, <1>6, <1>7, <1>8, <1>9, <1>10 DEF ConnNext

LEMMA ConnInvariance == ConnSpec => []ConnInv
BY StartInStep, ConnStep, PTL DEF ConnSpec

\* A result that a worker was told is recorded is in the file, whatever statements
\* raised before, in that call or in an earlier one.
THEOREM AnsweredIsCommittedAlways == ConnSpec => []AnsweredIsCommitted
BY ConnInvariance, PTL DEF ConnInv

LEMMA FileStarts == ConnInit => Disk!Init
<1> SUFFICES ASSUME ConnInit PROVE Disk!Init
  OBVIOUS
<1>1. InStep
  BY InStepOfTables DEF ConnInit
<1> QED BY <1>1 DEF ConnInit, Init, InStep, Disk!Init

\* The file is the table of workunits of WorkUnits, whatever statements raise and
\* whenever the server dies.
THEOREM FileKeepsTables == ConnSpec => DiskSpec
<1>1. ConnInv /\ [ConnNext]_connVars => [Disk!Next]_(Disk!vars)
  BY OnFile
<1> QED BY <1>1, FileStarts, ConnInvariance, PTL DEF ConnSpec, DiskSpec, Disk!Spec

\* What the theorems of WorkUnits say of the table is so for the file.
Stored == INSTANCE WorkUnitsProofs WITH
    state <- committed.state, attempt_count <- committed.attempt_count,
    client_id <- committed.client_id, lease_left <- committed.lease_left,
    submissions <- committed.submissions

LEMMA StoredIsDisk ==
    /\ Stored!Init <=> Disk!Init
    /\ Stored!Next <=> Disk!Next
    /\ Stored!vars = Disk!vars
    /\ Stored!OneResult <=> Disk!OneResult
<1>1. Stored!Init <=> Disk!Init
  BY Zenon DEF Stored!Init, Disk!Init
<1>2. Stored!vars = Disk!vars
  BY Zenon DEF Stored!vars, Disk!vars
<1>3. Stored!OneResult <=> Disk!OneResult
  BY Zenon DEF Stored!OneResult, Disk!OneResult
<1>4. Stored!Next <=> Disk!Next
  BY Zenon DEF Stored!Next, Disk!Next, Stored!ExtendJob, Disk!ExtendJob, Stored!Lease, Disk!Lease,
     Stored!LeaseTo, Disk!LeaseTo, Stored!Leasable, Disk!Leasable,
     Stored!Submit, Disk!Submit, Stored!SubmitStatus, Disk!SubmitStatus,
     Stored!Recorded, Disk!Recorded, Stored!MayResolve, Disk!MayResolve,
     Stored!SpeaksFor, Disk!SpeaksFor, Stored!FailWorkunit, Disk!FailWorkunit,
     Stored!ChargeAttempt, Disk!ChargeAttempt, Stored!LastAttempt, Disk!LastAttempt,
     Stored!Release, Disk!Release, Stored!SweepExpired, Disk!SweepExpired,
     Stored!Expired, Disk!Expired, Stored!Tick, Disk!Tick, Stored!lease_vars, Disk!lease_vars
<1> QED BY <1>1, <1>2, <1>3, <1>4

LEMMA FileKeepsStored == ConnSpec => Stored!Spec
<1>1. ConnInit => Stored!Init
  BY FileStarts, StoredIsDisk
<1>2. ASSUME ConnInv, [ConnNext]_connVars PROVE [Stored!Next]_(Stored!vars)
  <2>1. Disk!Next \/ UNCHANGED Disk!vars
    BY <1>2, OnFile
  <2>2. UNCHANGED Disk!vars => UNCHANGED Stored!vars
    BY DEF Stored!vars, Disk!vars
  <2> QED BY <2>1, <2>2, StoredIsDisk
<1> QED BY <1>1, <1>2, ConnInvariance, PTL DEF ConnSpec, Stored!Spec

\* In the file a coefficient has at most one result, and its row says so.
THEOREM FileOneResult == ConnSpec => []Disk!OneResult
<1>1. Stored!Spec => []Stored!OneResult
  BY Stored!OneResultAlways, PTL,
     CoeffsAssumption, AttemptsAssumption, LeaseAssumption, NullAssumption
<1> QED BY <1>1, FileKeepsStored, StoredIsDisk, PTL

\* So the coverage of the job is kept in the file.
THEOREM FileCovers == ConnSpec => Stored!CoverageSpec
<1>1. Stored!Spec => Stored!CoverageSpec
  BY Stored!ImplementsCoverage, PTL,
     CoeffsAssumption, AttemptsAssumption, LeaseAssumption, NullAssumption
<1> QED BY <1>1, FileKeepsStored, PTL
=============================================================================
