----------------------------- MODULE Connection -----------------------------
(***************************************************************************)
(* The one connection to the database that all calls of polyserver share   *)
(* (db.connect, isolation_level=None) when a statement may raise: a full   *)
(* disk, an I/O error, a value that SQLite does not take.  No call of      *)
(* db.py rolls back then.  Where SQLite does so itself nothing happened;   *)
(* otherwise the connection stays inside the transaction.                  *)
(*                                                                         *)
(* The variables of WorkUnits are the tables as the connection sees them,  *)
(* with the changes of a transaction that was left open.                   *)
(***************************************************************************)
EXTENDS WorkUnits

VARIABLES
    committed,  \* the tables as they are in the file
    inTxn,      \* a transaction was left open
    answered    \* the results that a worker was told are recorded

connVars == <<vars, committed, inTxn, answered>>

tables == [state |-> state, attempt_count |-> attempt_count, client_id |-> client_id,
           lease_left |-> lease_left, submissions |-> submissions]

ConnInit ==
    /\ Init
    /\ committed = tables
    /\ inTxn = FALSE
    /\ answered = {}

-----------------------------------------------------------------------------
\* A statement on its own is committed at once, unless a transaction is open.
Autocommit(A) ==
    /\ A
    /\ committed' = IF inTxn THEN committed ELSE tables'
    /\ UNCHANGED <<inTxn, answered>>

\* BEGIN IMMEDIATE raises when a transaction is open.  Faulty: it is left out then.
BeginsIfNeeded == TRUE
Begins == ~inTxn

\* Faulty Commit: the COMMIT is missing.
CommitMissing(A) == A /\ committed' = committed /\ inTxn' = TRUE

\* What A does, and COMMIT.
Commit(A) == A /\ committed' = tables' /\ inTxn' = FALSE

\* The connection sees the file again, as after ROLLBACK.
SeesFile ==
    /\ state' = committed.state
    /\ attempt_count' = committed.attempt_count
    /\ client_id' = committed.client_id
    /\ lease_left' = committed.lease_left
    /\ submissions' = committed.submissions
    /\ inTxn' = FALSE
    /\ UNCHANGED committed

SubmitCall(w, c, sha) ==
    LET status == SubmitStatus(w, c, sha)
    IN  /\ Begins
        /\ IF status = "accepted" THEN Commit(Submit(w, c, sha)) ELSE SeesFile
        /\ answered' = IF status \in {"accepted", "duplicate"}
                       THEN answered \cup {<<w, sha>>} ELSE answered

FailCall(w, c) ==
    /\ Begins
    /\ IF MayResolve(w, c) THEN Commit(FailWorkunit(w, c)) ELSE SeesFile
    /\ UNCHANGED answered

SweepCall ==
    /\ Begins
    /\ Commit(IF Expired = {} THEN UNCHANGED vars ELSE SweepExpired)
    /\ UNCHANGED answered

\* In a process of its own, whose BEGIN raises while the server has the write lock and
\* whose end undoes what it did not commit.
ExtendCall(listed) ==
    /\ ~inTxn
    /\ Commit(ExtendJob(listed))
    /\ UNCHANGED answered

\* The UPDATE of db.submit without the INSERT.
HalfSubmit(w, c, sha) ==
    /\ SubmitStatus(w, c, sha) = "accepted"
    /\ state' = [state EXCEPT ![w] = "submitted"]
    /\ UNCHANGED <<attempt_count, lease_vars, submissions>>

\* A statement after a BEGIN, or the COMMIT, raises: the changes made so far stay in
\* the transaction.
StatementRaises ==
    /\ ~inTxn /\ inTxn' = TRUE
    /\ \/ UNCHANGED vars
       \/ \E w \in Coeffs, c \in Clients, sha \in Digests :
             HalfSubmit(w, c, sha) \/ Submit(w, c, sha)
       \/ \E w \in Coeffs, c \in Clients : FailWorkunit(w, c)
       \/ \E W \in SUBSET Expired : ChargeAttempt(W)
    /\ UNCHANGED <<committed, answered>>

\* The process ends, and with it the transaction; the next one reads the file.
Restart == SeesFile /\ UNCHANGED answered

\* One second, for the deadlines in the file too.
Second ==
    /\ Tick
    /\ committed' =
          [committed EXCEPT !.lease_left =
              [w \in Coeffs |-> IF committed.lease_left[w] \in 0 .. LeaseSeconds
                                THEN committed.lease_left[w] - 1
                                ELSE committed.lease_left[w]]]
    /\ UNCHANGED <<inTxn, answered>>

ConnNext ==
    \/ \E c \in Clients : Autocommit(Lease(c))
    \/ \E w \in Coeffs, c \in Clients : Autocommit(Release(w, c))
    \/ \E w \in Coeffs, c \in Clients, sha \in Digests : SubmitCall(w, c, sha)
    \/ \E w \in Coeffs, c \in Clients : FailCall(w, c)
    \/ SweepCall
    \/ \E listed \in SUBSET Coeffs : ExtendCall(listed)
    \/ StatementRaises
    \/ Restart
    \/ Second

ConnSpec == ConnInit /\ [][ConnNext]_connVars

\* The sweep thread goes on after every exception, and the clock does not stop.
ConnFairSpec == ConnSpec /\ WF_connVars(SweepCall) /\ WF_connVars(Second)

-----------------------------------------------------------------------------
Disk == INSTANCE WorkUnits WITH
    state <- committed.state, attempt_count <- committed.attempt_count,
    client_id <- committed.client_id, lease_left <- committed.lease_left,
    submissions <- committed.submissions

\* Whatever statement raises and whenever the server dies, the file goes through whole
\* calls only: nothing of a transaction that was left open is ever committed, not by a
\* later call on the same connection either (db.py:145-170, 180-197, 216-235).
DiskSpec == Disk!Spec

\* A worker deletes its output when it is told that the result is recorded; it is then in
\* the file, not only in what the connection sees (db.py:151-157, 169-170).
AnsweredIsCommitted ==
    \A a \in answered : \E i \in DOMAIN committed.submissions :
        /\ committed.submissions[i].workunit = a[1]
        /\ committed.submissions[i].sha256 = a[2]
=============================================================================
