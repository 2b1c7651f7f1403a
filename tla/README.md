# Verification of polyselect-distributed

TLA+ models of the coordinator (`polyserver`), of its workers (`polyclient`) and of
the one-box pipeline (`polylocal`), checked with TLC on small instances and, where it
is marked, proved with TLAPS for every instance.  Paths and line numbers refer to the repository.

## 1. The system and its parts

A job is a list of leading coefficients of one composite N.  A server hands
them out under leases; workers on GPU machines run msieve on one coefficient at
a time and upload the polynomials found; the operator pulls the collected files
and optimizes them elsewhere.

| part | state it keeps | operations | talks to |
|---|---|---|---|
| workunit tables (`polyserver/db.py`, `schema.sql`) | `workunits` (state, attempts, holder, deadline), `submissions`, `meta` | `init_job`, `extend_job`, `lease`, `submit`, `fail_workunit`, `release`, `sweep_expired` | called by the app under one lock, by the CLI from another process |
| server app (`polyserver/app.py`) | blobs and temporary files in `polys/`, uploads in progress | `/lease`, `/submit`, `/release`, the sweep thread, read-only pages | tables, sample check, file system |
| sample check (`polyserver/verify.py`) | none | `sample_check` | reads a stored blob |
| administration (`polyserver/__main__.py`) | `job.db`, `token`, `polys/` | `init`, `init --force`, `extend`, `serve` (`prune` only raises an error) | tables, a server that may be running |
| worker (`polyclient/client.py`, `__main__.py`) | drain and cancel flags, failures in a row, a workdir per workunit | main loop, upload loop, signal handlers | server over HTTP, msieve runner |
| msieve runner (`polyclient/msieve_runner.py`) | workdir, child process | `build_workdir`, `run`, `_terminate` | msieve (external) |
| local pipeline (`polylocal/__main__.py`) | a corpus per sequence | pick, resume, ranges, run, optimize, submit | tracker, msieve runner, `nfs_optimize` |
| tracker client (`polylocal/tracker.py`) | none | GET of the candidates, `submit_poly` | tracker (external) |
| best polynomial (`polylocal/optimize.py`) | none | `extract_best_and_count`, `scrape_murphy_e`, `parse_poly`, `validate_poly` | files of the operator and of `nfs_optimize.sh` (external) |
| scripts (`pull.sh`, `copy-poly.sh`, the bootstrap, the service unit) | none | rsync, cp, installation | ssh, systemd |

What is hard in it:

* `/submit` is a coroutine of hours of GPU work behind a body of megabytes:
  between the look-up of its row and the row it writes, leases expire, other
  requests are served, and a second upload of the same workunit may use the same
  temporary file.
* Every call may be lost, answered too late for its caller, or served long after
  its caller gave it up; workers repeat uploads until they get an answer.
* Workers stop in all the ways programs stop: drain, cancel, SIGTERM, crash of
  the child, death of the machine.  Only the sweep gets their leases back.
* The server may die between the rename of a blob and its row.
* All calls of the tables share one connection; a statement that raises leaves it
  inside a transaction that nobody ends.
* Coefficients are texts, compared, ordered and made unique as texts, and meant as numbers.
* Attempts are counted in two places against a cap.
* `init` works on files under a running server, in several steps that are not one
  transaction, and may die between any two; `--force` takes the database away from a
  server that keeps it open.
* The sample check reads chunks of a decompressor: a record, a line or the blank line
  that ends a record may be split between two of them.
* The sequence at the tracker may advance while an optimizer runs for hours, and two
  programs write polynomials in two layouts that one parser has to cut.
* A local run is continued by later ones with other parameters, on a corpus that
  any of them may have left in mid-record, of a sequence that may have advanced.

What makes the parts correct: one result per coefficient and never none where
the table says there is one; settled workunits stay settled; only lost leases are
charged; no lease is for ever; a row always has its blob and a blob its content;
failing content is not recorded; a worker deletes its copy only when the server
has the result; a worker that ends gives its lease back; the job settles.  Of a
local run: no coefficient is recorded twice, none is left out, composites are not
mixed, the target counts the whole corpus, and a Ctrl-C stops everything; what is
posted is the best polynomial of the file with its own score, for the composite that
was fetched.  Of a job directory: rows, N, token and blobs are those of one job.
`PROJECT.json` lists the hazards line by line with the properties aimed at them.

## 2. Modules

| module | models | composed of |
|---|---|---|
| `Coverage` | what the server promises about a job, without leases, clients or time | |
| `WorkUnits` | the tables under the calls of `db.py` by unconstrained callers | refines `Coverage` |
| `WorkUnitsProofs` | the theorems about `WorkUnits` | `WorkUnits` |
| `Connection` | the shared connection when statements raise, and the file | extends `WorkUnits`, and refines it |
| `ConnectionProofs` | the theorems about `Connection` | `Connection`, `WorkUnitsProofs` |
| `CoeffQueue` | what the server promises about coefficients as numbers | |
| `CoeffOrder` | the coefficients as texts, their rows and their order | refines `CoeffQueue` |
| `CoeffOrderProofs` | the theorems about `CoeffOrder` | `CoeffOrder` |
| `PolyServer` | the server: tables, `polys/`, uploads in progress, restarts | extends `WorkUnits` |
| `MCPolyServer` | one workunit, two uploads at once, with symmetry | `PolyServer` |
| `Fleet` | the workers and the network | extends `WorkUnits` |
| `MCFleet` | two workers with faults of their own | `Fleet` |
| `PolyServerProofs` | the theorems about `PolyServer` | `PolyServer`, `WorkUnitsProofs` |
| `CoeffRanges` | `_coeff_ranges` of polylocal, and what its ranges are for | |
| `LocalRun` | polylocal, its msieve and the workdir they share, over many runs | extends `CoeffRanges` |
| `LocalRunProofs` | the theorems about `LocalRun` and `CoeffRanges` | `LocalRun` |
| `MCLocalRun` | a bound of the corpus | `LocalRun` |
| `FleetProofs` | the theorems about `Fleet` | `Fleet`, `WorkUnitsProofs` |
| `JobAdmin` | `init`, `extend` and `serve` around the server, on one job directory | extends `PolyServer` |
| `JobAdminProofs` | the theorems about `JobAdmin` | `JobAdmin`, `PolyServerProofs` |
| `MCJobAdmin` | symmetry | `JobAdmin` |
| `SampleCheck` | `sample_check` of `verify.py`, chunk by chunk | |
| `BestPoly` | `extract_best_and_count` and its helpers, as operators | |
| `PolySubmit` | pick, take a polynomial, validate, post; the tracker | extends `BestPoly` |
| `PolyFilesProofs` | the theorems about `SampleCheck` and `PolySubmit` | both |
| `MCParts` | four parts without common state, one of them at work in each behaviour | `SampleCheck`, `PolySubmit`, `CoeffOrder`, `Connection` |

### WorkUnits

One variable per column that matters.  A workunit is its coefficient, a number;
the code has decimal texts, which it orders by length and text: `CoeffOrder` shows
when that is the same.  `lease_expires` is kept as time left, `lease_left`, and stays
at -1 once the deadline has passed, so that no clock needs a bound: only the
comparison `lease_expires < now` reads it.
`state = "absent"` stands for "no row".  The state `verified` and the status
`failed` of the schema are written by no code and do not occur.

Each call of `db.py` is one action because the server holds one lock around it
and the CLI's `extend` is one transaction; `Connection` has the faults inside a call.
`SubmitStatus` keeps the order in which `submit` looks: unknown, duplicate, conflict,
accepted.  A failed upload
and an expired lease do the same thing to a row; both are `ChargeAttempt`.  The
callers are any client at any time with any digest, which covers every schedule
of the two modules built on top.

Definitions with a comment "faulty" (`LastAttemptTooLate`, ...) are bugs the
code could have had.  No specification uses them; they are there to be put in
place of the right definition, to see that the property named in `PROJECT.json`
notices.

### Connection

The server opens one connection with `isolation_level=None` (`db.py:23-30`): a
statement on its own (`lease`, `release`) commits itself, the other calls write
`BEGIN IMMEDIATE` and `COMMIT`, and none of them rolls back when a statement between
the two raises (a full disk, an I/O error).  The variables of `WorkUnits` are the
tables as the connection sees them, `committed` is the file, `inTxn` an open
transaction.  `StatementRaises` leaves what the call had done so far in that
transaction: nothing, the `UPDATE` of `submit` without its `INSERT` (`HalfSubmit`), a
whole call whose `COMMIT` raised, or a part of a sweep.  From then on `BEGIN` raises
(`Begins`), and what commits itself no longer does (`Autocommit`).  The early returns
of `submit` and `fail_workunit` end their transaction with `ROLLBACK` (`SeesFile`);
`Restart` reads the file again.  Where SQLite itself rolls back after an error, the
call has done nothing, which is a stutter.  `answered` keeps the results for which a
200 was sent.

### CoeffOrder

A text is the sequence of its digits, in any base.  `Insert` is `_validate_coeffs`
with the insertion of `init_job` and `extend_job`, `ComesFirst` the `ORDER BY
length(coeff), coeff` of `lease`, and `TextBefore` how SQLite compares two texts.
`Requeue` and `Settle` are all that the other calls do to a leased row as far as the
order can tell.  `Value` is the number a text names; `CoeffQueue` is the job in terms
of these numbers.

### PolyServer

A request goes through `receiving` (one step per piece of the body; a piece that
Python's buffer holds back is one that is written by a later step),
`stored` (digest right, blob renamed), `recording` or `rejecting`, and back to
`idle` with its last answer (200, 409 or any other; the first is what
`StoredIsKept` looks back at).  The steps follow what can come between them in the
process: an `async` handler yields the event loop only while it waits for a
piece, hence `LoopFree`; the thread pool and the sweep may take the lock between
any two steps.  An open file is tracked by the name its inode has now (`link`):
opening truncates the file another upload is writing, a rename takes the handles
along, an unlink leaves them nameless.  Pieces are written at the handle's own
offset, so an overlapping upload may leave a gap (`Noise`).

`SampleCheckFails` abstracts `verify.py` to a set `Failing` of contents.
`spotcheck` is the setting of the running process and may change at a restart
(`SpotChecks`).  `Restart` ends all requests; temporary files of the old process
keep its pid in their name and are never opened again, so they leave the model.
`OneAtATime` and `Truthful` restrict the environment: no overlapping uploads of
one workunit; bodies with the digest of their header.

### Fleet

A worker's `pc` follows `Client.loop` and `_run_unit`; `workdir` is the output it
has for each workunit; `call` is its one outstanding call, `late` the calls it
gave up that may still arrive.  The server's side of a call is one action that
reuses the actions of `WorkUnits`; PolyServer has the steps of `/submit`.  The
parameter `Faults` says what may happen to which worker:

| fault | meaning |
|---|---|
| `lost` | a call is given up (timeout, connection, 5xx), served or not |
| `late` | a call that was given up is served later |
| `refuse` | an upload is answered 400, 401, 413 or 415 |
| `crash` | msieve, or the hashing after it, fails |
| `signal` | SIGINT and SIGTERM come at any time |
| `kill` | the process dies at any time; it may be started again on its workroot |

msieve is external.  It appends to the output already in the workdir, and the
sample check reads the first records only, so a mixture passes exactly when the
older part does (`Appended`).  Coefficients in `Broken` always fail.
`extend` is not among the steps of the fleet; `WorkUnits` and `PolyServer` have it.

### LocalRun

`run` is one invocation of polylocal, `msieve` the process it started and one that
an earlier invocation may have left behind; `records`, `leading` and `torn` are what
`_scan_corpus` reads from the corpus: the number of whole records, their leading
coefficients, and what a cut last line reads as.  `Plan` is `main` up to the ranges
with `_params_for` and `_resume_params`; the refusals are its guards, since they
change nothing.  `BeginSelection`, `Launch`, `InstallHandler`, `WaitReturns` and
`NextRange` are `_run_selection` and `msieve_runner.run`, cut where a signal finds
another handler: a Ctrl-C while the relaying handler is installed is `RelaySigint`,
at any other time, as any other signal, it is `Die`.  A torn record counts as a
polynomial of a smaller coefficient when it was cut within its digits, because that
line still parses (`__main__.py:224-226`).

msieve is external, modelled by what polylocal's comments say of it: ascending
coefficients, worth searching or not (`Smooth`); `num_polys` counts hits, some of
which leave no record (`__main__.py:256-258`); the first Ctrl-C is soft on a CUDA
build and hard on a CPU build, the second is hard.  It has its own session, so it
survives a polylocal that dies; with `Orphans = FALSE` polylocal dies only while no
msieve runs.

History variables: `searched` (coefficients that some msieve finished), `owners`
(composites with records in the corpus), and in `run` whether it is a fresh run or
a plain resume of one (`plain`), and where that chain began (`base`).

### JobAdmin

The steps of `cmd_init` are the places where it may be killed with something done:
the look at the old job (`BeginInit`), the unlink of the database (`UnlinkDb`), the
removal of `polys/` (`RemovePolys`), the new file with its tables (`OpenDb`), the
transaction (`CommitJob`), the token file (`WriteToken`).  `BadInput` is any of the
errors between the tables and the transaction; `AdminDies` may come at any step.
One administrator works at a time, so `extend` is one step (`Extend`) and comes only
when no `init` is under way; the server starts, dies and works at any time.

A server whose database was unlinked is a `ghost`: SQLite goes on with the open
file, so what it does to rows is seen by no one, and its blobs arrive in `polys/` by
name.  `strangers` says that `polys/` may hold blobs of an earlier job; which ones is
not kept, and the blobs of the present job start from none at each unlink.  So the
variables of `PolyServer` are those of the database that is in the directory.

A job is the number of its `CommitJob`; it stands for N and token together, which
`init` writes in one transaction.  `loaded` is the job a server read at its start
(`app.py:54-58`), `listedFor` the job that `meta` named when a row was inserted,
`tokenLost` that the last `init` died between its transaction and the token file.

### SampleCheck

A stream is a sequence of tokens: newline, the own coefficient at the start of a
line, another one, other text.  The reading side is the code's loop: a chunk of any
size up to `ChunkSize` is appended, records are cut off at the first blank line while
there is one and fewer than `K` are found, and the verdict is given when `K` records
or `MaxScan` are reached or the stream ends.  The reference side (`Ends`,
`ParagraphBefore`, `Sampled`) cuts the whole stream at once and knows no chunks.

### BestPoly and PolySubmit

A file is a sequence of lines `<<kind, i>>`, where `i` is the polynomial of the file
the line comes from; the operators see only the kind, the properties also `i`.
A part of a text (a record, a block) is the restriction of the text to some of its
positions, so that nothing has to be copied or counted, and a property can ask where
a part comes from.  `BestPoly` has `_poly_blocks`, `_split_comment_leads`, the score
of a block and the choice; `PolySubmit` runs them on every small file: scores before (msieve) or after
(CADO) a polynomial, not given, or torn from it by a blank line; a side missing;
blank lines between polynomials or not; N given, given as `n :` or not at all.  Of
`validate_poly` it has the comparison of N and that both sides have a common root,
which those of one polynomial have; the arithmetic is not modelled.  The tracker is
external: it may advance at any time and answers a polynomial for another N with 400
and "does not match", which is how `main` tells "the sequence advanced" from other
rejections.

## 3. Runs

| run | what it asks | outcome |
|---|---|---|
| `work_units` | the invariants and action properties of the tables, the refinement of `Coverage`, and that every lease ends | holds |
| `server_overlap` | blobs and rows under overlapping uploads, with the sample check on | holds |
| `blob_overwritten` | recorded blobs stay intact under overlapping uploads | violated |
| `fleet_faults` | leases and outputs under every fault | holds |
| `fleet_settles` | every coefficient is settled in the end, and a signal ends the worker | holds |
| `fleet_refused` | after a 4xx the worker holds nothing | violated |
| `fleet_broken` | a coefficient on which msieve fails is given up | violated |
| `local_resume` | chains of local runs: ranges, resumes, target, Ctrl-C, advance | holds |
| `local_gaps` | a run searches each of its gaps to the end before the next | violated |
| `job_admin` | one job in the directory under inits, forced or failing, extends and a server that comes and goes; intact blobs when uploads of a workunit do not overlap (untruthful bodies, sample check off) | holds |
| `parts` | the verdict of the sample check in every division into chunks; the polynomial that is posted, and when work is called out of date; the order of coefficients without leading zeros; what is in the file when statements raise and the server is restarted | holds |
| `sweep_stuck` | every lease ends, when a statement may raise | violated |

### What the violated runs show

* `blob_overwritten`: uploads u1 (content d1) and u2 (content d2) of one
  workunit overlap.  u2 opens the temporary file while u1 is writing it; u1
  writes its pieces over it, matches, is renamed and recorded; u2's handle now
  leads to u1's blob and its pieces overwrite it.  The name of the temporary
  file (`app.py:123`) would have to differ per request.  At the moment of
  recording the blob is right (`IntactWhenRecorded`).
* `fleet_refused`: the worker counts every 4xx as resolved; after 400, 401, 413 or
  415 it is still the holder until the sweep comes, and loses an attempt for it.
* `fleet_broken`: run, fail, release, lease again, until the worker exits after
  `max_failures`; the coefficient is back to available with no attempt charged.
* `local_gaps`: coefficient 12 has a record; a run from 1 up to a target of two gets
  the gap below 12 with `num_polys=1`.  A hit at 4 leaves no record; msieve has its
  one hit and ends; polylocal counts one record still missing and launches the open
  range above 12.  The rest of the gap, 8, is not searched.  A plain resume has one
  range only and loses nothing (`NothingLost`).
* `sweep_stuck`: a workunit is leased; a statement after `BEGIN` raises.  The sweep
  thread catches the exception of every later `BEGIN` and goes on, `/submit` answers
  500, `/lease` and `/release` still answer as if all were well, and the lease never
  ends, until somebody restarts the server, which then knows nothing of the leases given
  out meanwhile.

Histories outside the runs, found by changing a constant or by reading the model; they
say what the code does, mostly where no document promises otherwise:

* With `Orphans = TRUE` TLC violates `NeverRevisited`: polylocal dies by SIGTERM,
  SIGHUP or a Ctrl-C before its handler is installed (`msieve_runner.py:136-146`), its
  msieve goes on, and the next run starts a second one on the same workdir, which takes
  coefficients that the first has recorded meanwhile.
* `JobSettles` without `OthersKeepTheirLease`, when ben may fail a run (`crash`; or get
  a cancel, `signal`) and be killed: ben leases the coefficient, msieve fails, the
  release charges nothing (`db.py:200-207`), ben is killed and started again, with no
  failures counted (`client.py:148`), and leases it again, for ever.  ann, who is never
  killed, asks for work each time while ben holds the lease and is answered that there
  is none; no lease gets old enough to be swept.
* With `Written <- AnyTexts` in `parts.cfg` TLC violates `QueueSpec`, and also
  `OneRowPerNumber` and `LowestLeased`: `isdigit()` lets `0` and leading zeros pass
  (`__main__.py:34`) although `db.py:45-46` and `db.py:109` speak of coefficients listed
  once and leased lowest first; so `0` and `00` are two rows of one number, and of `1` and `00`
  the lease takes `1`.
* A worker's lease is swept while it uploads: the blob is renamed, `db.submit` answers
  conflict, and the blob stays in `polys/` without a row (`app.py:151`, `app.py:180`)
  and is pulled with the others.
* With `SpotChecks = {TRUE, FALSE}` TLC violates `RecordedBlobPresent`: a failing
  content is recorded while the check is off; the server is restarted with the check
  on; the repeat of that upload fails the check and unlinks the recorded blob.
* `ForcedJobIsClean` without `admin.alone`: a server that runs during `init --force`
  puts blobs of the old job into the new `polys/`, and keeps the port from the new
  server until it is stopped.
* `ForcedJobIsClean` without `admin.wiped`: a `--force` that dies between the unlink
  and the removal leaves `polys/`; the next one finds no database (`__main__.py:62`)
  and does not remove it.
* A bad list or N is found after the old job is gone (`__main__.py:72-77`).
* `extend` after a failed `init` inserts rows although there is no job; `init` then
  refuses, and `serve` fails on the missing meta rows.
* Two administrators at once can mix jobs: the look at the old job and the transaction
  are not one step.  The model has one.
* The sample check compares whole paragraphs that a blank line ends.  The docstring of
  `verify.py:22-24` speaks of "the first up-to-K records": a last record without a
  blank line after it is never looked at, and an upload that has only such a record is
  refused.  `HonestAccepted` therefore excepts uploads with nothing to sample.
* `BestChosen` is about the two layouts the programs write.  In CADO's layout without
  blank lines a comment after a body begins the next block, so polynomial i's score
  goes to polynomial i+1; and when no block is complete a supplied file is taken whole
  (`_prepare_supplied`): the last polynomial with the best score of the file.

### Bounds

TLC checks the types of the tables and of polylocal; those of the server, the fleet and
the job directory are proved (section 4).

* `work_units`: two coefficients (so that order and independence matter), two
  named clients and the empty id, two digests, three attempts (a first, a middle
  and a last one), leases of one second (so that a lease is alive, at its limit
  and past it).  The space is finite without further bounds.
* `parts` (connection) and `sweep_stuck`: two coefficients, so that a part of a sweep
  can be left in the transaction; a client and the empty id; two digests; two attempts;
  a lease that ends with the next second, since how long it lives is the matter of
  `work_units`.
* `parts` (coefficients): the texts of 1 to 6 in base 2, hence of one, two and three
  digits, and of one length with the first difference at the second or the third digit.
* `server_*`: one workunit, since uploads share files only within a workunit; two
  uploads; bodies of two pieces, so that one can be half written; two contents
  that pass and one that fails, so that two results can differ and one can be
  repeated; two attempts; callers with an id (`work_units` has the empty one).
  Symmetry permutes clients, uploads and the two passing
  contents; the runs with symmetry check no liveness.
* `fleet_*`: two workers; one coefficient, for which both compete (two in
  `fleet_broken`, where the worker must have something else to do); two attempts; two
  failures in a row; `MaxLate = 1` call on its way in `fleet_faults`.
* `job_admin`: three jobs, so that a forced one can follow a forced one; one
  coefficient, so that the rows of two jobs meet in it; two uploads of two contents.
* `parts` (files): streams of up to 7 tokens, chunks of up to 3, a limit of 6 and two
  records: enough for two records with a blank line each, a chunk that holds a whole
  record or half a blank line, a limit reached within a record, and a third record
  that is not looked at.  Files of up to two polynomials with two scores, so that the
  better one may come first or second and scores may be equal; two composites, so that
  a file or the sequence may be of the other one.
* `local_*`: coefficients 1 to 12, so that a torn 12 reads as 1, of which 4, 6, 8 and
  12 are worth searching: multiples of 4 (`MsieveMult`, taken when no multiplier is
  given), of 6, and one of both, so that a run with another multiplier meets records
  of the first; starts 1 and 4; one hit per coefficient; targets none and three (two
  in `local_gaps`), so that a target is missed, met and already met by an earlier run;
  two composites.  `RecordCap` cuts nothing off where `NeverRevisited` holds.
* `CHECK_DEADLOCK FALSE` everywhere: a job may be done and its workers stopped.

### Fairness

* `FairSpec` (tables): the sweep thread runs for ever, catches every exception
  (`app.py:73-84`) and takes a lock nobody holds across I/O; the clock runs.
* `ConnFairSpec`: as `FairSpec`.  The sweep is fair as a call that may raise: while a
  transaction is open, `BEGIN` raises each time.
* `FairFleetSpec`: a running worker takes its next step (its loop has no wait
  without a limit, and msieve stops at the job's deadline); the server serves an
  outstanding call; sweep and clock as above.  Nothing is assumed of faults:
  calls may be lost and processes die for ever, within what `Faults` allows.

`JobSettles` is checked beside a worker that is killed, cut off and refused at any
time and builds wrong results; it counts on the `Lasting` workers, those that are
neither killed nor cut off, until they all stop, on a signal or on failures in a row.
One `Lasting` worker is not enough: the formula has the condition that the others
neither fail a run nor get signals (`OthersKeepTheirLease`), since releases are free.
The history without it is in the list above.  `SignalStops` is claimed for workers whose
calls are answered (no `lost`): in the upload loop a worker sees a cancel after its call
returns or times out, but a drain only after a 200 or 4xx.

`job_admin` and `parts` check safety only: `init` is run by a person, and the readers
have no one to wait for.

## 4. Theorems

`WorkUnitsProofs` proves, for every set of coefficients in `Nat`, all clients and
digests, every `MaxAttempts` of at least 1 and every `LeaseSeconds` in `Nat`:

* `TypeCorrect`, `OneResultAlways`, `CreditAlways`, `LeaseRecordedAlways`,
  `PoisonedAlways`: the five invariants.  Their conjunction `IInv` is inductive.
  No one of them is by itself: that a submit finds no earlier row (`OneResult`)
  needs "leased, hence not submitted, hence no row"; that a credited holder
  stays (`CreditToHolder`) needs that only open rows lose their holder and, for
  that, `OneResult`; the type of the time left of a leased row needs
  `LeaseRecorded`; and `TypeOK`'s bound on attempts needs the comparison of
  `LastAttempt`.
* `SettledForEver`, `LeaseNeverStolen`: the action properties, each from `IInv` and the cases of a step.
* `ImplementsCoverage`: the tables implement `Coverage` with the mapping at the
  end of `WorkUnits`: leases and releases stutter, an accepted submit covers, a
  charge fails a try of the workunits it touches.  Poisoning does not raise
  `attempt_count`, so the mapping counts one try more for a poisoned workunit.

Assumptions: `CoeffsAssumption`, `AttemptsAssumption`, `LeaseAssumption`, and
`NullAssumption` (NULL is no client, digest or number).

`ConnectionProofs` proves, under the same assumptions:

* `AnsweredIsCommittedAlways` and `FileKeepsTables`: the file implements `WorkUnits`,
  whatever statements raise.  `ConnInv` says that a connection without an open
  transaction sees the file (`SeesCommitted`); a call that passes its `BEGIN` therefore
  looks at the rows it will write to (`InStepAfterCommit`), and a call without a `BEGIN`
  that meets an open transaction leaves the file alone (`FileUntouched`).  An answer
  "duplicate" is about a row that the connection sees; it is true of the file because
  that call, too, has passed a `BEGIN`.
* `FileOneResult`, `FileCovers`: the theorems of `WorkUnitsProofs`, for the file.

`CoeffOrderProofs` proves, for every base of at least 2, every set of texts, and texts
of any length:

* `OrderIsNumeric`: of two texts without leading zeros the one that comes first names
  the smaller number.  At equal lengths, the first difference decides and no later
  digits can make up for it (`LessToTheEnd`); at different lengths, the first digit of
  the longer one is not 0, which is worth more than all digits of the shorter one
  (`PositiveFromTheFirst`).  `Value` is a recursive function; that it unfolds digit
  by digit (`ValueUnfolds`) is proved from its definition, by the least
  position at which it would not.
* `OneRowPerNumberAlways`, `LowestLeasedAlways` and `ImplementsQueue`: under
  `NoLeadingZeros`, that no text of `Written` begins with 0.  It cannot be dropped: see
  the histories at the end of section 3.

Assumption: `OrderAssumption`.

`PolyServerProofs` proves, for any number of uploads, pieces and contents:

* `ServerKeepsTables`: every step of the server is a step of the tables or leaves
  them alone.  It needs one invariant only, `RequestsOK`: a request in progress
  names a coefficient, a client and a digest that the tables know.
  `ServerOneResult` and `ServerCovers` follow from it and `WorkUnitsProofs`.
* `ServerTypeCorrect`, `NoStrayTmpAlways` and `RecordedIntact` rest on `FilesInv`:
  a handle with a name leads to a file that is there (`LinksLive`, needed so that
  a piece is written to a file and not to nothing), one request at a time is past
  its digest check (`OneAtWork`, from `LoopFree`), and the blob of that request is
  intact until it fails its check (`BlobAtWork`).  A new row is made by that
  request, hence of an intact blob.
* `BlobPresentAlways`, `StoredKeptAlways` and `FailingNeverRecorded` rest on
  `BlobsInv`: while the check is on, nothing recorded fails it, so the one unlink
  of a final name never hits a recorded one.  The condition `SameSetting` (all
  starts of the server agree on the check) cannot be dropped: see the history at
  the end of section 3.
* `BlobIntactAlways` adds `OwnTmp`: under `OneAtATime` an upload that is receiving
  is alone with the temporary file of its workunit, so no piece reaches a blob.
  `OneAtATime` cannot be dropped: `blob_overwritten`.
* `ChargedForOwnAlways`: `ChargedByRejection` finds the rejected upload behind the
  charge, `BlobAtWork` that its content fails, and the guard of `FailWorkunit` that
  it speaks for the holder of that moment.

Assumptions, besides those above: `ChunksAssumption` (a body has a piece),
`FailingAssumption`, `SpotChecksAssumption`, `EnvironmentAssumption`,
`ContentsAssumption` (NULL is not a content), `LinksAssumption` (the two words used
for links are not digests).

`LocalRunProofs` proves first `CoeffRangesExact`, for every start and multiplier in `Nat`
and every finite set to skip (given by a bound of it): a coefficient that is not
skipped lies in the gap that ends before the least split above it, or in the open
range when there is none; `GapWithMultiple` shows that such a gap is not dropped.

Of `LocalRun` it proves, for every range of coefficients, set of smooth ones,
multiplier, target and start, and any number of hits, composites and runs:

* `LocalTypeCorrect` from `LInv`: to keep the types it needs that a msieve belongs to a
  run that launched it (`ChildOfRun`), that worktodo.ini is of that run's composite
  (`TodoWritten`), and that the coefficient in flight is one (`BusyOnCoeff`), which is
  what a torn record is cut from.
* `RangesExactAlways` and `InterruptIsLastAlways`, also with msieves left behind.
* `NothingLostAlways`, also under `~Orphans`, from `PInv`: what a scan reads is covered
  up to it (`HeldCovered`; a cut number is smaller than the coefficient it was cut
  from), and a run of a plain chain has one range, behind all of that (`OneRange`,
  since everything that is skipped lies below its start: `NoSplitOneRange`).
* `OneCompositeAlways`, `TargetKeptAlways` and `NeverRevisitedAlways` under `~Orphans`,
  from `SInv`: the corpus belongs to worktodo.ini (`CorpusOwned`), the missing number
  is the target less the records at every place of the loop (`CountKept`), and the
  ranges left, the search in progress and the recorded coefficients share no
  candidate (`RangesApart`, which starts from `CoeffRangesExact`).  `~Orphans` cannot
  be dropped from the last: see the history at the end of section 3.

Assumptions: `OpenAssumption` (NULL is not a number), `BoundsAssumption`,
`SmoothAssumption`, `ParamsAssumption`.

`FleetProofs` proves, for any number of workers, any faults of each, and any number of
late calls:

* `FleetKeepsTables`, `FleetOneResult`, `FleetCovers`: every step of the fleet is one
  of the tables.  `FleetTypeCorrect`: from `FleetInv`, which says for each place of a
  worker's loop which call is out, about which workunit, and what its answer may be.
* `EndedByHolderAlways`: a lease that is alive is ended by a call that carried the id
  of its holder.  It assumes that no worker has the empty id: for that one the
  server's comparison of holders is not made.
* `ChargedOnlyForLostLease`: an attempt is charged for one lease at a time, to the sweep
  once the lease has expired or to a failing upload of its holder (`ChargesOwnFailure`);
  a release is free.  It assumes, too, that no worker has the empty id.
* `DeletedOnlyIfRecordedAlways` needs `StoredIsRecorded`: an answer 200 that is on its
  way, or at its worker, is about a result that is recorded, and stays so.
* `IdleHoldsNothingAlways` needs `HeldInHand`: a lease held by a careful worker is of
  the workunit its loop has in hand, or of the call that is giving it back.  It assumes
  distinct ids; a worker that shares its id can be given a lease it does not know of.

Assumption: `FleetAssumption`.

`JobAdminProofs` proves, for any number of jobs, inits, crashes and servers:

* `JobSteps`: a step of the directory is a step of `PolyServer`, or it ends in an
  initial state of it (the unlink).  With `Quiet` (no server, no uploads) the
  invariants of `PolyServerProofs` therefore hold across all jobs: `JobOneResult`,
  and `JobBlobIntactAlways` under the conditions of `BlobIntactAlways`.
* `NoMixedJobAlways`, `ServedJobAlways`, `TokenFileTrueAlways`, `JobTypeCorrect` from
  `AdminInv`.  None of them is inductive: they need `GuardHolds`, that from the guard
  of `init`, or the wipe, up to its transaction the database has no rows and no job.
  That is where the order of the code matters: a job that could appear in between
  (two administrators) would break it.
* `ForcedJobIsCleanAlways` from `WipeHolds`, which follows what a forced `init` that
  found a database, and met no server, has emptied.

Assumptions: those of `PolyServerProofs`, and `MaxJobsAssumption`.

`PolyFilesProofs` proves:

* `BadRecordCaughtAlways`, `HonestAcceptedAlways`, `SampleTypeCorrect`, for streams of
  any length, chunks of any size and every limit: from `SampleInv`, which says that
  the cut is behind an end of the whole stream (`BufferBehindCut`), and that the
  records are the paragraphs before it (`RecordsAreCut`).  The step that matters is
  `NextEnd`: the first break of the buffer is the next end of the stream, because the
  newlines that lead up to it are either all behind the cut, or the cut itself ends a
  pair of them (`EndsApart`).
* `BestChosenAlways`, for any number of polynomials in a file, any scores, in both
  layouts: what is taken from a file that has a complete polynomial for the composite
  is the best that can be told from it, with its own score.  `SubmitInv` carries only
  that the text is one of `Files`; the rest is about the operators.  The lines of
  such a file are ordered by polynomial and kind, so that every polynomial lies
  between two starts (the lemmas on `Starts` and `Block`) and its block has the lines of
  no other; `BestIsBest` is about the choice among the blocks, `TakenIsBest` about the
  whole of `extract_best_and_count`.  `FlattenUnfolds` replaces the induction over a
  recursive function by the least index at which it fails.
* `StaleOnlyIfAdvancedAlways`, for any files, composites and scores: what passed the
  validation names the composite that was fetched, and the sequence never goes back.

Assumptions: `SampleAssumption`, `SubmitAssumption`.

Only model-checked: liveness (`LeaseEnds`, `JobSettles`, `SignalStops`), which is out
of the prover's reach.

## 5. Not modelled

* Digits of other scripts, which `isdigit()` lets pass (`__main__.py:34`) and which
  SQLite orders by their code points.  The sample check compares texts, so no upload
  for a text that msieve would write in another way passes it.
* `prune`, which only raises an error.
* Of `polylocal`: the digit table and the choice among several candidates, which supply
  constants; the arithmetic of `validate_poly`; `existing_poly`, which tests alone call.
* Power loss (as opposed to the death of a process): no `fsync` comes before the rename
  of a blob (`app.py:151`).  SQLite's own locking, beyond the one write lock.
* Failures and signals of a worker at the granularity of its attempts to stop: a worker
  that fails and is started again for ever (`client.py:180`), and one whose uploads are
  rejected, which resets its count of failures (`client.py:178`).
* zstd itself: a blob that is cut off or of several frames.
* `/health`, `/stats`, the dashboard, `pull.sh` and `copy-poly.sh` (one rsync and one
  cp), the bootstrap and the service unit.

## 6. Plan

All modules planned are written, and every invariant and action property of a passing
run is proved.  What could still be added:

* Two administrators at once, with SQLite's lock between the two transactions.
* Faults of a statement under the uploads of `PolyServer`: a row that is in no file
  beside a blob that is, until the restart.
* A file system that may lose what was not synced.
