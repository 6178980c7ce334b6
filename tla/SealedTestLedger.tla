-------------------------- MODULE SealedTestLedger --------------------------
(***************************************************************************)
(* The durable one-shot ledger of the sealed test (class SealedTestLedger, *)
(* python/irisu_rl/r3b_experiments.py): one SQLite file with one attempt   *)
(* row, one row per sealed test job and one row for the baseline batch.    *)
(*                                                                         *)
(* Every operation is one BEGIN IMMEDIATE transaction, so one action.      *)
(* Where the code checks a lease first (SealedTestJobLease._assert_state,  *)
(* SealedTestRunAuthorization.assert_authorized) it does so on another     *)
(* connection, before the transaction: by the time the UPDATE runs the     *)
(* answer may be stale, and only the WHERE clause is a guard.  The actions *)
(* below therefore carry the WHERE clauses alone, and any caller that ever *)
(* held a token may present it at any time.  Reads that only return or     *)
(* raise (resume_job, job_state, verify_completed_job, ...) are predicates.*)
(***************************************************************************)
EXTENDS Naturals

CONSTANTS Jobs,      \* the authorized sealed test jobs
          Batch,     \* the sealed baseline batch
          Tokens,    \* bearer tokens (random 256-bit strings in the code)
          Outcomes,  \* outcome and evidence digests
          Reasons,   \* what a failure can be about
          None       \* SQL NULL

ASSUME UnitsAssumption == Batch \notin Jobs
ASSUME NullAssumption ==
  /\ None \notin Tokens
  /\ None \notin Outcomes
  /\ None \notin BOOLEAN
  /\ None \notin [about : Reasons, padded : BOOLEAN]

VARIABLES attempt,   \* state of the attempt row
          row,       \* row[u] : the job row, or the baseline row, of u
          accepted   \* the stored decision

ledger == <<attempt, row, accepted>>

Units == Jobs \cup {Batch}

\* Rows whose lease token is under the same UNIQUE constraint as that of u.
Table(u) == IF u = Batch THEN {Batch} ELSE Jobs

\* A failure text; padded ones have white space around them, as the message
\* "AssertionError: " of an exception raised without arguments has.
FailureTexts == [about : Reasons, padded : BOOLEAN]
Strip(text) == [text EXCEPT !.padded = FALSE]

States == {"absent", "pending", "leased", "running", "complete", "failure"}
Terminal == {"complete", "failure"}

Rows == [state : States, token : Tokens \cup {None},
         outcome : Outcomes \cup {None}, failure : FailureTexts \cup {None}]

Row(state) == [state |-> state, token |-> None, outcome |-> None, failure |-> None]

\* The three tables hold what their CHECK constraints and the hash checks of the
\* operations admit: every column keeps its own kind of value.
LedgerTypeOK ==
  /\ attempt \in {"absent", "ready", "authorized", "finalized"}
  /\ row \in [Units -> Rows]
  /\ accepted \in BOOLEAN \cup {None}

LedgerInit ==
  /\ attempt = "absent"
  /\ row = [u \in Units |-> Row("absent")]
  /\ accepted = None

-----------------------------------------------------------------------------
(* The attempt row. *)

\* A repeated precommit of the same suite changes nothing, another is refused.
Precommit ==
  /\ attempt = "absent"
  /\ attempt' = "ready"
  /\ UNCHANGED <<row, accepted>>

\* A repeated authorization with the same content changes nothing.
AuthorizeOnce ==
  /\ attempt = "ready"
  /\ attempt' = "authorized"
  /\ row' = [u \in Units |-> Row("pending")]
  /\ UNCHANGED accepted

-----------------------------------------------------------------------------
(* One transaction on the row of a job or of the baseline batch. *)

Holds(u, state, t) == row[u].state = state /\ row[u].token = t

Claim(u, t) ==
  /\ row[u].state = "pending"
  /\ \A v \in Table(u) : row[v].token # t
  /\ row' = [row EXCEPT ![u].state = "leased", ![u].token = t]
  /\ UNCHANGED <<attempt, accepted>>

\* Mutant: the WHERE clause forgets the state.
BeginAgain(u, t) ==
  /\ row[u].token = t
  /\ row' = [row EXCEPT ![u].state = "running"]
  /\ UNCHANGED <<attempt, accepted>>

Begin(u, t) ==
  /\ Holds(u, "leased", t)
  /\ row' = [row EXCEPT ![u].state = "running"]
  /\ UNCHANGED <<attempt, accepted>>

\* Mutant: the parameters of the UPDATE are swapped.
CompleteSwapped(u, t, outcome) ==
  /\ Holds(u, "running", t)
  /\ row' = [row EXCEPT ![u].state = "complete", ![u].outcome = t, ![u].token = outcome]
  /\ UNCHANGED <<attempt, accepted>>

Complete(u, t, outcome) ==
  /\ Holds(u, "running", t)
  /\ row' = [row EXCEPT ![u].state = "complete", ![u].outcome = outcome]
  /\ UNCHANGED <<attempt, accepted>>

Fail(u, t, text) ==
  /\ Holds(u, "running", t)
  /\ row' = [row EXCEPT ![u].state = "failure", ![u].failure = Strip(text)]
  /\ UNCHANGED <<attempt, accepted>>

ClaimJob(j, t) == Claim(j, t)
BeginJob(j, t) == Begin(j, t)
CompleteJob(j, t, outcome) == Complete(j, t, outcome)
FailJob(j, t, text) == Fail(j, t, text)

ClaimBaselineBatch(t) == Claim(Batch, t)
BeginBaselineBatch(t) == Begin(Batch, t)
CompleteBaselineBatch(t, evidence) == Complete(Batch, t, evidence)
FailBaselineBatch(t, text) == Fail(Batch, t, text)

\* resume_job and resume_baseline_batch: an unstarted lease and its bearer.
MayResume(u, t) == Holds(u, "leased", t)
VerifyCompletedJob(j, outcome) ==
  row[j].state = "complete" /\ row[j].outcome = outcome
VerifyFailedJob(j, text) ==
  row[j].state = "failure" /\ row[j].failure = text

\* Mutant: the reason is not stored.
TerminalizeSilently(text) ==
  /\ \E u \in Units : row[u].state = "running"
  /\ row' = [u \in Units |-> IF row[u].state = "running"
                            THEN [row[u] EXCEPT !.state = "failure"] ELSE row[u]]
  /\ UNCHANGED <<attempt, accepted>>

\* Gives up whatever is still running, in one transaction.
TerminalizeOrphanedExecution(text) ==
  /\ \E u \in Units : row[u].state = "running"
  /\ row' = [u \in Units |->
               IF row[u].state = "running"
               THEN [row[u] EXCEPT !.state = "failure", !.failure = Strip(text)]
               ELSE row[u]]
  /\ UNCHANGED <<attempt, accepted>>

AllTerminal == \A u \in Units : row[u].state \in Terminal
NoFailure == \A u \in Units : row[u].state # "failure"

\* Mutant: the decision does not wait for the baseline batch.
FinalizeWithoutBatch(gates) ==
  /\ attempt = "authorized"
  /\ \A j \in Jobs : row[j].state \in Terminal
  /\ attempt' = "finalized"
  /\ accepted' = (gates /\ NoFailure)
  /\ UNCHANGED row

\* gates: whether the bootstrap gates of the decision pass.  A failed job makes
\* its arm post_start_failure and a failed batch leaves no baseline evidence,
\* and either rejects whatever the gates say.
FinalizeOnce(gates) ==
  /\ attempt = "authorized"
  /\ AllTerminal
  /\ attempt' = "finalized"
  /\ accepted' = (gates /\ NoFailure)
  /\ UNCHANGED row

-----------------------------------------------------------------------------

LedgerNext ==
  \/ Precommit
  \/ AuthorizeOnce
  \/ \E j \in Jobs, t \in Tokens :
       \/ ClaimJob(j, t)
       \/ BeginJob(j, t)
       \/ \E o \in Outcomes : CompleteJob(j, t, o)
       \/ \E f \in FailureTexts : FailJob(j, t, f)
  \/ \E t \in Tokens :
       \/ ClaimBaselineBatch(t)
       \/ BeginBaselineBatch(t)
       \/ \E o \in Outcomes : CompleteBaselineBatch(t, o)
       \/ \E f \in FailureTexts : FailBaselineBatch(t, f)
  \/ \E f \in FailureTexts : TerminalizeOrphanedExecution(f)
  \/ \E gates \in BOOLEAN : FinalizeOnce(gates)

LedgerSpec == LedgerInit /\ [][LedgerNext]_ledger

-----------------------------------------------------------------------------
(* Properties. *)

\* _verify_connection, run by every later connect: the columns of each row are
\* those its state allows.
RowVerifies(r) ==
  /\ r.state = "pending" => r.token = None /\ r.outcome = None /\ r.failure = None
  /\ r.state \in {"leased", "running"} =>
       r.token # None /\ r.outcome = None /\ r.failure = None
  /\ r.state = "complete" => r.token # None /\ r.outcome # None /\ r.failure = None
  /\ r.state = "failure" => r.token # None /\ r.outcome = None /\ r.failure # None

\* No sequence of operations leaves a ledger that the next connect refuses: a
\* refused ledger would make every lease and every result unreachable.
ConnectionVerifies ==
  /\ attempt \in {"ready", "authorized"} => accepted = None
  /\ attempt = "finalized" => accepted \in BOOLEAN
  /\ \A u \in Units : RowVerifies(row[u])

\* Once the decision is taken no caller with an old token can touch a row any
\* more: finalize_once against begin_job, complete_job, fail_job and
\* terminalize_orphaned_execution, whose WHERE clauses never look at the attempt.
DecisionIsLast ==
  [][attempt = "finalized" => UNCHANGED ledger]_ledger

\* A stored decision was taken over results that are all in, and accepts only if
\* no job and not the batch failed: what DecisionIsLast needs of a state.
DecisionCoversAll ==
  attempt = "finalized" => AllTerminal /\ (accepted => NoFailure)

\* The ledger implements the one-shot trial: leasing and recovering leases are
\* invisible, begin is the only start, there is no second start and no result
\* ever changes.
TrialResult(r) ==
  CASE r.state = "complete" -> r.outcome
    [] r.state = "failure" -> r.failure
    [] OTHER -> None

Trial == INSTANCE OneShotTrial WITH
  Results <- Outcomes,
  Failures <- FailureTexts,
  Nothing <- None,
  progress <- [u \in Units |->
                 IF row[u].state = "running" THEN "started"
                 ELSE IF row[u].state \in Terminal THEN "over" ELSE "waiting"],
  result <- [u \in Units |-> TrialResult(row[u])],
  decision <- IF attempt # "finalized" THEN "open"
              ELSE IF accepted THEN "accepted" ELSE "rejected"

ImplementsTrial == Trial!TrialSpec
=============================================================================
