---------------------------- MODULE SealedTestRun ----------------------------
(***************************************************************************)
(* The sealed test of a run: the workflow table, the one-shot ledger, the  *)
(* private files that keep bearer tokens across crashes, and the operator  *)
(* commands prepare-test, canonical-run-job --phase test, run-baselines    *)
(* and finalize-test (python/irisu_rl/r3b_phases.py, r3b_local_runner.py,  *)
(* r3b_supervisor.py, r3b_baselines.py, r3b_cli.py).                       *)
(*                                                                         *)
(* The two databases and the files are written one after the other, never  *)
(* together, so a command is a sequence of steps with one durable write    *)
(* each.  R3BRunLock admits one command at a time; a crash may end it      *)
(* between any two writes, and the next command, possibly of another       *)
(* owner, starts from what the databases and files say.  Errors that a     *)
(* command raises before it has anything to record leave the same state    *)
(* behind as a crash and are not modelled apart from it.                   *)
(***************************************************************************)
EXTENDS Naturals, FiniteSets

CONSTANTS WorkflowJobs,  \* the jobs of the experiment
          Phase,         \* Phase[j] : "validation" or "test"
          Batch,         \* the sealed baseline batch
          Budget, Owners,
          ClaimTokens,   \* bearer tokens of workflow claims
          LeaseTokens,   \* bearer tokens of ledger leases
          Artifacts, Outputs, Outcomes, Reasons,
          Errors,        \* texts of the exceptions that commands may raise
          Orphaned,      \* "orphaned sealed execution found after process restart"
          None

ASSUME RunAssumption ==
  /\ Phase \in [WorkflowJobs -> {"validation", "test"}]
  /\ {"validation", "test"} = {Phase[j] : j \in WorkflowJobs}
  /\ Batch \notin WorkflowJobs
  /\ Orphaned \in Reasons
  /\ Errors \subseteq [about : Reasons, padded : BOOLEAN]
  /\ None \notin [token : ClaimTokens, owner : Owners]
  /\ None \notin [job : WorkflowJobs, token : ClaimTokens, owner : Owners,
                 from : {0}, checkpoint : {None}]
  /\ Budget \in Nat \ {0}
  /\ None \notin Owners \cup ClaimTokens \cup LeaseTokens \cup Artifacts \cup Outputs
                \cup Outcomes \cup BOOLEAN
  /\ None \notin [about : Reasons, padded : BOOLEAN]

VARIABLES rows, checkpoints, audits, history, seen, seenAudits, installed,
          lastAt, accepts, claims,         \* R3BWorkflow
          attempt, row, accepted,          \* SealedTestLedger
          claimIntent,   \* secrets/test.intent.json : the token and owner it holds
          claimFile,     \* secrets/<job>.claim.json
          leaseIntent,   \* secrets/<job>.sealed.intent.json, sealed-baseline.intent.json
          leaseFile,     \* secrets/<job>.sealed.json, sealed-baseline.json
          package,       \* whether the sealed authorization package is published
          references,    \* published outcome references and baseline summaries
          at,            \* what the running command does next; "idle" if none runs
          owner, unit, claim, text   \* its local variables

TestJobs == {j \in WorkflowJobs : Phase[j] = "test"}
FailureTexts == [about : Reasons, padded : BOOLEAN]

W == INSTANCE R3BWorkflow WITH
  Jobs <- WorkflowJobs, Tokens <- ClaimTokens, Texts <- FailureTexts,
  MaxClock <- 0, ClockStepsBack <- FALSE, clock <- 0, sealed <- row
L == INSTANCE SealedTestLedger WITH Jobs <- TestJobs, Tokens <- LeaseTokens

workflow == <<rows, checkpoints, audits, history, seen, seenAudits, installed,
              lastAt, accepts, claims>>
ledger == <<attempt, row, accepted>>
secrets == <<claimIntent, claimFile, leaseIntent, leaseFile>>
store == <<package, references>>
locals == <<owner, unit, claim, text>>
all == <<workflow, ledger, secrets, store, at, locals>>

References == [unit : L!Units, outcome : Outcomes, output : Outputs]

\* What a job's row says once it completed.
Completed(o, output) == [W!Blank("completed") EXCEPT !.owner = o, !.output = output]

\* Validation is over, the suite was precommitted before it.
RunInit ==
  \E o \in Owners, out \in Outputs, a \in Artifacts :
  LET Done == Completed(o, out)
      Validated(j) == Phase[j] = "validation"
  IN /\ rows = [j \in WorkflowJobs |->
           W!JobRow(IF Validated(j) THEN Done ELSE W!Blank("absent"), None)]
     /\ checkpoints = [j \in WorkflowJobs |-> [u \in W!Updates |->
           IF Validated(j) THEN a ELSE None]]
     /\ audits = [j \in WorkflowJobs |-> {}]
     /\ history = [j \in WorkflowJobs |->
           IF Validated(j) THEN Done ELSE W!Blank("pending")]
     /\ seen = [j \in WorkflowJobs |-> IF Validated(j) THEN W!Updates ELSE {}]
     /\ seenAudits = [j \in WorkflowJobs |-> {}]
     /\ installed = {"validation"}
     /\ lastAt = 0 /\ accepts = TRUE /\ claims = {}
     /\ attempt = "ready"
     /\ row = [u \in L!Units |-> L!Row("absent")]
     /\ accepted = None
     /\ claimIntent = None
     /\ claimFile = [j \in TestJobs |-> None]
     /\ leaseIntent = [u \in L!Units |-> None]
     /\ leaseFile = [u \in L!Units |-> None]
     /\ package = FALSE
     /\ references = {}
     /\ at = "idle"
     /\ owner = None /\ unit = None /\ claim = None /\ text = None

Continue(step) == at' = step /\ UNCHANGED locals
Return == at' = "idle" /\ owner' = None /\ unit' = None /\ claim' = None /\ text' = None

\* load_sealed_authorization
Authorized == package /\ attempt = "authorized"

Lease == leaseFile[unit]
Published(u) == {r \in references : r.unit = u /\ r.outcome = row[u].outcome}

-----------------------------------------------------------------------------
(* prepare-test: authorize once, publish the package, install the jobs. *)

StartPrepare ==
  /\ at = "idle"
  /\ \/ ~package /\ L!AuthorizeOnce /\ Continue("package")
     \/ ~package /\ attempt = "authorized" /\ UNCHANGED ledger /\ Continue("package")
     \/ Authorized /\ UNCHANGED ledger /\ Continue("install")
  /\ UNCHANGED <<workflow, secrets, store>>

PublishPackage ==
  /\ at = "package"
  /\ package' = TRUE
  /\ Continue("install")
  /\ UNCHANGED <<workflow, ledger, secrets, references>>

InstallTestJobs ==
  /\ at = "install"
  /\ \/ W!AppendJobs("test")
     \/ /\ \A j \in TestJobs : W!Status(j) # "absent"
        /\ UNCHANGED workflow
  /\ Return
  /\ UNCHANGED <<ledger, secrets, store>>

-----------------------------------------------------------------------------
(* acquire_sealed_job, first half: a workflow claim. *)

StartJob(o) ==
  /\ at = "idle" /\ Authorized
  /\ at' = "acquire" /\ owner' = o
  /\ UNCHANGED <<workflow, ledger, secrets, store, unit, claim, text>>

\* Mutant: a trained job does not count as active.
ActiveClaimsUntrained == {claimFile[j] : j \in {i \in TestJobs :
                   claimFile[i] # None /\ W!Status(i) \in {"claimed", "running"}}}

ActiveClaims == {claimFile[j] : j \in {i \in TestJobs :
                   claimFile[i] # None /\ W!Status(i) \in W!Active}}

\* resume_unstarted_claim
Claimed(token, o) == {j \in TestJobs :
  rows[j].token = token /\ rows[j].columns.owner = o}

Adopt(c, step) ==
  /\ at' = step /\ claim' = c /\ unit' = c.job
  /\ UNCHANGED <<owner, text>>

AdoptActiveClaim ==
  /\ at = "acquire"
  /\ \E c \in ActiveClaims :
       /\ ActiveClaims = {c}
       /\ c.owner = owner
       /\ Adopt(c, "lease")
  /\ UNCHANGED <<workflow, ledger, secrets, store>>

\* Nothing active of this owner, and nothing it may adopt: the command raises.
ForeignClaim ==
  /\ at = "acquire"
  /\ \/ \E c \in ActiveClaims : c.owner # owner
     \/ ActiveClaims = {} /\ claimIntent # None /\ claimIntent.owner # owner
  /\ Return
  /\ UNCHANGED <<workflow, ledger, secrets, store>>

WriteClaimIntent(t) ==
  /\ at = "acquire" /\ ActiveClaims = {} /\ claimIntent = None
  /\ \A c \in claims : c.token # t
  /\ claimIntent' = [token |-> t, owner |-> owner]
  /\ Continue("acquire")
  /\ UNCHANGED <<workflow, ledger, claimFile, leaseIntent, leaseFile, store>>

OwnIntent ==
  at = "acquire" /\ ActiveClaims = {} /\ claimIntent # None /\ claimIntent.owner = owner

ResumeClaim ==
  /\ OwnIntent
  /\ \E j \in Claimed(claimIntent.token, owner) :
       /\ W!Status(j) = "claimed"
       /\ Adopt([job |-> j, token |-> claimIntent.token, owner |-> owner,
               from |-> 0, checkpoint |-> None],
                "keep claim")
  /\ UNCHANGED <<workflow, ledger, secrets, store>>

ClaimNextJob ==
  /\ OwnIntent
  /\ Claimed(claimIntent.token, owner) = {}
  /\ W!ClaimNext("test", owner, claimIntent.token)
  /\ \E c \in claims' \ claims : Adopt(c, "keep claim")
  /\ UNCHANGED <<ledger, secrets, store>>

NoPendingJob ==
  /\ OwnIntent
  /\ Claimed(claimIntent.token, owner) = {}
  /\ \A j \in TestJobs : W!Status(j) # "pending"
  /\ claimIntent' = None
  /\ Return
  /\ UNCHANGED <<workflow, ledger, claimFile, leaseIntent, leaseFile, store>>

\* publish_private_file refuses to replace a file.
WriteClaim ==
  /\ at = "keep claim"
  /\ claimFile[unit] = None
  /\ claimFile' = [claimFile EXCEPT ![unit] = claim]
  /\ Continue("drop claim intent")
  /\ UNCHANGED <<workflow, ledger, claimIntent, leaseIntent, leaseFile, store>>

UnlinkClaimIntent ==
  /\ at = "drop claim intent"
  /\ claimIntent' = None
  /\ Continue("lease")
  /\ UNCHANGED <<workflow, ledger, claimFile, leaseIntent, leaseFile, store>>

-----------------------------------------------------------------------------
(* acquire_sealed_job, second half, and _acquire_baseline_lease: a lease of *)
(* the ledger, or the recovery of what an earlier command left behind.      *)

StartBaselines ==
  /\ at = "idle" /\ Authorized
  /\ row[Batch].state \notin L!Terminal
  /\ at' = "lease" /\ unit' = Batch
  /\ UNCHANGED <<workflow, ledger, secrets, store, owner, claim, text>>

WriteLeaseIntent(t) ==
  /\ at = "lease" /\ leaseFile[unit] = None /\ leaseIntent[unit] = None
  /\ \A u \in L!Units : t \notin {leaseIntent[u], leaseFile[u], row[u].token}
  /\ leaseIntent' = [leaseIntent EXCEPT ![unit] = t]
  /\ Continue("lease")
  /\ UNCHANGED <<workflow, ledger, claimIntent, claimFile, leaseFile, store>>

\* Mutant: the intent is dropped before the lease is kept.
TakeLeaseDropsIntent ==
  /\ at = "lease" /\ leaseFile[unit] = None /\ leaseIntent[unit] # None
  /\ L!Claim(unit, leaseIntent[unit])
  /\ leaseIntent' = [leaseIntent EXCEPT ![unit] = None]
  /\ Continue("keep lease")
  /\ UNCHANGED <<workflow, claimIntent, claimFile, leaseFile, store>>

\* resume_job and resume_baseline_batch, or else claim_job and claim_baseline_batch.
TakeLease ==
  /\ at = "lease" /\ leaseFile[unit] = None /\ leaseIntent[unit] # None
  /\ IF L!MayResume(unit, leaseIntent[unit])
     THEN UNCHANGED ledger
     ELSE L!Claim(unit, leaseIntent[unit])
  /\ Continue("keep lease")
  /\ UNCHANGED <<workflow, secrets, store>>

WriteLease ==
  /\ at = "keep lease"
  /\ leaseFile' = [leaseFile EXCEPT ![unit] = leaseIntent[unit]]
  /\ Continue("drop lease intent")
  /\ UNCHANGED <<workflow, ledger, claimIntent, claimFile, leaseIntent, store>>

UnlinkLeaseIntent ==
  /\ at = "drop lease intent"
  /\ leaseIntent' = [leaseIntent EXCEPT ![unit] = None]
  /\ Continue("begin")
  /\ UNCHANGED <<workflow, ledger, claimIntent, claimFile, leaseFile, store>>

Recovering == at = "lease" /\ leaseFile[unit] # None

UseLease ==
  /\ Recovering /\ row[unit].state = "leased"
  /\ Continue("begin")
  /\ UNCHANGED <<workflow, ledger, secrets, store>>

\* Mutant: only completions are recovered.
RecoverCompletionOnly ==
  /\ Recovering /\ unit # Batch
  /\ \E r \in Published(unit) :
       W!ReconcileSealedCompletion(unit, r.outcome, r.output)
  /\ at' = "acquire" /\ unit' = None /\ claim' = None
  /\ UNCHANGED <<ledger, secrets, store, owner, text>>

\* The ledger holds a result: give it to the workflow and look for another job.
RecoverResult ==
  /\ Recovering /\ unit # Batch
  /\ \/ /\ Cardinality(Published(unit)) = 1
        /\ \E r \in Published(unit) :
             W!ReconcileSealedCompletion(unit, r.outcome, r.output)
     \/ W!ReconcileSealedFailure(unit, row[unit].failure)
  /\ at' = "acquire" /\ unit' = None /\ claim' = None
  /\ UNCHANGED <<ledger, secrets, store, owner, text>>

OrphanedText == [about |-> Orphaned, padded |-> FALSE]

FailOrphan ==
  /\ Recovering /\ row[unit].state = "running"
  /\ L!Fail(unit, Lease, OrphanedText)
  /\ IF unit = Batch
     THEN Return
     ELSE at' = "mirror" /\ text' = OrphanedText /\ UNCHANGED <<owner, unit, claim>>
  /\ UNCHANGED <<workflow, secrets, store>>

-----------------------------------------------------------------------------
(* Execution of a job: _build, _run_local_training_updates and              *)
(* evaluate_trained_canonical_job; of the batch: run_sealed_baselines.      *)

\* One-shot from here on: a crash after this step is terminal for the unit.
BeginLease ==
  /\ at = "begin"
  /\ unit # Batch => W!Status(unit) = "claimed"
  /\ L!Begin(unit, Lease)
  /\ Continue(IF unit = Batch THEN "publish" ELSE "build")
  /\ UNCHANGED <<workflow, secrets, store>>

\* The builder records the failure itself and lets the error through.
BuildFails(f) ==
  /\ at = "build"
  /\ L!FailJob(unit, Lease, f)
  /\ at' = "fail" /\ text' = f
  /\ UNCHANGED <<workflow, secrets, store, owner, unit, claim>>

BeginTraining ==
  /\ at = "build"
  /\ W!Begin(claim)
  /\ Continue("update")
  /\ UNCHANGED <<ledger, secrets, store>>

\* Checkpoint 0 first, then one per interval up to the budget.
SaveCheckpoint(a) ==
  /\ at = "update"
  /\ ~W!HasFinal(unit)
  /\ W!RecordCheckpoint(claim, Cardinality(W!Recorded(unit)), a)
  /\ Continue("update")
  /\ UNCHANGED <<ledger, secrets, store>>

FinishTraining ==
  /\ at = "update"
  /\ W!MarkTrained(claim)
  /\ Continue("audit")
  /\ UNCHANGED <<ledger, secrets, store>>

AuditResume(a) ==
  /\ at = "audit"
  /\ W!PublishResumeAudit(claim, a)
  /\ Continue("publish")
  /\ UNCHANGED <<ledger, secrets, store>>

\* Mutant: the two digests of the reference are swapped.
PublishSwapped(outcome, output) ==
  /\ at = "publish"
  /\ references' = references \cup {[unit |-> unit, outcome |-> output, output |-> outcome]}
  /\ Continue("commit")
  /\ UNCHANGED <<workflow, ledger, secrets, package>>

\* The outcome reference of a job or the evidence summary of the batch.
PublishResult(outcome, output) ==
  /\ at = "publish"
  /\ references' = references \cup {[unit |-> unit, outcome |-> outcome, output |-> output]}
  /\ Continue("commit")
  /\ UNCHANGED <<workflow, ledger, secrets, package>>

CommitResult ==
  /\ at = "commit"
  /\ \E r \in references : r.unit = unit /\ L!Complete(unit, Lease, r.outcome)
  /\ IF unit = Batch THEN Return ELSE Continue("complete")
  /\ UNCHANGED <<workflow, secrets, store>>

\* Mutant: the workflow need not wait for the ledger.
CompleteRowFirst ==
  /\ at \in {"commit", "complete"} /\ unit # Batch
  /\ \E r \in references : r.unit = unit /\ W!Complete(claim, r.output)
  /\ Return
  /\ UNCHANGED <<ledger, secrets, store>>

CompleteRow ==
  /\ at = "complete"
  /\ \E r \in Published(unit) : W!Complete(claim, r.output)
  /\ Return
  /\ UNCHANGED <<ledger, secrets, store>>

ExecutionFails(f) ==
  /\ at \in {"build", "update", "audit", "publish", "commit"} /\ unit # Batch
  /\ at' = "fail" /\ text' = f
  /\ UNCHANGED <<workflow, ledger, secrets, store, owner, unit, claim>>

BaselinesFail(f) ==
  /\ at \in {"publish", "commit"} /\ unit = Batch
  /\ L!FailBaselineBatch(Lease, f)
  /\ Return
  /\ UNCHANGED <<workflow, secrets, store>>

\* _reconcile_sealed_training_failure and the handler of the evaluation: the
\* ledger first, and if the builder was there before, with the reason it kept.
RecordFailure ==
  /\ at = "fail"
  /\ \/ L!FailJob(unit, Lease, text) /\ UNCHANGED text
     \/ /\ row[unit].state = "failure"
        /\ text' = row[unit].failure
        /\ UNCHANGED ledger
  /\ at' = "mirror"
  /\ UNCHANGED <<workflow, secrets, store, owner, unit, claim>>

\* reconcile_sealed_failure raises unless the ledger stored exactly this text.
MirrorFailure ==
  /\ at = "mirror"
  /\ IF L!VerifyFailedJob(unit, text)
     THEN W!ReconcileSealedFailure(unit, text)
     ELSE UNCHANGED workflow
  /\ Return
  /\ UNCHANGED <<ledger, secrets, store>>

-----------------------------------------------------------------------------
(* finalize-test, crashes, and the system. *)

Mirrored(j) == W!Status(j) \in {"completed", "failed"}

StartFinalize ==
  /\ at = "idle" /\ Authorized
  /\ \A j \in TestJobs : row[j].state \in L!Terminal
  /\ Continue("finalize")
  /\ UNCHANGED <<workflow, ledger, secrets, store>>

ReconcileRecord(j) ==
  /\ at = "finalize"
  /\ \/ /\ Cardinality(Published(j)) = 1
        /\ \E r \in Published(j) : W!ReconcileSealedCompletion(j, r.outcome, r.output)
     \/ W!ReconcileSealedFailure(j, row[j].failure)
  /\ Continue("finalize")
  /\ UNCHANGED <<ledger, secrets, store>>

\* Mutant: the decision does not wait for the workflow.
FinalizeUnmirrored(gates) ==
  /\ at = "finalize"
  /\ L!FinalizeOnce(gates)
  /\ Return
  /\ UNCHANGED <<workflow, secrets, store>>

\* finalize_once, which raises while the baseline batch is unfinished.
FinalizeTest(gates) ==
  /\ at = "finalize"
  /\ \A j \in TestJobs : Mirrored(j)
  /\ \/ L!FinalizeOnce(gates)
     \/ row[Batch].state \notin L!Terminal /\ UNCHANGED ledger
  /\ Return
  /\ UNCHANGED <<workflow, secrets, store>>

Crash ==
  /\ at # "idle"
  /\ Return
  /\ UNCHANGED <<workflow, ledger, secrets, store>>

Acquire ==
  \/ AdoptActiveClaim \/ ForeignClaim \/ ResumeClaim \/ ClaimNextJob \/ NoPendingJob
  \/ WriteClaim \/ UnlinkClaimIntent
  \/ \E t \in ClaimTokens : WriteClaimIntent(t)
  \/ \E t \in LeaseTokens : WriteLeaseIntent(t)
  \/ TakeLease \/ WriteLease \/ UnlinkLeaseIntent
  \/ UseLease \/ RecoverResult \/ FailOrphan

Execute ==
  \/ BeginLease \/ BeginTraining \/ FinishTraining
  \/ \E a \in Artifacts : SaveCheckpoint(a) \/ AuditResume(a)
  \/ \E oc \in Outcomes, out \in Outputs : PublishResult(oc, out)
  \/ CommitResult \/ CompleteRow
  \/ \E f \in Errors : BuildFails(f) \/ ExecutionFails(f) \/ BaselinesFail(f)
  \/ RecordFailure \/ MirrorFailure

\* What a running command does next.
Step ==
  \/ PublishPackage \/ InstallTestJobs
  \/ Acquire
  \/ Execute
  \/ \E j \in TestJobs : ReconcileRecord(j)
  \/ \E gates \in BOOLEAN : FinalizeTest(gates)

Start ==
  \/ StartPrepare
  \/ \E o \in Owners : StartJob(o)
  \/ StartBaselines
  \/ StartFinalize

RunNext == Step \/ Start \/ Crash

RunSpec == RunInit /\ [][RunNext]_all

-----------------------------------------------------------------------------
(* Properties. *)

Steps == {"idle", "package", "install", "acquire", "keep claim", "drop claim intent",
          "lease", "keep lease", "drop lease intent", "begin", "build", "update", "audit",
          "publish", "commit", "complete", "fail", "mirror", "finalize"}

\* Both databases, the private files and the variables of the running command
\* hold their kinds of value; a claim in a file is one that was issued.
RunTypeOK ==
  /\ rows \in [WorkflowJobs -> W!Rows]
  /\ L!LedgerTypeOK
  /\ claimIntent \in [token : ClaimTokens, owner : Owners] \cup {None}
  /\ claimFile \in [TestJobs -> claims \cup {None}]
  /\ leaseIntent \in [L!Units -> LeaseTokens \cup {None}]
  /\ leaseFile \in [L!Units -> LeaseTokens \cup {None}]
  /\ package \in BOOLEAN
  /\ references \in SUBSET References
  /\ at \in Steps
  /\ owner \in Owners \cup {None} /\ unit \in L!Units \cup {None}
  /\ claim \in claims \cup {None} /\ text \in FailureTexts \cup {None}

\* The two stores never tell different stories of a job, wherever a command
\* stopped: the workflow is over for a job only after the ledger, with the
\* ledger's result and through the only reference published for it.
WorkflowFollowsLedger ==
  \A j \in TestJobs :
    /\ W!Status(j) = "completed" =>
         /\ row[j].state = "complete"
         /\ \A r \in Published(j) : r.output = rows[j].columns.output
         /\ Cardinality(Published(j)) = 1
    /\ W!Status(j) = "failed" =>
         row[j].state = "failure" /\ row[j].failure = rows[j].columns.failure
    /\ row[j].state \in {"leased", "running"} => W!Status(j) \in W!Active

\* A bearer token that gives authority over a row is always in a file that the
\* next command reads, at every point where the process can die: a lost token
\* would leave a one-shot unit that can neither run nor fail.
NoAuthorityIsLost ==
  /\ \A u \in L!Units :
       /\ row[u].state = "leased" => row[u].token \in {leaseIntent[u], leaseFile[u]}
       /\ row[u].state = "running" => row[u].token = leaseFile[u]
  /\ \A j \in TestJobs : W!Status(j) \in W!Active =>
       \/ claimFile[j] # None /\ W!Authorizes(claimFile[j], W!Active)
       \/ /\ claimIntent = [token |-> rows[j].token, owner |-> rows[j].columns.owner]
          /\ W!Status(j) = "claimed"

\* Sealed jobs are run one at a time, by whichever owners: otherwise the scan
\* for the active claim raises in every later command.
OneActiveJob == Cardinality({j \in TestJobs : W!Status(j) \in W!Active}) <= 1

\* The decision comes after the workflow shows the final state of every job.
DecisionIsMirrored ==
  attempt = "finalized" =>
    \A j \in TestJobs :
      IF row[j].state = "complete" THEN W!Status(j) = "completed" ELSE W!Status(j) = "failed"

\* "Record or recover one sealed failure, then reconcile the workflow row":
\* once the handler is through, the workflow shows the failure.
FailureIsReconciled ==
  [][MirrorFailure => rows'[unit].columns.status = "failed"]_all

\* Commands run to their end, and the operator keeps issuing each of them.
Fairness ==
  /\ WF_all(Step)
  /\ SF_all(StartPrepare)
  /\ \A o \in Owners : SF_all(StartJob(o))
  /\ SF_all(StartBaselines)
  /\ SF_all(StartFinalize)

LiveSpec == RunSpec /\ Fairness /\ <>[][~Crash]_all

\* However often commands died and wherever, once they stop dying the sealed
\* test is decided: nothing they leave behind wedges it.
EventuallyDecided == <>(attempt = "finalized")
=============================================================================
