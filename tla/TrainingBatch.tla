---------------------------- MODULE TrainingBatch ----------------------------
(***************************************************************************)
(* One non-sealed phase run by two commands that share the workflow table  *)
(* and the directory of private files: canonical-run-batch, which claims a *)
(* wave of jobs, trains them in child processes and evaluates them one     *)
(* after the other (python/irisu_rl/r3b_training_batch.py), and            *)
(* canonical-run-job, which does the same for one job in its own process   *)
(* (python/irisu_rl/r3b_local_runner.py).                                  *)
(*                                                                         *)
(* A step makes one durable write.  R3BRunLock admits one command at a     *)
(* time, but a command that dies leaves its children running until the     *)
(* kernel's signal reaches them; the evaluator lease keeps the next        *)
(* command out until they are gone (module R3BRunLock).                    *)
(***************************************************************************)
EXTENDS Naturals, FiniteSets

CONSTANTS BatchJobs,     \* the jobs of the phase
          Budget,        \* checkpoints 0..Budget of every job
          BatchOwners,   \* --owner of canonical-run-batch
          Policies,      \* CPU policies of a plan
          MaxSlots,      \* bound on cpu_plan.parallel_jobs
          Single,        \* --owner of canonical-run-job
          Tokens, Artifacts, Outputs, Errors, None

ASSUME BatchAssumption ==
  /\ MaxSlots \in Nat \ {0}
  /\ Single \notin BatchOwners \cup (BatchOwners \X (1..MaxSlots)) \cup {None}
  /\ None \notin Tokens \cup BatchOwners \cup [owner : BatchOwners, policy : Policies]

VARIABLES rows, checkpoints, audits, history, seen, seenAudits, installed,
          lastAt, accepts, claims,   \* R3BWorkflow
          intent,     \* intent[o] : token kept in the .intent.json of claimant o
          claimFile,  \* claimFile[j] : claim kept in <job>.claim.json
          identity,   \* training-wave-<phase>.identity.json
          wave,       \* the jobs of training-wave-<phase>.json
          trainer,    \* trainer[j] : what the process that trains j is doing
          at,         \* what the running command does next
          who, count, slot, chosen   \* its local variables

Slots == 1..MaxSlots
Workers == BatchOwners \X Slots         \* <owner>-<slot>
Claimants == Workers \cup {Single}

W == INSTANCE R3BWorkflow WITH
  Jobs <- BatchJobs, Phase <- [j \in BatchJobs |-> "calibration"],
  Owners <- Claimants, Outcomes <- {}, Texts <- Errors,
  MaxClock <- 0, ClockStepsBack <- FALSE, clock <- 0,
  sealed <- [j \in BatchJobs |-> None]

workflow == <<rows, checkpoints, audits, history, seen, seenAudits, installed,
              lastAt, accepts, claims>>
bindings == <<identity, wave>>
secrets == <<intent, claimFile>>
locals == <<who, count, slot, chosen>>
vars == <<workflow, secrets, bindings, trainer, at, locals>>

BatchInit ==
  /\ W!WorkflowInit
  /\ intent = [o \in Claimants |-> None]
  /\ claimFile = [j \in BatchJobs |-> None]
  /\ identity = None
  /\ wave = {}
  /\ trainer = [j \in BatchJobs |-> "none"]
  /\ at = "idle"
  /\ who = None /\ count = 0 /\ slot = 0 /\ chosen = {}

Goto(step) == at' = step /\ UNCHANGED locals
Return == at' = "idle" /\ who' = None /\ count' = 0 /\ slot' = 0 /\ chosen' = {}

Active == {j \in BatchJobs : W!Status(j) \in W!Active}
OwnerOf(j) == rows[j].columns.owner
Kept == {j \in Active : claimFile[j] # None}      \* active, with a claim file
Intents == {o \in Claimants : intent[o] # None}
NobodyTrains == \A j \in BatchJobs : trainer[j] = "none"

-----------------------------------------------------------------------------
(* Claiming: the token is kept before the claim is made, the claim before   *)
(* the token is dropped.                                                    *)

\* resume_unstarted_claim
Resumable(o) == {j \in Active : OwnerOf(j) = o /\ rows[j].token = intent[o]}

WriteIntent(o, t) ==
  /\ intent[o] = None
  /\ \A c \in claims : c.token # t
  /\ \A p \in Claimants : intent[p] # t
  /\ intent' = [intent EXCEPT ![o] = t]
  /\ UNCHANGED <<workflow, claimFile, bindings, trainer>>

\* Mutant: resume_unstarted_claim is not asked first.
ClaimAgainWithIntent(o) ==
  /\ intent[o] # None
  /\ W!ClaimNext("calibration", o, intent[o])
  /\ UNCHANGED <<secrets, bindings, trainer>>

\* claim_next with the kept token, unless that token already claimed a job.
ClaimWithIntent(o) ==
  /\ intent[o] # None /\ Resumable(o) = {}
  /\ W!ClaimNext("calibration", o, intent[o])
  /\ UNCHANGED <<secrets, bindings, trainer>>

\* publish_private_file refuses to replace a file.
WriteClaim(o) ==
  /\ intent[o] # None
  /\ \E c \in claims :
       /\ c.job \in Resumable(o) /\ c.token = intent[o]
       /\ W!Status(c.job) = "claimed" /\ claimFile[c.job] = None
       /\ claimFile' = [claimFile EXCEPT ![c.job] = c]
  /\ UNCHANGED <<workflow, intent, bindings, trainer>>

\* Mutant: the intent is dropped as soon as the table has the claim.
UnlinkIntentEarly(o) ==
  /\ intent[o] # None
  /\ \/ Resumable(o) # {}
     \/ \A j \in BatchJobs : W!Status(j) # "pending"
  /\ intent' = [intent EXCEPT ![o] = None]
  /\ UNCHANGED <<workflow, claimFile, bindings, trainer>>

\* The claim is in its file, or there was nothing to claim.
UnlinkIntent(o) ==
  /\ intent[o] # None
  /\ \/ \E j \in Kept : claimFile[j].owner = o /\ claimFile[j].token = intent[o]
     \/ /\ \A j \in Kept : claimFile[j].owner # o
        /\ Resumable(o) = {}
        /\ \A j \in BatchJobs : W!Status(j) # "pending"
  /\ intent' = [intent EXCEPT ![o] = None]
  /\ UNCHANGED <<workflow, claimFile, bindings, trainer>>

-----------------------------------------------------------------------------
(* canonical-run-batch. *)

Batch(o) == {o} \X Slots

\* Mutant: an intent is no recovery secret.
RecoverableByFile(o) ==
  /\ Intents \subseteq Batch(o)
  /\ \A j \in Active : OwnerOf(j) \in Batch(o) /\ claimFile[j] # None

\* _preflight_batch_recovery
Recoverable(o) ==
  /\ Intents \subseteq Batch(o)
  /\ \A j \in Active :
       /\ OwnerOf(j) \in Batch(o)
       /\ claimFile[j] # None \/ OwnerOf(j) \in Intents

\* Mutant: the identity is not bound before the claims.
StartBatchUnbound(o, p, n) ==
  /\ at = "idle" /\ NobodyTrains
  /\ Recoverable(o)
  /\ identity \in {None, [owner |-> o, policy |-> p]}
  /\ at' = "plan" /\ who' = o /\ count' = n
  /\ UNCHANGED <<workflow, secrets, bindings, trainer, slot, chosen>>

\* A start that the checks refuse changes nothing and is left out.
StartBatch(o, p, n) ==
  /\ at = "idle" /\ NobodyTrains
  /\ Recoverable(o)
  /\ identity \in {None, [owner |-> o, policy |-> p]}
  /\ identity' = [owner |-> o, policy |-> p]
  /\ at' = "plan" /\ who' = o /\ count' = n
  /\ UNCHANGED <<workflow, secrets, wave, trainer, slot, chosen>>

\* _prepare_claims finishes the intents it finds, slot 0, and then claims for
\* slots 1..count.
NextSlot(s) ==
  /\ slot' = s
  /\ UNCHANGED <<workflow, secrets, bindings, trainer, at, who, count, chosen>>

Preparing == at = "plan" /\ who # Single /\ wave = {}
Pending(s) ==
  /\ Preparing
  /\ intent[<<who, s>>] # None
  /\ \A r \in 1..(s - 1) : intent[<<who, r>>] = None
BatchIntents == Intents \cap Batch(who)
Claimed(s) == \E j \in Kept : claimFile[j].owner = <<who, s>>

OpenSlot(t) ==
  /\ Preparing /\ BatchIntents = {} /\ slot \in 1..count
  /\ ~Claimed(slot)
  /\ WriteIntent(<<who, slot>>, t)
  /\ Goto("plan")

\* Mutant: the loop over the slots does not end.
SkipSlotForever ==
  /\ Preparing /\ BatchIntents = {}
  /\ NextSlot(slot + 1)

SkipSlot ==
  /\ Preparing /\ BatchIntents = {} /\ slot <= count
  /\ slot = 0 \/ Claimed(slot)
  /\ NextSlot(slot + 1)

ClaimForSlot(s) ==
  /\ Pending(s)
  /\ ~Claimed(s)
  /\ ClaimWithIntent(<<who, s>>) \/ WriteClaim(<<who, s>>)
  /\ Goto("plan")

CloseSlot(s) ==
  /\ Pending(s)
  /\ UnlinkIntent(<<who, s>>)
  /\ slot' = IF slot = 0 THEN 0 ELSE slot + 1
  /\ UNCHANGED <<at, who, count, chosen>>

\* Mutant: the wave lists what this allocation can run at once.
PublishSubwave ==
  /\ Preparing /\ BatchIntents = {} /\ slot > count
  /\ wave' = {j \in Kept : claimFile[j].owner \in {who} \X (1..count)}
  /\ IF wave' = {} THEN Goto("clear") ELSE Goto("plan")
  /\ UNCHANGED <<workflow, secrets, identity, trainer>>

PublishWave ==
  /\ Preparing /\ BatchIntents = {} /\ slot > count
  /\ wave' = {j \in Kept : claimFile[j].owner \in Batch(who)}
  /\ IF wave' = {} THEN Goto("clear") ELSE Goto("plan")
  /\ UNCHANGED <<workflow, secrets, identity, trainer>>

\* The first count unfinished jobs of the wave, in the order of their slots.
Unfinished == {j \in wave : W!Status(j) # "completed"}
Slot(j) == claimFile[j].owner[2]
Subwave == {j \in Unfinished : Cardinality({i \in Unfinished : Slot(i) < Slot(j)}) < count}

Train(jobs) ==
  /\ chosen' = jobs
  /\ trainer' = [j \in BatchJobs |-> IF j \in jobs THEN "start" ELSE "none"]
  /\ at' = "train"
  /\ UNCHANGED <<who, count, slot>>

\* Mutant: a wave with a failed job is given up.
RunWaveForgetsFailure ==
  /\ at = "plan" /\ wave # {}
  /\ IF \A j \in wave : W!Status(j) \in {"completed", "failed"}
     THEN Goto("clear") /\ UNCHANGED trainer
     ELSE Train(Subwave)
  /\ UNCHANGED <<workflow, secrets, bindings>>

RunWave ==
  /\ at = "plan" /\ wave # {}
  /\ IF \E j \in wave : W!Status(j) = "failed"
     THEN Return /\ UNCHANGED trainer
     ELSE IF Unfinished = {} THEN Goto("clear") /\ UNCHANGED trainer
     ELSE Train(Subwave)
  /\ UNCHANGED <<workflow, secrets, bindings>>

\* _clear_cpu_wave
ClearWave ==
  /\ at = "clear"
  /\ wave' = {}
  /\ Goto("unbind")
  /\ UNCHANGED <<workflow, secrets, identity, trainer>>

ClearIdentity ==
  /\ at = "unbind"
  /\ identity' = None
  /\ Return
  /\ UNCHANGED <<workflow, secrets, wave, trainer>>

-----------------------------------------------------------------------------
(* canonical-run-job. *)

StartSingle ==
  /\ at = "idle" /\ NobodyTrains
  /\ \/ /\ Kept = {}
        /\ at' = "claim" /\ who' = Single
        /\ UNCHANGED <<trainer, count, slot, chosen>>
     \/ \E j \in Kept :
        /\ Kept = {j} /\ claimFile[j].owner = Single
        /\ at' = "train" /\ who' = Single /\ chosen' = {j}
        /\ trainer' = [trainer EXCEPT ![j] = "start"]
        /\ UNCHANGED <<count, slot>>
  /\ UNCHANGED <<workflow, secrets, bindings>>

ClaimSingle ==
  /\ at = "claim"
  /\ \/ \E t \in Tokens : WriteIntent(Single, t)
     \/ ClaimWithIntent(Single)
     \/ WriteClaim(Single)
  /\ Goto("claim")

\* The intent is dropped; the training starts with the next step.
SingleClaimed ==
  /\ at = "claim"
  /\ UnlinkIntent(Single)
  /\ IF \E j \in Kept : claimFile[j].owner = Single
     THEN at' = "adopt" /\ UNCHANGED locals
     ELSE Return

TrainSingle ==
  /\ at = "adopt"
  /\ \E j \in Kept : claimFile[j].owner = Single /\ Train({j})
  /\ UNCHANGED <<workflow, secrets, bindings>>

-----------------------------------------------------------------------------
(* _run_local_training_updates in the process that trains j. *)

Live(j) == trainer[j] \in {"start", "update"}
Proceed(j, step) == trainer' = [trainer EXCEPT ![j] = step]
TrainerFrame == UNCHANGED <<secrets, bindings, at, locals>>

BeginOrResume(j) ==
  /\ trainer[j] = "start"
  /\ \/ W!Status(j) = "trained" /\ UNCHANGED workflow /\ Proceed(j, "done")
     \/ W!Begin(claimFile[j]) /\ Proceed(j, "update")
     \/ W!Status(j) = "running" /\ UNCHANGED workflow /\ Proceed(j, "update")
  /\ TrainerFrame

SaveCheckpoint(j, a) ==
  /\ trainer[j] = "update" /\ ~W!HasFinal(j)
  /\ W!RecordCheckpoint(claimFile[j], Cardinality(W!Recorded(j)), a)
  /\ UNCHANGED trainer /\ TrainerFrame

FinishTraining(j) ==
  /\ trainer[j] = "update" /\ W!HasFinal(j)
  /\ W!MarkTrained(claimFile[j])
  /\ Proceed(j, "done") /\ TrainerFrame

\* Once it has begun, a job pays for any exception with its life.
TrainingFails(j, f) ==
  /\ Live(j) /\ W!Status(j) = "running"
  /\ W!Fail(claimFile[j], f)
  /\ Proceed(j, "error") /\ TrainerFrame

\* A child that is killed, or that raises before begin, records nothing.
TrainerDies(j) ==
  /\ Live(j)
  /\ Proceed(j, "error")
  /\ UNCHANGED workflow /\ TrainerFrame

TrainerStep(j) ==
  \/ BeginOrResume(j) \/ FinishTraining(j)
  \/ \E a \in Artifacts : SaveCheckpoint(j, a)
  \/ \E f \in Errors : TrainingFails(j, f)

\* _stop_evaluation_executor: the other children are killed where they are.
StopPool ==
  /\ at = "train"
  /\ \E j \in chosen : trainer[j] = "error"
  /\ trainer' = [j \in BatchJobs |-> "none"]
  /\ Return
  /\ UNCHANGED <<workflow, secrets, bindings>>

JoinPool ==
  /\ at = "train"
  /\ \A j \in chosen : trainer[j] = "done"
  /\ trainer' = [j \in BatchJobs |-> "none"]
  /\ Goto("evaluate")
  /\ UNCHANGED <<workflow, secrets, bindings>>

-----------------------------------------------------------------------------
(* evaluate_trained_canonical_job, one job after the other. *)

\* _active_claim: canonical-run-job names no job, so there must be only one.
Evaluates(j) ==
  /\ at = "evaluate" /\ j \in chosen
  /\ who = Single => Kept = {j}
  /\ Goto("evaluate")
  /\ UNCHANGED <<secrets, bindings, trainer>>

\* The audit is the same bytes every time it is made.
AuditResume(j, a) == Evaluates(j) /\ W!PublishResumeAudit(claimFile[j], a)

CompleteJob(j, out) ==
  Evaluates(j) /\ audits[j] # {} /\ W!Complete(claimFile[j], out)

FinishCommand ==
  /\ at = "evaluate"
  /\ \A j \in chosen : W!Status(j) = "completed"
  /\ IF who # Single /\ Unfinished = {} THEN Goto("clear") ELSE Return
  /\ UNCHANGED <<workflow, secrets, bindings, trainer>>

-----------------------------------------------------------------------------
(* Crashes and the system. *)

\* The children of a batch outlive it for a while; canonical-run-job has none.
Crash ==
  /\ at # "idle"
  /\ Return
  /\ trainer' = [j \in BatchJobs |->
       IF Live(j) /\ who # Single THEN trainer[j] ELSE "none"]
  /\ UNCHANGED <<workflow, secrets, bindings>>

\* PR_SET_PDEATHSIG
OrphanDies(j) ==
  /\ at = "idle" /\ trainer[j] # "none"
  /\ Proceed(j, "none")
  /\ UNCHANGED workflow /\ TrainerFrame

Step ==
  \/ \E t \in Tokens : OpenSlot(t)
  \/ SkipSlot
  \/ \E s \in Slots : ClaimForSlot(s) \/ CloseSlot(s)
  \/ PublishWave \/ RunWave \/ ClearWave \/ ClearIdentity
  \/ ClaimSingle \/ SingleClaimed \/ TrainSingle
  \/ StopPool \/ JoinPool
  \/ \E j \in BatchJobs, a \in Artifacts : AuditResume(j, a)
  \/ \E j \in BatchJobs, out \in Outputs : CompleteJob(j, out)
  \/ FinishCommand

Start ==
  \/ \E o \in BatchOwners, p \in Policies, n \in Slots : StartBatch(o, p, n)
  \/ StartSingle

BatchNext ==
  \/ Step \/ Start \/ Crash
  \/ \E j \in BatchJobs : TrainerStep(j) \/ TrainerDies(j) \/ OrphanDies(j)

BatchSpec == BatchInit /\ [][BatchNext]_vars

-----------------------------------------------------------------------------
(* Properties. *)

\* The table, the private files and the variables of the running command hold
\* their kinds of value.
BatchTypeOK ==
  /\ rows \in [BatchJobs -> W!Rows]
  /\ intent \in [Claimants -> Tokens \cup {None}]
  /\ claimFile \in [BatchJobs -> claims \cup {None}]
  /\ identity \in [owner : BatchOwners, policy : Policies] \cup {None}
  /\ wave \subseteq BatchJobs
  /\ trainer \in [BatchJobs -> {"none", "start", "update", "done", "error"}]
  /\ at \in {"idle", "plan", "claim", "adopt", "train", "evaluate", "clear", "unbind"}
  /\ who \in BatchOwners \cup {Single, None}
  /\ count \in 0..MaxSlots /\ slot \in 0..(MaxSlots + 1) /\ chosen \subseteq BatchJobs

\* Wherever a command died, by whatever mix of commands, an active job has its
\* bearer token in a file that the next command of its owner reads: otherwise
\* "active batch claim has no durable recovery secret" ends every later batch.
NoSecretIsLost ==
  \A j \in Active :
    \/ claimFile[j] # None /\ W!Authorizes(claimFile[j], W!Active)
    \/ W!Status(j) = "claimed" /\ intent[OwnerOf(j)] = rows[j].token

\* "Bind plan and owner before the first durable job claim": as long as a
\* batch has an intent or an active job, in any crash window of preparing and
\* of clearing, the identity file still names that batch, so that no other
\* plan or owner can resume it.
BoundWhileClaimed ==
  \A o \in BatchOwners :
    \/ Intents \cap Batch(o) = {} /\ \A j \in Active : OwnerOf(j) \notin Batch(o)
    \/ identity # None /\ identity.owner = o

\* Once a wave is published it lists every job that the batch has claimed, also
\* those of slots that a smaller resumed allocation does not have: a claimed
\* job outside the wave would never be trained by it.
WaveHoldsTheBatch ==
  wave # {} => /\ identity # None
               /\ \A j \in Active : OwnerOf(j) # Single => j \in wave

\* A slot never holds two active jobs and a live intent never names a second
\* job: "parallel training owner has multiple active claims" would be raised
\* by every later batch.
OneJobPerSlot ==
  \A i, j \in Active : OwnerOf(i) = OwnerOf(j) => i = j

\* "The binding is cleared only after every wave job completes", and a wave is
\* never replaced, whoever resumes it with how many slots.
WaveIsImmutable ==
  [][wave # {} /\ wave' # wave =>
       wave' = {} /\ \A j \in wave : W!Status(j) = "completed"]_vars

\* Commands run to their end, orphans get their signal, and the operator keeps
\* issuing each command.  A batch is retried with whatever slots there are.
Fairness ==
  /\ WF_vars(Step)
  /\ \A j \in BatchJobs : WF_vars(TrainerStep(j)) /\ WF_vars(OrphanDies(j))
  /\ SF_vars(StartSingle)
  /\ \A o \in BatchOwners, p \in Policies : SF_vars(\E n \in Slots : StartBatch(o, p, n))

Undisturbed == <>[][~Crash /\ \A j \in BatchJobs : ~TrainerDies(j)]_vars

LiveSpec == BatchSpec /\ Fairness /\ Undisturbed

\* Once commands and children stop dying, the phase ends, whatever mixture of
\* intents, claims, waves and checkpoints they left: all jobs complete, or one
\* has failed, which ends the experiment.
PhaseEnds ==
  <>(\/ \A j \in BatchJobs : W!Status(j) = "completed"
     \/ \E j \in BatchJobs : W!Status(j) = "failed")
=============================================================================
