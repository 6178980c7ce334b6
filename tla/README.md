# A TLA+ model of irisu-rl

irisu-rl trains and evaluates a recurrent policy for a deterministic clone of a falling-block
game. Most of its source is numeric (physics, tensors, statistics). What is hard to get right and
hard to test is the pipeline around it: long experiments whose state is two SQLite files, a
directory of private files and a content-addressed artifact store, driven by commands that may be
killed at any moment, and ending in a *sealed test* that may be executed and decided exactly once.
These modules model that pipeline, the training session inside it with its vector of exact
simulator processes, and the harness that presses buttons of the original game in real time. They
check them with TLC and prove the core with TLAPS.

Paths below are relative to `src/`; `rl/` abbreviates `python/irisu_rl/`.

## 1. Inventory

| Component | State it keeps | Operations | What is hard |
|---|---|---|---|
| Sealed-test ledger, `rl/r3b_experiments.py` (class `SealedTestLedger`) | one attempt row, a row per test job, a row for the baseline batch | precommit, authorize, claim / resume / begin / complete / fail, terminalize, finalize | leases asserted on another connection before the UPDATE; callers with old tokens; one decision |
| Workflow table, `rl/r3b_operational.py` (`R3BWorkflow`) | job rows, checkpoints, resume audits, event log | create, append_jobs, claim_next, begin, record_checkpoint, mark_trained, publish_resume_audit, recover, complete, fail, reconcile_*, verify, status | bearer claims, recovery, replay of the log on every command, readers next to writers, wall clock |
| Sealed-test commands, `rl/r3b_phases.py`, `r3b_baselines.py`, `r3b_canonical_runner.py`, `r3b_cli.py` | files under `secrets/`, packages and references in the store | prepare-test, canonical-run-job, run-baselines, finalize-test | six durable writes to acquire a job; two databases that cannot commit together; crashes |
| Local training runner and supervisor, `rl/r3b_local_runner.py`, `r3b_runner.py`, `r3b_supervisor.py` | a training session, a process pool | build, train, checkpoint, evaluate, failure handlers | errors in handlers, orphaned execution |
| Artifact store, `rl/r3b_artifacts.py` | immutable JSON files named by their hash | publish, load, list, lookup index | atomic publication |
| Run lock, `rl/r3b_lock.py` | three flocks | enter, exit, lease for workers | inheritance by children that outlive the command |
| Training batch, `rl/r3b_training_batch.py` | CPU wave file, intents and claims per slot | recover, prepare, train in parallel, evaluate | crash inside a wave, one failed child |
| Parallel evaluation, `rl/r3b_parallel_evaluation.py`, `r3b_evaluation_shards.py` | shard results | submit, collect, stop | process groups, ready gate |
| Tail, curriculum, rewards, `rl/r3b_tail.py`, `curriculum.py` | gate counters, stage per lane | validate, promote, demote, assign | several clocks, regressions |
| Collector and session, `rl/collector.py`, `checkpoints.py` | recurrent state, clean/poisoned flags, generations on disk | collect, update, save, restore | exception between sub-steps, torn checkpoint |
| Exact worker IPC, vector environment, `python/irisu_env/` | action log, snapshots, requests in flight | step, reset, restore, fast checkpoints | replacement of a worker, one lane of several failing |
| Original-game harness, `rl/original_game/harness.py`, `live_provider.py` | claim lease, frames, held buttons, a pipe to the broker | open, renew, capture, fire, abort, cleanup | real time: deadlines, stale frames, late answers, buttons left down |
| Calibration runner and journal, `rl/original_game/calibration_runner.py`, `calibration.py` | a JSON-lines journal: intent and outcome of each attempt | run, begin, complete, verify | a press whose outcome is not on disk; partly written lines; a second run |
| Simulator core, `clone/core/` | bodies, gauge, chains | step | floating point |
| Policy and optimizer, `rl/ppo.py`, `models.py` | tensors | update | numeric |
| Web application, `apps/web/` | worker, restart gate | start, step, restart | message order |

Interaction: an operator command (`r3b_cli.py: main`) takes the run lock (except `status`,
`verify`, `init` and the snapshot commands), verifies the workflow, and calls phases, runner,
supervisor or baselines, each of which reads and writes the workflow, the ledger, `secrets/` and
the store one after the other. Nothing spans two of them. Training and evaluation start exact
workers through `irisu_env`. The original-game harness and the web application share the
simulator's rules and nothing else.

Properties that make each modelled part correct are in section 3, and the hazards they are for in
`PROJECT.json`.

## 2. Modules

| Module | Models | Its state and actions in the code |
|---|---|---|
| `OneShotTrial` | nothing in the code: the promise of `docs/rl-r3b.md` ("neither a crash nor a terminal outcome permits a retry") | units of work started at most once, with one result, and one decision |
| `SealedTestLedger` | class `SealedTestLedger` | `attempt`, `row`, `accepted` are the three tables. One action per method, since each is one `BEGIN IMMEDIATE` transaction. Guards are the WHERE clauses only |
| `R3BWorkflow` | class `R3BWorkflow` | `rows`, `checkpoints`, `audits` are tables. The event log is kept as the accumulators of the fold in `_verify_state_machine` (`history`, `seen`, ...): each action that inserts an event advances them as that event would, and `accepts` turns false when the fold would raise. `claims` holds every claim ever returned |
| `WorkflowReader` | `verify()` next to writers | four actions, one per SELECT; the answer compares what was read with the events read last |
| `SealedTestRun` | the sealed-test commands over both databases | `at` is the next step of the running command; each step makes one durable write. `claimIntent`, `claimFile`, `leaseIntent`, `leaseFile` are files in `secrets/`, `package` and `references` artifacts. Operations of the two databases are instances (`W!`, `L!`) of the modules above |
| `R3BRunLock` | `R3BRunLock`, the evaluator pool of the supervisor, lease registration of exact workers | the three flocks are `global`, `runLock`, `lease`; a flock belongs to an open file description, `fds` says who has it open. `at[p]` is where a command or child is; children outlive a killed command until their signal reaches them |
| `TrainingBatch` | `canonical-run-batch` and `canonical-run-job` on one phase | over an instance (`W!`) of `R3BWorkflow`: `intent`, `claimFile`, `identity`, `wave` are files in `secrets/`, `trainer[j]` the child that trains `j`. A step makes one durable write |
| `ExactVector` | `ExactWorkerClient`, `ExactSimulator`, `PaddedVectorEnv` | `proc[l][s]` are worker processes, `client[l]` the open client, `log[l]` the seed and action log, `op` the call under way. Threads of one call interleave over the lanes |
| `TrainingSession` | one job from its claim to "trained": runner, session, collector, curriculum, tail, adapter | extends `ExactVector`. `session` is what a checkpoint holds but the snapshots, `generations` the checkpoints on disk, `recorded` the one the workflow names |
| `OriginalHarness` | harness, provider and transport, with a clock and the broker | a call is its request and its return; `inbox`, `outbox` are the pipe, `claim`, `button`, `presses` the broker's side, the rest the harness's |
| `CalibrationRun` | runner and journal over the harness | extends `OriginalHarness`. `journal` is the file, one record per line |
| `SealedTestLedgerProofs`, `R3BWorkflowProofs`, `SealedTestRunProofs`, `R3BRunLockProofs`, `TrainingBatchProofs`, `TrainingSessionProofs`, `CalibrationRunProofs` | theorems about the modules of these names (`TrainingSessionProofs` about the part that is in `ExactVector`, `CalibrationRunProofs` also about `OriginalHarness`, `R3BWorkflowProofs` also about `WorkflowReader`) | |
| `TrainingWorldProofs` | the theorems that training learns no decision of the wrong reward, and that curriculum, adapter, log and worker agree at every boundary, and that a job resumed anywhere goes on as if it had not been interrupted; uses those of `TrainingSessionProofs` | |
| `MC*` | constants for TLC | |

Abstractions. Digests, owners and tokens are model values. Bearer tokens are 256-bit random
strings, so a fresh one is one that no claim and no file holds. A failure text is what it is about
and whether it has white space around it, since `fail_job` strips and `verify_failed_job` compares.
Timestamps other than the order of events are left out: each is the time of the event of the same
transaction. Validation of types, digests and manifests is left out where its outcome cannot depend
on the order of operations. Operations that find nothing to do (a repeated audit, an already
reconciled row) are stuttering; operations that raise leave the state unchanged and are guards.
`prepare-validation` and the choice of candidates are not steps here: a phase is installed by
`AppendJobs`, and `SealedTestRun` starts after validation.

In `SealedTestRun` and `TrainingBatch` one command runs at a time because `R3BRunLock` admits one
(`rl/r3b_cli.py:893-920`): `OneOperator`, and `OrphansAreGone` for the children of dead ones. A
command that raises before it has anything to record, or a `BaseException` that skips the handlers,
leaves what a crash leaves, and `Crash` stands for it. `recover` and `terminalize_orphaned_execution`
have no caller outside the tests; the component modules have them, since a caller may be added, and
the compositions do not.

`R3BRunLock`: the death of a process closes its descriptors at once; a child's pending signal keeps
it from going on, though a `flock` under way may still succeed. Taking the run lock never meets a
busy one, since the global lock comes first. `TrainingBatch`: a start that the preflight refuses
changes nothing and is left out.

`ExactVector`: a worker is deterministic, so a world *is* its seed and actions. Terminated and
truncated episodes are merged. The death of an idle worker is noticed by the next request and
happens there. A worker answers, answers badly or dies; read timeouts and hung workers are not
modelled. `TrainingSession`: the tick budget of a rollout is a fixed number of decisions. What the
policy samples is drawn once for each draw of the sampler and kept in `policy`: it stands for the
function that maps model, recurrent state, observation and sampler to an action, so a resumed
session repeats itself exactly if it has restored everything. There is one curriculum stage, whose
shaping weight is 1 in the sweep and 0 after it (`rl/r3b_runner.py:700-712`). The seed cursor, tick
counters, critic conditions and validation are left out, and so are encoding and hash mismatches,
without which `rollback_pending` is not reached. A build that fails before `begin` leaves what a
crash leaves. Workers die with their owner before the next start (`R3BRunLock`). The job is one of a
shaped arm with the full budget of the plan, in a canonical run: the control arm, whose weight is 0
throughout (`rl/r3b_runner.py:702-711`), jobs with fewer updates, which have no tail controller
(`rl/r3b_runner.py:1031-1040`), and smoke runs, which may stop off the checkpoint grid, are not
modelled. A canonical segment that would stop off the grid is refused after it has begun, which
fails the job (`AimMisses`; `rl/r3b_local_runner.py:877-944`).

`OriginalHarness`: calls that only look (session safety, cursor, runtime guard) answer or raise at
once; every other call is two steps, and the clock may move between any two steps. A timeout may
come at any time, which over-approximates the real one. The broker is not in the repository; it is
modelled from `docs/r4b-broker-protocol.md` and from what the provider expects: it reads its pipe in
order, lets go of a button at its deadline, at the expiry or release of the claim and when the client
disconnects, may refuse anything, and may acknowledge an `up` that its own release has overtaken.
Identity, generation, geometry and drop limits are failing captures. Operation ids are folded into
the transport's sequence numbers.

`CalibrationRun`: `Interrupt` is a `KeyboardInterrupt` or `SystemExit`, which no `except Exception`
sees. It may strike while a call waits or between two calls, also in the cleanup and in `close()`: a
release-all that is cut short leaves the flag `_buttons_neutral` as it was, and the claim is still
released (`harness.py:1643-1678`); the next one strikes that release, and the harness has stopped.
While `open()` runs, or `__exit__` has not reached the cleanup yet, nothing cleans up and the claim
ends by expiry or by the client's end. A second run on the same writer, with a new broker, is a
choice of the caller, who is not in the repository. `CalibrationJournalWriter.append`, which begins
and completes an attempt in one call with no press in between and which the runner does not call, is
not modelled. Journal timestamps and the reuse of identities across experiments are left out.

## 3. Runs

| Run | Module and configuration | Question |
|---|---|---|
| `ledger` | `MCSealedTestLedger` | Does any order of operations by holders of old and new tokens break the ledger, or the promise? |
| `workflow` | `MCR3BWorkflow` | The same for the workflow table, with a ledger that decides by itself |
| `workflow_clock` (violation) | `MCR3BWorkflowClock` | ... and if the wall clock steps back? |
| `reader` | `MCWorkflowReader` | Can a `verify()` that answers have seen a mixture of two states? |
| `reader_refuses` (violation) | `MCWorkflowReaderRefuses` | Can it refuse a consistent file? |
| `sealed_run` | `MCSealedTestRun` | Do the two databases and the private files stay consistent, wherever commands die? |
| `sealed_run_live` | `MCSealedTestRunLive` | Is the test decided in the end? |
| `sealed_run_handled` (violation) | `MCSealedTestRunHandled` | Does a failure handler that runs to its end show the failure in the workflow? |
| `training_batch` | `MCTrainingBatch` | Do batch, single job and their children share a phase without losing a claim, a wave or the end? |
| `run_lock` | `MCR3BRunLock` | Do the three locks exclude commands and orphans, and never shut everybody out? |
| `training_session` | `MCTrainingSession` | Does any failure of workers, disk or process show in what is trained? |
| `calibration_run` | `MCCalibrationRun` | Is every press recorded, fresh and covered, and does a qualified journal tell the truth? |

What the properties say:

- `ConnectionVerifies`: `_verify_connection`, which every later connect runs, accepts every
  reachable ledger. `DecisionIsLast`: after `finalize_once` no row changes, although begin,
  complete, fail and terminalize never look at the attempt. `ImplementsTrial`: refinement of
  `OneShotTrial`; leasing is invisible, `begin` is the only start.
- `VerifyStateMachine`: `verify()` accepts every reachable workflow. `ExclusiveAuthority`: of all
  claims ever issued, at most one is good for a job. `PhaseGate`: what `append_jobs` looked at once
  stays true. `NothingIsRedone`: terminal rows, their checkpoints and earlier checkpoints are
  frozen, and a sealed job that began is never claimed again.
- `AcceptedReadIsCommitted`: the torn reads of `verify()` are always noticed.
- `WorkflowFollowsLedger`: the workflow is over for a job only after the ledger, with its result.
  `NoAuthorityIsLost`: a token with authority is always in a file the next command reads.
  `OneActiveJob`: the scan for the active claim never finds two. `DecisionIsMirrored`: the decision
  waits until the workflow shows every final state. `EventuallyDecided`: liveness.
- `training_batch`. `NoSecretIsLost`: an active job has its token in a file that the next command
  reads. `BoundWhileClaimed`: in every crash window of preparing and clearing, the identity file
  names the batch that has claims. `WaveHoldsTheBatch`: also after a resume with fewer slots.
  `OneJobPerSlot`: a slot never gets a second job. `WaveIsImmutable`: a wave is only cleared, and
  only when complete. `PhaseEnds`: whatever dead commands left, the phase ends.
- `run_lock`. `OrphansAreGone`: while a command operates, no child or exact worker of another one is
  alive. `OneOperator`: also in the moment in which the lease is downgraded, which `flock` does not
  do atomically; the global lock is what this rests on. `NoLockLeaks`: no lock outlives everybody
  who could release it. `SomeoneOperates`: the locks never shut everybody out. A single operator may
  starve: nothing in the code queues them.
- `training_session`. `LogIsWorld`: a usable worker is in the world that its action log names.
  `RestoreIsAtomic`: a failed `restore_many` has rolled back every lane or poisoned the vector.
  `NoWorkerLeaks`. `CurrentIsWorld`: at clean boundaries worker, log, adapter and curriculum agree.
  `TailIsPure`: no shaped decision is learned in the tail and no unshaped one in the sweep.
  `ResumeIsInvisible`: two checkpoints with equally many updates are equal, wherever the processes
  that wrote them were interrupted. `TrainingEnds`: drains and skipped rollouts do not go on forever.
- `calibration_run`. `PressIsOnRecord`: what the target felt has its intent on disk, and no attempt is
  pressed twice. `PressIsCovered`: a button that is down went down on a fresh frame and the broker
  lifts it before the claim expires. `NeutralIsTrue`: a *stopped* harness that reports neutral
  buttons is right, although calls may have timed out or been interrupted with their requests in the
  pipe, and the release of the claim too. It exempts a harness whose release-all was interrupted,
  of which it is not true (section 5); `PressIsCovered` bounds that press too. (Between down and its
  acknowledgement a watchdog may read "neutral" too early; nothing promises otherwise.)
  `SampleIsOnePress`: in a journal that qualifies each sample is one whole press of the measured
  length, whose effect was seen after it.

Bounds. Operations of one job touch another only through the unique lease tokens, the shared claim
intent, the gate between phases and the decision over all rows; two jobs of a kind, or one of each
phase, therefore show every interaction. `workflow` and `reader` have `Budget = 2`: a checkpoint at
update 0, whose recovery gives nobody a claim, one in the middle, whose recovery does, and a final
one, from which nothing is recovered. Updates tell checkpoints apart there, which share one artifact
(two are too many for TLC at this budget; `workflow_clock` and the proofs have any). The
compositions, which do not recover, have a first and a final checkpoint. Tokens bound the number of
recoveries (two claims of the workflow, three leases: one more than there are units for one table).
Two owners are enough for a stale or a foreign one. `MaxClock` bounds the clock; one tick separates
two events. The claims ever issued are bounded by the tokens. `SealedTestRun` with two sealed jobs
uses one artifact, output and outcome each, since equality of digests between jobs is irrelevant
there; the violation run has two outputs and the ledger run two outcomes. Model values of owners,
tokens and artifacts are symmetric in the safety runs; the liveness runs use no symmetry.
`CHECK_DEADLOCK FALSE` in every run but `run_lock`: a decided test, a finished table, a trained job,
a stopped clock and exhausted tokens are ends; operators come back forever.

`training_batch` has two jobs, two owners of batches and two slots, so that a batch may resume with
fewer slots than jobs, another batch and the single command may find its files, and a job may be
left over; three tokens are one more than jobs. `run_lock` has two commands on different runs (on
one run the run lock would hide a missing global lock), one with two children, so that one child may
still be starting while the other works. `training_session` has two lanes (one that fails or
finishes while the other does not) with episodes of two steps, dealt at their opening or in the
middle; one update in the sweep and two in the tail, with a drain between them whose one skip is
forgiven or is the limit; checkpoints at updates 0, 2 and 3 (the interval is two), so that a segment
may stop on the grid, at the end or, in vain, between them, and a crash may lose an update that is
done again; one crash, which may come in any step of any segment. `calibration_run`
has two attempts in at most two runs on six instants of the clock; `LeaseTime = 5` leaves room for
one renewal, and the small margins of one instant make every comparison of the code true and false.

Fairness. `sealed_run_live`: `WF(Step)`: a command that runs takes its next step; nothing in it
waits for another command. `SF` of each command's start: the operator keeps issuing each command,
and a command can be started only between others, so its start is enabled again and again rather
than always. Crashes have no fairness and eventually stop (`<>[][~Crash]_all`): a machine that dies
during every command decides nothing. A failure of an execution is always possible and never
required. `training_batch`: the same, and `WF` for each child and for the signal of each orphan; a
batch is retried with whatever slots there are. `run_lock`: `WF` of commands, of the end of children
and of exact workers (they see end of file on their input), and of the operator who issues commands;
commands are eventually not killed any more. `training_session`: `WF` of the process, of the threads
and workers of the vector, and of the operator who starts the command again; crashes are bounded.
`calibration_run` claims no liveness: without an answer from the broker the harness waits for
nothing but its timeouts.

Mutants. Each property of a passing run has a changed definition, written next to the original
(`BeginAgain`, `RecoverSameToken`, `CompleteRowFirst`, ...), under which TLC finds it violated.

## 4. Proofs

`SealedTestLedgerProofs` proves, for any sets of jobs, tokens, outcomes and reasons:

- `LedgerInvariant`: the inductive invariant `LedgerInv`. `LedgerTypeOK`, `ConnectionVerifies` and
  `DecisionCoversAll` are not inductive by themselves: `AuthorizeOnce` overwrites all rows and a
  decision must not exist before it. `NothingEarly` (rows are absent until authorization) and
  `NothingDecidedEarly` (`accepted` is NULL until finalization) say so.
- `LedgerTypeCorrect`, `LedgerAlwaysVerifies`, `DecisionCovers` follow from it.
- `DecisionLast`: from `DecisionCoversAll` all rows are terminal after the decision, and no WHERE
  clause matches a terminal row.
- `LedgerImplementsTrial`: initial states map to initial states, and every step maps to a step of
  `OneShotTrial` or to a stutter. Claim, Begin, Complete, Fail and Terminalize have a lemma each.

Assumptions: the batch is not a job, and NULL is no token, outcome or text.

`R3BWorkflowProofs` proves, for any plan, any budget of at least one update, and any owners, tokens
and digests:

- `OperationCases`: an operation moves one job that is not over (`MoveStep`), or records a
  checkpoint, publishes an audit or installs a phase. `OperationClaims`: a claim that is handed out
  differs in job or token from all before it. Everything else follows from these two.
- `ClaimInvariant`, with `WorkflowTypeCorrect` and `OneAuthority` (`ExclusiveAuthority`) from it. It
  needs `ClaimsAreStarted`: a pending job has no claims, so `claim_next` may use the token of an
  intent again without giving it to one job twice.
- `GateHolds` (`PhaseGate`). Not inductive alone: installing the validation jobs under test jobs
  that are there already would break it; `TestRests` says that they are not.
- `NeverRedone` (`NothingIsRedone`).
- `VerifyAccepts` (`VerifyStateMachine`), for a clock that is not set back. It needs that the
  history of a job which is not installed yet is blank (`AbsentAreBlank`), which `verify()` does
  not look at, and that no event is later than the clock.
- `ReaderInvariant`, for a `verify()` whose four SELECTs have commits between them. Operations take a
  job further in `Progress` (its status and how often it was recovered), so the rows that have been
  read are those of now or strictly behind (`ReadRowsAreBehind`), and checkpoints stay. The events are
  read last. So a reader that accepts has read what the log of that moment says, and by `AcceptInv`
  that is the tables of that moment; a row that was absent cannot hide behind its missing event,
  because whole phases are installed at once (`AcceptedIsNow`). `ReaderTypeCorrect` (`ReaderTypeOK`)
  and `AcceptedReadsAreCommitted` (`AcceptedReadIsCommitted`) follow.

Assumptions: every job has a phase, and NULL is no owner, token, digest or text.

`R3BRunLockProofs` proves, for any commands, children and run directories:

- `LockInvariant`: the inductive invariant `LockInv`. `OneOperator` follows from `HolderIsGlobal`: a
  command holds the global lock from its first step to its last. `NoLockLeaks` needs `LeaseFollows`:
  a description is open exactly while its process is between taking and closing it or its exact
  worker lives. `OrphansAreGone` is not inductive: it needs `NoForeignWork`, which begins with the
  *exclusive* lease. At that moment nobody else holds it, so nobody else works; later only children
  of a living command start to work, and there is only one.
- `LockTypeCorrect`, `CommandsExclude` (`OneOperator`), `OrphansGone` (`OrphansAreGone`),
  `LocksAreReleasable` (`NoLockLeaks`) follow.

Assumptions: commands and children are different processes, a child has one parent, and the
free lock is held by no process.

`TrainingSessionProofs` proves, for any lanes, library, budget and number of crashes, and for the
vector as the training job uses it:

- `VectorInvariant`: the inductive invariant `VectorInv`. `LogIsWorld` alone is not inductive: while a
  request is under way the worker may be one action ahead of its log. `ClientInv` says exactly when:
  the request has been executed if and only if its good answer waits, and only a first reset that
  failed leaves an open client in a world that no log names. `LaneInv` says that there is a second
  worker only while a lane is replaced, and `CallInv` that a rollback restores what the call found.
- `WorldIsLogged` (`LogIsWorld`), `RestoresAreAtomic` (`RestoreIsAtomic`), `WorkersAreOwned`
  (`NoWorkerLeaks`) follow.

A worker is characterized by its shape and not as a member of a set, because action logs grow
without bound. Assumption: `None` is no slot.

`TrainingWorldProofs` proves, for the same constants and on top of these:

- `TailInvariant`: the inductive invariant `TailInv`. `TailIsPure` is about what has been learned; it
  rests on `Clock` (how many updates there are, the phase, and the weight of each lane belong
  together), which must hold of the recorded checkpoint too, because a load brings it back, and on
  `RolloutInv` (rows not yet learned weigh as the coming update requires, unless they are drained).
- `TailStaysPure` (`TailIsPure`) follows.
- `WorldInvariant`: the inductive invariant `WorldInv`. `CurrentIsWorld` speaks of clean boundaries;
  between them a lane is either acting in the world it was dealt (`Acting`: every step sent to a
  worker extends the log, so the snapshot stays a prefix of it) or being placed (`Placing`: a lane
  whose restore is done is in the snapshot it was given, the others are where they were, and nothing
  is required once the restore rolls back, because the call then never answers well). The same must
  hold of the recorded checkpoint, since a load brings it back.
- `BoundariesAreWorlds` (`CurrentIsWorld`) follows.
- `TracedInvariant`: `ResumeIsInvisible` compares checkpoints of processes that never met, so the
  invariant names what they have in common. The draws of the policy determine one path of points
  (`Path`: a session with the rollout it has collected, one per decision; `Decide`, `Settle` and
  `Onward` are what the code makes of a point). `Here` says that every process is on that path,
  wherever it was resumed, and `OnDisk` that every checkpoint is. Two checkpoints with as many updates
  are the same because learned updates never get fewer along the path and a checkpoint is made only
  at its start and where a rollout is learned from.
- `MidwayInvariant`: while press, release and deal are under way the logs are what the drawn actions
  have made so far of the worlds before. It rests on `VectorInv` for what an answer says of the lanes.
- `ResumesAreInvisible` (`ResumeIsInvisible`) follows.

Assumption: every lane has snapshots to be dealt, each a seed with a log of actions.

`TrainingBatchProofs` proves, for any jobs, owners, policies, tokens, number of slots and crashes:

- `PhaseInvariant`: the inductive invariant `PhaseInv`. `NoSecretIsLost` and `OneJobPerSlot` rest on
  `FileInv`, which ties the table, the claim files and the intents together: an active job has its
  claim file with the token of its row, or the intent of its slot still has that token. What a
  command read from these files at its start must stay true while it runs: `LocalInv` for the batch,
  `ClaimInv` for the single command (which finds no other claim of its own). `BindInv` says that a
  running batch is the one the identity file names and owns all that is claimed, that with a wave on
  disk nothing else is being claimed, and that nothing is claimed when the binding is cleared.
- `SecretsAreKept` (`NoSecretIsLost`), `OwnersHaveOneJob` (`OneJobPerSlot`), `ClaimsAreBound`
  (`BoundWhileClaimed`), `WavesAreWhole` (`WaveHoldsTheBatch`), `WavesAreImmutable`
  (`WaveIsImmutable`) follow.
- `BatchTypeCorrect` (`BatchTypeOK`) needs more than types. The slot a batch prepares stays within its
  slots because the only intent it can still have is that of the slot under way, and none beyond the
  last one (`SlotInv`).

Assumptions: there is a slot, the owner of the single command is no batch and no slot of one, and
NULL is no token, owner or identity record.

`SealedTestRunProofs` proves, for any jobs, owners, tokens, digests and errors, and wherever
commands die:

- `SealedRunInvariant`: the inductive invariant `RunInv`. None of the properties is inductive alone.
  `StoresInv` is about what is durable. `ClaimsKept`: an active job has its claim in its file, or the
  shared intent still has its token and owner; a job that was never claimed has no file, so that
  `publish_private_file` is not refused. `LeasesKept` is the same for leases. `ResultsFit`: a unit has
  at most one reference, only after it began, and a complete one has the reference of its outcome; a
  unit runs once, which is why a second reference never appears. `StoresAgree` and `AttemptFits` tie
  the workflow to the ledger. `LocalInv` is what the running command rests on: the claim it carries
  is the one in the file of its job, and what it is about to publish has not been published.
- `TypesHold` (`RunTypeOK`), `ActiveJobIsAlone` (`OneActiveJob`), `TokensSurvive`
  (`NoAuthorityIsLost`), `StoresTellOneStory` (`WorkflowFollowsLedger`) and `DecisionComesLast`
  (`DecisionIsMirrored`) follow. That nothing is active besides what the scan for claim files and the
  intent show is the argument for `OneActiveJob` (lemmas `ScanIsComplete` and `NothingHidden`).

It also composes the proofs about the two databases with the commands. `LP` and `WP` are the proof
modules of the ledger and of the workflow, with the commands' state in place of their variables:

- All that a step of a command does to the ledger is one of its operations, by holders of any token
  (`OperatesOrRests`, one case per step). So `CommandsKeepTheLedger` (the ledger's `LedgerInv`) and
  `CommandsImplementTrial`: every step of every command, and every death of one, is a step of
  `OneShotTrial` or a stutter.
- All that it does to the workflow is one of the table's operations by the holder of an issued claim,
  next to a `sealed` that reads the columns the workflow asks the ledger about (`verdicts`); what it
  does to the ledger decides one job at most, or none (`WorksOrRests`).
- `NextCommandOpensTheStores` (`StoresOpen`): the ledger's connect and the workflow's `verify()`
  accept what commands leave, wherever they die. The clock stands still here: what a clock that is
  set back does to `verify()` is the subject of `workflow_clock`.

Assumptions (`RunAssumption`): there are validation and test jobs and at least one update, the batch
is no job, errors are failure texts, and NULL is no owner, token, digest, outcome, truth value, text,
intent or claim record.

`CalibrationRunProofs` proves, for any plan and any times (lease, freshness, press, margin, error,
click interval, frame buffer), wherever calls fail or answer late and wherever processes die:

- `RunInvariant`: the inductive invariant `RunInv`. All four properties rest on `PipeInv`: requests
  and answers are numbered and in order, so an answer with the number of the last request finds the
  pipe to the broker empty. That is why a neutral answer may be believed (`NeutralInv`), although
  calls before it were given up, or interrupted, with their requests under way. A cleanup whose
  release-all was cut short had no such answer, and `NeutralInv` says nothing of its flag.
- `CoverInv` and `HoldInv` say what the harness may believe of the broker without asking: a claim only
  grows while it lasts, so the lease is never later than the claim, and as long as the lease and the
  deadline of the press last, the broker still holds the press it has acknowledged. After that it
  need not, which is why an answer that comes later is not made a sample.
- `RecordInv` follows a press from its request over the button to the target: each attempt is in one
  of the three at most once, its intent is in the journal, and it is asked down only when nothing of
  its cell is used yet. `SampleInv` carries the measured press to the line of the journal.
- `PressesAreOnRecord` (`PressIsOnRecord`), `PressesAreCovered` (`PressIsCovered`), `NeutralIsRight`
  (`NeutralIsTrue`) and `SamplesAreWholePresses` (`SampleIsOnePress`) follow.

Assumptions: the times, the buffer and the plan are not empty, and NULL is no number and no verdict.

Every safety and action property of a passing run is proved. Only model-checked: the four liveness
properties (`EventuallyDecided`, `PhaseEnds`, `SomeoneOperates`, `TrainingEnds`), which TLAPS cannot
prove, and the counterexamples of section 5.

## 5. What the code does not do

Three runs are expected to be violated; `PROJECT.json` quotes the lines.

- A failure whose exception has no message is stored without its trailing space and cannot be
  mirrored by the handler that recorded it (`sealed_run_handled`). The next command repairs it.
- `verify()` may refuse a consistent file when another process commits between two of its SELECTs
  (`reader_refuses`). It never accepts an inconsistent view (`reader`).
- A wall clock that is set back between two events makes the workflow unreadable for good
  (`workflow_clock`).

Two more are part of the models, where the properties are worded so as not to promise the opposite:

- `recover()` of a job whose last checkpoint is the one at update 0 commits the rotated token and
  then raises, because `JobClaim` refuses a checkpoint at update 0 (`rl/r3b_operational.py:1474`,
  `396-405`). The old claim has lost its authority and nobody is given the new token; another
  recovery does the same. Nothing calls `recover()` outside the tests, which recover from later
  checkpoints.
- A `KeyboardInterrupt` in the release-all of the cleanup leaves `_buttons_neutral` as it was, since
  only `fire()` and an `Exception` in the cleanup clear it (`rl/original_game/harness.py:1419`,
  `1661`): after a button-down that was given up before its answer, a harness that reports stopped
  and neutral may still have that press pending or held, until its deadline.

## 6. Not modelled, and plan

Hazards without a property (`PROJECT.json`): `create()` is one step, although its connection opens no
transaction; texts have no length, so `fail()` never refuses one; the recovery at update 0 of
section 5.

Not modelled yet, in the order in which they would be added:

1. The same composition for `TrainingBatch` over `R3BWorkflow`.
2. `create()` step by step, and the segment runner of calibration and validation in
   `rl/r3b_local_runner.py`.
3. Promotion, demotion and gates of a curriculum with several stages (`rl/curriculum.py`,
   `rl/r3b_tail.py`); the seed cursor.
4. Fast checkpoints, branches and the other vector environments of `python/irisu_env/`.
5. Shards of the parallel evaluation (`rl/r3b_parallel_evaluation.py`,
   `rl/r3b_evaluation_shards.py`); its process groups and its ready gate are in `R3BRunLock`.
6. The restart gate of the web application; the gauge and chain rules of the simulator.

Not planned: physics (floating point), tensors and optimizer, statistics of the decision (numeric),
the resolution experiments of `python/irisu_pointer/` (numeric scripts), formatting and input
validation.
