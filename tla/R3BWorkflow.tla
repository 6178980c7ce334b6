---------------------------- MODULE R3BWorkflow ----------------------------
(***************************************************************************)
(* The durable job table of an experiment (class R3BWorkflow,              *)
(* python/irisu_rl/r3b_operational.py): job rows, checkpoint rows,         *)
(* resume-audit rows and an append-only event log in one SQLite file.      *)
(*                                                                         *)
(* Every operation is one BEGIN IMMEDIATE transaction, so one action.  A   *)
(* caller acts through a claim it was given; claims are bearer secrets, so *)
(* any claim ever issued may be presented at any later time.               *)
(*                                                                         *)
(* The event log is represented by what verify() would have computed from  *)
(* it: _verify_state_machine is a fold over the events, and history, seen, *)
(* seenAudits, installed, lastAt and accepts are the accumulators of that  *)
(* fold.  An action that writes an event advances them by that event.      *)
(***************************************************************************)
EXTENDS Naturals, FiniteSets

CONSTANTS Jobs,        \* every job of the plan
          Phase,         \* Phase[j] : "calibration", "validation" or "test"
          Budget,        \* budget_updates of every job
          Owners, Tokens,
          Artifacts,     \* checkpoint and audit digests
          Outputs,       \* job output digests
          Outcomes,      \* sealed learner outcome digests
          Texts,         \* failure texts
          MaxClock,      \* bound on the wall clock
          ClockStepsBack,\* whether the wall clock may be set back
          None

Phases == {"calibration", "validation", "test"}

ASSUME PhaseAssumption == Phase \in [Jobs -> Phases]
ASSUME BudgetAssumption == Budget \in Nat \ {0}
ASSUME ClockAssumption == MaxClock \in Nat /\ ClockStepsBack \in BOOLEAN
ASSUME NoneAssumption ==
  None \notin Owners \cup Tokens \cup Artifacts \cup Outputs \cup Texts

VARIABLES rows,        \* the jobs table
          checkpoints, \* checkpoints[j][u] : artifact of the checkpoint at update u
          audits,      \* resume_audits of each job
          history, seen, seenAudits, installed, lastAt, accepts,
          claims,      \* every JobClaim ever returned to a caller
          clock,       \* time_ns()
          sealed       \* what the sealed-test ledger durably says of a test job

log == <<history, seen, seenAudits, installed, lastAt, accepts>>
workflow == <<rows, checkpoints, audits, log, claims>>
vars == <<workflow, clock, sealed>>

Updates == 0..Budget
Active == {"claimed", "running", "trained"}
Statuses == {"absent", "pending", "completed", "failed"} \cup Active

Sealed(j) == Phase[j] = "test"
InPhase(p) == {j \in Jobs : Phase[j] = p}
Prerequisite == [validation |-> "calibration", test |-> "validation"]

\* What JobClaim.__post_init__ accepts: a claim resumes from a checkpoint exactly
\* if it does not start at update 0.
Claims ==
  {c \in [job : Jobs, token : Tokens, owner : Owners,
          from : Updates, checkpoint : Artifacts \cup {None}] :
     c.checkpoint = None <=> c.from = 0}

\* The columns verify() compares with the replayed history.  claimed_ns,
\* started_ns and finished_ns are left out: each is written with the time of
\* the event of the same transaction.
Blank(status) ==
  [status |-> status, owner |-> None, resumes |-> 0, output |-> None, failure |-> None]
History == [status : Statuses, owner : Owners \cup {None}, resumes : Nat,
            output : Outputs \cup {None}, failure : Texts \cup {None}]
JobRow(h, t) == [columns |-> h, token |-> t]
Rows == [columns : History, token : Tokens \cup {None}]

\* Only the columns the workflow asks the ledger about.
Verdicts == [state : {"open", "complete", "failure"},
             outcome : Outcomes \cup {None}, failure : Texts \cup {None}]
Open == [state |-> "open", outcome |-> None, failure |-> None]

Columns(j) == rows[j].columns
Status(j) == Columns(j).status
Recorded(j) == {u \in Updates : checkpoints[j][u] # None}
Latest(j) == CHOOSE u \in Recorded(j) : \A v \in Recorded(j) : v <= u
HasFinal(j) == checkpoints[j][Budget] # None

\* Every column, every replayed history and every claim has its kind of value.
WorkflowTypeOK ==
  /\ rows \in [Jobs -> Rows]
  /\ checkpoints \in [Jobs -> [Updates -> Artifacts \cup {None}]]
  /\ audits \in [Jobs -> SUBSET Artifacts]
  /\ history \in [Jobs -> History]
  /\ seen \in [Jobs -> SUBSET Updates]
  /\ seenAudits \in [Jobs -> SUBSET Artifacts]
  /\ installed \in SUBSET {"validation", "test"}
  /\ lastAt \in 0..MaxClock
  /\ accepts \in BOOLEAN
  /\ claims \in SUBSET Claims
  /\ clock \in 0..MaxClock
  /\ sealed \in [Jobs -> Verdicts]

\* create: the calibration jobs are installed pending, event run_created.
WorkflowInit ==
  /\ rows = [j \in Jobs |->
       JobRow(Blank(IF Phase[j] = "calibration" THEN "pending" ELSE "absent"), None)]
  /\ checkpoints = [j \in Jobs |-> [u \in Updates |-> None]]
  /\ audits = [j \in Jobs |-> {}]
  /\ history = [j \in Jobs |-> Blank("pending")]
  /\ seen = [j \in Jobs |-> {}]
  /\ seenAudits = [j \in Jobs |-> {}]
  /\ installed = {}
  /\ accepts = TRUE
  /\ claims = {}
  /\ clock = 0
  /\ lastAt = 0

-----------------------------------------------------------------------------
(* The event log, as verify() folds over it. *)

\* An event that verify() accepts only if fits, at the time of the transaction.
Stamp(fits) ==
  /\ lastAt' = clock
  /\ accepts' = (accepts /\ fits /\ clock >= lastAt)

\* An event that takes job j from its replayed history to h.
LogTransition(j, fits, h) ==
  /\ Stamp(fits)
  /\ history' = [history EXCEPT ![j] = h]
  /\ UNCHANGED <<seen, seenAudits, installed>>

LogClaimed(j, owner) ==
  LogTransition(j, history[j].status = "pending",
    [history[j] EXCEPT !.status = "claimed", !.owner = owner])

LogRecovered(j, owner, u, artifact) ==
  LogTransition(j,
    /\ history[j].status \in {"claimed", "running"}
    /\ ~Sealed(j)
    /\ checkpoints[j][u] = artifact,
    [history[j] EXCEPT !.status = "claimed", !.owner = owner, !.resumes = @ + 1])

LogStarted(j) ==
  LogTransition(j, history[j].status = "claimed",
    [history[j] EXCEPT !.status = "running"])

LogTrained(j) ==
  LogTransition(j, history[j].status = "running",
    [history[j] EXCEPT !.status = "trained"])

LogCompleted(j, output) ==
  LogTransition(j, history[j].status \in {"running", "trained"},
    [history[j] EXCEPT !.status = "completed", !.output = output])

LogFailed(j, text) ==
  LogTransition(j, history[j].status \in Active,
    [history[j] EXCEPT !.status = "failed", !.failure = text])

LogCheckpoint(j, u, artifact) ==
  /\ Stamp(/\ history[j].status = "running"
           /\ checkpoints'[j][u] = artifact
           /\ u \notin seen[j])
  /\ seen' = [seen EXCEPT ![j] = @ \cup {u}]
  /\ UNCHANGED <<history, seenAudits, installed>>

LogAudit(j, artifact) ==
  /\ Stamp(/\ history[j].status = "trained"
           /\ artifact \in audits'[j]
           /\ artifact \notin seenAudits[j])
  /\ seenAudits' = [seenAudits EXCEPT ![j] = @ \cup {artifact}]
  /\ UNCHANGED <<history, seen, installed>>

LogInstalled(phase) ==
  /\ Stamp(phase \notin installed)
  /\ installed' = installed \cup {phase}
  /\ UNCHANGED <<history, seen, seenAudits>>

-----------------------------------------------------------------------------
(* Operations. *)

\* An UPDATE of the row of job j.
SetRow(j, columns, token) == rows' = [rows EXCEPT ![j] = JobRow(columns, token)]

\* Mutant: one success is enough.
AppendJobsEarly(phase) ==
  /\ InPhase(phase) # {}
  /\ \A j \in InPhase(phase) : Status(j) = "absent"
  /\ "completed" \in {Status(j) : j \in Jobs}
  /\ rows' = [j \in Jobs |->
       IF j \in InPhase(phase) THEN JobRow(Blank("pending"), None) ELSE rows[j]]
  /\ LogInstalled(phase)
  /\ UNCHANGED <<checkpoints, audits, claims>>

AppendJobs(phase) ==
  /\ InPhase(phase) # {}
  /\ \A j \in InPhase(phase) : Status(j) = "absent"
  /\ {Status(j) : j \in InPhase(Prerequisite[phase])} \ {"absent"} = {"completed"}
  /\ rows' = [j \in Jobs |->
       IF j \in InPhase(phase) THEN JobRow(Blank("pending"), None) ELSE rows[j]]
  /\ LogInstalled(phase)
  /\ UNCHANGED <<checkpoints, audits, claims>>

\* secrets.token_hex draws no token twice.
Fresh(t) ==
  /\ \A c \in claims : c.token # t
  /\ \A j \in Jobs : rows[j].token # t

\* Lowest pending job of the phase; the order on digests is arbitrary.  The
\* token is fresh, or one the same owner stored in a claim intent before.
ClaimNext(phase, owner, t) ==
  /\ Fresh(t) \/ \E c \in claims : c.token = t
  /\ \A c \in claims : c.token = t => c.owner = owner
  /\ \E j \in InPhase(phase) :
       /\ Status(j) = "pending"
       /\ SetRow(j, [Columns(j) EXCEPT !.status = "claimed", !.owner = owner], t)
       /\ LogClaimed(j, owner)
       /\ claims' = claims \cup
            {[job |-> j, token |-> t, owner |-> owner, from |-> 0, checkpoint |-> None]}
  /\ UNCHANGED <<checkpoints, audits>>

\* _authorized_job
Authorizes(c, allowed) ==
  /\ rows[c.job].columns.owner = c.owner
  /\ rows[c.job].token = c.token
  /\ Status(c.job) \in allowed

Begin(c) ==
  /\ Authorizes(c, {"claimed"})
  /\ SetRow(c.job, [Columns(c.job) EXCEPT !.status = "running"], rows[c.job].token)
  /\ LogStarted(c.job)
  /\ UNCHANGED <<checkpoints, audits, claims>>

\* Mutant: updates need not increase.
RecordCheckpointAgain(c, u, artifact) ==
  /\ Authorizes(c, {"running"})
  /\ checkpoints' = [checkpoints EXCEPT ![c.job][u] = artifact]
  /\ LogCheckpoint(c.job, u, artifact)
  /\ UNCHANGED <<rows, audits, claims>>

RecordCheckpoint(c, u, artifact) ==
  /\ Authorizes(c, {"running"})
  /\ \A v \in Recorded(c.job) : v < u
  /\ checkpoints' = [checkpoints EXCEPT ![c.job][u] = artifact]
  /\ LogCheckpoint(c.job, u, artifact)
  /\ UNCHANGED <<rows, audits, claims>>

MarkTrained(c) ==
  /\ Authorizes(c, {"running"})
  /\ HasFinal(c.job)
  /\ SetRow(c.job, [Columns(c.job) EXCEPT !.status = "trained"], rows[c.job].token)
  /\ LogTrained(c.job)
  /\ UNCHANGED <<checkpoints, audits, claims>>

\* Repeating the same audit changes nothing; a second one is refused.
PublishResumeAudit(c, artifact) ==
  /\ Authorizes(c, {"trained"})
  /\ audits[c.job] = {}
  /\ audits' = [audits EXCEPT ![c.job] = {artifact}]
  /\ LogAudit(c.job, artifact)
  /\ UNCHANGED <<rows, checkpoints, claims>>

\* The claim recover() builds after its commit.  JobClaim refuses one that resumes
\* from a checkpoint at update 0: recover() raises, nobody gets the token that is
\* already in the row, and the job waits for another recovery.
HandOut(c) == claims' = IF c \in Claims THEN claims \cup {c} ELSE claims

\* Mutant: the token is not rotated.
RecoverSameToken(j, artifact, owner, t) ==
  /\ ~Sealed(j)
  /\ Status(j) \in {"claimed", "running"}
  /\ Recorded(j) # {}
  /\ checkpoints[j][Latest(j)] = artifact
  /\ Latest(j) < Budget
  /\ SetRow(j, [Columns(j) EXCEPT !.status = "claimed", !.owner = owner, !.resumes = @ + 1],
            rows[j].token)
  /\ LogRecovered(j, owner, Latest(j), artifact)
  /\ HandOut([job |-> j, token |-> rows[j].token, owner |-> owner,
              from |-> Latest(j), checkpoint |-> artifact])
  /\ UNCHANGED <<checkpoints, audits>>

Recover(j, artifact, owner, t) ==
  /\ Fresh(t)
  /\ ~Sealed(j)
  /\ Status(j) \in {"claimed", "running"}
  /\ Recorded(j) # {}
  /\ checkpoints[j][Latest(j)] = artifact
  /\ Latest(j) < Budget
  /\ SetRow(j, [Columns(j) EXCEPT !.status = "claimed", !.owner = owner, !.resumes = @ + 1], t)
  /\ LogRecovered(j, owner, Latest(j), artifact)
  /\ HandOut([job |-> j, token |-> t, owner |-> owner,
              from |-> Latest(j), checkpoint |-> artifact])
  /\ UNCHANGED <<checkpoints, audits>>

\* Mutant: the token is not cleared.
SetCompletedKeepsToken(j, output) ==
  /\ SetRow(j, [Columns(j) EXCEPT !.status = "completed", !.output = output], rows[j].token)
  /\ LogCompleted(j, output)
  /\ UNCHANGED <<checkpoints, audits, claims>>

SetCompleted(j, output) ==
  /\ SetRow(j, [Columns(j) EXCEPT !.status = "completed", !.output = output], None)
  /\ LogCompleted(j, output)
  /\ UNCHANGED <<checkpoints, audits, claims>>

\* Mutant: the reason lands in the output column.
SetFailedWrongColumn(j, text) ==
  /\ SetRow(j, [Columns(j) EXCEPT !.status = "failed", !.output = text], None)
  /\ LogFailed(j, text)
  /\ UNCHANGED <<checkpoints, audits, claims>>

SetFailed(j, text) ==
  /\ SetRow(j, [Columns(j) EXCEPT !.status = "failed", !.failure = text], None)
  /\ LogFailed(j, text)
  /\ UNCHANGED <<checkpoints, audits, claims>>

Complete(c, output) ==
  /\ Authorizes(c, {"running", "trained"})
  /\ HasFinal(c.job)
  /\ SetCompleted(c.job, output)

Fail(c, text) ==
  /\ Authorizes(c, Active)
  /\ SetFailed(c.job, text)

\* The ledger, not a claim, is the authority.  A row that already says the same
\* is left alone; one that says something else makes the call raise.
ReconcileSealedCompletion(j, outcome, output) ==
  /\ Sealed(j)
  /\ sealed[j].state = "complete" /\ sealed[j].outcome = outcome
  /\ Status(j) \in {"running", "trained"}
  /\ HasFinal(j)
  /\ SetCompleted(j, output)

ReconcileSealedFailure(j, text) ==
  /\ Sealed(j)
  /\ sealed[j].state = "failure" /\ sealed[j].failure = text
  /\ Status(j) \in Active
  /\ SetFailed(j, text)

-----------------------------------------------------------------------------
(* The table alone: the operations in any order, by any holder of a claim,  *)
(* with a wall clock and with a ledger that decides test jobs on its own.   *)

\* time_ns() is the wall clock: nothing stops it from being set back.
Tick(now) ==
  /\ now # clock
  /\ now > clock \/ ClockStepsBack
  /\ clock' = now
  /\ UNCHANGED <<workflow, sealed>>

LedgerDecides(j) ==
  /\ Sealed(j)
  /\ sealed[j].state = "open"
  /\ \/ \E o \in Outcomes :
          sealed' = [sealed EXCEPT ![j] = [Open EXCEPT !.state = "complete", !.outcome = o]]
     \/ \E f \in Texts :
          sealed' = [sealed EXCEPT ![j] = [Open EXCEPT !.state = "failure", !.failure = f]]
  /\ UNCHANGED <<workflow, clock>>

Operation ==
  \/ \E phase \in {"validation", "test"} : AppendJobs(phase)
  \/ \E phase \in Phases, o \in Owners, t \in Tokens : ClaimNext(phase, o, t)
  \/ \E c \in claims :
       \/ Begin(c)
       \/ \E u \in Updates, a \in Artifacts : RecordCheckpoint(c, u, a)
       \/ MarkTrained(c)
       \/ \E a \in Artifacts : PublishResumeAudit(c, a)
       \/ \E out \in Outputs : Complete(c, out)
       \/ \E f \in Texts : Fail(c, f)
  \/ \E j \in Jobs :
       \/ \E a \in Artifacts, o \in Owners, t \in Tokens : Recover(j, a, o, t)
       \/ \E oc \in Outcomes, out \in Outputs : ReconcileSealedCompletion(j, oc, out)
       \/ \E f \in Texts : ReconcileSealedFailure(j, f)

WorkflowNext ==
  \/ Operation /\ UNCHANGED <<clock, sealed>>
  \/ \E now \in 0..MaxClock : Tick(now)
  \/ \E j \in Jobs : LedgerDecides(j)

TableInit == WorkflowInit /\ sealed = [j \in Jobs |-> Open]

WorkflowSpec == TableInit /\ [][WorkflowNext]_vars

-----------------------------------------------------------------------------
(* Properties. *)

\* Mutant: checkpoints and their events are not compared.
VerifiesRowsOnly(rs, cps, aus) ==
  /\ accepts
  /\ seenAudits = aus
  /\ \A j \in Jobs : rs[j].columns.status # "absent" => rs[j].columns = history[j]

\* What _verify_state_machine checks of the tables it has read, rs, cps and
\* aus, against the events it has read, which are those logged so far.
Verifies(rs, cps, aus) ==
  /\ accepts
  /\ seen = [j \in Jobs |-> {u \in Updates : cps[j][u] # None}]
  /\ seenAudits = aus
  /\ installed = {Phase[j] : j \in {i \in Jobs : rs[i].columns.status # "absent"}}
                   \ {"calibration"}
  /\ \A j \in Jobs : rs[j].columns.status # "absent" =>
       /\ rs[j].columns = history[j]
       /\ rs[j].columns.status \in Active <=> rs[j].token # None
       /\ rs[j].columns.status \in {"trained", "completed"} => cps[j][Budget] # None

\* No sequence of operations, by whatever holders of old and new claims, leaves
\* tables that verify() refuses: every command starts with verify(), so a
\* refused workflow is a run that nobody can continue.
VerifyStateMachine == Verifies(rows, checkpoints, audits)

\* "A stale worker token immediately loses authority": however claims, recover
\* and re-used claim intents interleave, at most one of the claims ever issued
\* is good for a job.
ExclusiveAuthority ==
  \A c, d \in claims :
    /\ c.job = d.job
    /\ Authorizes(c, Active)
    /\ Authorizes(d, Active)
    => c = d

\* A phase that is present rests on a completely successful one before it, at
\* any time and not only when append_jobs looked.
PhaseGate ==
  \A i, j \in Jobs :
    /\ Phase[i] # "calibration" /\ Status(i) # "absent"
    /\ Phase[j] = Prerequisite[Phase[i]] /\ Status(j) # "absent"
    => Status(j) = "completed"

\* What is over is never redone: a terminal row and its checkpoints are frozen
\* against stale claims, recover and reconciliation, a checkpoint is never
\* replaced or added below a later one, and a sealed job that was begun is
\* never claimed again.
Redoes(j) ==
  \/ Status(j) \in {"completed", "failed"} /\
       (rows'[j] # rows[j] \/ checkpoints'[j] # checkpoints[j])
  \/ \E u \in Recorded(j) : checkpoints'[j][u] # checkpoints[j][u]
  \/ \E u \in Updates \ Recorded(j) :
       checkpoints'[j][u] # None /\ \E v \in Recorded(j) : v > u
  \/ Sealed(j) /\ Status(j) \in {"running", "trained"} /\
       rows'[j].columns.status = "claimed"

NothingIsRedone == [][\A j \in Jobs : ~Redoes(j)]_vars
=============================================================================
