-------------------------- MODULE R3BWorkflowProofs --------------------------
(***************************************************************************)
(* Theorems about the job table, for any plan of jobs and any owners,      *)
(* tokens and digests, with claims presented in any order.                 *)
(*                                                                         *)
(* The argument goes in layers.  Cases says what an operation may do to    *)
(* the tables and the log, ClaimStep what it may do to the claims in       *)
(* circulation; the invariants are proved from these two and not from the  *)
(* operations one by one.  The last part is about a verify() that reads    *)
(* while others write; it needs that an operation takes its job further.   *)
(***************************************************************************)
EXTENDS WorkflowReader, TLAPS

Terminal == {"completed", "failed"}

\* How far a job has got.  Every operation takes a job further: only recover goes
\* back, to claimed, and it counts one more resumption.
Rank(status) ==
  CASE status = "absent" -> 0 [] status = "pending" -> 1 [] status = "claimed" -> 2
    [] status = "running" -> 3 [] status = "trained" -> 4 [] OTHER -> 5
Progress(h) == 6 * h.resumes + Rank(h.status)

\* A job moves on: its row is in the table and not terminal, and is claimed or
\* further afterwards.  The event written with it extends a history that verify()
\* accepts, and that the row agrees with, to such a history.
MoveStep ==
  \E j \in Jobs, h \in History, g \in History, t \in Tokens \cup {None} :
    /\ Status(j) \in {"pending"} \cup Active
    /\ h.status \in Active \cup Terminal
    /\ Progress(Columns(j)) < Progress(h)
    /\ Sealed(j) /\ Status(j) # "pending" => h.status # "claimed"
    /\ h.status \in Active <=> t # None
    /\ h.status \in {"trained", "completed"} => HasFinal(j)
    /\ SetRow(j, h, t)
    /\ history' = [history EXCEPT ![j] = g]
    /\ Columns(j) = history[j] /\ accepts /\ clock >= lastAt => h = g /\ accepts'
    /\ lastAt' = clock /\ accepts' \in BOOLEAN
    /\ accepts' => accepts /\ clock >= lastAt
    /\ UNCHANGED <<checkpoints, audits, seen, seenAudits, installed>>

\* An operation moves a job, or is one of the three that do not.
Cases ==
  \/ MoveStep
  \/ \E c \in claims, u \in Updates, a \in Artifacts : RecordCheckpoint(c, u, a)
  \/ \E c \in claims, a \in Artifacts : PublishResumeAudit(c, a)
  \/ \E phase \in {"validation", "test"} : AppendJobs(phase)

\* A claim that is handed out is for a job that is claimed from then on, and
\* differs in job or token from every claim before it.
ClaimStep ==
  \/ UNCHANGED claims
  \/ \E n \in Claims :
       /\ claims' = claims \cup {n}
       /\ Status(n.job)' = "claimed"
       /\ \A c \in claims : c.job # n.job \/ c.token # n.token

ClaimsAreStarted == \A c \in claims : Status(c.job) \in Active \cup Terminal

ClaimsAreUnique ==
  \A c, d \in claims : c.job = d.job /\ c.token = d.token => c = d

ClaimInv ==
  /\ WorkflowTypeOK
  /\ ClaimsAreStarted
  /\ ClaimsAreUnique

-----------------------------------------------------------------------------
(* The operations that touch one row. *)

\* The step of one UPDATE: the columns and the token keep their types.
LEMMA SetRowType ==
  ASSUME WorkflowTypeOK, NEW j \in Jobs, NEW h \in History,
         NEW t \in Tokens \cup {None}, SetRow(j, h, t)
  PROVE  /\ rows' \in [Jobs -> Rows]
         /\ rows'[j] = JobRow(h, t)
         /\ Status(j)' = h.status
         /\ \A i \in Jobs \ {j} : rows'[i] = rows[i]
BY DEF WorkflowTypeOK, SetRow, JobRow, Rows, Status, Columns

\* The changes that operations and events make to the columns of a job.
LEMMA ColumnChanges ==
  ASSUME NEW h \in History, NEW s \in Statuses
  PROVE  /\ [h EXCEPT !.status = s] \in History
         /\ \A o \in Owners : [h EXCEPT !.status = s, !.owner = o] \in History
         /\ \A o \in Owners :
              [h EXCEPT !.status = s, !.owner = o, !.resumes = @ + 1] \in History
         /\ \A out \in Outputs : [h EXCEPT !.status = s, !.output = out] \in History
         /\ \A f \in Texts : [h EXCEPT !.status = s, !.failure = f] \in History
<1>1. [h EXCEPT !.status = s] \in History
  BY DEF History
<1>2. ASSUME NEW o \in Owners
      PROVE  [h EXCEPT !.status = s, !.owner = o] \in History
  BY DEF History
<1>3. ASSUME NEW o \in Owners
      PROVE  [h EXCEPT !.status = s, !.owner = o, !.resumes = @ + 1] \in History
  <2> DEFINE n == h.resumes + 1
  <2>1. n \in Nat
    BY DEF History
  <2> HIDE DEF n
  <2>2. [h EXCEPT !.status = s, !.owner = o, !.resumes = n] \in History
    BY <2>1 DEF History
  <2> QED
    BY <2>2 DEF n
<1>4. ASSUME NEW out \in Outputs
      PROVE  [h EXCEPT !.status = s, !.output = out] \in History
  BY DEF History
<1>5. ASSUME NEW f \in Texts
      PROVE  [h EXCEPT !.status = s, !.failure = f] \in History
  BY DEF History
<1> QED
  BY <1>1, <1>2, <1>3, <1>4, <1>5

LEMMA RowTypes ==
  ASSUME WorkflowTypeOK, NEW j \in Jobs
  PROVE  Columns(j) \in History /\ rows[j].token \in Tokens \cup {None}
BY DEF WorkflowTypeOK, Rows, Columns

LEMMA HistoryTypes ==
  ASSUME WorkflowTypeOK, NEW j \in Jobs
  PROVE  history[j] \in History
BY DEF WorkflowTypeOK

\* Every operation is one of the cases.
LEMMA OperationCases ==
  ASSUME WorkflowTypeOK, Operation
  PROVE  Cases
<1> USE DEF Active, Terminal
<1>1. ASSUME NEW phase \in Phases, NEW o \in Owners, NEW t \in Tokens,
             ClaimNext(phase, o, t)
      PROVE  MoveStep
  <2>0. PICK j \in InPhase(phase) :
          /\ Status(j) = "pending"
          /\ SetRow(j, [Columns(j) EXCEPT !.status = "claimed", !.owner = o], t)
          /\ LogClaimed(j, o)
    BY <1>1 DEF ClaimNext
  <2> DEFINE h == [Columns(j) EXCEPT !.status = "claimed", !.owner = o]
             g == [history[j] EXCEPT !.status = "claimed", !.owner = o]
  <2>1. /\ j \in Jobs /\ Status(j) \in {"pending"}
        /\ SetRow(j, h, t) /\ t # None
        /\ UNCHANGED <<checkpoints, audits>>
    BY <1>1, <2>0, NoneAssumption DEF ClaimNext, InPhase
  <2>2. h \in History /\ g \in History
    BY <2>1, ColumnChanges, RowTypes, HistoryTypes DEF Statuses
  <2>3. h.status = "claimed"
    BY <2>1, RowTypes DEF History
  <2>4. /\ history' = [history EXCEPT ![j] = g]
        /\ lastAt' = clock /\ accepts' \in BOOLEAN
        /\ accepts' => accepts /\ clock >= lastAt
        /\ UNCHANGED <<seen, seenAudits, installed>>
    BY <2>0 DEF LogClaimed, LogTransition, Stamp
  <2>5. Columns(j) = history[j] /\ accepts /\ clock >= lastAt => h = g /\ accepts'
    BY <2>0, <2>1 DEF LogClaimed, LogTransition, Stamp, Status
  <2>6. Progress(Columns(j)) < Progress(h)
    <3>1. Columns(j) \in History
      BY <2>1, RowTypes
    <3> QED
      BY <1>1, <2>0, <2>1, <3>1 DEF Progress, Rank, History, Status
  <2> HIDE DEF h, g
  <2> QED
    BY <2>1, <2>2, <2>3, <2>4, <2>5, <2>6, RowTypes DEF MoveStep
<1>2. ASSUME NEW c \in claims, Begin(c)
      PROVE  MoveStep
  <2> DEFINE h == [Columns(c.job) EXCEPT !.status = "running"]
             g == [history[c.job] EXCEPT !.status = "running"]
  <2>1. /\ c.job \in Jobs /\ Status(c.job) \in Active
        /\ SetRow(c.job, h, rows[c.job].token) /\ rows[c.job].token # None
        /\ UNCHANGED <<checkpoints, audits>>
    BY <1>2, NoneAssumption DEF Begin, Authorizes, WorkflowTypeOK, Claims
  <2>2. h \in History /\ g \in History
    BY <2>1, ColumnChanges, RowTypes, HistoryTypes DEF Statuses
  <2>3. h.status = "running"
    BY <2>1, RowTypes DEF History
  <2>4. /\ history' = [history EXCEPT ![c.job] = g]
        /\ lastAt' = clock /\ accepts' \in BOOLEAN
        /\ accepts' => accepts /\ clock >= lastAt
        /\ UNCHANGED <<seen, seenAudits, installed>>
    BY <1>2 DEF Begin, Authorizes, WorkflowTypeOK, Claims, LogStarted, LogTransition, Stamp
  <2>5. Columns(c.job) = history[c.job] /\ accepts /\ clock >= lastAt => h = g /\ accepts'
    BY <1>2, <2>1 DEF Begin, Authorizes, WorkflowTypeOK, Claims, LogStarted, LogTransition,
      Stamp, Status
  <2>6. Progress(Columns(c.job)) < Progress(h)
    <3>1. Columns(c.job) \in History
      BY <2>1, RowTypes
    <3> QED
      BY <1>2, <2>1, <3>1 DEF Progress, Rank, History, Status, Begin, Authorizes
  <2> HIDE DEF h, g
  <2> QED
    BY <2>1, <2>2, <2>3, <2>4, <2>5, <2>6, RowTypes DEF MoveStep
<1>3. ASSUME NEW c \in claims, MarkTrained(c)
      PROVE  MoveStep
  <2> DEFINE h == [Columns(c.job) EXCEPT !.status = "trained"]
             g == [history[c.job] EXCEPT !.status = "trained"]
  <2>1. /\ c.job \in Jobs /\ Status(c.job) \in Active /\ HasFinal(c.job)
        /\ SetRow(c.job, h, rows[c.job].token) /\ rows[c.job].token # None
        /\ UNCHANGED <<checkpoints, audits>>
    BY <1>3, NoneAssumption DEF MarkTrained, Authorizes, WorkflowTypeOK, Claims
  <2>2. h \in History /\ g \in History
    BY <2>1, ColumnChanges, RowTypes, HistoryTypes DEF Statuses
  <2>3. h.status = "trained"
    BY <2>1, RowTypes DEF History
  <2>4. /\ history' = [history EXCEPT ![c.job] = g]
        /\ lastAt' = clock /\ accepts' \in BOOLEAN
        /\ accepts' => accepts /\ clock >= lastAt
        /\ UNCHANGED <<seen, seenAudits, installed>>
    BY <1>3 DEF MarkTrained, Authorizes, WorkflowTypeOK, Claims, LogTrained, LogTransition, Stamp
  <2>5. Columns(c.job) = history[c.job] /\ accepts /\ clock >= lastAt => h = g /\ accepts'
    BY <1>3, <2>1 DEF MarkTrained, Authorizes, WorkflowTypeOK, Claims, LogTrained, LogTransition,
      Stamp, Status
  <2>6. Progress(Columns(c.job)) < Progress(h)
    <3>1. Columns(c.job) \in History
      BY <2>1, RowTypes
    <3> QED
      BY <1>3, <2>1, <3>1 DEF Progress, Rank, History, Status, MarkTrained, Authorizes
  <2> HIDE DEF h, g
  <2> QED
    BY <2>1, <2>2, <2>3, <2>4, <2>5, <2>6, RowTypes DEF MoveStep
<1>4. ASSUME NEW j \in Jobs, NEW a \in Artifacts, NEW o \in Owners, NEW t \in Tokens,
             Recover(j, a, o, t)
      PROVE  MoveStep
  <2> DEFINE h == [Columns(j) EXCEPT !.status = "claimed", !.owner = o, !.resumes = @ + 1]
             g == [history[j] EXCEPT !.status = "claimed", !.owner = o, !.resumes = @ + 1]
  <2>1. /\ j \in Jobs /\ Status(j) \in Active /\ ~Sealed(j)
        /\ SetRow(j, h, t) /\ t # None
        /\ UNCHANGED <<checkpoints, audits>>
    BY <1>4, NoneAssumption DEF Recover
  <2>2. h \in History /\ g \in History
    BY <2>1, ColumnChanges, RowTypes, HistoryTypes DEF Statuses
  <2>3. h.status = "claimed"
    BY <2>1, RowTypes DEF History
  <2>4. /\ history' = [history EXCEPT ![j] = g]
        /\ lastAt' = clock /\ accepts' \in BOOLEAN
        /\ accepts' => accepts /\ clock >= lastAt
        /\ UNCHANGED <<seen, seenAudits, installed>>
    BY <1>4 DEF Recover, LogRecovered, LogTransition, Stamp
  <2>5. Columns(j) = history[j] /\ accepts /\ clock >= lastAt => h = g /\ accepts'
    BY <1>4, <2>1 DEF Recover, LogRecovered, LogTransition, Stamp, Status
  <2>6. Progress(Columns(j)) < Progress(h)
    <3>1. Columns(j) \in History
      BY <2>1, RowTypes
    <3> QED
      BY <1>4, <2>1, <3>1 DEF Progress, Rank, History, Status, Recover
  <2> HIDE DEF h, g
  <2> QED
    BY <2>1, <2>2, <2>3, <2>4, <2>5, <2>6, RowTypes DEF MoveStep
<1>5. ASSUME NEW j \in Jobs, NEW out \in Outputs, SetCompleted(j, out),
             Status(j) \in {"running", "trained"}, HasFinal(j)
      PROVE  MoveStep
  <2> DEFINE h == [Columns(j) EXCEPT !.status = "completed", !.output = out]
             g == [history[j] EXCEPT !.status = "completed", !.output = out]
  <2>1. /\ j \in Jobs /\ Status(j) \in Active /\ HasFinal(j)
        /\ SetRow(j, h, None)
        /\ UNCHANGED <<checkpoints, audits>>
    BY <1>5 DEF SetCompleted
  <2>2. h \in History /\ g \in History
    BY <2>1, ColumnChanges, RowTypes, HistoryTypes DEF Statuses
  <2>3. h.status = "completed"
    BY <2>1, RowTypes DEF History
  <2>4. /\ history' = [history EXCEPT ![j] = g]
        /\ lastAt' = clock /\ accepts' \in BOOLEAN
        /\ accepts' => accepts /\ clock >= lastAt
        /\ UNCHANGED <<seen, seenAudits, installed>>
    BY <1>5 DEF SetCompleted, LogCompleted, LogTransition, Stamp
  <2>5. Columns(j) = history[j] /\ accepts /\ clock >= lastAt => h = g /\ accepts'
    BY <1>5, <2>1 DEF SetCompleted, LogCompleted, LogTransition, Stamp, Status
  <2>6. Progress(Columns(j)) < Progress(h)
    <3>1. Columns(j) \in History
      BY <2>1, RowTypes
    <3> QED
      BY <1>5, <2>1, <3>1 DEF Progress, Rank, History, Status
  <2> HIDE DEF h, g
  <2> QED
    BY <2>1, <2>2, <2>3, <2>4, <2>5, <2>6, RowTypes DEF MoveStep
<1>6. ASSUME NEW j \in Jobs, NEW f \in Texts, SetFailed(j, f), Status(j) \in Active
      PROVE  MoveStep
  <2> DEFINE h == [Columns(j) EXCEPT !.status = "failed", !.failure = f]
             g == [history[j] EXCEPT !.status = "failed", !.failure = f]
  <2>1. /\ j \in Jobs /\ Status(j) \in Active
        /\ SetRow(j, h, None)
        /\ UNCHANGED <<checkpoints, audits>>
    BY <1>6 DEF SetFailed
  <2>2. h \in History /\ g \in History
    BY <2>1, ColumnChanges, RowTypes, HistoryTypes DEF Statuses
  <2>3. h.status = "failed"
    BY <2>1, RowTypes DEF History
  <2>4. /\ history' = [history EXCEPT ![j] = g]
        /\ lastAt' = clock /\ accepts' \in BOOLEAN
        /\ accepts' => accepts /\ clock >= lastAt
        /\ UNCHANGED <<seen, seenAudits, installed>>
    BY <1>6 DEF SetFailed, LogFailed, LogTransition, Stamp
  <2>5. Columns(j) = history[j] /\ accepts /\ clock >= lastAt => h = g /\ accepts'
    BY <1>6, <2>1 DEF SetFailed, LogFailed, LogTransition, Stamp, Status
  <2>6. Progress(Columns(j)) < Progress(h)
    <3>1. Columns(j) \in History
      BY <2>1, RowTypes
    <3> QED
      BY <1>6, <2>1, <3>1 DEF Progress, Rank, History, Status
  <2> HIDE DEF h, g
  <2> QED
    BY <2>1, <2>2, <2>3, <2>4, <2>5, <2>6, RowTypes DEF MoveStep
<1>7. ASSUME NEW c \in claims, NEW out \in Outputs, Complete(c, out)
      PROVE  MoveStep
  BY <1>5, <1>7 DEF Complete, Authorizes, WorkflowTypeOK, Claims
<1>8. ASSUME NEW c \in claims, NEW f \in Texts, Fail(c, f)
      PROVE  MoveStep
  BY <1>6, <1>8 DEF Fail, Authorizes, WorkflowTypeOK, Claims
<1>9. ASSUME NEW j \in Jobs, NEW oc \in Outcomes, NEW out \in Outputs,
             ReconcileSealedCompletion(j, oc, out)
      PROVE  MoveStep
  BY <1>5, <1>9 DEF ReconcileSealedCompletion
<1>10. ASSUME NEW j \in Jobs, NEW f \in Texts, ReconcileSealedFailure(j, f)
       PROVE  MoveStep
  BY <1>6, <1>10 DEF ReconcileSealedFailure
<1> QED
  BY <1>1, <1>2, <1>3, <1>4, <1>7, <1>8, <1>9, <1>10 DEF Operation, Cases

\* Only claim_next and recover hand out a claim.
LEMMA OperationClaims ==
  ASSUME WorkflowTypeOK, ClaimsAreStarted, Operation
  PROVE  ClaimStep
<1>1. ASSUME NEW phase \in Phases, NEW o \in Owners, NEW t \in Tokens,
             ClaimNext(phase, o, t)
      PROVE  ClaimStep
  <2>1. PICK j \in InPhase(phase) :
          /\ Status(j) = "pending"
          /\ SetRow(j, [Columns(j) EXCEPT !.status = "claimed", !.owner = o], t)
          /\ claims' = claims \cup
               {[job |-> j, token |-> t, owner |-> o, from |-> 0, checkpoint |-> None]}
    BY <1>1 DEF ClaimNext
  <2> DEFINE n == [job |-> j, token |-> t, owner |-> o, from |-> 0, checkpoint |-> None]
  <2>2. j \in Jobs /\ n \in Claims
    BY BudgetAssumption DEF InPhase, Claims, Updates
  <2>3. Status(j)' = "claimed"
    BY <2>1, <2>2 DEF WorkflowTypeOK, SetRow, JobRow, Rows, History, Status, Columns
  <2>4. \A c \in claims : c.job # j
    BY <2>1 DEF ClaimsAreStarted, Active, Terminal
  <2> QED
    BY <2>1, <2>2, <2>3, <2>4 DEF ClaimStep
<1>2. ASSUME NEW j \in Jobs, NEW a \in Artifacts, NEW o \in Owners, NEW t \in Tokens,
             Recover(j, a, o, t)
      PROVE  ClaimStep
  <2> DEFINE n == [job |-> j, token |-> t, owner |-> o, from |-> Latest(j), checkpoint |-> a]
  <2>1. CASE n \notin Claims
    BY <1>2, <2>1 DEF Recover, HandOut, ClaimStep
  <2>2. CASE n \in Claims
    <3>1. claims' = claims \cup {n} /\ \A c \in claims : c.token # t
      BY <1>2, <2>2 DEF Recover, HandOut, Fresh
    <3>2. Status(j)' = "claimed"
      BY <1>2 DEF Recover, WorkflowTypeOK, SetRow, JobRow, Rows, History, Status, Columns
    <3> QED
      BY <2>2, <3>1, <3>2 DEF ClaimStep
  <2> QED
    BY <2>1, <2>2
<1>3. ASSUME NEW c \in claims, Begin(c) \/ MarkTrained(c)
      PROVE  ClaimStep
  BY <1>3 DEF Begin, MarkTrained, ClaimStep
<1>4. ASSUME NEW c \in claims, NEW u \in Updates, NEW a \in Artifacts,
             RecordCheckpoint(c, u, a)
      PROVE  ClaimStep
  BY <1>4 DEF RecordCheckpoint, ClaimStep
<1>5. ASSUME NEW c \in claims, NEW a \in Artifacts, PublishResumeAudit(c, a)
      PROVE  ClaimStep
  BY <1>5 DEF PublishResumeAudit, ClaimStep
<1>6. ASSUME NEW j \in Jobs, NEW out \in Outputs, SetCompleted(j, out)
      PROVE  ClaimStep
  BY <1>6 DEF SetCompleted, ClaimStep
<1>7. ASSUME NEW j \in Jobs, NEW f \in Texts, SetFailed(j, f)
      PROVE  ClaimStep
  BY <1>7 DEF SetFailed, ClaimStep
<1>8. ASSUME NEW c \in claims, NEW out \in Outputs, Complete(c, out)
      PROVE  ClaimStep
  BY <1>6, <1>8 DEF Complete, WorkflowTypeOK, Claims
<1>9. ASSUME NEW c \in claims, NEW f \in Texts, Fail(c, f)
      PROVE  ClaimStep
  BY <1>7, <1>9 DEF Fail, WorkflowTypeOK, Claims
<1>10. ASSUME NEW j \in Jobs, NEW oc \in Outcomes, NEW out \in Outputs,
              ReconcileSealedCompletion(j, oc, out)
       PROVE  ClaimStep
  BY <1>6, <1>10 DEF ReconcileSealedCompletion
<1>11. ASSUME NEW j \in Jobs, NEW f \in Texts, ReconcileSealedFailure(j, f)
       PROVE  ClaimStep
  BY <1>7, <1>11 DEF ReconcileSealedFailure
<1>12. ASSUME NEW phase \in {"validation", "test"}, AppendJobs(phase)
       PROVE  ClaimStep
  BY <1>12 DEF AppendJobs, ClaimStep
<1> QED
  BY <1>1, <1>2, <1>3, <1>4, <1>5, <1>8, <1>9, <1>10, <1>11, <1>12 DEF Operation

-----------------------------------------------------------------------------
(* Types and claims. *)

LEMMA InitType == TableInit => WorkflowTypeOK
<1> SUFFICES ASSUME TableInit
             PROVE  WorkflowTypeOK
  OBVIOUS
<1> USE DEF TableInit, WorkflowInit
<1>1. \A s \in {"pending", "absent"} : JobRow(Blank(s), None) \in Rows
  BY DEF JobRow, Blank, Rows, History, Statuses
<1>2. rows \in [Jobs -> Rows]
  BY <1>1
<1>3. history \in [Jobs -> History]
  BY DEF Blank, History, Statuses
<1>4. sealed \in [Jobs -> Verdicts]
  BY DEF Open, Verdicts
<1> QED
  BY <1>2, <1>3, <1>4, ClockAssumption DEF WorkflowTypeOK

LEMMA CasesType ==
  ASSUME WorkflowTypeOK, Cases, ClaimStep, UNCHANGED <<clock, sealed>>
  PROVE  WorkflowTypeOK'
<1>1. claims' \in SUBSET Claims
  BY DEF ClaimStep, WorkflowTypeOK
<1>2. CASE MoveStep
  BY <1>1, <1>2, SetRowType DEF MoveStep, WorkflowTypeOK
<1>3. ASSUME NEW c \in claims, NEW u \in Updates, NEW a \in Artifacts,
             RecordCheckpoint(c, u, a)
      PROVE  WorkflowTypeOK'
  BY <1>1, <1>3 DEF RecordCheckpoint, LogCheckpoint, Stamp, WorkflowTypeOK, Claims
<1>4. ASSUME NEW c \in claims, NEW a \in Artifacts, PublishResumeAudit(c, a)
      PROVE  WorkflowTypeOK'
  BY <1>1, <1>4 DEF PublishResumeAudit, LogAudit, Stamp, WorkflowTypeOK, Claims
<1>5. ASSUME NEW phase \in {"validation", "test"}, AppendJobs(phase)
      PROVE  WorkflowTypeOK'
  <2>1. JobRow(Blank("pending"), None) \in Rows
    BY DEF JobRow, Blank, Rows, History, Statuses
  <2>2. rows' \in [Jobs -> Rows]
    BY <1>5, <2>1 DEF AppendJobs, WorkflowTypeOK
  <2> QED
    BY <1>1, <1>5, <2>2 DEF AppendJobs, LogInstalled, Stamp, WorkflowTypeOK
<1> QED
  BY <1>2, <1>3, <1>4, <1>5 DEF Cases

LEMMA EnvironmentType ==
  ASSUME WorkflowTypeOK, UNCHANGED workflow,
         \/ \E now \in 0..MaxClock : Tick(now)
         \/ \E j \in Jobs : LedgerDecides(j)
  PROVE  WorkflowTypeOK'
<1> USE DEF workflow, log
<1>1. ASSUME NEW now \in 0..MaxClock, Tick(now)
      PROVE  WorkflowTypeOK'
  BY <1>1 DEF Tick, WorkflowTypeOK
<1>2. ASSUME NEW j \in Jobs, LedgerDecides(j)
      PROVE  WorkflowTypeOK'
  <2>1. \A o \in Outcomes : [Open EXCEPT !.state = "complete", !.outcome = o] \in Verdicts
    BY DEF Open, Verdicts
  <2>2. \A f \in Texts : [Open EXCEPT !.state = "failure", !.failure = f] \in Verdicts
    BY DEF Open, Verdicts
  <2>3. PICK v \in Verdicts : sealed' = [sealed EXCEPT ![j] = v]
    <3>1. ASSUME NEW o \in Outcomes,
                 sealed' = [sealed EXCEPT ![j] = [Open EXCEPT !.state = "complete", !.outcome = o]]
          PROVE  \E v \in Verdicts : sealed' = [sealed EXCEPT ![j] = v]
      BY <2>1, <3>1, Zenon
    <3>2. ASSUME NEW f \in Texts,
                 sealed' = [sealed EXCEPT ![j] = [Open EXCEPT !.state = "failure", !.failure = f]]
          PROVE  \E v \in Verdicts : sealed' = [sealed EXCEPT ![j] = v]
      BY <2>2, <3>2, Zenon
    <3> QED
      BY <1>2, <3>1, <3>2, Zenon DEF LedgerDecides
  <2>4. sealed' \in [Jobs -> Verdicts]
    BY <2>3 DEF WorkflowTypeOK
  <2> QED
    BY <1>2, <2>4 DEF LedgerDecides, WorkflowTypeOK
<1> QED
  BY <1>1, <1>2

LEMMA CasesClaims ==
  ASSUME ClaimInv, Cases, ClaimStep
  PROVE  ClaimsAreStarted' /\ ClaimsAreUnique'
<1>1. ASSUME NEW j \in Jobs, Status(j) \in Active \cup Terminal
      PROVE  Status(j)' \in Active \cup Terminal
  <2>1. CASE MoveStep
    BY <1>1, <2>1, SetRowType DEF MoveStep, ClaimInv, Status, Columns
  <2>2. CASE UNCHANGED rows
    BY <1>1, <2>2 DEF Status, Columns
  <2>3. ASSUME NEW phase \in {"validation", "test"}, AppendJobs(phase)
        PROVE  Status(j)' \in Active \cup Terminal
    <3>1. j \notin InPhase(phase)
      BY <1>1, <2>3 DEF AppendJobs, Active, Terminal
    <3> QED
      BY <1>1, <2>3, <3>1 DEF AppendJobs, Status, Columns
  <2> QED
    BY <2>1, <2>2, <2>3 DEF Cases, RecordCheckpoint, PublishResumeAudit
<1>2. ClaimsAreStarted'
  BY <1>1 DEF ClaimStep, ClaimsAreStarted, ClaimInv, WorkflowTypeOK, Claims, Active
<1>3. ClaimsAreUnique'
  BY DEF ClaimStep, ClaimsAreUnique, ClaimInv
<1> QED
  BY <1>2, <1>3

LEMMA InitClaims == TableInit => ClaimInv
BY InitType DEF TableInit, WorkflowInit, ClaimInv, ClaimsAreStarted, ClaimsAreUnique

LEMMA NextClaims ==
  ASSUME ClaimInv, [WorkflowNext]_vars
  PROVE  ClaimInv'
<1>1. CASE Operation /\ UNCHANGED <<clock, sealed>>
  <2>1. Cases /\ ClaimStep
    BY <1>1, OperationCases, OperationClaims DEF ClaimInv
  <2> QED
    BY <1>1, <2>1, CasesType, CasesClaims DEF ClaimInv
<1>2. CASE \/ \E now \in 0..MaxClock : Tick(now)
           \/ \E j \in Jobs : LedgerDecides(j)
  <2>1. UNCHANGED workflow
    BY <1>2 DEF Tick, LedgerDecides
  <2>2. WorkflowTypeOK'
    BY <1>2, <2>1, EnvironmentType DEF ClaimInv
  <2> QED
    BY <2>1, <2>2 DEF workflow, ClaimInv, ClaimsAreStarted, ClaimsAreUnique, Status, Columns
<1>3. CASE UNCHANGED vars
  BY <1>3 DEF vars, workflow, log, ClaimInv, WorkflowTypeOK, ClaimsAreStarted,
    ClaimsAreUnique, Status, Columns
<1> QED
  BY <1>1, <1>2, <1>3 DEF WorkflowNext

\* Types, and the two facts about the claims in circulation, are inductive.
THEOREM ClaimInvariant == WorkflowSpec => []ClaimInv
BY InitClaims, NextClaims, PTL DEF WorkflowSpec

\* Every column, replayed history and claim has its kind of value.
THEOREM WorkflowTypeCorrect == WorkflowSpec => []WorkflowTypeOK
<1>1. ClaimInv => WorkflowTypeOK
  BY DEF ClaimInv
<1> QED
  BY <1>1, ClaimInvariant, PTL

\* Of all the claims ever issued for a job, one at most is still good: a row
\* stores one token, and no token is issued twice for a job.
THEOREM OneAuthority == WorkflowSpec => []ExclusiveAuthority
<1>1. ClaimInv => ExclusiveAuthority
  BY DEF ClaimInv, ClaimsAreUnique, ExclusiveAuthority, Authorizes
<1> QED
  BY <1>1, ClaimInvariant, PTL

-----------------------------------------------------------------------------
(* Phases. *)

\* PhaseGate alone is not inductive: installing the validation jobs would break
\* it for test jobs that are there already.  They cannot be.
TestRests ==
  \A i \in InPhase("test") : Status(i) # "absent" =>
    \E j \in InPhase("validation") : Status(j) # "absent"

GateInv == ClaimInv /\ TestRests /\ PhaseGate

LEMMA CasesGate ==
  ASSUME GateInv, Cases
  PROVE  TestRests' /\ PhaseGate'
<1> USE DEF GateInv, ClaimInv, Active, Terminal
<1>1. CASE /\ \A j \in Jobs : Status(j) = "absent" <=> Status(j)' = "absent"
           /\ \A j \in Jobs : Status(j) = "completed" => Status(j)' = "completed"
  BY <1>1 DEF TestRests, PhaseGate, InPhase
<1>2. CASE MoveStep
  <2>1. PICK j \in Jobs, h \in History, t \in Tokens \cup {None} :
          /\ Status(j) \in {"pending"} \cup Active
          /\ h.status \in Active \cup Terminal
          /\ SetRow(j, h, t)
    BY <1>2 DEF MoveStep
  <2>2. Status(j)' = h.status /\ \A i \in Jobs \ {j} : Status(i)' = Status(i)
    BY <2>1, SetRowType DEF Status, Columns
  <2> QED
    BY <1>1, <2>1, <2>2
<1>3. CASE UNCHANGED rows
  BY <1>1, <1>3 DEF Status, Columns
<1>4. ASSUME NEW phase \in {"validation", "test"}, AppendJobs(phase)
      PROVE  TestRests' /\ PhaseGate'
  <2>1. \A i \in Jobs : Status(i)' = IF i \in InPhase(phase) THEN "pending" ELSE Status(i)
    BY <1>4 DEF AppendJobs, Status, Columns, JobRow, Blank
  <2>2. \A i \in InPhase(phase) : Status(i) = "absent"
    BY <1>4 DEF AppendJobs
  <2>3. {Status(i) : i \in InPhase(Prerequisite[phase])} \ {"absent"} = {"completed"}
    BY <1>4 DEF AppendJobs
  <2>4. /\ \A i \in InPhase(Prerequisite[phase]) : Status(i) \in {"absent", "completed"}
        /\ \E i \in InPhase(Prerequisite[phase]) : Status(i) = "completed"
    BY <2>3
  <2>5. /\ Prerequisite["validation"] = "calibration"
        /\ Prerequisite["test"] = "validation"
    BY DEF Prerequisite
  <2>6. CASE phase = "validation"
    <3>1. \A i \in InPhase("test") : Status(i) = "absent"
      BY <2>2, <2>6 DEF TestRests
    <3>2. \A i \in InPhase("test") : Status(i)' = "absent"
      BY <2>1, <2>6, <3>1 DEF InPhase
    <3>3. \A i \in InPhase("calibration") : Status(i)' \in {"absent", "completed"}
      BY <2>1, <2>4, <2>5, <2>6 DEF InPhase
    <3> QED
      BY <3>2, <3>3, <2>5, PhaseAssumption DEF TestRests, PhaseGate, InPhase, Phases
  <2>7. CASE phase = "test"
    <3>1. \A i \in InPhase("validation") : Status(i)' \in {"absent", "completed"}
      BY <2>1, <2>4, <2>5, <2>7 DEF InPhase
    <3>2. \E i \in InPhase("validation") : Status(i)' # "absent"
      BY <2>1, <2>4, <2>5, <2>7 DEF InPhase
    <3>3. \A i \in Jobs \ InPhase("test") : Status(i)' = Status(i)
      BY <2>1, <2>7
    <3> QED
      BY <3>1, <3>2, <3>3, <2>5, PhaseAssumption DEF TestRests, PhaseGate, InPhase, Phases
  <2> QED
    BY <2>6, <2>7
<1> QED
  BY <1>2, <1>3, <1>4 DEF Cases, RecordCheckpoint, PublishResumeAudit

\* A phase that is in the table rests on a completely successful one, for good.
THEOREM GateHolds == WorkflowSpec => []PhaseGate
<1>1. TableInit => TestRests /\ PhaseGate
  BY PhaseAssumption DEF TableInit, WorkflowInit, TestRests, PhaseGate, InPhase,
    Status, Columns, JobRow, Blank
<1>2. ClaimInv /\ TestRests /\ PhaseGate /\ [WorkflowNext]_vars => TestRests' /\ PhaseGate'
  <2> SUFFICES ASSUME ClaimInv, TestRests, PhaseGate, [WorkflowNext]_vars
               PROVE  TestRests' /\ PhaseGate'
    OBVIOUS
  <2>1. CASE Operation
    BY <2>1, OperationCases, CasesGate DEF ClaimInv, GateInv
  <2>2. CASE UNCHANGED rows
    BY <2>2 DEF TestRests, PhaseGate, Status, Columns
  <2> QED
    BY <2>1, <2>2 DEF WorkflowNext, Tick, LedgerDecides, vars, workflow
<1> QED
  BY <1>1, <1>2, ClaimInvariant, PTL DEF WorkflowSpec

-----------------------------------------------------------------------------
(* Nothing that is over is redone. *)

LEMMA NextRedoes ==
  ASSUME WorkflowTypeOK, [WorkflowNext]_vars, NEW j \in Jobs, ~UNCHANGED vars
  PROVE  ~Redoes(j)
<1> USE DEF Status, Columns, Recorded
<1>1. CASE UNCHANGED <<rows, checkpoints>>
  BY <1>1 DEF Redoes
<1>2. CASE MoveStep
  <2>1. PICK i \in Jobs, h \in History, t \in Tokens \cup {None} :
          /\ Status(i) \in {"pending"} \cup Active
          /\ Sealed(i) /\ Status(i) # "pending" => h.status # "claimed"
          /\ SetRow(i, h, t) /\ UNCHANGED checkpoints
    BY <1>2 DEF MoveStep
  <2>2. Status(i)' = h.status /\ \A k \in Jobs \ {i} : rows'[k] = rows[k]
    BY <2>1, SetRowType
  <2> QED
    BY <2>1, <2>2 DEF Redoes, Active
<1>3. ASSUME NEW c \in claims, NEW u \in Updates, NEW a \in Artifacts,
             RecordCheckpoint(c, u, a)
      PROVE  ~Redoes(j)
  <2>1. /\ c.job \in Jobs /\ Status(c.job) = "running" /\ UNCHANGED rows
        /\ checkpoints' = [checkpoints EXCEPT ![c.job][u] = a]
        /\ \A v \in Recorded(c.job) : v < u
    BY <1>3 DEF RecordCheckpoint, Authorizes, WorkflowTypeOK, Claims
  <2>2. \A v \in Updates : v \in Nat
    BY BudgetAssumption DEF Updates
  <2>3. \A v \in Updates : j # c.job \/ v # u => checkpoints'[j][v] = checkpoints[j][v]
    BY <2>1 DEF WorkflowTypeOK
  <2>4. CASE j # c.job
    <3>1. checkpoints'[j] = checkpoints[j]
      BY <2>1, <2>4 DEF WorkflowTypeOK
    <3> QED
      BY <2>1, <3>1 DEF Redoes
  <2>5. CASE j = c.job
    BY <2>1, <2>2, <2>3, <2>5 DEF Redoes
  <2> QED
    BY <2>4, <2>5
<1>4. ASSUME NEW phase \in {"validation", "test"}, AppendJobs(phase)
      PROVE  ~Redoes(j)
  <2>1. /\ UNCHANGED checkpoints
        /\ Status(j) = "absent" \/ rows'[j] = rows[j]
    BY <1>4 DEF AppendJobs
  <2> QED
    BY <2>1 DEF Redoes
<1>5. CASE Operation
  BY <1>1, <1>2, <1>3, <1>4, <1>5, OperationCases DEF Cases, PublishResumeAudit
<1> QED
  BY <1>1, <1>5 DEF WorkflowNext, Tick, LedgerDecides, workflow

\* Terminal rows, recorded checkpoints and begun sealed jobs, for good.
THEOREM NeverRedone == WorkflowSpec => NothingIsRedone
<1>1. ClaimInv /\ [WorkflowNext]_vars => [\A j \in Jobs : ~Redoes(j)]_vars
  BY NextRedoes DEF ClaimInv
<1> QED
  BY <1>1, ClaimInvariant, PTL DEF WorkflowSpec, NothingIsRedone

-----------------------------------------------------------------------------
(* verify() accepts. *)

\* verify() compares nothing with the history of a job that is not in the table
\* yet; append_jobs needs it to be blank.
AbsentAreBlank == \A j \in Jobs : Status(j) = "absent" => history[j] = Blank("pending")

LogInv ==
  /\ AbsentAreBlank
  /\ lastAt <= clock
  /\ VerifyStateMachine

\* The phases whose jobs are in the table, less the one that create installs.
Present == {Phase[j] : j \in {i \in Jobs : rows[i].columns.status # "absent"}}
             \ {"calibration"}

\* What verify() asks of the row of job j.
RowAgrees(j) ==
  rows[j].columns.status # "absent" =>
    /\ rows[j].columns = history[j]
    /\ rows[j].columns.status \in Active <=> rows[j].token # None
    /\ rows[j].columns.status \in {"trained", "completed"} => checkpoints[j][Budget] # None

LEMMA VerifyParts ==
  VerifyStateMachine <=>
    /\ accepts
    /\ seen = [j \in Jobs |-> Recorded(j)]
    /\ seenAudits = audits
    /\ installed = Present
    /\ \A j \in Jobs : RowAgrees(j)
BY DEF VerifyStateMachine, Verifies, Present, RowAgrees, Recorded

LEMMA CasesLog ==
  ASSUME WorkflowTypeOK, LogInv, Cases, UNCHANGED clock
  PROVE  LogInv'
<1>1. /\ accepts
      /\ seen = [j \in Jobs |-> Recorded(j)]
      /\ seenAudits = audits
      /\ installed = Present
      /\ \A j \in Jobs : RowAgrees(j)
  BY VerifyParts DEF LogInv
<1>2. /\ clock >= lastAt /\ clock <= clock
      /\ \A j \in Jobs : Status(j) # "absent" => Columns(j) = history[j]
  BY <1>1, ClockAssumption DEF WorkflowTypeOK, LogInv, RowAgrees, Status, Columns
<1>3. ASSUME AbsentAreBlank',
             lastAt' = clock,
             accepts',
             seen' = [j \in Jobs |-> Recorded(j)'],
             seenAudits' = audits',
             installed' = Present',
             \A j \in Jobs : RowAgrees(j)'
      PROVE  LogInv'
  <2>1. VerifyStateMachine' <=>
          /\ accepts'
          /\ seen' = [j \in Jobs |-> Recorded(j)']
          /\ seenAudits' = audits'
          /\ installed' = Present'
          /\ \A j \in Jobs : RowAgrees(j)'
    BY DEF VerifyStateMachine, Verifies, Present, RowAgrees, Recorded
  <2> QED
    BY <1>2, <1>3, <2>1 DEF LogInv
<1>4. CASE MoveStep
  <2>1. PICK j \in Jobs, h \in History, g \in History, t \in Tokens \cup {None} :
          /\ Status(j) \in {"pending"} \cup Active
          /\ h.status \in Active \cup Terminal
          /\ h.status \in Active <=> t # None
          /\ h.status \in {"trained", "completed"} => HasFinal(j)
          /\ SetRow(j, h, t)
          /\ history' = [history EXCEPT ![j] = g]
          /\ Columns(j) = history[j] /\ accepts /\ clock >= lastAt => h = g /\ accepts'
          /\ lastAt' = clock
          /\ UNCHANGED <<checkpoints, audits, seen, seenAudits, installed>>
    BY <1>4 DEF MoveStep
  <2>2. h = g /\ accepts'
    BY <1>1, <1>2, <2>1 DEF Active
  <2>3. /\ rows'[j].columns = h /\ rows'[j].token = t
        /\ \A i \in Jobs \ {j} : rows'[i] = rows[i] /\ history'[i] = history[i]
        /\ history'[j] = h
    <3>1. rows'[j] = JobRow(h, t) /\ \A i \in Jobs \ {j} : rows'[i] = rows[i]
      BY <2>1, SetRowType
    <3>2. JobRow(h, t).columns = h /\ JobRow(h, t).token = t
      BY DEF JobRow
    <3>3. history'[j] = h /\ \A i \in Jobs \ {j} : history'[i] = history[i]
      BY <2>1, <2>2 DEF WorkflowTypeOK
    <3> QED
      BY <3>1, <3>2, <3>3
  <2>4. AbsentAreBlank'
    BY <2>1, <2>3 DEF AbsentAreBlank, LogInv, Status, Columns, Active, Terminal
  <2>5. installed' = Present'
    <3>1. \A i \in Jobs : rows'[i].columns.status = "absent" <=> rows[i].columns.status = "absent"
      BY <2>1, <2>3 DEF Status, Columns, Active, Terminal
    <3> QED
      BY <1>1, <2>1, <3>1 DEF Present
  <2>6. \A i \in Jobs : RowAgrees(i)'
    BY <1>1, <2>1, <2>3 DEF RowAgrees, HasFinal
  <2>7. seen' = [i \in Jobs |-> Recorded(i)']
    BY <1>1, <2>1 DEF Recorded
  <2> QED
    BY <1>1, <1>3, <2>1, <2>2, <2>4, <2>5, <2>6, <2>7
<1>5. ASSUME NEW c \in claims, NEW u \in Updates, NEW a \in Artifacts,
             RecordCheckpoint(c, u, a)
      PROVE  LogInv'
  <2> DEFINE j == c.job
  <2>1. /\ j \in Jobs /\ Status(j) = "running"
        /\ checkpoints' = [checkpoints EXCEPT ![j][u] = a]
        /\ \A v \in Recorded(j) : v < u
        /\ UNCHANGED <<rows, audits, history, seenAudits, installed>>
        /\ seen' = [seen EXCEPT ![j] = @ \cup {u}]
        /\ lastAt' = clock
    BY <1>5 DEF RecordCheckpoint, LogCheckpoint, Stamp, Authorizes, WorkflowTypeOK, Claims
  <2>2. u \notin Recorded(j) /\ a # None
    BY <2>1, BudgetAssumption, NoneAssumption DEF Updates
  <2> HIDE DEF j
  <2>3. /\ checkpoints'[j] = [checkpoints[j] EXCEPT ![u] = a]
        /\ \A i \in Jobs \ {j} : checkpoints'[i] = checkpoints[i]
    BY <2>1 DEF WorkflowTypeOK
  <2>4. checkpoints'[j][u] = a /\ \A v \in Updates \ {u} : checkpoints'[j][v] = checkpoints[j][v]
    BY <2>1, <2>3 DEF WorkflowTypeOK
  <2>5. accepts'
    <3>1. history[j].status = "running" /\ u \notin seen[j]
      BY <1>1, <1>2, <2>1, <2>2 DEF Status, Columns
    <3> QED
      BY <1>1, <1>2, <1>5, <2>4, <3>1 DEF RecordCheckpoint, LogCheckpoint, Stamp, j
  <2>6. seen' = [i \in Jobs |-> Recorded(i)']
    <3>1. Recorded(j)' = Recorded(j) \cup {u}
      BY <2>2, <2>4 DEF Recorded
    <3>2. \A i \in Jobs \ {j} : Recorded(i)' = Recorded(i)
      BY <2>3 DEF Recorded
    <3> QED
      BY <1>1, <2>1, <3>1, <3>2
  <2>7. \A i \in Jobs : RowAgrees(i)'
    <3>1. Budget \in Updates
      BY BudgetAssumption DEF Updates
    <3>2. \A i \in Jobs : checkpoints[i][Budget] # None => checkpoints'[i][Budget] # None
      BY <2>2, <2>3, <2>4, <3>1
    <3> QED
      BY <1>1, <2>1, <3>2 DEF RowAgrees
  <2>8. AbsentAreBlank' /\ Present' = Present
    BY <2>1 DEF LogInv, AbsentAreBlank, Present, Status, Columns
  <2> QED
    BY <1>1, <1>3, <2>1, <2>5, <2>6, <2>7, <2>8
<1>6. ASSUME NEW c \in claims, NEW a \in Artifacts, PublishResumeAudit(c, a)
      PROVE  LogInv'
  <2> DEFINE j == c.job
  <2>1. /\ j \in Jobs /\ Status(j) = "trained" /\ audits[j] = {}
        /\ audits' = [audits EXCEPT ![j] = {a}]
        /\ UNCHANGED <<rows, checkpoints, history, seen, installed>>
        /\ seenAudits' = [seenAudits EXCEPT ![j] = @ \cup {a}]
        /\ lastAt' = clock
    BY <1>6 DEF PublishResumeAudit, LogAudit, Stamp, Authorizes, WorkflowTypeOK, Claims
  <2>2. accepts'
    <3>1. history[j].status = "trained" /\ a \in audits'[j] /\ a \notin seenAudits[j]
      BY <1>1, <1>2, <2>1 DEF Status, Columns, WorkflowTypeOK
    <3> QED
      BY <1>1, <1>2, <1>6, <3>1 DEF PublishResumeAudit, LogAudit, Stamp
  <2>3. seenAudits' = audits'
    BY <1>1, <2>1
  <2>4. AbsentAreBlank' /\ Present' = Present /\ \A i \in Jobs : RowAgrees(i)'
    BY <1>1, <2>1 DEF LogInv, AbsentAreBlank, Present, RowAgrees, Status, Columns
  <2>5. seen' = [i \in Jobs |-> Recorded(i)']
    BY <1>1, <2>1 DEF Recorded
  <2> QED
    BY <1>1, <1>3, <2>1, <2>2, <2>3, <2>4, <2>5
<1>7. ASSUME NEW phase \in {"validation", "test"}, AppendJobs(phase)
      PROVE  LogInv'
  <2>1. /\ InPhase(phase) # {} /\ \A i \in InPhase(phase) : Status(i) = "absent"
        /\ \A i \in Jobs : rows'[i] = IF i \in InPhase(phase)
                                      THEN JobRow(Blank("pending"), None) ELSE rows[i]
        /\ UNCHANGED <<checkpoints, audits, history, seen, seenAudits>>
        /\ installed' = installed \cup {phase}
        /\ lastAt' = clock
    BY <1>7 DEF AppendJobs, LogInstalled, Stamp
  <2>2. accepts'
    <3>1. phase \notin installed
      BY <1>1, <2>1 DEF Present, InPhase, Status, Columns
    <3> QED
      BY <1>1, <1>2, <1>7, <3>1 DEF AppendJobs, LogInstalled, Stamp
  <2>3. /\ \A i \in InPhase(phase) : rows'[i].columns = Blank("pending") /\ rows'[i].token = None
        /\ \A i \in Jobs \ InPhase(phase) : rows'[i] = rows[i]
        /\ \A i \in InPhase(phase) : rows'[i].columns.status = "pending"
    BY <2>1 DEF JobRow, Blank, InPhase
  <2>4. installed' = Present'
    <3>1. \A i \in Jobs : rows'[i].columns.status # "absent" <=>
            i \in InPhase(phase) \/ rows[i].columns.status # "absent"
      BY <2>3
    <3> QED
      BY <1>1, <2>1, <3>1 DEF Present, InPhase
  <2>5. \A i \in Jobs : RowAgrees(i)'
    <3>1. ASSUME NEW i \in InPhase(phase)
          PROVE  RowAgrees(i)'
      <4>1. i \in Jobs /\ history'[i] = Blank("pending")
        BY <2>1 DEF LogInv, AbsentAreBlank, InPhase
      <4> QED
        BY <2>3, <4>1 DEF RowAgrees, Active
    <3>2. ASSUME NEW i \in Jobs \ InPhase(phase)
          PROVE  RowAgrees(i)'
      BY <1>1, <2>1, <2>3 DEF RowAgrees
    <3> QED
      BY <3>1, <3>2
  <2>6. AbsentAreBlank'
    BY <2>1, <2>3 DEF LogInv, AbsentAreBlank, Status, Columns
  <2>7. seen' = [i \in Jobs |-> Recorded(i)']
    BY <1>1, <2>1 DEF Recorded
  <2> QED
    BY <1>1, <1>3, <2>1, <2>2, <2>4, <2>5, <2>6, <2>7
<1> QED
  BY <1>4, <1>5, <1>6, <1>7 DEF Cases

LEMMA InitLog == TableInit => LogInv
<1> SUFFICES ASSUME TableInit
             PROVE  LogInv
  OBVIOUS
<1> USE DEF TableInit, WorkflowInit
<1>1. AbsentAreBlank /\ lastAt <= clock
  BY DEF AbsentAreBlank
<1>2. seen = [j \in Jobs |-> Recorded(j)] /\ seenAudits = audits
  BY DEF Recorded
<1>3. installed = Present
  BY DEF Present, JobRow, Blank
<1>4. ASSUME NEW j \in Jobs
      PROVE  RowAgrees(j)
  BY DEF RowAgrees, JobRow, Blank, Active
<1> QED
  BY <1>1, <1>2, <1>3, <1>4, VerifyParts DEF LogInv

LEMMA NextLog ==
  ASSUME ~ClockStepsBack, ClaimInv, LogInv, [WorkflowNext]_vars
  PROVE  LogInv'
<1>1. CASE Operation /\ UNCHANGED clock
  BY <1>1, OperationCases, CasesLog DEF ClaimInv
<1>2. CASE UNCHANGED workflow /\ clock' >= clock /\ clock' \in Nat
  BY <1>2, ClockAssumption DEF workflow, log, LogInv, AbsentAreBlank, VerifyStateMachine,
    Verifies, ClaimInv, WorkflowTypeOK, Status, Columns
<1>3. clock \in Nat /\ clock >= clock
  BY ClockAssumption DEF ClaimInv, WorkflowTypeOK
<1>4. ASSUME NEW now \in 0..MaxClock, Tick(now)
      PROVE  LogInv'
  <2>1. UNCHANGED workflow /\ clock' = now /\ now > clock
    BY <1>4 DEF Tick
  <2> QED
    BY <1>2, <1>3, <2>1, ClockAssumption
<1>5. CASE UNCHANGED <<workflow, clock>>
  BY <1>2, <1>3, <1>5
<1> QED
  BY <1>1, <1>4, <1>5 DEF WorkflowNext, LedgerDecides, vars

\* With a wall clock that is never set back, verify() accepts the tables after
\* every sequence of operations.
THEOREM VerifyAccepts ==
  ASSUME ~ClockStepsBack
  PROVE  WorkflowSpec => []VerifyStateMachine
<1>1. TableInit => LogInv
  BY InitLog
<1>2. ClaimInv /\ LogInv /\ [WorkflowNext]_vars => LogInv'
  BY NextLog
<1>3. LogInv => VerifyStateMachine
  BY DEF LogInv
<1> QED
  BY <1>1, <1>2, <1>3, ClaimInvariant, PTL DEF WorkflowSpec

-----------------------------------------------------------------------------
(* verify() next to writers. *)

\* Whatever the wall clock does, a log that verify() accepts is one of the tables.
AcceptInv == accepts => AbsentAreBlank /\ VerifyStateMachine

\* The jobs of a phase are installed together, and the calibration jobs first.
WholePhases(rs) ==
  /\ \A i, j \in Jobs : Phase[i] = Phase[j] /\ rs[j].columns.status = "absent" =>
                          rs[i].columns.status = "absent"
  /\ \A j \in InPhase("calibration") : rs[j].columns.status # "absent"

AbsentRowsAreAlike ==
  \A j \in Jobs : Status(j) = "absent" => rows[j] = JobRow(Blank("absent"), None)

TableInv ==
  /\ ClaimInv
  /\ AcceptInv
  /\ WholePhases(rows)
  /\ AbsentRowsAreAlike

\* The rows verify() has read are those of now, or of jobs that have got further.
ReadRowsAreBehind ==
  /\ WholePhases(readRows)
  /\ \A j \in Jobs :
       readRows[j] = rows[j] \/ Progress(readRows[j].columns) < Progress(Columns(j))

\* The checkpoints it has read are still there, perhaps with others.
ReadCheckpointsStand ==
  \A j \in Jobs, u \in Updates :
    readCheckpoints[j][u] # None => checkpoints[j][u] = readCheckpoints[j][u]

ReaderInv ==
  /\ ReaderTypeOK
  /\ TableInv
  /\ stage \in {"checkpoints", "audits", "events"} => ReadRowsAreBehind
  /\ stage \in {"audits", "events"} => ReadCheckpointsStand

LEMMA ProgressType ==
  ASSUME NEW h \in History
  PROVE  Progress(h) \in Nat
<1>1. h.resumes \in Nat
  BY DEF History
<1>2. Rank(h.status) \in Nat
  BY DEF Rank
<1> QED
  BY <1>1, <1>2 DEF Progress

LEMMA BlankProgress == Progress(Blank("absent")) = 0 /\ Progress(Blank("pending")) = 1
BY DEF Progress, Blank, Rank

\* No job ever falls back.
LEMMA CasesProgress ==
  ASSUME WorkflowTypeOK, AbsentRowsAreAlike, Cases, NEW j \in Jobs
  PROVE  rows'[j] = rows[j] \/ Progress(Columns(j)) < Progress(Columns(j)')
<1>1. CASE MoveStep
  <2>1. PICK i \in Jobs, h \in History, t \in Tokens \cup {None} :
          Progress(Columns(i)) < Progress(h) /\ SetRow(i, h, t)
    BY <1>1 DEF MoveStep
  <2>2. rows'[i] = JobRow(h, t) /\ \A k \in Jobs \ {i} : rows'[k] = rows[k]
    BY <2>1, SetRowType
  <2>3. JobRow(h, t).columns = h
    BY DEF JobRow
  <2>4. Columns(i)' = h
    BY <2>2, <2>3 DEF Columns
  <2> QED
    BY <2>1, <2>2, <2>4
<1>2. ASSUME NEW phase \in {"validation", "test"}, AppendJobs(phase), j \in InPhase(phase)
      PROVE  Progress(Columns(j)) < Progress(Columns(j)')
  <2>1. Columns(j) = Blank("absent") /\ Columns(j)' = Blank("pending")
    BY <1>2 DEF AppendJobs, AbsentRowsAreAlike, InPhase, Columns, JobRow
  <2> QED
    BY <2>1, BlankProgress
<1>3. ASSUME NEW phase \in {"validation", "test"}, AppendJobs(phase), j \notin InPhase(phase)
      PROVE  rows'[j] = rows[j]
  BY <1>3 DEF AppendJobs
<1> QED
  BY <1>1, <1>2, <1>3 DEF Cases, RecordCheckpoint, PublishResumeAudit

LEMMA CasesPhases ==
  ASSUME WorkflowTypeOK, WholePhases(rows), AbsentRowsAreAlike, Cases
  PROVE  WholePhases(rows)' /\ AbsentRowsAreAlike'
<1> USE DEF WholePhases, AbsentRowsAreAlike, Status, Columns
<1>1. CASE MoveStep
  <2>1. PICK j \in Jobs, h \in History, t \in Tokens \cup {None} :
          /\ Status(j) # "absent" /\ h.status # "absent"
          /\ SetRow(j, h, t)
    BY <1>1 DEF MoveStep, Active, Terminal
  <2>2. Status(j)' = h.status /\ \A i \in Jobs \ {j} : rows'[i] = rows[i]
    BY <2>1, SetRowType
  <2> HIDE DEF Status, Columns
  <2>3. \A i \in Jobs : rows'[i].columns.status = "absent" <=> rows[i].columns.status = "absent"
    BY <2>1, <2>2 DEF Status, Columns
  <2>4. WholePhases(rows)'
    BY <2>3 DEF InPhase
  <2>5. AbsentRowsAreAlike'
    BY <2>1, <2>2, <2>3 DEF Status, Columns, JobRow, Blank
  <2> QED
    BY <2>4, <2>5
<1>2. ASSUME NEW phase \in {"validation", "test"}, AppendJobs(phase)
      PROVE  WholePhases(rows)' /\ AbsentRowsAreAlike'
  <2>1. /\ \A i \in Jobs \ InPhase(phase) : rows'[i] = rows[i]
        /\ \A i \in InPhase(phase) : rows'[i].columns.status = "pending"
    BY <1>2 DEF AppendJobs, InPhase, JobRow, Blank
  <2> QED
    BY <2>1 DEF InPhase, JobRow, Blank
<1>3. CASE UNCHANGED rows
  BY <1>3 DEF InPhase, JobRow, Blank
<1> QED
  BY <1>1, <1>2, <1>3 DEF Cases, RecordCheckpoint, PublishResumeAudit

\* An event that verify() accepts extends a log that it accepts, and is not older.
LEMMA CasesAccept ==
  ASSUME WorkflowTypeOK, AcceptInv, Cases, UNCHANGED clock
  PROVE  AcceptInv'
<1>1. accepts' => accepts /\ clock >= lastAt
  BY DEF Cases, MoveStep, RecordCheckpoint, LogCheckpoint, PublishResumeAudit, LogAudit,
    AppendJobs, LogInstalled, Stamp
<1>2. clock >= lastAt => lastAt <= clock
  BY ClockAssumption DEF WorkflowTypeOK
<1> QED
  BY <1>1, <1>2, CasesLog DEF AcceptInv, LogInv

LEMMA NextTable ==
  ASSUME TableInv, [WorkflowNext]_vars
  PROVE  TableInv'
<1>1. ClaimInv'
  BY NextClaims DEF TableInv
<1>2. CASE Operation /\ UNCHANGED clock
  BY <1>1, <1>2, OperationCases, CasesAccept, CasesPhases DEF TableInv, ClaimInv
<1>3. CASE UNCHANGED workflow
  BY <1>1, <1>3 DEF workflow, log, TableInv, AcceptInv, AbsentAreBlank, VerifyStateMachine,
    Verifies, WholePhases, AbsentRowsAreAlike, Status, Columns
<1> QED
  BY <1>2, <1>3 DEF WorkflowNext, Tick, LedgerDecides, vars

\* What the reader has read stays behind the tables, whatever a writer commits.
LEMMA WriterStep ==
  ASSUME ReaderInv, [WorkflowNext]_vars, UNCHANGED <<stage, view>>
  PROVE  ReaderInv'
<1>1. TableInv' /\ WorkflowTypeOK /\ WorkflowTypeOK'
  BY NextTable DEF ReaderInv, TableInv, ClaimInv
<1>2. ReaderTypeOK'
  BY <1>1 DEF ReaderInv, ReaderTypeOK, view
<1>3. Cases \/ UNCHANGED <<rows, checkpoints>>
  BY <1>1, OperationCases DEF WorkflowNext, Tick, LedgerDecides, vars, workflow
<1>4. ASSUME ReadRowsAreBehind
      PROVE  ReadRowsAreBehind'
  <2>1. WholePhases(readRows)'
    BY <1>4 DEF ReadRowsAreBehind, WholePhases, view
  <2>2. ASSUME NEW j \in Jobs
        PROVE  readRows'[j] = rows'[j] \/ Progress(readRows'[j].columns) < Progress(Columns(j)')
    <3>1. readRows' = readRows
      BY DEF view
    <3>2. rows'[j] = rows[j] \/ Progress(Columns(j)) < Progress(Columns(j)')
      BY <1>1, <1>3, CasesProgress DEF ReaderInv, TableInv
    <3>3. /\ Columns(j) \in History /\ Columns(j)' \in History
          /\ readRows[j].columns \in History
      BY <1>1 DEF ReaderInv, ReaderTypeOK, WorkflowTypeOK, Rows, Columns
    <3>4. /\ Progress(Columns(j)) \in Nat /\ Progress(Columns(j)') \in Nat
          /\ Progress(readRows[j].columns) \in Nat
      BY <3>3, ProgressType
    <3>5. readRows[j] = rows[j] \/ Progress(readRows[j].columns) < Progress(Columns(j))
      BY <1>4 DEF ReadRowsAreBehind
    <3>6. rows'[j] = rows[j] => Columns(j)' = Columns(j)
      BY DEF Columns
    <3>7. readRows[j] = rows[j] => readRows[j].columns = Columns(j)
      BY DEF Columns
    <3> HIDE DEF Progress, Columns
    <3> QED
      BY <3>1, <3>2, <3>4, <3>5, <3>6, <3>7
  <2> QED
    BY <2>1, <2>2 DEF ReadRowsAreBehind
<1>5. ASSUME ReadCheckpointsStand
      PROVE  ReadCheckpointsStand'
  <2>1. ASSUME NEW j \in Jobs, NEW u \in Updates, checkpoints[j][u] # None
        PROVE  checkpoints'[j][u] = checkpoints[j][u]
    <3>1. ASSUME NEW c \in claims, NEW v \in Updates, NEW a \in Artifacts,
                 RecordCheckpoint(c, v, a)
          PROVE  checkpoints'[j][u] = checkpoints[j][u]
      <4>1. j # c.job \/ u # v
        BY <2>1, <3>1, BudgetAssumption DEF RecordCheckpoint, Recorded, Updates
      <4>2. c.job \in Jobs /\ checkpoints' = [checkpoints EXCEPT ![c.job][v] = a]
        BY <1>1, <3>1 DEF RecordCheckpoint, WorkflowTypeOK, Claims
      <4> QED
        BY <1>1, <4>1, <4>2 DEF WorkflowTypeOK
    <3> QED
      BY <1>3, <3>1 DEF Cases, MoveStep, PublishResumeAudit, AppendJobs
  <2> QED
    BY <1>5, <2>1 DEF ReadCheckpointsStand, view
<1> QED
  BY <1>1, <1>2, <1>4, <1>5 DEF ReaderInv

\* A verify() that accepts has read the tables of now: a job that has got further
\* since would differ from its history, a phase installed since from the phases read.
LEMMA AcceptedIsNow ==
  ASSUME ReaderInv, stage = "events", Verifies(readRows, readCheckpoints, readAudits)
  PROVE  readRows = rows /\ readCheckpoints = checkpoints /\ readAudits = audits
<1>1. /\ accepts
      /\ seen = [j \in Jobs |-> {u \in Updates : readCheckpoints[j][u] # None}]
      /\ seenAudits = readAudits
      /\ installed = {Phase[j] : j \in {i \in Jobs : readRows[i].columns.status # "absent"}}
                       \ {"calibration"}
      /\ \A j \in Jobs : readRows[j].columns.status # "absent" =>
           readRows[j].columns = history[j]
  BY DEF Verifies
<1>2. /\ seen = [j \in Jobs |-> Recorded(j)]
      /\ seenAudits = audits
      /\ installed = Present
      /\ \A j \in Jobs : RowAgrees(j)
  BY <1>1, VerifyParts DEF ReaderInv, TableInv, AcceptInv
<1>3. /\ ReadRowsAreBehind /\ ReadCheckpointsStand /\ AbsentRowsAreAlike
      /\ readRows \in [Jobs -> Rows] /\ rows \in [Jobs -> Rows]
      /\ readCheckpoints \in [Jobs -> [Updates -> Artifacts \cup {None}]]
      /\ checkpoints \in [Jobs -> [Updates -> Artifacts \cup {None}]]
  BY DEF ReaderInv, TableInv, ReaderTypeOK, WorkflowTypeOK
<1>4. readCheckpoints = checkpoints
  <2>1. ASSUME NEW j \in Jobs, NEW u \in Updates
        PROVE  readCheckpoints[j][u] = checkpoints[j][u]
    <3>1. readCheckpoints[j][u] # None <=> checkpoints[j][u] # None
      BY <1>1, <1>2 DEF Recorded
    <3> QED
      BY <1>3, <3>1 DEF ReadCheckpointsStand
  <2>2. \A j \in Jobs : readCheckpoints[j] = checkpoints[j]
    BY <1>3, <2>1
  <2> QED
    BY <1>3, <2>2
<1>5. ASSUME NEW j \in Jobs, Progress(readRows[j].columns) < Progress(Columns(j))
      PROVE  FALSE
  <2>1. Columns(j) \in History /\ readRows[j].columns \in History
    BY <1>3 DEF Rows, Columns
  <2>2. Progress(Columns(j)) \in Nat /\ Progress(readRows[j].columns) \in Nat
    BY <2>1, ProgressType
  <2>3. Status(j) # "absent"
    <3>1. Status(j) = "absent" => Progress(Columns(j)) = 0
      BY <1>3, BlankProgress DEF AbsentRowsAreAlike, Columns, JobRow
    <3> HIDE DEF Progress
    <3> QED
      BY <1>5, <2>2, <3>1
  <2>4. readRows[j].columns.status = "absent"
    <3>1. Columns(j) = history[j]
      BY <1>2, <2>3 DEF RowAgrees, Status, Columns
    <3>2. readRows[j].columns # history[j]
      <4> HIDE DEF Progress
      <4> QED
        BY <1>5, <2>2, <3>1
    <3> QED
      BY <1>1, <3>2
  <2>5. Phase[j] # "calibration"
    BY <1>3, <2>4 DEF ReadRowsAreBehind, WholePhases, InPhase
  <2>6. Phase[j] \in installed
    BY <1>2, <2>3, <2>5 DEF Present, Status, Columns
  <2>7. PICK i \in Jobs : Phase[i] = Phase[j] /\ readRows[i].columns.status # "absent"
    BY <1>1, <2>6
  <2> QED
    BY <1>3, <2>4, <2>7 DEF ReadRowsAreBehind, WholePhases
<1>6. readRows = rows
  <2>1. \A j \in Jobs : readRows[j] = rows[j]
    BY <1>3, <1>5 DEF ReadRowsAreBehind
  <2> QED
    BY <1>3, <2>1
<1> QED
  BY <1>1, <1>2, <1>4, <1>6

LEMMA InitReader == ReaderInit => ReaderInv
<1> SUFFICES ASSUME ReaderInit
             PROVE  ReaderInv
  OBVIOUS
<1>1. ClaimInv
  BY InitClaims DEF ReaderInit
<1>2. ReaderTypeOK
  BY <1>1 DEF ReaderInit, ReaderTypeOK, ClaimInv, WorkflowTypeOK
<1>3. WholePhases(rows) /\ AbsentRowsAreAlike
  BY DEF ReaderInit, TableInit, WorkflowInit, WholePhases, AbsentRowsAreAlike, InPhase,
    JobRow, Blank, Status, Columns
<1>4. AcceptInv
  BY InitLog DEF ReaderInit, AcceptInv, LogInv
<1> QED
  BY <1>1, <1>2, <1>3, <1>4 DEF ReaderInit, ReaderInv, TableInv

LEMMA NextReader ==
  ASSUME ReaderInv, [ReaderNext]_readerVars
  PROVE  ReaderInv'
<1>1. CASE ReadJobs
  <2>1. TableInv'
    BY <1>1, NextTable DEF ReadJobs, ReaderInv
  <2>2. ReaderTypeOK' /\ stage' = "checkpoints"
    BY <1>1, <2>1 DEF ReadJobs, ReaderInv, ReaderTypeOK, TableInv, ClaimInv, WorkflowTypeOK
  <2>3. ReadRowsAreBehind'
    BY <1>1, <2>1 DEF ReadJobs, ReadRowsAreBehind, TableInv, WholePhases, vars, workflow
  <2> QED
    BY <2>1, <2>2, <2>3 DEF ReaderInv
<1>2. CASE ReadCheckpoints
  <2>1. TableInv'
    BY <1>2, NextTable DEF ReadCheckpoints, ReaderInv
  <2>2. ReaderTypeOK' /\ stage' = "audits"
    BY <1>2, <2>1 DEF ReadCheckpoints, ReaderInv, ReaderTypeOK, TableInv, ClaimInv,
      WorkflowTypeOK
  <2>3. ReadRowsAreBehind'
    BY <1>2 DEF ReadCheckpoints, ReaderInv, ReadRowsAreBehind, WholePhases, vars, workflow,
      Columns
  <2>4. ReadCheckpointsStand'
    BY <1>2 DEF ReadCheckpoints, ReadCheckpointsStand, vars, workflow
  <2> QED
    BY <2>1, <2>2, <2>3, <2>4 DEF ReaderInv
<1>3. CASE ReadAudits
  <2>1. TableInv'
    BY <1>3, NextTable DEF ReadAudits, ReaderInv
  <2>2. ReaderTypeOK' /\ stage' = "events"
    BY <1>3, <2>1 DEF ReadAudits, ReaderInv, ReaderTypeOK, TableInv, ClaimInv, WorkflowTypeOK
  <2>3. ReadRowsAreBehind' /\ ReadCheckpointsStand'
    BY <1>3 DEF ReadAudits, ReaderInv, ReadRowsAreBehind, ReadCheckpointsStand, WholePhases,
      vars, workflow, Columns
  <2> QED
    BY <2>1, <2>2, <2>3 DEF ReaderInv
<1>4. CASE ReadEvents \/ ReadAgain
  <2>1. TableInv'
    BY <1>4, NextTable DEF ReadEvents, ReadAgain, ReaderInv
  <2>2. ReaderTypeOK' /\ stage' \in Answers \cup {"jobs"}
    BY <1>4, <2>1 DEF ReadEvents, ReadAgain, ReaderInv, ReaderTypeOK, TableInv, ClaimInv, view,
      Answers
  <2> QED
    BY <2>1, <2>2 DEF ReaderInv, Answers
<1>5. CASE [WorkflowNext]_vars /\ UNCHANGED <<stage, view>>
  BY <1>5, WriterStep
<1> QED
  BY <1>1, <1>2, <1>3, <1>4, <1>5 DEF ReaderNext, readerVars

\* Whatever the reader reads, and whatever is written meanwhile, its bound on what
\* it has read holds.
THEOREM ReaderInvariant == ReaderSpec => []ReaderInv
BY InitReader, NextReader, PTL DEF ReaderSpec

\* The tables, and what verify() has read of them, are tables.
THEOREM ReaderTypeCorrect == ReaderSpec => []ReaderTypeOK
<1>1. ReaderInv => ReaderTypeOK
  BY DEF ReaderInv
<1> QED
  BY <1>1, ReaderInvariant, PTL

\* verify() runs in no transaction, and yet what it accepts is one committed state,
\* with any number of writers, jobs and phases, and a wall clock that may be set back.
THEOREM AcceptedReadsAreCommitted == ReaderSpec => AcceptedReadIsCommitted
<1> DEFINE Committed == stage = "events" /\ stage' = "accepted" =>
             readRows = rows /\ readCheckpoints = checkpoints /\ readAudits = audits
<1>1. ReaderInv /\ [ReaderNext]_readerVars => [Committed]_readerVars
  <2> SUFFICES ASSUME ReaderInv, [ReaderNext]_readerVars, stage = "events",
                      stage' = "accepted"
               PROVE  readRows = rows /\ readCheckpoints = checkpoints /\ readAudits = audits
    OBVIOUS
  <2>1. ReadEvents
    BY DEF ReaderNext, readerVars, ReadJobs, ReadCheckpoints, ReadAudits, ReadAgain, Answers
  <2> QED
    BY <2>1, AcceptedIsNow DEF ReadEvents
<1> QED
  BY <1>1, ReaderInvariant, PTL DEF ReaderSpec, AcceptedReadIsCommitted
==============================================================================
