--------------------------- MODULE WorkflowReader ---------------------------
(***************************************************************************)
(* R3BWorkflow.verify() next to other processes that use the same file.    *)
(*                                                                         *)
(* The connection is opened with isolation_level=None and verify() opens   *)
(* no transaction, so its SELECT statements are four separate reads: of    *)
(* the jobs, of the checkpoints, of the resume audits and of the events.   *)
(* A writer may commit between any two of them.  The status command holds  *)
(* no run lock, and the training processes of a batch, each of which       *)
(* starts with verify(), run next to each other.                           *)
(***************************************************************************)
EXTENDS R3BWorkflow

VARIABLES stage,     \* the SELECT the reader runs next, or its answer
          readRows, readCheckpoints, readAudits

view == <<readRows, readCheckpoints, readAudits>>
readerVars == <<vars, stage, view>>

Answers == {"accepted", "refused"}

ReaderInit ==
  /\ TableInit
  /\ stage = "jobs"
  /\ readRows = rows /\ readCheckpoints = checkpoints /\ readAudits = audits

\* The tables, and what verify() has read of them, are tables.
ReaderTypeOK ==
  /\ WorkflowTypeOK
  /\ stage \in Answers \cup {"jobs", "checkpoints", "audits", "events"}
  /\ readRows \in [Jobs -> Rows]
  /\ readCheckpoints \in [Jobs -> [Updates -> Artifacts \cup {None}]]
  /\ readAudits \in [Jobs -> SUBSET Artifacts]

\* Mutant: the replayed histories are taken for the rows.
ReadHistories ==
  /\ stage = "jobs" /\ stage' = "checkpoints"
  /\ readRows' = history
  /\ UNCHANGED <<vars, readCheckpoints, readAudits>>

ReadJobs ==
  /\ stage = "jobs" /\ stage' = "checkpoints"
  /\ readRows' = rows
  /\ UNCHANGED <<vars, readCheckpoints, readAudits>>

ReadCheckpoints ==
  /\ stage = "checkpoints" /\ stage' = "audits"
  /\ readCheckpoints' = checkpoints
  /\ UNCHANGED <<vars, readRows, readAudits>>

ReadAudits ==
  /\ stage = "audits" /\ stage' = "events"
  /\ readAudits' = audits
  /\ UNCHANGED <<vars, readRows, readCheckpoints>>

\* The events are read last and replayed against the three tables.
ReadEvents ==
  /\ stage = "events"
  /\ stage' = IF Verifies(readRows, readCheckpoints, readAudits)
              THEN "accepted" ELSE "refused"
  /\ UNCHANGED <<vars, view>>

\* The next verify().
ReadAgain ==
  /\ stage \in Answers /\ stage' = "jobs"
  /\ UNCHANGED <<vars, view>>

ReaderNext ==
  \/ ReadJobs
  \/ ReadCheckpoints
  \/ ReadAudits
  \/ ReadEvents
  \/ ReadAgain
  \/ WorkflowNext /\ UNCHANGED <<stage, view>>

ReaderSpec == ReaderInit /\ [][ReaderNext]_readerVars

-----------------------------------------------------------------------------
(* Properties. *)

\* A verify() that answers has looked at one committed state: if a commit fell
\* between its reads, the cross-checks between rows and events notice.  The
\* claims, statuses and checkpoints that callers act on are never a mixture.
AcceptedReadIsCommitted ==
  [][stage = "events" /\ stage' = "accepted" =>
       readRows = rows /\ readCheckpoints = checkpoints /\ readAudits = audits]_readerVars

\* verify() refuses ("workflow job row differs from its event history") only
\* files that really are inconsistent.
RefusesOnlyCorruption ==
  stage = "refused" => ~VerifyStateMachine
=============================================================================
