---------------------------- MODULE CalibrationRun ----------------------------
(***************************************************************************)
(* The calibration of the original game: the runner of one armed           *)
(* experiment (calibration_runner.py) drives the harness through the cells *)
(* of the plan and keeps a private journal (calibration.py), an intent on  *)
(* disk before each cell is touched and one terminal outcome after it.     *)
(* Runs fail, are interrupted from the keyboard or die; the caller may arm *)
(* another run on the same open writer, with a new broker, and whoever     *)
(* qualifies the measurement reads the journal back from the disk.         *)
(***************************************************************************)
EXTENDS OriginalHarness

CONSTANTS Cells,     \* plan.maximum_actions, all of one experiment
          MaxRuns    \* bound: runs armed on one journal

ASSUME CalibrationAssumption ==
  /\ Cells \in Nat \ {0} /\ MaxRuns \in Nat \ {0}
  /\ None \notin {"complete", "refused"}

VARIABLES phase,     \* where R4BCalibrationRunner.run is
          runs,      \* runs armed so far
          journal,   \* the lines of the journal file
          pending,   \* writer: _pending
          attempted, \* writer: _attempt_sequence
          effect,    \* the frame that resolved the effect of the shot
          verdict    \* what verify_calibration_journal made of the file

writerVars == <<journal, pending, attempted>>
runnerVars == <<phase, runs, writerVars, effect, verdict>>
vars == <<harnessVars, runnerVars>>

CalibrationInit ==
  /\ HarnessInit
  /\ phase = "idle" /\ runs = 0
  /\ journal = <<>> /\ pending = FALSE /\ attempted = 0
  /\ effect = None /\ verdict = None

Intent(attempt) == [line |-> "intent", attempt |-> attempt]
Outcome(attempt, status, seen) ==
  [line |-> "outcome", attempt |-> attempt, status |-> status, seen |-> seen]
Torn == [line |-> "torn"]

\* next_cell: the attempt under way, or the next one of the plan.
NextCell == IF attempted < Cells THEN attempted + 1 ELSE None

Steady == UNCHANGED <<now, link, brokerVars>>
HarnessRests == UNCHANGED harnessVars
WriterRests == UNCHANGED writerVars
Reach(next) == phase' = next

-----------------------------------------------------------------------------
(* One run. *)

StartRun ==
  /\ phase = "idle" /\ runs < MaxRuns /\ verdict = None /\ NextCell # None
  /\ runs' = runs + 1
  /\ Reach("opening") /\ Open
  /\ UNCHANGED <<writerVars, effect, verdict>>

\* The cursor is read and the claimed process is the armed one, or not.
Opened ==
  /\ phase = "opening" /\ at = "ready"
  /\ \/ Reach("between") /\ HarnessRests
     \/ /\ Reach("exiting") /\ CleanUp("error") /\ Steady
        /\ UNCHANGED <<outbox, lease, neutral>>
  /\ UNCHANGED <<runs, writerVars, effect, verdict>>

\* _write_record fails with nothing, a part or all of its line in the file.
WriteFails(line) == \E written \in {<<>>, <<Torn>>, <<line>>} : journal' = journal \o written

\* Mutant: an attempt without an outcome is begun again.
BeginAgain ==
  /\ phase = "between" /\ at = "ready" /\ NextCell # None
  /\ \/ journal' = Append(journal, Intent(NextCell)) /\ pending' = TRUE /\ Reach("looking")
     \/ WriteFails(Intent(NextCell)) /\ UNCHANGED pending /\ Reach("exiting")
  /\ HarnessRests /\ UNCHANGED <<runs, attempted, effect, verdict>>

\* begin_attempt: the intent is on disk before the cell is touched.
BeginAttempt ==
  /\ phase = "between" /\ at = "ready" /\ NextCell # None /\ ~pending
  /\ \/ journal' = Append(journal, Intent(NextCell)) /\ pending' = TRUE /\ Reach("looking")
     \/ WriteFails(Intent(NextCell)) /\ UNCHANGED pending /\ Reach("exiting")
  /\ HarnessRests /\ UNCHANGED <<runs, attempted, effect, verdict>>

\* The last cell is done, the arm expired, or an attempt never got its outcome.
LeaveLoop ==
  /\ phase = "between" /\ at = "ready"
  /\ Reach("exiting")
  /\ HarnessRests /\ WriterRests /\ UNCHANGED <<runs, effect, verdict>>

\* The frame before the shot, or one of the observer's frames after it.
CaptureFrame ==
  /\ phase \in {"looking", "observing"}
  /\ Capture
  /\ Reach(IF phase = "looking" THEN "looked" ELSE phase)
  /\ WriterRests /\ UNCHANGED <<runs, effect, verdict>>

FireShot ==
  /\ phase = "looked" /\ at = "ready" /\ Last(buffer).usable
  /\ Fire(NextCell)
  /\ Reach("observing")
  /\ WriterRests /\ UNCHANGED <<runs, effect, verdict>>

\* The observer names a frame; record_action_effect wants one after the release.
RecordEffect ==
  /\ phase = "observing" /\ at = "ready"
  /\ \E frame \in Range(buffer), confirmed \in BOOLEAN :
       IF frame.observed >= shot.released /\ (confirmed => frame.usable)
       THEN effect' = frame.observed /\ Reach("recording")
            /\ GoesOn(at) /\ Keep
       ELSE CleanUp("error") /\ UNCHANGED <<effect, phase>>
  /\ Steady /\ WriterRests
  /\ UNCHANGED <<outbox, lease, neutral, runs, verdict>>

\* complete_attempt with a sample, after the last look at the runtime.
CompleteAttempt ==
  LET line == Outcome(NextCell, "completed", effect) IN
  /\ phase = "recording" /\ at = "ready"
  /\ \/ /\ journal' = Append(journal, line) /\ pending' = FALSE
        /\ attempted' = attempted + 1 /\ Reach("between")
     \/ WriteFails(line) /\ UNCHANGED <<pending, attempted>> /\ Reach("exiting")
  /\ effect' = None
  /\ HarnessRests /\ UNCHANGED <<runs, verdict>>

\* An unusable frame, or an observer, a sample or a runtime that is not as it must be.
StepFails ==
  /\ at = "ready"
  /\ \/ phase = "looked" /\ ~Last(buffer).usable
     \/ phase \in {"observing", "recording"}

HarnessFailed ==
  at = "stopped" /\ cause = "error" /\ phase \in {"looking", "looked", "observing"}

\* _record_failed_attempt, and the error is raised again.
RecordFailure ==
  LET line == Outcome(NextCell, "failed", None) IN
  /\ StepFails \/ HarnessFailed
  /\ \/ /\ journal' = Append(journal, line) /\ pending' = FALSE
        /\ attempted' = attempted + 1
     \/ WriteFails(line) /\ UNCHANGED <<pending, attempted>>
  /\ Reach("exiting") /\ effect' = None
  /\ HarnessRests /\ UNCHANGED <<runs, verdict>>

\* The keyboard interrupts a harness that is in use, and __exit__ cleans it up; one
\* that nothing will clean up, still in __enter__ or already in close(); one that is
\* cleaning up; or the runner, after a harness that has stopped.
HarnessInterrupted ==
  \/ /\ at \notin Cleaning \cup {"abandoned"} /\ UNCHANGED lease
     /\ IF phase \in {"opening", "exiting"}
        THEN GoesOn("abandoned") /\ Forget
        ELSE CleanUp("interrupt")
  \/ CleanUpInterrupted
  \/ at \in {"stopped", "abandoned"} /\ UNCHANGED <<inbox, clientVars>>

\* KeyboardInterrupt is no Exception: no handler of the attempt sees it.
Interrupt ==
  /\ phase \notin {"idle", "over", "dead"}
  /\ HarnessInterrupted
  /\ Reach("exiting") /\ effect' = None
  /\ Steady /\ WriterRests
  /\ UNCHANGED <<outbox, neutral, runs, verdict>>

\* __exit__: close() cleans up a harness that is not stopped yet.
CloseHarness ==
  /\ phase = "exiting" /\ at = "ready"
  /\ CleanUp("closed")
  /\ Steady /\ UNCHANGED <<outbox, lease, neutral, runnerVars>>

\* open() raised: there was no harness to record or to leave.
LeaveRun ==
  /\ at \in {"stopped", "abandoned"} /\ phase \in {"opening", "exiting"}
  /\ Reach("over")
  /\ HarnessRests /\ WriterRests /\ UNCHANGED <<runs, effect, verdict>>

ClientEnds(where) ==
  /\ at' = where /\ sequence' = 0 /\ cause' = None /\ lease' = None /\ neutral' = TRUE
  /\ Forget

\* The caller closes the provider and its broker, to try another run or to stop.
CloseProvider ==
  /\ phase = "over"
  /\ Reach("idle")
  /\ BrokerEnds /\ ClientEnds("off")
  /\ UNCHANGED now
  /\ WriterRests /\ UNCHANGED <<runs, effect, verdict>>

\* The process dies: the broker may still read what is in its pipe.
Crash ==
  /\ phase \notin {"idle", "dead"}
  /\ Reach("dead")
  /\ link' = IF link = "open" THEN "closed" ELSE link
  /\ outbox' = <<>> /\ ClientEnds("dead")
  /\ pending' = FALSE /\ attempted' = 0 /\ effect' = None
  /\ UNCHANGED <<now, inbox, brokerVars>>
  /\ UNCHANGED <<runs, journal, verdict>>

-----------------------------------------------------------------------------
(* The journal, read back. *)

\* Every attempt of the plan has its intent and a completed outcome, and nothing else.
Complete(lines) ==
  /\ Len(lines) = 2 * Cells
  /\ \A k \in 1 .. Cells :
       /\ lines[2 * k - 1] = Intent(k)
       /\ lines[2 * k].line = "outcome"
       /\ lines[2 * k].attempt = k /\ lines[2 * k].status = "completed"

\* verify_calibration_journal, once no writer holds the file.
Qualify ==
  /\ phase \in {"idle", "dead"} /\ runs > 0 /\ verdict = None
  /\ verdict' = IF Complete(journal) THEN "complete" ELSE "refused"
  /\ HarnessRests /\ WriterRests /\ UNCHANGED <<phase, runs, effect>>

RunnerStep ==
  \/ StartRun \/ Opened \/ BeginAttempt \/ LeaveLoop \/ CaptureFrame \/ FireShot
  \/ RecordEffect \/ CompleteAttempt \/ RecordFailure \/ Interrupt
  \/ CloseHarness \/ LeaveRun \/ CloseProvider \/ Crash \/ Qualify

CalibrationNext ==
  \/ RunnerStep
  \/ (HarnessStep \/ BrokerStep \/ Tick) /\ UNCHANGED runnerVars

CalibrationSpec == CalibrationInit /\ [][CalibrationNext]_vars

-----------------------------------------------------------------------------
(* Properties. *)

Started == presses \o (IF Down THEN <<button>> ELSE <<>>)

\* A press is never off the record: whatever the target has felt belongs to an
\* attempt whose intent was on disk, and no attempt is pressed twice, whatever
\* failed, was interrupted, died or was run again
\* (calibration_runner.py:412-424, calibration.py:1579-1587).
PressIsOnRecord ==
  /\ \A i \in DOMAIN Started : Intent(Started[i].attempt) \in Range(journal)
  /\ \A i, j \in DOMAIN Started : Started[i].attempt = Started[j].attempt => i = j

\* While the button is down, it went down on a frame that was still fresh, and
\* the broker lets go of it by itself before the claim it is under expires:
\* after the slowest answers, and after a harness that gave up
\* (harness.py:1372-1402).
PressIsCovered ==
  Down => /\ button.injected - button.observed <= Stale
          /\ claim # None /\ button.deadline < claim

\* A stopped harness that reports neutral buttons is right, unless the keyboard has
\* interrupted its release-all: nothing is held, and no press still waits in the
\* pipe, though a call may have timed out or been interrupted with its request under
\* way, and the release of the claim too (harness.py:1643-1678, live_provider.py:257-316).
NeutralIsTrue ==
  at = "stopped" /\ neutral /\ cause # "cut short" =>
    /\ ~Down
    /\ \A i \in DOMAIN inbox : inbox[i].method # "button_down"

\* In a journal that qualifies, each sample is one whole press of its cell, let
\* go by its own button-up and as long as it was measured to be, and its effect
\* was seen after it (calibration.py:1247-1413, harness.py:1408-1490).
SampleIsOnePress ==
  verdict = "complete" =>
    \A k \in 1 .. Cells : \E i \in DOMAIN presses :
      /\ presses[i].attempt = k /\ presses[i].by = "button_up"
      /\ presses[i].released - presses[i].injected \in Press - Error .. Press + Error
      /\ presses[i].released <= journal[2 * k].seen
      /\ \A j \in DOMAIN Started : Started[j].attempt = k => i = j
=============================================================================
