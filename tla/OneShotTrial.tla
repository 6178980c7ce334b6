---------------------------- MODULE OneShotTrial ----------------------------
(***************************************************************************)
(* What the sealed test promises, without ledgers, leases or processes: a  *)
(* fixed set of units of work, each started at most once, each with one    *)
(* result that never changes, and one decision taken over all of them.     *)
(* There is no retry and no way back from the decision.                    *)
(***************************************************************************)
CONSTANTS Units,     \* the sealed jobs and the baseline batch
          Results,   \* what a unit that succeeded can have produced
          Failures,  \* why a unit can have failed
          Nothing    \* the result of a unit that has none yet

VARIABLES progress,  \* progress[u] : "waiting", "started" or "over"
          result,    \* result[u]   : Nothing until u is over
          decision   \* "open", "accepted" or "rejected"

trial == <<progress, result, decision>>

TrialTypeOK ==
  /\ progress \in [Units -> {"waiting", "started", "over"}]
  /\ result \in [Units -> Results \cup Failures \cup {Nothing}]
  /\ decision \in {"open", "accepted", "rejected"}

TrialInit ==
  /\ progress = [u \in Units |-> "waiting"]
  /\ result = [u \in Units |-> Nothing]
  /\ decision = "open"

Start(u) ==
  /\ decision = "open"
  /\ progress[u] = "waiting"
  /\ progress' = [progress EXCEPT ![u] = "started"]
  /\ UNCHANGED <<result, decision>>

Succeed(u, r) ==
  /\ decision = "open"
  /\ progress[u] = "started"
  /\ progress' = [progress EXCEPT ![u] = "over"]
  /\ result' = [result EXCEPT ![u] = r]
  /\ UNCHANGED decision

\* Several started units may be given up together, for one reason.
Abandon(S, f) ==
  /\ decision = "open"
  /\ \A u \in S : progress[u] = "started"
  /\ progress' = [u \in Units |-> IF u \in S THEN "over" ELSE progress[u]]
  /\ result' = [u \in Units |-> IF u \in S THEN f ELSE result[u]]
  /\ UNCHANGED decision

Decide(verdict) ==
  /\ decision = "open"
  /\ \A u \in Units : progress[u] = "over"
  /\ verdict = "accepted" => \A u \in Units : result[u] \in Results
  /\ decision' = verdict
  /\ UNCHANGED <<progress, result>>

TrialNext ==
  \/ \E u \in Units : Start(u)
  \/ \E u \in Units, r \in Results : Succeed(u, r)
  \/ \E S \in SUBSET Units, f \in Failures : Abandon(S, f)
  \/ \E verdict \in {"accepted", "rejected"} : Decide(verdict)

TrialSpec == TrialInit /\ [][TrialNext]_trial
=============================================================================
