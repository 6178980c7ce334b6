--------------------------- MODULE TrainingSession ---------------------------
(***************************************************************************)
(* One training job, from its claim to "trained": the runner               *)
(* (r3b_local_runner.py) over the session and its collector (collector.py),*)
(* the curriculum (curriculum.py), its score-only tail (r3b_tail.py), the  *)
(* adapter (vector_adapter.py) and the vector of exact workers (the module *)
(* ExactVector), interrupted and resumed from checkpoints.                 *)
(*                                                                         *)
(* What a stochastic policy does is a function of the model, the recurrent *)
(* state, the observation and the sampler, all of which a checkpoint       *)
(* holds.  The model draws it once for every draw of the sampler and keeps *)
(* it: a resumed session that has forgotten something meets it elsewhere.  *)
(***************************************************************************)
EXTENDS ExactVector

CONSTANTS Library,        \* Library[l] : snapshots that lane l is dealt, in turn
          Budget,         \* budget_updates
          Sweep,          \* shaped_updates of the plan, the rest is the tail
          Interval,       \* checkpoint_interval_updates
          Decisions,      \* decisions of a rollout (its tick target)
          MaxSkips,       \* max_consecutive_skips
          MaxCrashes      \* bound: processes that die

ASSUME SessionAssumption ==
  /\ Budget \in Nat \ {0} /\ Sweep \in 1 .. Budget - 1
  /\ Interval \in Nat \ {0} /\ Decisions \in Nat \ {0} /\ MaxSkips \in Nat \ {0}
  /\ MaxCrashes \in Nat

\* Every lane has snapshots to deal, and they are seeds with logs of actions.
ASSUME LibraryAssumption ==
  \A l \in Lanes :
    /\ Len(Library[l]) \in Nat \ {0}
    /\ \A i \in 1 .. Len(Library[l]) :
         /\ Library[l][i] = [seed |-> Library[l][i].seed, acts |-> Library[l][i].acts]
         /\ Library[l][i].acts \in Seq({"wait", "press", "release"})

VARIABLES status,      \* workflow status of the job
          generations, \* checkpoint generations on disk
          recorded,    \* the generation of the workflow's latest checkpoint
          policy,      \* policy[d] : the semantic actions of draw d
          crashes,     \* processes that have died
          at,          \* what the process does next
          target,      \* updates at which this process stops
          start,       \* updates at which it started
          session,     \* all that a checkpoint saves but the snapshots
          rollout      \* rows collected since the last clean boundary

durable == <<status, generations, recorded, policy>>
memory == <<target, start, session, rollout>>
vars == <<durable, crashes, at, memory, vectorVars>>

Semantic == [Lanes -> {"wait", "shot"}]
Snapshot(l, ordinal) == Library[l][1 + (ordinal % Len(Library[l]))]

\* RewardSchedule.weight_ppm of the only stage of a shaped arm: shaping ends with
\* the sweep.  The control arm has no weight at any time.
Weight(s) == IF Len(s.learned) < Sweep THEN 1 ELSE 0

Unbuilt ==
  [learned |-> <<>>, draws |-> 0, phase |-> "sweep", skipped |-> 0, streak |-> 0,
   seen |-> [l \in Lanes |-> 0], ordinal |-> [l \in Lanes |-> 0],
   weight |-> [l \in Lanes |-> 1],
   label |-> [l \in Lanes |-> None], current |-> [l \in Lanes |-> None]]

SessionInit ==
  /\ NoVector
  /\ status = "claimed" /\ generations = {} /\ recorded = None
  /\ policy = <<>> /\ crashes = 0
  /\ at = "off" /\ target = 0 /\ start = 0 /\ session = Unbuilt /\ rollout = <<>>

Forget ==
  /\ at' = "off" /\ target' = 0 /\ start' = 0 /\ session' = Unbuilt /\ rollout' = <<>>
  /\ DropVector

Returned(step, answer) == at = step /\ op.answer = answer

-----------------------------------------------------------------------------
(* The start of a process: build, begin, initialize or restore. *)

Launch ==
  /\ at = "off" /\ status \in {"claimed", "running"}
  /\ at' = "built"
  /\ OpenVector
  /\ UNCHANGED <<durable, crashes, memory>>

\* workflow.begin, then the reset of every lane, disposable if there is a checkpoint.
BeginJob ==
  /\ at = "built"
  /\ status' = "running"
  /\ at' = "reset"
  /\ Begin("reset", [l \in Lanes |-> NewWorld("fresh")])
  /\ UNCHANGED <<generations, recorded, policy, crashes, memory>>

\* The initializer reserves the first assignment of every lane and restores it.
DealFirst ==
  /\ Returned("reset", "ok") /\ recorded = None
  /\ at' = "first"
  /\ CallRestore([l \in Lanes |-> Snapshot(l, 0)])
  /\ UNCHANGED <<durable, crashes, memory>>

CommitFirst ==
  /\ Returned("first", "ok")
  /\ session' = [session EXCEPT
       !.ordinal = [l \in Lanes |-> 1], !.weight = [l \in Lanes |-> Weight(session)],
       !.label = op.args, !.current = op.args]
  /\ at' = "save" /\ Return
  /\ UNCHANGED <<durable, crashes, target, start, rollout>>

Load ==
  /\ Returned("reset", "ok") /\ recorded # None
  /\ at' = "load"
  /\ CallRestore(recorded.log)
  /\ UNCHANGED <<durable, crashes, memory>>

\* Mutant: the checkpoint does not hold the state of the sampler.
RestoreForgetsSampler ==
  /\ Returned("load", "ok")
  /\ session' = [recorded.session EXCEPT !.draws = 0]
  /\ at' = "aim" /\ Return
  /\ UNCHANGED <<durable, crashes, target, start, rollout>>

Restore ==
  /\ Returned("load", "ok")
  /\ session' = recorded.session
  /\ at' = "aim" /\ Return
  /\ UNCHANGED <<durable, crashes, target, start, rollout>>

\* Where a process stops that is told to make so many new updates.
Stop(new) ==
  IF Len(session.learned) + new < Budget THEN Len(session.learned) + new ELSE Budget
OnGrid(stop) == stop = Budget \/ stop % Interval = 0

\* Mutant: max_new_updates may be zero.
AimAtNothing ==
  /\ at = "aim"
  /\ start' = Len(session.learned)
  /\ \E new \in 0 .. Budget : OnGrid(Stop(new)) /\ target' = Stop(new)
  /\ at' = "ready"
  /\ UNCHANGED <<durable, crashes, session, rollout, vectorVars>>

\* max_new_updates is the operator's; canonical segments stop on the checkpoint grid.
Aim ==
  /\ at = "aim"
  /\ start' = Len(session.learned)
  /\ \E new \in 1 .. Budget : OnGrid(Stop(new)) /\ target' = Stop(new)
  /\ at' = "ready"
  /\ UNCHANGED <<durable, crashes, session, rollout, vectorVars>>

-----------------------------------------------------------------------------
(* R3ATrainingSession.run_update and what it calls. *)

AllZero == \A l \in Lanes : session.weight[l] = 0

\* Mutant: one lane without shaping ends the drain.
CollectionModeOfOneLane ==
  IF session.phase \notin {"sweep", "draining"} \/ Len(session.learned) < Sweep
  THEN session.phase
  ELSE IF \E l \in Lanes : session.weight[l] = 0 THEN "score_only" ELSE "draining"

\* ScoreOnlyTailController.collection_mode: the phase after it.
CollectionMode ==
  IF session.phase \notin {"sweep", "draining"} \/ Len(session.learned) < Sweep
  THEN session.phase
  ELSE IF AllZero THEN "score_only" ELSE "draining"

\* The end of the drain forgives its skips.
Streak ==
  IF session.phase = "draining" /\ CollectionMode = "score_only" THEN 0 ELSE session.streak

RunUpdate ==
  /\ at = "ready" /\ Len(session.learned) < target
  /\ Streak < MaxSkips
  /\ session' = [session EXCEPT !.phase = CollectionMode, !.streak = Streak]
  /\ rollout' = <<>>
  /\ at' = "decide"
  /\ UNCHANGED <<durable, crashes, target, start, vectorVars>>

Primitive(semantic) == IF semantic = "wait" THEN "wait" ELSE "press"

\* Sample the policy and step every lane.
Press ==
  /\ at = "decide"
  /\ \E actions \in Semantic :
       /\ session.draws < Len(policy) => actions = policy[session.draws + 1]
       /\ policy' = IF session.draws < Len(policy) THEN policy ELSE Append(policy, actions)
       /\ Begin("step", [l \in Lanes |-> Primitive(actions[l])])
  /\ session' = [session EXCEPT !.draws = @ + 1]
  /\ at' = "press"
  /\ UNCHANGED <<status, generations, recorded, crashes, target, start, rollout>>

Action(l) == policy[session.draws][l]
Releasing == {l \in Lanes : Action(l) = "shot" /\ ~Over(log[l])}
Done == {l \in Lanes : Over(log[l])}

\* A shot whose press ends the episode: train_mask leaves it out.
Cut(l) == Action(l) = "shot" /\ Over(After(session.current[l], "press"))

Release ==
  /\ Returned("press", "ok") /\ Releasing # {}
  /\ at' = "release"
  /\ Begin("step", [l \in Releasing |-> "release"])
  /\ UNCHANGED <<durable, crashes, memory>>

\* Every lane stands at the end of its macro action.
Settled == (Returned("press", "ok") /\ Releasing = {}) \/ Returned("release", "ok")

\* Reserve the next assignment of every lane whose episode is over, and restore it.
Deal ==
  /\ Settled /\ Done # {}
  /\ at' = "deal"
  /\ CallRestore([l \in Done |-> Snapshot(l, session.ordinal[l])])
  /\ UNCHANGED <<durable, crashes, memory>>

Dealt == IF at = "deal" THEN DOMAIN op.args ELSE {}
Row == [l \in Lanes |-> [action |-> Action(l), cut |-> Cut(l), weight |-> session.weight[l]]]

\* Mutant: the adapter keeps the observation before the next episode's.
CommitKeepsLastObservation ==
  /\ Returned("deal", "ok") \/ (Settled /\ Done = {})
  /\ rollout' = Append(rollout, Row)
  /\ session' = [session EXCEPT
       !.seen = [l \in Lanes |-> IF l \in Dealt THEN 0 ELSE @[l] + 1],
       !.current = [l \in Lanes |-> IF l \in Dealt THEN @[l] ELSE log[l]],
       !.label = [l \in Lanes |-> IF l \in Dealt THEN log[l] ELSE @[l]],
       !.ordinal = [l \in Lanes |-> IF l \in Dealt THEN @[l] + 1 ELSE @[l]],
       !.weight = [l \in Lanes |-> IF l \in Dealt THEN Weight(session) ELSE @[l]]]
  /\ at' = IF Len(rollout') < Decisions THEN "decide" ELSE "update"
  /\ Return
  /\ UNCHANGED <<durable, crashes, target, start>>

\* The end of adapter.step, task.rewards with the weights the episodes began
\* with, and after_transitions, which commits the assignments.
Commit ==
  /\ Returned("deal", "ok") \/ (Settled /\ Done = {})
  /\ rollout' = Append(rollout, Row)
  /\ session' = [session EXCEPT
       !.seen = [l \in Lanes |-> IF l \in Dealt THEN 0 ELSE @[l] + 1],
       !.current = log,
       !.label = [l \in Lanes |-> IF l \in Dealt THEN log[l] ELSE @[l]],
       !.ordinal = [l \in Lanes |-> IF l \in Dealt THEN @[l] + 1 ELSE @[l]],
       !.weight = [l \in Lanes |-> IF l \in Dealt THEN Weight(session) ELSE @[l]]]
  /\ at' = IF Len(rollout') < Decisions THEN "decide" ELSE "update"
  /\ Return
  /\ UNCHANGED <<durable, crashes, target, start>>

Trainable == \E i \in DOMAIN rollout, l \in Lanes : ~rollout[i][l].cut
Draining == session.phase = "draining"

\* _finish_skipped_rollout
Skip ==
  /\ at = "update" /\ (Draining \/ ~Trainable)
  /\ session' = [session EXCEPT !.skipped = @ + 1, !.streak = @ + 1]
  /\ rollout' = <<>>
  /\ at' = "ready"
  /\ UNCHANGED <<durable, crashes, target, start, vectorVars>>

\* trainer.update, the four update clocks, record_optimizer_update.
Learn ==
  /\ at = "update" /\ ~Draining /\ Trainable
  /\ LET learned == Append(session.learned, rollout)
     IN  /\ session' = [session EXCEPT !.learned = learned, !.streak = 0,
                          !.phase = IF @ = "score_only" /\ Len(learned) = Budget
                                    THEN "complete" ELSE @]
         /\ at' = IF Len(learned) % Interval = 0 \/ Len(learned) = target
                  THEN "save" ELSE "ready"
  /\ rollout' = <<>>
  /\ UNCHANGED <<durable, crashes, target, start, vectorVars>>

-----------------------------------------------------------------------------
(* _checkpoint, the end of a segment and of the job. *)

\* clone_state of every lane, and the rename that publishes the generation.
Publish ==
  /\ at = "save"
  /\ \A l \in Lanes : client[l] # None
  /\ generations' = generations \cup {[session |-> session, log |-> log]}
  /\ at' = "record"
  /\ UNCHANGED <<status, recorded, policy, crashes, memory, vectorVars>>

\* workflow.record_checkpoint
Record ==
  /\ at = "record"
  /\ recorded' = [session |-> session, log |-> log]
  /\ at' = IF target = 0 THEN "aim" ELSE "ready"
  /\ UNCHANGED <<status, generations, policy, crashes, memory, vectorVars>>

EndSegment ==
  /\ at = "ready" /\ Len(session.learned) = target
  /\ status' = IF target = Budget THEN "trained" ELSE status
  /\ Forget
  /\ UNCHANGED <<generations, recorded, policy, crashes>>

\* The except and finally clauses: workflow.fail once the job has begun, and
\* the vector is closed.
Fails ==
  /\ status' = IF status = "running" THEN "failed" ELSE status
  /\ Forget
  /\ UNCHANGED <<generations, recorded, policy, crashes>>

CallFails == op.answer = "failed" /\ Fails
SkipLimit == at = "ready" /\ Len(session.learned) < target /\ Streak >= MaxSkips /\ Fails
DiskFails == at \in {"save", "record"} /\ Fails
BuildFails == at = "built" /\ status = "running" /\ Fails

\* One that would stop off the grid is refused when the job has begun already.
AimMisses == at = "aim" /\ (\E new \in 1 .. Budget : ~OnGrid(Stop(new))) /\ Fails

\* The process dies; its workers die with it before the next one may start.
Crash ==
  /\ at # "off" /\ crashes < MaxCrashes
  /\ crashes' = crashes + 1
  /\ Forget
  /\ UNCHANGED durable

SessionStep ==
  \/ BeginJob \/ DealFirst \/ CommitFirst \/ Load \/ Restore \/ Aim
  \/ RunUpdate \/ Press \/ Release \/ Deal \/ Commit \/ Skip \/ Learn
  \/ Publish \/ Record \/ EndSegment
  \/ CallFails \/ SkipLimit \/ DiskFails \/ BuildFails \/ AimMisses

VectorRuns == VectorStep /\ UNCHANGED <<durable, crashes, at, memory>>

AWorkerDies ==
  /\ \E l \in Lanes, s \in Slots : WorkerDies(l, s)
  /\ UNCHANGED <<durable, crashes, at, memory>>

SessionNext == Launch \/ SessionStep \/ VectorRuns \/ AWorkerDies \/ Crash

\* Every thread goes on, workers answer, and the operator starts the command
\* again until the job has ended.
SessionFairness ==
  /\ WF_vars(SessionStep)
  /\ WF_vars(VectorRuns)
  /\ WF_vars(Launch)

SessionSpec == SessionInit /\ [][SessionNext]_vars
FairSessionSpec == SessionSpec /\ SessionFairness

-----------------------------------------------------------------------------
(* Properties. *)

\* At a clean boundary ("ready", or about to be saved) the adapter's observation
\* of every lane is the one of the world its worker is in, and that world is a
\* continuation of the snapshot which the curriculum's last committed assignment
\* names: worker, action log, adapter and curriculum are four objects that a step
\* updates one after the other, with a failure possible between any two.
CurrentIsWorld ==
  at \in {"save", "record", "aim", "ready"} =>
    \A l \in Lanes :
      LET dealt == Snapshot(l, session.ordinal[l] - 1)
      IN  /\ session.current[l] = log[l]
          /\ session.label[l] = dealt
          /\ log[l].seed = dealt.seed
          /\ SubSeq(log[l].acts, 1, Len(dealt.acts)) = dealt.acts

\* The checks of validate_optimizer_update never fire: what is learned in the
\* sweep is fully shaped, and what is learned in the tail has no shaped
\* decision, though lanes change weight one by one, when their episodes end.
TailIsPure ==
  at = "update" /\ ~Draining =>
    \A i \in DOMAIN rollout, l \in Lanes :
      rollout[i][l].weight = IF Len(session.learned) < Sweep THEN 1 ELSE 0

\* Interruptions leave no trace in what is trained: two generations of a job
\* with the same number of updates are the same, in the model, the sampler, the
\* recurrent state, the curriculum, the tail and the worlds of the lanes,
\* wherever the processes that wrote them had been interrupted and resumed.
ResumeIsInvisible ==
  \A g, h \in generations :
    Len(g.session.learned) = Len(h.session.learned) => g = h

\* A job that is claimed is eventually trained or failed: the drain and the
\* rollouts without a trainable decision do not go on for ever.
TrainingEnds == <>(status \in {"trained", "failed"})
=============================================================================
