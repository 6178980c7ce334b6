------------------------- MODULE TrainingWorldProofs -------------------------
(***************************************************************************)
(* Three theorems about a training job.  It never learns from a decision   *)
(* of the wrong reward: lanes get their shaping weight when an episode     *)
(* begins and keep it to its end, the number of updates moves in between,  *)
(* and the drain is what separates the two.  Curriculum, adapter, action   *)
(* log and worker agree at every boundary: what the session believes of a  *)
(* lane is true of the worker, across failed calls, crashes and resumes.   *)
(* And a resumed job goes where it would have gone: the draws of the       *)
(* policy determine every point of it, so that equal checkpoints follow    *)
(* from equal numbers of updates.                                          *)
(***************************************************************************)
EXTENDS TrainingSessionProofs

-----------------------------------------------------------------------------
(* The tail: which reward a decision is learned with. *)

Rows == [Lanes -> [action : {"wait", "shot"}, cut : BOOLEAN, weight : {0, 1}]]
Phases == {"sweep", "draining", "score_only", "complete"}

IsSession(s) ==
  s = [learned |-> s.learned, draws |-> s.draws, phase |-> s.phase,
       skipped |-> s.skipped, streak |-> s.streak, seen |-> s.seen,
       ordinal |-> s.ordinal, weight |-> s.weight, label |-> s.label,
       current |-> s.current]

\* What a session has learned, drawn and weighed.  In the sweep every lane is
\* shaped, and from the end of the drain on none is.
Clock(s) ==
  /\ IsSession(s)
  /\ s.learned \in Seq(Seq(Rows))
  /\ s.draws \in 0 .. Len(policy)
  /\ s.phase \in Phases
  /\ s.weight \in [Lanes -> {0, 1}]
  /\ Len(s.learned) < Sweep => s.phase = "sweep" /\ \A l \in Lanes : s.weight[l] = 1
  /\ s.phase # "sweep" => Len(s.learned) >= Sweep
  /\ s.phase \in {"score_only", "complete"} => \A l \in Lanes : s.weight[l] = 0

Collecting == {"decide", "press", "release", "deal", "update"}

\* The rows of the rollout have the weight that the coming update requires,
\* unless they are drained.
RolloutInv ==
  /\ rollout \in Seq(Rows)
  /\ at \in {"press", "release", "deal"} => session.draws \in 1 .. Len(policy)
  /\ at \in Collecting =>
       /\ session.phase = "sweep" => Len(session.learned) < Sweep
       /\ session.phase # "draining" =>
            \A i \in DOMAIN rollout, l \in Lanes : rollout[i][l].weight = Weight(session)

TailInv ==
  /\ policy \in Seq(Semantic)
  /\ Clock(session)
  /\ recorded # None => Clock(recorded.session)
  /\ at = "load" => recorded # None
  /\ at \in {"off", "built", "reset", "first", "load"} => session = Unbuilt
  /\ RolloutInv

-----------------------------------------------------------------------------
(* Every step keeps the weights apart. *)

\* A new session has learned nothing and is in the sweep.
LEMMA UnbuiltClock ==
  ASSUME policy \in Seq(Semantic)
  PROVE  Clock(Unbuilt)
<1>1. Sweep \in Nat /\ Sweep > 0
  BY SessionAssumption
<1> QED
  BY <1>1 DEF Unbuilt, Clock, IsSession, Phases

\* Forgotten memory is as in a new process.
LEMMA ForgetStep ==
  ASSUME TailInv, Forget, UNCHANGED <<recorded, policy>>
  PROVE  TailInv'
<1>1. /\ policy' = policy /\ recorded' = recorded
      /\ at' = "off" /\ session' = Unbuilt /\ rollout' = <<>>
  BY DEF Forget
<1>2. Clock(session)'
  BY <1>1, UnbuiltClock DEF Clock, TailInv
<1>3. recorded' # None => Clock(recorded.session)'
  BY <1>1 DEF Clock, TailInv
<1>4. RolloutInv'
  BY <1>1 DEF RolloutInv, Collecting
<1> QED
  BY <1>1, <1>2, <1>3, <1>4 DEF TailInv

\* Steps that leave the session and what is collected alone.
LEMMA QuietSteps ==
  ASSUME TailInv, UNCHANGED <<session, policy, recorded, rollout>>,
         at' \in Collecting => at \in Collecting,
         at' \in {"press", "release", "deal"} => at \in {"press", "release", "deal"},
         at' = "load" => recorded # None,
         at' \in {"off", "built", "reset", "first", "load"} =>
           at \in {"off", "built", "reset", "first", "load"}
  PROVE  TailInv'
<1>1. Clock(session)' /\ (recorded' # None => Clock(recorded.session)')
  BY DEF TailInv, Clock
<1>2. RolloutInv'
  BY DEF TailInv, RolloutInv, Weight
<1> QED
  BY <1>1, <1>2 DEF TailInv

\* The weights of a session that is not draining are those of its updates.
LEMMA PureWeights ==
  ASSUME TailInv, at \in Collecting, session.phase # "draining"
  PROVE  \A l \in Lanes : session.weight[l] = Weight(session)
BY SessionAssumption DEF TailInv, RolloutInv, Clock, Weight, Phases

LEMMA CommitFirstStep ==
  ASSUME TailInv, CommitFirst
  PROVE  TailInv'
<1>1. /\ session = Unbuilt /\ policy' = policy /\ recorded' = recorded
      /\ rollout' = rollout /\ at' = "save"
      /\ session' = [session EXCEPT
           !.ordinal = [l \in Lanes |-> 1], !.weight = [l \in Lanes |-> Weight(session)],
           !.label = op.args, !.current = op.args]
  BY DEF CommitFirst, Returned, TailInv, durable
<1>2. Weight(session) = 1
  BY <1>1, SessionAssumption DEF Unbuilt, Weight
<1>3. /\ session'.learned = session.learned /\ session'.draws = session.draws
      /\ session'.phase = session.phase
      /\ session'.weight = [l \in Lanes |-> 1]
      /\ IsSession(session') /\ Clock(session)
  BY <1>1, <1>2 DEF TailInv, Clock, IsSession
<1>4. Clock(session)'
  BY <1>1, <1>3, UnbuiltClock DEF Clock, Unbuilt
<1>5. recorded' # None => Clock(recorded.session)'
  BY <1>1 DEF Clock, TailInv
<1> QED
  BY <1>1, <1>4, <1>5 DEF TailInv, RolloutInv, Collecting

LEMMA RestoreStep ==
  ASSUME TailInv, Restore
  PROVE  TailInv'
<1>1. /\ policy' = policy /\ recorded' = recorded /\ rollout' = rollout /\ at' = "aim"
      /\ session' = recorded.session
  BY DEF Restore, durable
<1>2. Clock(session)' /\ Clock(recorded.session)'
  BY <1>1 DEF Clock, TailInv, Restore, Returned
<1> QED
  BY <1>1, <1>2 DEF TailInv, RolloutInv, Collecting

LEMMA RecordStep ==
  ASSUME TailInv, Record
  PROVE  TailInv'
<1>1. /\ policy' = policy /\ session' = session /\ rollout' = rollout
      /\ at' \in {"aim", "ready"} /\ recorded'.session = session
  BY DEF Record, memory
<1>2. Clock(session)' /\ Clock(recorded.session)'
  BY <1>1 DEF Clock, TailInv
<1> QED
  BY <1>1, <1>2 DEF TailInv, RolloutInv, Collecting

LEMMA RunUpdateStep ==
  ASSUME TailInv, RunUpdate
  PROVE  TailInv'
<1>1. /\ policy' = policy /\ recorded' = recorded /\ rollout' = <<>> /\ at' = "decide"
      /\ session' = [session EXCEPT !.phase = CollectionMode, !.streak = Streak]
  BY DEF RunUpdate, durable
<1>2. Clock(session) /\ Sweep \in Nat
  BY SessionAssumption DEF TailInv
<1>3. /\ CollectionMode \in Phases
      /\ CollectionMode = "sweep" <=> Len(session.learned) < Sweep
      /\ CollectionMode \in {"score_only", "complete"} =>
           \A l \in Lanes : session.weight[l] = 0
  BY <1>2 DEF Clock, CollectionMode, AllZero, Phases
<1>3a. /\ session'.phase = CollectionMode /\ session'.learned = session.learned
      /\ session'.draws = session.draws /\ session'.weight = session.weight
      /\ IsSession(session')
  BY <1>1, <1>2 DEF Clock, IsSession
<1>4. Clock(session)' /\ session'.phase = CollectionMode /\ session'.learned = session.learned
  BY <1>1, <1>2, <1>3, <1>3a DEF Clock
<1>5. recorded' # None => Clock(recorded.session)'
  BY <1>1 DEF Clock, TailInv
<1>6. RolloutInv'
  BY <1>1, <1>3, <1>4 DEF RolloutInv, Collecting
<1> QED
  BY <1>1, <1>4, <1>5, <1>6 DEF TailInv

LEMMA PressStep ==
  ASSUME TailInv, Press
  PROVE  TailInv'
<1>1. /\ at = "decide" /\ recorded' = recorded /\ rollout' = rollout /\ at' = "press"
      /\ session' = [session EXCEPT !.draws = @ + 1]
  BY DEF Press
<1>2. PICK actions \in Semantic :
        policy' = IF session.draws < Len(policy) THEN policy ELSE Append(policy, actions)
  BY DEF Press
<1>3. policy \in Seq(Semantic) /\ Clock(session)
  BY DEF TailInv
<1>4. /\ policy' \in Seq(Semantic) /\ Len(policy) <= Len(policy')
      /\ session.draws + 1 \in 1 .. Len(policy')
  BY <1>2, <1>3 DEF Clock
<1>5. /\ session'.draws = session.draws + 1 /\ session'.learned = session.learned
      /\ session'.phase = session.phase /\ session'.weight = session.weight
      /\ IsSession(session')
  BY <1>1, <1>3 DEF Clock, IsSession
<1>6. Clock(session)'
  BY <1>3, <1>4, <1>5 DEF Clock
<1>7. recorded' # None => Clock(recorded.session)'
  BY <1>1, <1>4 DEF Clock, TailInv
<1>8. RolloutInv'
  BY <1>1, <1>4, <1>5 DEF TailInv, RolloutInv, Collecting, Weight
<1> QED
  BY <1>1, <1>4, <1>6, <1>7, <1>8 DEF TailInv

\* The row that a decision adds is weighed as its episodes began.
LEMMA CommitStep ==
  ASSUME TailInv, Commit
  PROVE  TailInv'
<1>1. /\ at \in {"press", "release", "deal"} /\ policy' = policy /\ recorded' = recorded
      /\ rollout' = Append(rollout, Row) /\ at' \in {"decide", "update"}
      /\ session' = [session EXCEPT
           !.seen = [l \in Lanes |-> IF l \in Dealt THEN 0 ELSE @[l] + 1],
           !.current = log,
           !.label = [l \in Lanes |-> IF l \in Dealt THEN log[l] ELSE @[l]],
           !.ordinal = [l \in Lanes |-> IF l \in Dealt THEN @[l] + 1 ELSE @[l]],
           !.weight = [l \in Lanes |-> IF l \in Dealt THEN Weight(session) ELSE @[l]]]
  BY DEF Commit, Settled, Returned, durable
<1>2. Clock(session) /\ policy \in Seq(Semantic) /\ Sweep \in Nat
  BY SessionAssumption DEF TailInv
<1>3. Row \in Rows
  <2>1. policy[session.draws] \in Semantic
    BY <1>1, <1>2 DEF TailInv, RolloutInv
  <2>2. \A l \in Lanes : Action(l) \in {"wait", "shot"} /\ Cut(l) \in BOOLEAN
    BY <2>1 DEF Semantic, Action, Cut, Over
  <2> QED
    BY <1>2, <2>2 DEF Rows, Row, Clock
<1>4. /\ rollout' \in Seq(Rows)
      /\ \A i \in DOMAIN rollout' :
           \/ rollout'[i] = Row
           \/ i \in DOMAIN rollout /\ rollout'[i] = rollout[i]
  <2>1. rollout \in Seq(Rows)
    BY DEF TailInv, RolloutInv
  <2>2. ASSUME NEW r \in Rows
        PROVE  /\ Append(rollout, r) \in Seq(Rows)
               /\ \A i \in DOMAIN Append(rollout, r) :
                    \/ Append(rollout, r)[i] = r
                    \/ i \in DOMAIN rollout /\ Append(rollout, r)[i] = rollout[i]
    BY <2>1
  <2> QED
    BY <1>1, <1>3, <2>2, Zenon
<1>5. /\ session'.learned = session.learned /\ session'.phase = session.phase
      /\ session'.draws = session.draws
      /\ session'.weight = [l \in Lanes |-> IF l \in Dealt THEN Weight(session)
                                             ELSE session.weight[l]]
      /\ IsSession(session')
  BY <1>1, <1>2 DEF Clock, IsSession
<1>6. Weight(session) \in {0, 1} /\ (Weight(session) = 1 <=> Len(session.learned) < Sweep)
  BY <1>2 DEF Weight
<1>7. Clock(session)'
  BY <1>1, <1>2, <1>5, <1>6 DEF Clock
<1>8. recorded' # None => Clock(recorded.session)'
  BY <1>1 DEF Clock, TailInv
<1>9. RolloutInv'
  <2>1. session'.phase # "draining" =>
          \A i \in DOMAIN rollout', l \in Lanes : rollout'[i][l].weight = Weight(session)
    BY <1>1, <1>4, <1>5, PureWeights DEF TailInv, RolloutInv, Row, Collecting
  <2>2. Weight(session') = Weight(session)
    BY <1>5 DEF Weight
  <2>3. session'.phase = "sweep" => Len(session'.learned) < Sweep
    BY <1>1, <1>5 DEF TailInv, RolloutInv, Collecting
  <2> QED
    BY <1>1, <1>4, <2>1, <2>2, <2>3 DEF RolloutInv
<1> QED
  BY <1>1, <1>2, <1>7, <1>8, <1>9 DEF TailInv

LEMMA SkipStep ==
  ASSUME TailInv, Skip
  PROVE  TailInv'
<1>1. /\ policy' = policy /\ recorded' = recorded /\ rollout' = <<>> /\ at' = "ready"
      /\ session' = [session EXCEPT !.skipped = @ + 1, !.streak = @ + 1]
  BY DEF Skip, durable
<1>2. Clock(session)'
  <2>1. /\ session'.learned = session.learned /\ session'.draws = session.draws
        /\ session'.phase = session.phase /\ session'.weight = session.weight
        /\ IsSession(session')
    BY <1>1 DEF TailInv, Clock, IsSession
  <2> QED
    BY <1>1, <2>1 DEF TailInv, Clock
<1>3. recorded' # None => Clock(recorded.session)'
  BY <1>1 DEF Clock, TailInv
<1> QED
  BY <1>1, <1>2, <1>3 DEF TailInv, RolloutInv, Collecting

\* The update that ends the sweep leaves the phase to the next rollout.
LEMMA LearnStep ==
  ASSUME TailInv, Learn
  PROVE  TailInv'
<1> DEFINE learned == Append(session.learned, rollout)
           phase == IF session.phase = "score_only" /\ Len(learned) = Budget
                    THEN "complete" ELSE session.phase
<1>1. /\ at = "update" /\ ~Draining
      /\ policy' = policy /\ recorded' = recorded /\ rollout' = <<>>
      /\ at' \in {"save", "ready"}
      /\ session' = [session EXCEPT !.learned = learned, !.streak = 0,
                       !.phase = phase]
  BY DEF Learn, durable
<1>2. Clock(session) /\ Sweep \in Nat /\ rollout \in Seq(Rows)
  BY SessionAssumption DEF TailInv, RolloutInv
<1>3. learned \in Seq(Seq(Rows)) /\ Len(learned) = Len(session.learned) + 1
  BY <1>2 DEF Clock
<1>3a. phase = session.phase \/ (session.phase = "score_only" /\ phase = "complete")
  OBVIOUS
<1> HIDE DEF learned, phase
<1>4. /\ session'.learned = learned /\ session'.weight = session.weight
      /\ session'.draws = session.draws /\ session'.phase = phase
      /\ IsSession(session')
  BY <1>1, <1>2 DEF Clock, IsSession
<1>5. Len(session.learned) \in Nat /\ Len(learned) \in Nat
  BY <1>2, <1>3 DEF Clock
<1>6. Clock(session)'
  BY <1>1, <1>2, <1>3, <1>3a, <1>4, <1>5 DEF Clock, Phases
<1>7. recorded' # None => Clock(recorded.session)'
  BY <1>1 DEF Clock, TailInv
<1> QED
  BY <1>1, <1>6, <1>7 DEF TailInv, RolloutInv, Collecting
-----------------------------------------------------------------------------
(* The theorems. *)

\* The invariant that carries the next one.
THEOREM TailInvariant == SessionSpec => []TailInv
<1>1. SessionInit => TailInv
  <2> SUFFICES ASSUME SessionInit
               PROVE  TailInv
    OBVIOUS
  <2>1. /\ policy = <<>> /\ recorded = None /\ at = "off"
        /\ session = Unbuilt /\ rollout = <<>>
    BY DEF SessionInit
  <2>2. policy \in Seq(Semantic)
    BY <2>1
  <2> QED
    BY <2>1, <2>2, UnbuiltClock DEF TailInv, RolloutInv, Collecting
<1>2. TailInv /\ [SessionNext]_vars => TailInv'
  <2> SUFFICES ASSUME TailInv, [SessionNext]_vars
               PROVE  TailInv'
    OBVIOUS
  <2>1. CASE \/ BeginJob \/ DealFirst \/ Load \/ Aim \/ Release \/ Deal \/ Publish \/ Launch
             \/ VectorRuns \/ AWorkerDies \/ UNCHANGED vars
    <3>0. at = "load" => recorded # None
      BY DEF TailInv
    <3>1. /\ UNCHANGED <<session, policy, recorded, rollout>>
          /\ at' \in Collecting => at \in Collecting
          /\ at' \in {"press", "release", "deal"} => at \in {"press", "release", "deal"}
          /\ at' = "load" => recorded # None
          /\ at' \in {"off", "built", "reset", "first", "load"} =>
               at \in {"off", "built", "reset", "first", "load"}
      BY <2>1, <3>0 DEF BeginJob, DealFirst, Load, Aim, Release, Deal, Publish, Launch, VectorRuns,
         AWorkerDies, vars, durable, memory, Settled, Returned, Collecting
    <3> QED
      BY <3>1, QuietSteps
  <2>2. CASE EndSegment \/ CallFails \/ SkipLimit \/ DiskFails \/ BuildFails \/ AimMisses \/ Crash
    <3>1. Forget /\ UNCHANGED <<recorded, policy>>
      BY <2>2 DEF EndSegment, CallFails, SkipLimit, DiskFails, BuildFails, AimMisses, Fails,
         Crash, durable
    <3> QED
      BY <3>1, ForgetStep
  <2>3. CASE CommitFirst \/ Record \/ RunUpdate \/ Press \/ Commit \/ Skip \/ Learn
    BY <2>3, CommitFirstStep, RecordStep, RunUpdateStep, PressStep, CommitStep, SkipStep,
       LearnStep
  <2>4. CASE Restore
    BY <2>4, RestoreStep
  <2> QED
    BY <2>1, <2>2, <2>3, <2>4 DEF SessionNext, SessionStep
<1> QED
  BY <1>1, <1>2, PTL DEF SessionSpec

\* No optimizer update of the sweep sees an unshaped decision, and none of the
\* tail a shaped one, wherever the job was interrupted.
THEOREM TailStaysPure == SessionSpec => []TailIsPure
<1>1. TailInv => TailIsPure
  BY DEF TailInv, RolloutInv, TailIsPure, Draining, Collecting, Weight
<1> QED
  BY <1>1, TailInvariant, PTL

-----------------------------------------------------------------------------
(* The worlds of the lanes. *)

Moves == {"wait", "press", "release"}

IsWorld(w) == w = [seed |-> w.seed, acts |-> w.acts] /\ w.acts \in Seq(Moves)

\* A world that was reached from the one that was dealt.
Continues(w, dealt) ==
  /\ IsWorld(w) /\ IsWorld(dealt)
  /\ w.seed = dealt.seed
  /\ Len(dealt.acts) <= Len(w.acts)
  /\ SubSeq(w.acts, 1, Len(dealt.acts)) = dealt.acts

\* The curriculum has dealt what it says.
Labelled(s, l) ==
  s.ordinal[l] \in Nat \ {0} /\ s.label[l] = Snapshot(l, s.ordinal[l] - 1)

\* A session and the logs of its lanes belong together.
Fits(s, worlds) ==
  \A l \in Lanes :
    Labelled(s, l) /\ s.current[l] = worlds[l] /\ Continues(worlds[l], s.label[l])

Boundary == {"save", "record", "aim", "ready", "decide", "update"}

\* During a macro action every lane goes on in the world it was dealt.
Acting ==
  /\ op.kind = "step"
  /\ \A l \in DOMAIN op.args : op.args[l] \in Moves
  /\ \A l \in Lanes : Labelled(session, l) /\ Continues(log[l], session.label[l])

\* A restore that has not failed takes the lanes to the snapshots it was given.
Restored == \A l \in DOMAIN op.args : job[l] = "ok" => log[l] = op.args[l]

Placing ==
  /\ Restored
  /\ at = "first" => op.args = [l \in Lanes |-> Snapshot(l, 0)]
  /\ at = "load" => op.args = recorded.log
  /\ at = "deal" =>
       \A l \in Lanes :
         /\ Labelled(session, l)
         /\ l \in DOMAIN op.args => op.args[l] = Snapshot(l, session.ordinal[l])
         /\ l \notin DOMAIN op.args => Continues(log[l], session.label[l])

WorldInv ==
  /\ recorded # None => Fits(recorded.session, recorded.log)
  /\ at \in Boundary => Fits(session, log)
  /\ at \in {"press", "release"} => Acting
  /\ at \in {"first", "load", "deal"} =>
       op.kind \in {"restore", "rollback"} /\ (op.kind = "restore" => Placing)

Inv == SessionInv /\ TailInv /\ WorldInv

-----------------------------------------------------------------------------
(* Worlds. *)

LEMMA SnapshotIsWorld ==
  ASSUME NEW l \in Lanes, NEW n \in Nat
  PROVE  IsWorld(Snapshot(l, n)) /\ Continues(Snapshot(l, n), Snapshot(l, n))
<1> DEFINE m == Len(Library[l])
           i == 1 + (n % m)
           w == Library[l][i]
<1>1. m \in Nat \ {0}
  BY LibraryAssumption
<1> HIDE DEF m
<1>2. i \in 1 .. m
  BY <1>1
<1>3. IsWorld(w)
  <2>1. /\ w = [seed |-> w.seed, acts |-> w.acts]
        /\ w.acts \in Seq(Moves)
    BY <1>2, LibraryAssumption DEF m, Moves
  <2> QED
    BY <2>1 DEF IsWorld
<1>4. Snapshot(l, n) = w
  BY DEF Snapshot, m
<1> HIDE DEF w
<1>5. SubSeq(w.acts, 1, Len(w.acts)) = w.acts
  BY <1>3 DEF IsWorld
<1> QED
  BY <1>3, <1>4, <1>5 DEF Continues, IsWorld

LEMMA GoesOn ==
  ASSUME NEW w, NEW dealt, Continues(w, dealt), NEW a \in Moves
  PROVE  Continues(After(w, a), dealt)
<1>1. w.acts \in Seq(Moves) /\ dealt.acts \in Seq(Moves)
  BY DEF Continues, IsWorld
<1>2. After(w, a) = [seed |-> w.seed, acts |-> Append(w.acts, a)]
  <2>1. w = [seed |-> w.seed, acts |-> w.acts]
    BY DEF Continues, IsWorld
  <2>2. DOMAIN w = {"seed", "acts"}
    BY <2>1
  <2>3. After(w, a) = [x \in {"seed", "acts"} |-> IF x = "acts" THEN Append(w.acts, a) ELSE w[x]]
    BY <2>2 DEF After
  <2>4. w["seed"] = w.seed
    OBVIOUS
  <2> QED
    BY <2>3, <2>4
<1>3. /\ Append(w.acts, a) \in Seq(Moves)
      /\ Len(Append(w.acts, a)) = Len(w.acts) + 1
  BY <1>1
<1>4. SubSeq(Append(w.acts, a), 1, Len(dealt.acts)) = SubSeq(w.acts, 1, Len(dealt.acts))
  BY <1>1 DEF Continues
<1> QED
  BY <1>1, <1>2, <1>3, <1>4 DEF Continues, IsWorld

\* What a step of a lane does to its log.
LEMMA LogOfLane ==
  ASSUME VectorInv, Opened, NEW l \in Lanes, LaneStep(l)
  PROVE  /\ op' = op
         /\ \A k \in Lanes \ {l} : log'[k] = log[k] /\ job'[k] = job[k]
         /\ op.kind = "step" =>
              \/ log'[l] = log[l]
              \/ l \in DOMAIN op.args /\ log'[l] = After(log[l], op.args[l])
         /\ op.kind = "restore" =>
              l \in DOMAIN op.args /\ (job'[l] = "ok" => log'[l] = op.args[l])
<1>1. /\ log = [k \in Lanes |-> log[k]]
      /\ job \in [Lanes -> {"idle", "todo", "sent", "spawned", "ok", "failed"}]
      /\ job[l] = "sent" => l \in DOMAIN op.args /\ op.kind = "step"
  BY DEF VectorInv, Shape, LaneInv
<1>2. CASE Receive(l)
  BY <1>1, <1>2 DEF Receive, Finish
<1>3. CASE Send(l) \/ WorkerAnswers(l) \/ WorkerAnswersBadly(l)
  BY <1>1, <1>3 DEF Send, WorkerAnswers, WorkerAnswersBadly, Finish, Calls
<1>4. CASE ResetInPlace(l) \/ ResetInPlaceFails(l)
  BY <1>1, <1>4 DEF ResetInPlace, ResetInPlaceFails, InPlace, Finish, Calls
<1>5. CASE Spawn(l) \/ SpawnFails(l) \/ Replay(l) \/ ReplayFails(l)
  BY <1>1, <1>5 DEF Spawn, SpawnFails, Replay, ReplayFails, Finish, Calls, Replaces
<1>6. CASE Swap(l)
  BY <1>1, <1>6 DEF Swap, Finish, Calls, Replaces
<1> QED
  BY <1>2, <1>3, <1>4, <1>5, <1>6 DEF LaneStep

-----------------------------------------------------------------------------
(* Steps. *)

\* What is in the checkpoint stays in it.
LEMMA CheckpointStays ==
  ASSUME WorldInv, recorded' = recorded
  PROVE  recorded' # None => Fits(recorded.session, recorded.log)'
BY DEF WorldInv, Fits, Labelled

\* The same session with the same logs.
LEMMA FitsStill ==
  ASSUME Fits(session, log), UNCHANGED log,
         session'.ordinal = session.ordinal, session'.label = session.label,
         session'.current = session.current
  PROVE  Fits(session, log)'
BY DEF Fits, Labelled

LEMMA LaneRuns ==
  ASSUME Inv, NEW l \in Lanes, LaneStep(l), UNCHANGED <<durable, crashes, at, memory>>
  PROVE  WorldInv'
<1>1. /\ VectorInv /\ at' = at /\ session' = session /\ recorded' = recorded
      /\ recorded' # None => Fits(recorded.session, recorded.log)'
  BY CheckpointStays DEF Inv, SessionInv, durable, memory
<1>2. /\ log = [k \in Lanes |-> log[k]]
      /\ DOMAIN op.args \subseteq Lanes
  BY <1>1 DEF VectorInv, Shape, CallInv
<1>3. at \in Calling
  <2>1. ASSUME op = NoCall
        PROVE  FALSE
    <3>1. job[l] = "idle"
      BY <1>1, <2>1 DEF VectorInv, LaneInv, NoCall
    <3> QED
      BY <2>1, <3>1 DEF LaneStep, Send, WorkerAnswers, WorkerAnswersBadly, Receive, ResetInPlace,
         ResetInPlaceFails, Spawn, SpawnFails, Replay, ReplayFails, Swap, Calls
  <2> QED
    BY <2>1 DEF Inv, SessionInv
<1>4. Opened
  BY <1>3 DEF Inv, SessionInv, Calling
<1>5. /\ op' = op
      /\ \A k \in Lanes \ {l} : log'[k] = log[k] /\ job'[k] = job[k]
      /\ op.kind = "step" =>
           \/ log'[l] = log[l]
           \/ l \in DOMAIN op.args /\ log'[l] = After(log[l], op.args[l])
      /\ op.kind = "restore" =>
           l \in DOMAIN op.args /\ (job'[l] = "ok" => log'[l] = op.args[l])
  BY <1>1, <1>4, LogOfLane
<1>6. at \notin Boundary
  BY <1>3 DEF Calling, Boundary
<1>7. CASE at \in {"press", "release"}
  <2>1. Acting
    BY <1>7 DEF Inv, WorldInv
  <2>2. \A k \in Lanes : Continues(log'[k], session.label[k])
    BY <1>5, <2>1, GoesOn DEF Acting
  <2>3. Acting'
    BY <1>1, <1>5, <2>1, <2>2 DEF Acting, Labelled
  <2> QED
    BY <1>1, <1>6, <1>7, <2>3 DEF WorldInv
<1>8. CASE at \in {"first", "load", "deal"}
  <2>1. op.kind = "restore" => Placing
    BY <1>8 DEF Inv, WorldInv
  <2>2. op.kind = "restore" => Placing'
    <3> SUFFICES ASSUME op.kind = "restore"
                 PROVE  Placing'
      OBVIOUS
    <3>1. Restored'
      BY <1>2, <1>5, <2>1 DEF Placing, Restored
    <3>2. \A k \in Lanes : k \notin DOMAIN op.args => log'[k] = log[k]
      BY <1>5
    <3> QED
      BY <1>1, <1>5, <2>1, <3>1, <3>2 DEF Placing, Labelled
  <2> QED
    BY <1>1, <1>5, <1>6, <1>8, <2>2 DEF Inv, WorldInv
<1>9. CASE at = "reset"
  BY <1>1, <1>6, <1>9 DEF WorldInv
<1> QED
  BY <1>3, <1>7, <1>8, <1>9 DEF Calling

LEMMA AnswerRuns ==
  ASSUME Inv, Answer, UNCHANGED <<durable, crashes, at, memory>>
  PROVE  WorldInv'
<1>1. /\ VectorInv /\ at' = at /\ session' = session /\ recorded' = recorded /\ log' = log
      /\ recorded' # None => Fits(recorded.session, recorded.log)'
  BY CheckpointStays DEF Inv, SessionInv, durable, memory, Answer
<1>2. at \in Calling /\ at \notin Boundary
  BY DEF Inv, SessionInv, Answer, Drained, NoCall, Calling, Boundary
<1>3. op = [kind |-> op.kind, args |-> op.args, was |-> op.was, answer |-> op.answer]
  BY <1>1 DEF VectorInv, Shape
<1>4. \/ op'.kind = "rollback" /\ op.kind = "restore"
      \/ op'.kind = op.kind /\ op'.args = op.args /\ job' = job
  BY <1>3 DEF Answer
<1>5. CASE at \in {"press", "release"}
  BY <1>1, <1>2, <1>4, <1>5 DEF Inv, WorldInv, Acting, Labelled
<1>6. CASE at \in {"first", "load", "deal"}
  BY <1>1, <1>2, <1>4, <1>6 DEF Inv, WorldInv, Placing, Restored, Labelled
<1>7. CASE at = "reset"
  BY <1>1, <1>2, <1>7 DEF WorldInv
<1> QED
  BY <1>2, <1>5, <1>6, <1>7 DEF Calling

\* A worker that dies changes no log, no call and no lane.
LEMMA NothingMoves ==
  ASSUME WorldInv, UNCHANGED <<at, session, recorded, log, op, job>>
  PROVE  WorldInv'
<1>1. recorded' # None => Fits(recorded.session, recorded.log)'
  BY CheckpointStays
<1>2. at' \in Boundary => Fits(session, log)'
  BY FitsStill DEF WorldInv
<1>3. at' \in {"press", "release"} => Acting'
  BY DEF WorldInv, Acting, Labelled
<1>4. at' \in {"first", "load", "deal"} =>
        op'.kind \in {"restore", "rollback"} /\ (op'.kind = "restore" => Placing')
  BY DEF WorldInv, Placing, Restored, Labelled
<1> QED
  BY <1>1, <1>2, <1>3, <1>4 DEF WorldInv

\* A good answer to a restore: it was no rollback, and every lane is placed.
LEMMA Placed ==
  ASSUME Inv, at \in {"first", "load", "deal"}, op.answer = "ok"
  PROVE  Placing /\ \A l \in DOMAIN op.args : log[l] = op.args[l]
<1>1. op.kind = "restore" /\ \A l \in DOMAIN op.args : job[l] = "ok"
  BY DEF Inv, SessionInv, VectorInv, CallInv, AllOk, WorldInv
<1> QED
  BY <1>1 DEF Inv, WorldInv, Placing, Restored

\* A restore that begins has placed nothing yet.
LEMMA RestoreBegins ==
  ASSUME NEW args, CallRestore(args), DOMAIN args \subseteq Lanes
  PROVE  op'.kind = "restore" /\ op'.args = args /\ log' = log /\ Restored'
BY DEF CallRestore, Begin, Restored

LEMMA DealFirstPlaces ==
  ASSUME Inv, DealFirst
  PROVE  WorldInv'
<1> DEFINE args == [l \in Lanes |-> Snapshot(l, 0)]
<1>1. /\ CallRestore(args) /\ at' = "first" /\ recorded' = recorded
  BY DEF DealFirst, durable
<1>2. op'.kind = "restore" /\ op'.args = args /\ Restored'
  BY <1>1, RestoreBegins
<1>3. recorded' # None => Fits(recorded.session, recorded.log)'
  BY <1>1, CheckpointStays DEF Inv
<1> QED
  BY <1>1, <1>2, <1>3 DEF WorldInv, Placing, Boundary, Snapshot

LEMMA LoadPlaces ==
  ASSUME Inv, Load
  PROVE  WorldInv'
<1>1. /\ CallRestore(recorded.log) /\ at' = "load" /\ recorded' = recorded /\ recorded # None
  BY DEF Load, durable
<1>2. op'.kind = "restore" /\ op'.args = recorded.log /\ Restored'
  BY <1>1, RestoreBegins DEF Inv, SessionInv
<1>3. recorded' # None => Fits(recorded.session, recorded.log)'
  BY <1>1, CheckpointStays DEF Inv
<1> QED
  BY <1>1, <1>2, <1>3 DEF WorldInv, Placing, Boundary

\* The first assignment of every lane.
LEMMA CommitFirstFits ==
  ASSUME Inv, CommitFirst
  PROVE  WorldInv'
<1>1. /\ at = "first" /\ op.answer = "ok" /\ at' = "save"
      /\ recorded' = recorded /\ log' = log
      /\ session' = [session EXCEPT
           !.ordinal = [l \in Lanes |-> 1], !.weight = [l \in Lanes |-> Weight(session)],
           !.label = op.args, !.current = op.args]
  BY DEF CommitFirst, Returned, durable, Return
<1>2. op.args = [l \in Lanes |-> Snapshot(l, 0)] /\ \A l \in Lanes : log[l] = Snapshot(l, 0)
  BY <1>1, Placed DEF Placing
<1>3. /\ session'.ordinal = [l \in Lanes |-> 1]
      /\ session'.label = op.args /\ session'.current = op.args
  BY <1>1 DEF Inv, TailInv, Clock, IsSession
<1>4. \A l \in Lanes : Continues(Snapshot(l, 0), Snapshot(l, 0))
  BY SnapshotIsWorld
<1>5. \A l \in Lanes :
        /\ session'.ordinal[l] = 1 /\ session'.label[l] = Snapshot(l, 0)
        /\ session'.current[l] = log'[l] /\ Continues(log'[l], session'.label[l])
  BY <1>1, <1>2, <1>3, <1>4
<1>6. Fits(session, log)'
  BY <1>5 DEF Fits, Labelled
<1>7. recorded' # None => Fits(recorded.session, recorded.log)'
  BY <1>1, CheckpointStays DEF Inv
<1> QED
  BY <1>1, <1>6, <1>7 DEF WorldInv, Boundary

\* A resumed session is in the worlds of its checkpoint.
LEMMA RestoreFits ==
  ASSUME Inv, Restore
  PROVE  WorldInv'
<1>1. /\ at = "load" /\ op.answer = "ok" /\ at' = "aim" /\ recorded' = recorded /\ log' = log
      /\ session' = recorded.session
  BY DEF Restore, Returned, durable, Return
<1>2. /\ op.args = recorded.log /\ recorded # None /\ DOMAIN recorded.log = Lanes
      /\ \A l \in Lanes : log[l] = recorded.log[l]
  BY <1>1, Placed DEF Placing, Inv, TailInv, SessionInv
<1>3. Fits(session, log)'
  BY <1>1, <1>2 DEF Inv, WorldInv, Fits, Labelled
<1>4. recorded' # None => Fits(recorded.session, recorded.log)'
  BY <1>1, CheckpointStays DEF Inv
<1> QED
  BY <1>1, <1>3, <1>4 DEF WorldInv, Boundary

LEMMA RecordFits ==
  ASSUME Inv, Record
  PROVE  WorldInv'
<1>1. /\ at = "record" /\ at' \in {"aim", "ready"} /\ log' = log /\ session' = session
      /\ recorded' = [session |-> session, log |-> log]
  BY DEF Record, memory, vectorVars
<1>2. Fits(session, log)
  BY <1>1 DEF Inv, WorldInv, Boundary
<1>3. Fits(session, log)' /\ Fits(recorded.session, recorded.log)'
  BY <1>1, <1>2 DEF Fits, Labelled
<1> QED
  BY <1>1, <1>3 DEF WorldInv, Boundary

\* Steps between boundaries, which change neither assignments nor worlds.
LEMMA ClerksFit ==
  ASSUME Inv, Aim \/ RunUpdate \/ Skip \/ Learn \/ Publish
  PROVE  WorldInv'
<1>1. /\ at \in Boundary /\ at' \in Boundary \ {"press", "release", "first", "load", "deal"}
      /\ recorded' = recorded /\ log' = log
  BY DEF Aim, RunUpdate, Skip, Learn, Publish, Boundary, durable, memory, vectorVars
<1>2. /\ session'.ordinal = session.ordinal /\ session'.label = session.label
      /\ session'.current = session.current
  <2>1. IsSession(session)
    BY DEF Inv, TailInv, Clock
  <2>2. CASE Aim \/ Publish
    BY <2>2 DEF Aim, Publish, memory
  <2>3. CASE RunUpdate
    BY <2>1, <2>3 DEF RunUpdate, IsSession
  <2>4. CASE Skip
    BY <2>1, <2>4 DEF Skip, IsSession
  <2>5. CASE Learn
    <3> DEFINE learned == Append(session.learned, rollout)
               phase == IF session.phase = "score_only" /\ Len(learned) = Budget
                        THEN "complete" ELSE session.phase
    <3>1. session' = [session EXCEPT !.learned = learned, !.streak = 0, !.phase = phase]
      BY <2>5 DEF Learn
    <3> HIDE DEF learned, phase
    <3> QED
      BY <2>1, <3>1 DEF IsSession
  <2> QED
    BY <2>2, <2>3, <2>4, <2>5
<1>3. Fits(session, log)'
  BY <1>1, <1>2, FitsStill DEF Inv, WorldInv
<1>4. recorded' # None => Fits(recorded.session, recorded.log)'
  BY <1>1, CheckpointStays DEF Inv
<1> QED
  BY <1>1, <1>3, <1>4 DEF WorldInv

LEMMA PressActs ==
  ASSUME Inv, Press
  PROVE  WorldInv'
<1>1. /\ at = "decide" /\ at' = "press" /\ recorded' = recorded
      /\ session' = [session EXCEPT !.draws = @ + 1]
  BY DEF Press
<1>2. PICK actions : Begin("step", [l \in Lanes |-> Primitive(actions[l])])
  BY DEF Press
<1>3. /\ op'.kind = "step" /\ op'.args = [l \in Lanes |-> Primitive(actions[l])] /\ log' = log
  BY <1>2 DEF Begin
<1>4. session'.ordinal = session.ordinal /\ session'.label = session.label
  BY <1>1 DEF Inv, TailInv, Clock, IsSession
<1>5. Fits(session, log)
  BY <1>1 DEF Inv, WorldInv, Boundary
<1>6. Acting'
  BY <1>3, <1>4, <1>5 DEF Acting, Fits, Labelled, Primitive, Moves
<1>7. recorded' # None => Fits(recorded.session, recorded.log)'
  BY <1>1, CheckpointStays DEF Inv
<1> QED
  BY <1>1, <1>6, <1>7 DEF WorldInv, Boundary

LEMMA ReleaseActs ==
  ASSUME Inv, Release
  PROVE  WorldInv'
<1>1. /\ at = "press" /\ at' = "release" /\ recorded' = recorded /\ session' = session
      /\ Begin("step", [l \in Releasing |-> "release"])
  BY DEF Release, Returned, durable, memory
<1>2. op'.kind = "step" /\ op'.args = [l \in Releasing |-> "release"] /\ log' = log
  BY <1>1 DEF Begin
<1>3. Acting
  BY <1>1 DEF Inv, WorldInv
<1>4. Acting'
  BY <1>1, <1>2, <1>3 DEF Acting, Labelled, Moves
<1>5. recorded' # None => Fits(recorded.session, recorded.log)'
  BY <1>1, CheckpointStays DEF Inv
<1> QED
  BY <1>1, <1>4, <1>5 DEF WorldInv, Boundary

\* Lanes that are over are placed anew, the others stay where they are.
LEMMA DealPlaces ==
  ASSUME Inv, Deal
  PROVE  WorldInv'
<1> DEFINE args == [l \in Done |-> Snapshot(l, session.ordinal[l])]
<1>1. /\ at \in {"press", "release"} /\ at' = "deal"
      /\ recorded' = recorded /\ session' = session /\ CallRestore(args)
  BY DEF Deal, Settled, Returned, durable, memory
<1>2. DOMAIN args \subseteq Lanes /\ \A l \in DOMAIN args : args[l] = Snapshot(l, session.ordinal[l])
  BY DEF Done
<1> HIDE DEF args
<1>3. op'.kind = "restore" /\ op'.args = args /\ log' = log /\ Restored'
  BY <1>1, <1>2, RestoreBegins
<1>4. Acting
  BY <1>1 DEF Inv, WorldInv
<1>5. Placing'
  BY <1>1, <1>2, <1>3, <1>4 DEF Placing, Acting, Labelled
<1>6. recorded' # None => Fits(recorded.session, recorded.log)'
  BY <1>1, CheckpointStays DEF Inv
<1> QED
  BY <1>1, <1>3, <1>5, <1>6 DEF WorldInv, Boundary

\* The assignments that are committed are those the workers were placed in.
LEMMA CommitFits ==
  ASSUME Inv, Commit
  PROVE  WorldInv'
<1>1. /\ at \in {"press", "release", "deal"} /\ op.answer = "ok"
      /\ recorded' = recorded /\ log' = log /\ at' \in {"decide", "update"}
      /\ session' = [session EXCEPT
           !.seen = [l \in Lanes |-> IF l \in Dealt THEN 0 ELSE @[l] + 1],
           !.current = log,
           !.label = [l \in Lanes |-> IF l \in Dealt THEN log[l] ELSE @[l]],
           !.ordinal = [l \in Lanes |-> IF l \in Dealt THEN @[l] + 1 ELSE @[l]],
           !.weight = [l \in Lanes |-> IF l \in Dealt THEN Weight(session) ELSE @[l]]]
  BY DEF Commit, Settled, Returned, durable, Return
<1>2. /\ session'.current = log
      /\ session'.label = [l \in Lanes |-> IF l \in Dealt THEN log[l] ELSE session.label[l]]
      /\ session'.ordinal =
           [l \in Lanes |-> IF l \in Dealt THEN session.ordinal[l] + 1 ELSE session.ordinal[l]]
  BY <1>1 DEF Inv, TailInv, Clock, IsSession
<1>3. /\ \A l \in Lanes \ Dealt : Labelled(session, l) /\ Continues(log[l], session.label[l])
      /\ \A l \in Lanes \cap Dealt :
           session.ordinal[l] \in Nat \ {0} /\ log[l] = Snapshot(l, session.ordinal[l])
  <2>1. CASE at \in {"press", "release"}
    BY <2>1 DEF Inv, WorldInv, Acting, Dealt
  <2>2. CASE at = "deal"
    BY <1>1, <2>2, Placed DEF Placing, Dealt, Labelled
  <2> QED
    BY <1>1, <2>1, <2>2
<1>4. ASSUME NEW l \in Lanes
      PROVE  /\ Labelled(session', l) /\ session'.current[l] = log'[l]
             /\ Continues(log'[l], session'.label[l])
  <2>1. CASE l \in Dealt
    <3>1. /\ session'.ordinal[l] = session.ordinal[l] + 1 /\ session'.label[l] = log[l]
          /\ session.ordinal[l] \in Nat \ {0} /\ log[l] = Snapshot(l, session.ordinal[l])
      BY <1>2, <1>3, <2>1
    <3>2. Continues(Snapshot(l, session.ordinal[l]), Snapshot(l, session.ordinal[l]))
      BY <3>1, SnapshotIsWorld
    <3>3. session.ordinal[l] + 1 - 1 = session.ordinal[l]
      BY <3>1
    <3> QED
      BY <1>1, <1>2, <3>1, <3>2, <3>3 DEF Labelled
  <2>2. CASE l \notin Dealt
    BY <1>1, <1>2, <1>3, <2>2 DEF Labelled
  <2> QED
    BY <2>1, <2>2
<1>5. Fits(session, log)'
  BY <1>4 DEF Fits, Labelled
<1>6. recorded' # None => Fits(recorded.session, recorded.log)'
  BY <1>1, CheckpointStays DEF Inv
<1> QED
  BY <1>1, <1>5, <1>6 DEF WorldInv, Boundary

LEMMA NothingToFit ==
  ASSUME Inv, Launch \/ BeginJob \/ EndSegment \/ CallFails \/ SkipLimit \/ DiskFails
              \/ BuildFails \/ AimMisses \/ Crash
  PROVE  WorldInv'
<1>1. at' \in {"off", "built", "reset"} /\ recorded' = recorded
  BY DEF Launch, BeginJob, EndSegment, CallFails, SkipLimit, DiskFails, BuildFails, AimMisses,
         Crash, Fails, Forget, durable
<1>2. recorded' # None => Fits(recorded.session, recorded.log)'
  BY <1>1, CheckpointStays DEF Inv
<1> QED
  BY <1>1, <1>2 DEF WorldInv, Boundary

-----------------------------------------------------------------------------
(* The theorems. *)

\* The invariant: what the checkpoint, the running session and the logs of the
\* workers say of each other at every step of a job.
THEOREM WorldInvariant == SessionSpec => []WorldInv
<1>1. SessionInit => WorldInv
  BY DEF SessionInit, WorldInv, Boundary
<1>2. Inv /\ [SessionNext]_vars => WorldInv'
  <2> SUFFICES ASSUME Inv, [SessionNext]_vars
               PROVE  WorldInv'
    OBVIOUS
  <2>1. CASE VectorRuns
    BY <2>1, LaneRuns, AnswerRuns DEF VectorRuns, VectorStep
  <2>2. CASE AWorkerDies \/ UNCHANGED vars
    <3>1. UNCHANGED <<at, session, recorded, log, op, job>>
      BY <2>2 DEF AWorkerDies, WorkerDies, vars, durable, memory, vectorVars
    <3> QED
      BY <3>1, NothingMoves DEF Inv
  <2>3. CASE DealFirst \/ CommitFirst \/ Load \/ Restore \/ Record
    BY <2>3, DealFirstPlaces, CommitFirstFits, LoadPlaces, RestoreFits, RecordFits
  <2>4. CASE Aim \/ RunUpdate \/ Skip \/ Learn \/ Publish
    BY <2>4, ClerksFit
  <2>5. CASE Press \/ Release \/ Deal \/ Commit
    BY <2>5, PressActs, ReleaseActs, DealPlaces, CommitFits
  <2>6. CASE \/ Launch \/ BeginJob \/ EndSegment \/ CallFails \/ SkipLimit \/ DiskFails
             \/ BuildFails \/ AimMisses \/ Crash
    BY <2>6, NothingToFit
  <2> QED
    BY <2>1, <2>2, <2>3, <2>4, <2>5, <2>6 DEF SessionNext, SessionStep
<1> QED
  BY <1>1, <1>2, VectorInvariant, TailInvariant, PTL DEF SessionSpec, Inv

\* At every clean boundary the adapter's observation of a lane is the world its
\* log names, and that world continues the snapshot the curriculum dealt last.
THEOREM BoundariesAreWorlds == SessionSpec => []CurrentIsWorld
<1>1. WorldInv => CurrentIsWorld
  BY DEF WorldInv, Boundary, Fits, Labelled, Continues, CurrentIsWorld
<1> QED
  BY <1>1, WorldInvariant, PTL

-----------------------------------------------------------------------------
(* Resuming leaves no trace. *)

\* A decision has a session s, in which it has been drawn, and its actions a.
Pressed(s, a) == [l \in Lanes |-> After(s.current[l], Primitive(a[l]))]
ToRelease(s, a) == {l \in Lanes : a[l] = "shot" /\ ~Over(Pressed(s, a)[l])}
Released(s, a) ==
  [l \in Lanes |-> IF l \in ToRelease(s, a) THEN After(Pressed(s, a)[l], "release")
                   ELSE Pressed(s, a)[l]]
Ended(s, a) == {l \in Lanes : Over(Released(s, a)[l])}
WorldsAfter(s, a) ==
  [l \in Lanes |-> IF l \in Ended(s, a) THEN Snapshot(l, s.ordinal[l]) ELSE Released(s, a)[l]]

\* What a commit makes of the session and adds to the rollout.
Committed(s, worlds, dealt) ==
  [s EXCEPT
     !.seen = [l \in Lanes |-> IF l \in dealt THEN 0 ELSE @[l] + 1],
     !.current = worlds,
     !.label = [l \in Lanes |-> IF l \in dealt THEN worlds[l] ELSE @[l]],
     !.ordinal = [l \in Lanes |-> IF l \in dealt THEN @[l] + 1 ELSE @[l]],
     !.weight = [l \in Lanes |-> IF l \in dealt THEN Weight(s) ELSE @[l]]]
RowOf(s, a) ==
  [l \in Lanes |-> [action |-> a[l],
                    cut |-> a[l] = "shot" /\ Over(After(s.current[l], "press")),
                    weight |-> s.weight[l]]]

\* A point is a session and the rollout it has collected.
Point(s, r) == [session |-> s, rollout |-> r]

Drawn(s) == [s EXCEPT !.draws = @ + 1]
Decide(p, a) ==
  LET s == Drawn(p.session)
  IN  Point(Committed(s, WorldsAfter(s, a), Ended(s, a)), Append(p.rollout, RowOf(s, a)))

\* A rollout of enough decisions is learned from or skipped, and the next begins.
Learns(p) ==
  p.session.phase # "draining" /\ \E i \in DOMAIN p.rollout, l \in Lanes : ~p.rollout[i][l].cut
LearnedFrom(s, learned) ==
  [s EXCEPT !.learned = learned, !.streak = 0,
            !.phase = IF @ = "score_only" /\ Len(learned) = Budget THEN "complete" ELSE @]
Skipped(s) == [s EXCEPT !.skipped = @ + 1, !.streak = @ + 1]
Settle(p) ==
  IF p.rollout = <<>> THEN p.session
  ELSE IF Learns(p) THEN LearnedFrom(p.session, Append(p.session.learned, p.rollout))
  ELSE Skipped(p.session)

ModeOf(s) ==
  IF s.phase \notin {"sweep", "draining"} \/ Len(s.learned) < Sweep THEN s.phase
  ELSE IF \A l \in Lanes : s.weight[l] = 0 THEN "score_only" ELSE "draining"
Started(s) ==
  [s EXCEPT !.phase = ModeOf(s),
            !.streak = IF s.phase = "draining" /\ ModeOf(s) = "score_only" THEN 0 ELSE s.streak]

Full(p) == p.rollout = <<>> \/ Len(p.rollout) >= Decisions
Onward(p) == IF Full(p) THEN Point(Started(Settle(p)), <<>>) ELSE p

FirstDealt == [l \in Lanes |-> Snapshot(l, 0)]
FirstPoint ==
  Point([Unbuilt EXCEPT !.ordinal = [l \in Lanes |-> 1], !.weight = [l \in Lanes |-> Weight(Unbuilt)],
                        !.label = FirstDealt, !.current = FirstDealt],
        <<>>)

\* The policy that has been drawn so far determines the points of the job: path[n]
\* is the one after n decisions.
Path(path, k) ==
  /\ k \in 0 .. Len(policy)
  /\ path[0] = FirstPoint
  /\ \A n \in 0 .. k - 1 : path[n + 1] = Decide(Onward(path[n]), policy[n + 1])
  /\ \A n \in 0 .. k :
       /\ path[n] = Point(path[n].session, path[n].rollout)
       /\ IsSession(path[n].session) /\ path[n].session.draws = n
       /\ path[n].session.learned \in Seq(Seq(Rows)) /\ path[n].rollout \in Seq(Rows)
  /\ \A m, n \in 0 .. k :
       m <= n => Len(Onward(path[m]).session.learned) <= Len(Onward(path[n]).session.learned)

\* A session at a clean boundary, and one at which checkpoints are made.
Clean(path, k, s) ==
  s.draws \in 0 .. k /\ Full(path[s.draws]) /\ s = Settle(path[s.draws])
Saved(path, k, s) == Clean(path, k, s) /\ (s.draws = 0 \/ Learns(path[s.draws]))

\* Every process that runs the job, wherever it was resumed, is on the path, and so is
\* whatever is on disk.
Here(path, k) ==
  /\ at \in {"save", "record", "aim"} => Saved(path, k, session)
  /\ at = "ready" => Clean(path, k, session)
  /\ at = "decide" =>
       session.draws \in 0 .. k /\ Point(session, rollout) = Onward(path[session.draws])
  /\ at \in {"press", "release", "deal"} =>
       \E n \in 0 .. k : /\ session = Drawn(Onward(path[n]).session)
                         /\ rollout = Onward(path[n]).rollout
  /\ at = "update" =>
       /\ session.draws \in 0 .. k /\ Point(session, rollout) = path[session.draws]
       /\ Full(path[session.draws]) /\ rollout # <<>>

OnDisk(path, k) ==
  /\ recorded # None => Saved(path, k, recorded.session)
  /\ \A g \in generations :
       g = [session |-> g.session, log |-> g.session.current] /\ Saved(path, k, g.session)

Traced == \E path, k : Path(path, k) /\ Here(path, k) /\ OnDisk(path, k)

\* In the middle of a decision the logs are what its actions have made so far of the
\* worlds in which it was taken.
Taken == policy[session.draws]

Presses ==
  /\ op.args = [l \in Lanes |-> Primitive(Taken[l])]
  /\ \A l \in Lanes :
       log[l] = IF job[l] = "ok" THEN Pressed(session, Taken)[l] ELSE session.current[l]

Releases ==
  /\ op.args = [l \in ToRelease(session, Taken) |-> "release"]
  /\ \A l \in Lanes :
       log[l] = IF l \in ToRelease(session, Taken) /\ job[l] # "ok"
                THEN Pressed(session, Taken)[l] ELSE Released(session, Taken)[l]

Deals ==
  /\ op.args = [l \in Ended(session, Taken) |-> Snapshot(l, session.ordinal[l])]
  /\ \A l \in Lanes \ Ended(session, Taken) : log[l] = Released(session, Taken)[l]

Midway ==
  /\ at \in Boundary => log = session.current
  /\ recorded # None => /\ recorded.log = recorded.session.current
                        /\ recorded.log = [l \in Lanes |-> recorded.log[l]]
  /\ at = "press" => Presses
  /\ at = "release" => Releases
  /\ at = "deal" /\ op.kind = "restore" => Deals

-----------------------------------------------------------------------------
(* The operators on sessions. *)

LEMMA DrawnSession ==
  ASSUME NEW s, IsSession(s)
  PROVE  /\ IsSession(Drawn(s)) /\ Drawn(s).draws = s.draws + 1
         /\ Drawn(s).learned = s.learned /\ Drawn(s).current = s.current
         /\ Drawn(s).ordinal = s.ordinal /\ Drawn(s).weight = s.weight
BY DEF Drawn, IsSession

LEMMA CommittedSession ==
  ASSUME NEW s, IsSession(s), NEW worlds, NEW dealt
  PROVE  /\ IsSession(Committed(s, worlds, dealt))
         /\ Committed(s, worlds, dealt).draws = s.draws
         /\ Committed(s, worlds, dealt).learned = s.learned
         /\ Committed(s, worlds, dealt).current = worlds
<1> DEFINE seen == [l \in Lanes |-> IF l \in dealt THEN 0 ELSE s.seen[l] + 1]
           label == [l \in Lanes |-> IF l \in dealt THEN worlds[l] ELSE s.label[l]]
           ordinal == [l \in Lanes |-> IF l \in dealt THEN s.ordinal[l] + 1 ELSE s.ordinal[l]]
           weight == [l \in Lanes |-> IF l \in dealt THEN Weight(s) ELSE s.weight[l]]
<1>1. Committed(s, worlds, dealt) =
        [s EXCEPT !.seen = seen, !.current = worlds, !.label = label, !.ordinal = ordinal,
                  !.weight = weight]
  BY DEF Committed
<1> HIDE DEF seen, label, ordinal, weight
<1> QED
  BY <1>1 DEF IsSession

LEMMA StartedSession ==
  ASSUME NEW s, IsSession(s)
  PROVE  /\ IsSession(Started(s)) /\ Started(s).draws = s.draws
         /\ Started(s).learned = s.learned /\ Started(s).current = s.current
<1> DEFINE phase == ModeOf(s)
           streak == IF s.phase = "draining" /\ ModeOf(s) = "score_only" THEN 0 ELSE s.streak
<1>1. Started(s) = [s EXCEPT !.phase = phase, !.streak = streak]
  BY DEF Started
<1> HIDE DEF phase, streak
<1> QED
  BY <1>1 DEF IsSession

\* A rollout that is learned from is what is learned, any other leaves no trace in it.
LEMMA SettledSession ==
  ASSUME NEW p, IsSession(p.session)
  PROVE  /\ IsSession(Settle(p)) /\ Settle(p).draws = p.session.draws
         /\ Settle(p).current = p.session.current
         /\ p.rollout # <<>> /\ Learns(p) =>
              Settle(p).learned = Append(p.session.learned, p.rollout)
         /\ p.rollout = <<>> \/ ~Learns(p) => Settle(p).learned = p.session.learned
<1> DEFINE s == p.session
           learned == Append(s.learned, p.rollout)
           phase == IF s.phase = "score_only" /\ Len(learned) = Budget THEN "complete"
                    ELSE s.phase
           skipped == s.skipped + 1
           streak == s.streak + 1
<1>1. IsSession(s)
  OBVIOUS
<1>2. CASE p.rollout = <<>>
  BY <1>1, <1>2 DEF Settle
<1>3. CASE p.rollout # <<>> /\ Learns(p)
  <2>1. Settle(p) = [s EXCEPT !.learned = learned, !.streak = 0, !.phase = phase]
    BY <1>3 DEF Settle, LearnedFrom
  <2> HIDE DEF s, learned, phase
  <2>2. /\ IsSession(Settle(p)) /\ Settle(p).draws = s.draws
        /\ Settle(p).learned = learned /\ Settle(p).current = s.current
    BY <1>1, <2>1 DEF IsSession
  <2> QED
    BY <1>3, <2>2 DEF s, learned
<1>4. CASE p.rollout # <<>> /\ ~Learns(p)
  <2>1. Settle(p) = [s EXCEPT !.skipped = skipped, !.streak = streak]
    BY <1>4 DEF Settle, Skipped
  <2> HIDE DEF s, skipped, streak
  <2>2. /\ IsSession(Settle(p)) /\ Settle(p).draws = s.draws
        /\ Settle(p).learned = s.learned /\ Settle(p).current = s.current
    BY <1>1, <2>1 DEF IsSession
  <2> QED
    BY <1>4, <2>2 DEF s
<1> QED
  BY <1>2, <1>3, <1>4

\* What becomes of a point at the end of its rollout.
LEMMA GoingOnward ==
  ASSUME NEW p, p = Point(p.session, p.rollout), IsSession(p.session),
         p.session.learned \in Seq(Seq(Rows)), p.rollout \in Seq(Rows)
  PROVE  /\ IsSession(Onward(p).session) /\ Onward(p).session.draws = p.session.draws
         /\ Full(p) => Onward(p).session.learned = Settle(p).learned
         /\ Len(Onward(p).session.learned) \in Nat
         /\ Len(p.session.learned) <= Len(Onward(p).session.learned)
         /\ Full(p) /\ Learns(p) => Len(Onward(p).session.learned) = Len(p.session.learned) + 1
<1>1. IsSession(Settle(p)) /\ Settle(p).draws = p.session.draws
  BY SettledSession
<1>2. /\ IsSession(Started(Settle(p))) /\ Started(Settle(p)).draws = p.session.draws
      /\ Started(Settle(p)).learned = Settle(p).learned
  BY <1>1, StartedSession
<1>3. Learns(p) => p.rollout # <<>>
  BY DEF Learns
<1>4. /\ Len(p.session.learned) \in Nat
      /\ Len(Append(p.session.learned, p.rollout)) = Len(p.session.learned) + 1
  OBVIOUS
<1>5. CASE Full(p)
  <2>1. Onward(p).session = Started(Settle(p))
    BY <1>5 DEF Onward, Point
  <2>2. /\ Learns(p) => Len(Settle(p).learned) = Len(p.session.learned) + 1
        /\ ~Learns(p) => Len(Settle(p).learned) = Len(p.session.learned)
    BY <1>3, <1>4, SettledSession
  <2>3. Onward(p).session.learned = Settle(p).learned
    BY <1>2, <2>1
  <2>4. /\ Learns(p) => Len(Onward(p).session.learned) = Len(p.session.learned) + 1
        /\ ~Learns(p) => Len(Onward(p).session.learned) = Len(p.session.learned)
    BY <2>2, <2>3
  <2>5. /\ Len(Onward(p).session.learned) \in Nat
        /\ Len(p.session.learned) <= Len(Onward(p).session.learned)
    BY <1>4, <2>4
  <2> QED
    BY <1>2, <2>1, <2>3, <2>4, <2>5
<1>6. CASE ~Full(p)
  BY <1>4, <1>6 DEF Onward
<1> QED
  BY <1>5, <1>6

\* Two boundaries at which checkpoints are made and the same has been learned are one.
LEMMA SavedInOrder ==
  ASSUME NEW path, NEW k, Path(path, k), NEW s, Saved(path, k, s), NEW t, Saved(path, k, t),
         s.draws < t.draws
  PROVE  Len(s.learned) # Len(t.learned)
<1> DEFINE learned(n) == Len(Onward(path[n]).session.learned)
           m == t.draws
<1>1. k \in Nat /\ s.draws \in 0 .. k /\ m \in 1 .. k /\ m - 1 \in 0 .. k - 1 /\ m - 1 \in 0 .. k
  BY DEF Path, Saved, Clean
<1>2. ASSUME NEW u, Saved(path, k, u)
      PROVE  Len(u.learned) = learned(u.draws)
  <2>1. u.draws \in 0 .. k /\ Full(path[u.draws]) /\ u = Settle(path[u.draws])
    BY <1>2 DEF Saved, Clean
  <2>2. Onward(path[u.draws]).session.learned = Settle(path[u.draws]).learned
    BY <2>1, GoingOnward DEF Path
  <2> QED
    BY <2>1, <2>2
<1>3. learned(m) = Len(path[m].session.learned) + 1
  <2>1. m \in 0 .. k /\ Full(path[m]) /\ Learns(path[m])
    BY <1>1 DEF Saved, Clean
  <2> QED
    BY <2>1, GoingOnward DEF Path
<1>4. Len(path[m].session.learned) = learned(m - 1)
  <2> DEFINE p == Onward(path[m - 1])
  <2>1. path[m] = Decide(p, policy[m])
    BY <1>1 DEF Path
  <2>2. IsSession(p.session)
    BY <1>1, GoingOnward DEF Path
  <2> HIDE DEF p
  <2>3. Decide(p, policy[m]).session.learned = p.session.learned
    BY <2>2, DrawnSession, CommittedSession DEF Decide, Point
  <2> QED
    BY <2>1, <2>3 DEF p
<1>5. learned(s.draws) <= learned(m - 1) /\ learned(s.draws) \in Nat /\ learned(m - 1) \in Nat
  <2>1. s.draws \in 0 .. k /\ s.draws <= m - 1
    BY <1>1
  <2>2. \A n \in 0 .. k : learned(n) \in Nat
    BY GoingOnward DEF Path
  <2> QED
    BY <1>1, <2>1, <2>2 DEF Path
<1> HIDE DEF learned, m
<1>6. Len(s.learned) = learned(s.draws) /\ Len(t.learned) = learned(t.draws)
  BY <1>2
<1> QED
  BY <1>3, <1>4, <1>5, <1>6 DEF m

LEMMA SavedOnce ==
  ASSUME NEW path, NEW k, Path(path, k), NEW s, Saved(path, k, s), NEW t, Saved(path, k, t),
         Len(s.learned) = Len(t.learned)
  PROVE  s = t
<1>1. s.draws \in Nat /\ t.draws \in Nat
  BY DEF Path, Saved, Clean
<1>2. s.draws = t.draws
  BY <1>1, SavedInOrder
<1> QED
  BY <1>2 DEF Saved, Clean

-----------------------------------------------------------------------------
(* The logs in the middle of a decision. *)

\* What a lane's step of a step call does: nothing, or the action it was given.
LEMMA StepOfLane ==
  ASSUME VectorInv, Opened, NEW l \in Lanes, LaneStep(l), op.kind = "step"
  PROVE  /\ op' = op /\ l \in DOMAIN op.args /\ job[l] # "ok"
         /\ \A k \in Lanes \ {l} : log'[k] = log[k] /\ job'[k] = job[k]
         /\ \/ log'[l] = log[l] /\ job'[l] # "ok"
            \/ log'[l] = After(log[l], op.args[l]) /\ job'[l] = "ok"
<1>1. /\ log = [k \in Lanes |-> log[k]]
      /\ job \in [Lanes -> {"idle", "todo", "sent", "spawned", "ok", "failed"}]
      /\ job[l] = "sent" => l \in DOMAIN op.args
      /\ op.kind \notin Replaces /\ op.kind # "reset"
  BY DEF VectorInv, Shape, LaneInv, Replaces
<1>2. CASE Receive(l)
  BY <1>1, <1>2 DEF Receive, Finish
<1>3. CASE Send(l) \/ WorkerAnswers(l) \/ WorkerAnswersBadly(l)
  BY <1>1, <1>3 DEF Send, WorkerAnswers, WorkerAnswersBadly, Finish, Calls
<1>4. ~(ResetInPlace(l) \/ ResetInPlaceFails(l))
  BY <1>1 DEF ResetInPlace, ResetInPlaceFails, InPlace
<1>5. ~(Spawn(l) \/ SpawnFails(l) \/ Replay(l) \/ ReplayFails(l) \/ Swap(l))
  BY <1>1 DEF Spawn, SpawnFails, Replay, ReplayFails, Swap, Calls
<1> QED
  BY <1>2, <1>3, <1>4, <1>5 DEF LaneStep

LEMMA MacroAction ==
  ASSUME NEW s, NEW a, NEW l \in Lanes
  PROVE  /\ Pressed(s, a)[l] = After(s.current[l], Primitive(a[l]))
         /\ Released(s, a)[l] = IF l \in ToRelease(s, a)
                                THEN After(Pressed(s, a)[l], "release") ELSE Pressed(s, a)[l]
         /\ WorldsAfter(s, a)[l] = IF l \in Ended(s, a) THEN Snapshot(l, s.ordinal[l])
                                   ELSE Released(s, a)[l]
<1>1. Pressed(s, a)[l] = After(s.current[l], Primitive(a[l]))
  BY DEF Pressed
<1>2. Released(s, a)[l] = IF l \in ToRelease(s, a)
                          THEN After(Pressed(s, a)[l], "release") ELSE Pressed(s, a)[l]
  BY DEF Released
<1>3. WorldsAfter(s, a)[l] = IF l \in Ended(s, a) THEN Snapshot(l, s.ordinal[l])
                             ELSE Released(s, a)[l]
  BY DEF WorldsAfter
<1> QED
  BY <1>1, <1>2, <1>3

\* The end of a macro action: every lane has done what was decided.
LEMMA MacroDone ==
  ASSUME Inv, Midway, Settled
  PROVE  /\ \A l \in Lanes : log[l] = Released(session, Taken)[l]
         /\ Done = Ended(session, Taken)
<1>1. /\ \A l \in DOMAIN op.args : job[l] = "ok"
      /\ DOMAIN op.args \subseteq Lanes
  BY DEF Settled, Returned, Inv, SessionInv, VectorInv, CallInv, AllOk
<1>2. CASE at = "press"
  <2>1. Presses /\ Releasing = {}
    BY <1>2 DEF Midway, Settled, Returned
  <2>2. \A l \in Lanes : log[l] = Pressed(session, Taken)[l]
    BY <1>1, <2>1 DEF Presses
  <2>3. ToRelease(session, Taken) = {}
    BY <2>1, <2>2 DEF Releasing, ToRelease, Action, Taken
  <2>4. \A l \in Lanes : Released(session, Taken)[l] = Pressed(session, Taken)[l]
    BY <2>3, MacroAction
  <2> QED
    BY <2>2, <2>4 DEF Done, Ended
<1>3. CASE at = "release"
  <2>1. Releases
    BY <1>3 DEF Midway
  <2>2. \A l \in ToRelease(session, Taken) : job[l] = "ok"
    BY <1>1, <2>1 DEF Releases
  <2>3. \A l \in Lanes : log[l] = Released(session, Taken)[l]
    BY <2>1, <2>2 DEF Releases
  <2> QED
    BY <2>3 DEF Done, Ended
<1> QED
  BY <1>2, <1>3 DEF Settled, Returned

\* What a commit finds in the logs, and which lanes have been dealt anew.
LEMMA DecisionDone ==
  ASSUME Inv, Midway, Returned("deal", "ok") \/ (Settled /\ Done = {})
  PROVE  log = WorldsAfter(session, Taken) /\ Dealt = Ended(session, Taken)
<1>1. /\ \A l \in Lanes : log[l] = WorldsAfter(session, Taken)[l]
      /\ Dealt = Ended(session, Taken)
  <2>1. CASE Returned("deal", "ok")
    <3>1. Placing /\ \A l \in DOMAIN op.args : log[l] = op.args[l]
      BY <2>1, Placed DEF Returned
    <3>2. op.kind = "restore"
      BY <2>1 DEF Returned, Inv, SessionInv, VectorInv, CallInv, WorldInv
    <3>3. Deals
      BY <2>1, <3>2 DEF Midway, Returned
    <3>4. Dealt = Ended(session, Taken)
      BY <2>1, <3>3 DEF Dealt, Returned, Deals
    <3>5. \A l \in Ended(session, Taken) : log[l] = Snapshot(l, session.ordinal[l])
      BY <3>1, <3>3 DEF Deals
    <3> QED
      BY <3>3, <3>4, <3>5, MacroAction DEF Deals
  <2>2. CASE Settled /\ Done = {}
    <3>1. Ended(session, Taken) = {} /\ \A l \in Lanes : log[l] = Released(session, Taken)[l]
      BY <2>2, MacroDone
    <3>2. at # "deal"
      BY <2>2 DEF Settled, Returned
    <3> QED
      BY <3>1, <3>2, MacroAction DEF Dealt
  <2> QED
    BY <2>1, <2>2
<1>2. log = [l \in Lanes |-> log[l]]
  BY DEF Inv, SessionInv, VectorInv, Shape
<1>3. WorldsAfter(session, Taken) = [l \in Lanes |-> WorldsAfter(session, Taken)[l]]
  BY DEF WorldsAfter
<1> QED
  BY <1>1, <1>2, <1>3

\* What no step but a commit may touch: the logs and what they are compared with.
LEMMA CheckpointOfWorlds ==
  ASSUME Midway, recorded' = recorded
  PROVE  recorded' # None => /\ recorded'.log = recorded'.session.current
                             /\ recorded'.log = [l \in Lanes |-> recorded'.log[l]]
BY DEF Midway

LEMMA MidwayOfALane ==
  ASSUME Inv, Midway, NEW l \in Lanes, LaneStep(l), UNCHANGED <<durable, crashes, at, memory>>
  PROVE  Midway'
<1>1. /\ VectorInv /\ at' = at /\ session' = session /\ recorded' = recorded
      /\ policy' = policy
  BY DEF Inv, SessionInv, durable, memory
<1>2. at \in Calling
  <2>1. ASSUME op = NoCall
        PROVE  FALSE
    <3>1. job[l] = "idle"
      BY <1>1, <2>1 DEF VectorInv, LaneInv, NoCall
    <3> QED
      BY <2>1, <3>1 DEF LaneStep, Send, WorkerAnswers, WorkerAnswersBadly, Receive, ResetInPlace,
         ResetInPlaceFails, Spawn, SpawnFails, Replay, ReplayFails, Swap, Calls
  <2> QED
    BY <2>1 DEF Inv, SessionInv
<1>3. Opened /\ at \notin Boundary
  BY <1>2 DEF Inv, SessionInv, Calling, Boundary
<1>4. CASE at \in {"press", "release"}
  <2>1. op.kind = "step"
    BY <1>4 DEF Inv, WorldInv, Acting
  <2>2. /\ op' = op /\ l \in DOMAIN op.args /\ job[l] # "ok"
        /\ \A k \in Lanes \ {l} : log'[k] = log[k] /\ job'[k] = job[k]
        /\ \/ log'[l] = log[l] /\ job'[l] # "ok"
           \/ log'[l] = After(log[l], op.args[l]) /\ job'[l] = "ok"
    BY <1>1, <1>3, <2>1, StepOfLane
  <2>3. ASSUME at = "press"
        PROVE  Presses'
    <3>1. Presses
      BY <2>3 DEF Midway
    <3>2. /\ log[l] = session.current[l] /\ op.args[l] = Primitive(Taken[l])
          /\ Pressed(session, Taken)[l] = After(session.current[l], Primitive(Taken[l]))
      BY <2>2, <3>1, MacroAction DEF Presses
    <3>3. \A k \in Lanes :
            log'[k] = IF job'[k] = "ok" THEN Pressed(session, Taken)[k] ELSE session.current[k]
      BY <2>2, <3>1, <3>2 DEF Presses
    <3> QED
      BY <1>1, <2>2, <3>1, <3>3 DEF Presses, Taken, Pressed
  <2>4. ASSUME at = "release"
        PROVE  Releases'
    <3>1. Releases
      BY <2>4 DEF Midway
    <3>2. /\ log[l] = Pressed(session, Taken)[l] /\ l \in ToRelease(session, Taken)
          /\ op.args[l] = "release"
          /\ Released(session, Taken)[l] = After(Pressed(session, Taken)[l], "release")
      BY <2>2, <3>1, MacroAction DEF Releases
    <3>3. \A k \in Lanes :
            log'[k] = IF k \in ToRelease(session, Taken) /\ job'[k] # "ok"
                      THEN Pressed(session, Taken)[k] ELSE Released(session, Taken)[k]
      BY <2>2, <3>1, <3>2 DEF Releases
    <3> QED
      BY <1>1, <2>2, <3>1, <3>3 DEF Releases, Taken, Pressed, ToRelease, Released
  <2> QED
    BY <1>1, <1>3, <1>4, <2>3, <2>4, CheckpointOfWorlds DEF Midway
<1>5. CASE at = "deal"
  <2>1. op' = op /\ \A k \in Lanes \ {l} : log'[k] = log[k]
    BY <1>1, <1>3, LogOfLane
  <2>2. op.kind = "restore" => l \in DOMAIN op.args
    BY <1>1, <1>3, LogOfLane
  <2>3. ASSUME op.kind = "restore"
        PROVE  Deals'
    <3>1. Deals
      BY <1>5, <2>3 DEF Midway
    <3>2. l \in Ended(session, Taken)
      BY <2>2, <2>3, <3>1 DEF Deals
    <3>3. \A k \in Lanes \ Ended(session, Taken) : log'[k] = Released(session, Taken)[k]
      BY <2>1, <3>1, <3>2 DEF Deals
    <3> QED
      BY <1>1, <2>1, <3>1, <3>3 DEF Deals, Taken, Pressed, ToRelease, Released, Ended
  <2> QED
    BY <1>1, <1>3, <1>5, <2>1, <2>3, CheckpointOfWorlds DEF Midway
<1>6. CASE at \in {"reset", "first", "load"}
  BY <1>1, <1>3, <1>6, CheckpointOfWorlds DEF Midway
<1> QED
  BY <1>2, <1>4, <1>5, <1>6 DEF Calling

\* The same session, policy and call in the same worlds.
LEMMA MidwayStill ==
  ASSUME Midway, UNCHANGED <<at, session, recorded, policy, log, job>>,
         op' = op \/ (op'.kind = op.kind /\ op'.args = op.args)
  PROVE  Midway'
<1>1. at = "press" => Presses'
  BY DEF Midway, Presses, Taken, Pressed
<1>2. at = "release" => Releases'
  BY DEF Midway, Releases, Taken, Pressed, ToRelease, Released
<1>3. at = "deal" /\ op'.kind = "restore" => Deals'
  BY DEF Midway, Deals, Taken, Pressed, ToRelease, Released, Ended
<1> QED
  BY <1>1, <1>2, <1>3, CheckpointOfWorlds DEF Midway

\* Steps between boundaries change neither the logs nor the worlds of the session.
LEMMA MidwayOfClerks ==
  ASSUME Inv, Midway, Aim \/ RunUpdate \/ Skip \/ Learn \/ Publish \/ Record
  PROVE  Midway'
<1>1. /\ at \in Boundary /\ at' \in Boundary \ {"press", "release", "deal"}
      /\ log' = log /\ log = session.current
      /\ recorded' = recorded \/ recorded' = [session |-> session, log |-> log]
  BY DEF Aim, RunUpdate, Skip, Learn, Publish, Record, Boundary, durable, memory, vectorVars, Midway
<1>2. session'.current = session.current
  <2>1. IsSession(session)
    BY DEF Inv, TailInv, Clock
  <2>2. CASE Aim \/ Publish \/ Record
    BY <2>2 DEF Aim, Publish, Record, memory
  <2>3. CASE RunUpdate
    BY <2>1, <2>3 DEF RunUpdate, IsSession
  <2>4. CASE Skip
    BY <2>1, <2>4 DEF Skip, IsSession
  <2>5. CASE Learn
    <3> DEFINE learned == Append(session.learned, rollout)
               phase == IF session.phase = "score_only" /\ Len(learned) = Budget
                        THEN "complete" ELSE session.phase
    <3>1. session' = [session EXCEPT !.learned = learned, !.streak = 0, !.phase = phase]
      BY <2>5 DEF Learn
    <3> HIDE DEF learned, phase
    <3> QED
      BY <2>1, <3>1 DEF IsSession
  <2> QED
    BY <2>2, <2>3, <2>4, <2>5
<1>3. recorded' # None => /\ recorded'.log = recorded'.session.current
                          /\ recorded'.log = [l \in Lanes |-> recorded'.log[l]]
  <2>1. CASE recorded' = recorded
    BY <2>1, CheckpointOfWorlds
  <2>2. CASE recorded' = [session |-> session, log |-> log]
    <3>1. log = [l \in Lanes |-> log[l]]
      BY DEF Inv, SessionInv, VectorInv, Shape
    <3> QED
      BY <1>1, <2>2, <3>1
  <2> QED
    BY <1>1, <2>1, <2>2
<1> QED
  BY <1>1, <1>2, <1>3 DEF Midway, Boundary

\* The logs of a session that begins or is resumed are those it was placed in.
LEMMA MidwayOfStarts ==
  ASSUME Inv, Midway, CommitFirst \/ Restore
  PROVE  Midway'
<1>1. /\ at \in {"first", "load"} /\ op.answer = "ok" /\ at' \in {"save", "aim"}
      /\ recorded' = recorded /\ log' = log
  BY DEF CommitFirst, Restore, Returned, durable, Return
<1>2. Placing /\ \A l \in DOMAIN op.args : log[l] = op.args[l]
  BY <1>1, Placed
<1>3. log = [l \in Lanes |-> log[l]]
  BY DEF Inv, SessionInv, VectorInv, Shape
<1>4. log = session'.current
  <2>1. CASE CommitFirst
    <3>1. /\ at = "first"
          /\ session' = [session EXCEPT
               !.ordinal = [l \in Lanes |-> 1], !.weight = [l \in Lanes |-> Weight(session)],
               !.label = op.args, !.current = op.args]
      BY <2>1 DEF CommitFirst, Returned
    <3>2. session'.current = op.args
      BY <3>1 DEF Inv, TailInv, Clock, IsSession
    <3>3. op.args = [l \in Lanes |-> Snapshot(l, 0)]
      BY <1>2, <3>1 DEF Placing
    <3>4. log = op.args
      BY <1>2, <1>3, <3>3
    <3> QED
      BY <3>2, <3>4
  <2>2. CASE Restore
    <3>1. at = "load" /\ session' = recorded.session /\ recorded # None
      BY <2>2 DEF Restore, Returned, Inv, TailInv
    <3>2. /\ op.args = recorded.log /\ recorded.log = recorded.session.current
          /\ recorded.log = [l \in Lanes |-> recorded.log[l]]
      BY <1>2, <3>1 DEF Placing, Midway
    <3>3. DOMAIN op.args = Lanes
      BY <3>2
    <3>4. \A l \in Lanes : log[l] = recorded.log[l]
      BY <1>2, <3>2, <3>3
    <3> QED
      BY <1>3, <3>1, <3>2, <3>4
  <2> QED
    BY <2>1, <2>2
<1> QED
  BY <1>1, <1>4, CheckpointOfWorlds DEF Midway, Boundary

LEMMA MidwayOfPress ==
  ASSUME Inv, Midway, Press
  PROVE  /\ Midway' /\ session' = Drawn(session)
<1>1. /\ at = "decide" /\ at' = "press" /\ recorded' = recorded /\ log = session.current
      /\ session' = [session EXCEPT !.draws = @ + 1]
  BY DEF Press, Midway, Boundary
<1>2. session' = Drawn(session)
  BY <1>1 DEF Drawn
<1>3. session'.current = session.current /\ session'.draws = session.draws + 1
  BY <1>2, DrawnSession DEF Inv, TailInv, Clock
<1>4. PICK actions \in Semantic :
        /\ session.draws < Len(policy) => actions = policy[session.draws + 1]
        /\ policy' = IF session.draws < Len(policy) THEN policy ELSE Append(policy, actions)
        /\ Begin("step", [l \in Lanes |-> Primitive(actions[l])])
  BY DEF Press
<1>5. policy'[session.draws + 1] = actions
  BY <1>4 DEF Inv, TailInv, Clock
<1>6. Taken' = actions
  BY <1>3, <1>5 DEF Taken
<1>7. /\ op'.args = [l \in Lanes |-> Primitive(actions[l])] /\ log' = log
      /\ \A l \in Lanes : job'[l] # "ok"
  BY <1>4 DEF Begin
<1>8. Presses'
  BY <1>1, <1>3, <1>6, <1>7 DEF Presses
<1> QED
  BY <1>1, <1>2, <1>8, CheckpointOfWorlds DEF Midway, Boundary

LEMMA MidwayOfRelease ==
  ASSUME Inv, Midway, Release
  PROVE  Midway'
<1>1. /\ at = "press" /\ at' = "release" /\ recorded' = recorded /\ session' = session
      /\ policy' = policy /\ op.answer = "ok"
      /\ Begin("step", [l \in Releasing |-> "release"])
  BY DEF Release, Returned, durable, memory
<1>2. Presses
  BY <1>1 DEF Midway
<1>3. \A l \in Lanes : job[l] = "ok"
  BY <1>1, <1>2 DEF Presses, Inv, SessionInv, VectorInv, CallInv, AllOk
<1>4. \A l \in Lanes : log[l] = Pressed(session, Taken)[l]
  BY <1>2, <1>3 DEF Presses
<1>5. Releasing = ToRelease(session, Taken)
  BY <1>4 DEF Releasing, ToRelease, Action, Taken
<1>6. /\ op'.args = [l \in ToRelease(session, Taken) |-> "release"] /\ log' = log
      /\ \A l \in ToRelease(session, Taken) : l \in Lanes => job'[l] # "ok"
  BY <1>1, <1>5 DEF Begin
<1>7. \A l \in Lanes :
        log'[l] = IF l \in ToRelease(session, Taken) /\ job'[l] # "ok"
                  THEN Pressed(session, Taken)[l] ELSE Released(session, Taken)[l]
  BY <1>4, <1>6, MacroAction
<1>8. Releases'
  BY <1>1, <1>6, <1>7 DEF Releases, Taken, Pressed, ToRelease, Released
<1> QED
  BY <1>1, <1>8, CheckpointOfWorlds DEF Midway, Boundary

LEMMA MidwayOfDeal ==
  ASSUME Inv, Midway, Deal
  PROVE  Midway'
<1>1. /\ at' = "deal" /\ recorded' = recorded /\ session' = session
      /\ policy' = policy /\ Settled
      /\ CallRestore([l \in Done |-> Snapshot(l, session.ordinal[l])])
  BY DEF Deal, durable, memory
<1>2. /\ Done = Ended(session, Taken)
      /\ \A l \in Lanes : log[l] = Released(session, Taken)[l]
  BY <1>1, MacroDone
<1>3. /\ op'.args = [l \in Ended(session, Taken) |-> Snapshot(l, session.ordinal[l])]
      /\ log' = log
  BY <1>1, <1>2 DEF CallRestore, Begin
<1>4. Deals'
  BY <1>1, <1>2, <1>3 DEF Deals, Taken, Pressed, ToRelease, Released, Ended
<1> QED
  BY <1>1, <1>4, CheckpointOfWorlds DEF Midway, Boundary

\* The session that a commit makes.
LEMMA WhatIsCommitted ==
  ASSUME Inv, Midway, Commit
  PROVE  /\ session' = Committed(session, WorldsAfter(session, Taken), Ended(session, Taken))
         /\ rollout' = Append(rollout, RowOf(session, Taken))
<1>1. log = WorldsAfter(session, Taken) /\ Dealt = Ended(session, Taken)
  BY DecisionDone DEF Commit
<1>2. session' = Committed(session, log, Dealt)
  BY DEF Commit, Committed
<1>3. Row = RowOf(session, Taken)
  BY DEF Row, RowOf, Action, Cut, Taken
<1> QED
  BY <1>1, <1>2, <1>3 DEF Commit

LEMMA MidwayOfCommit ==
  ASSUME Inv, Midway, Commit
  PROVE  Midway'
<1>1. at' \in {"decide", "update"} /\ recorded' = recorded /\ log' = log
  BY DEF Commit, durable, Return
<1>2. session'.current = log
  BY WhatIsCommitted, DecisionDone, CommittedSession DEF Commit, Inv, TailInv, Clock
<1> QED
  BY <1>1, <1>2, CheckpointOfWorlds DEF Midway, Boundary

LEMMA MidwayOfOthers ==
  ASSUME Inv, Midway,
         \/ Launch \/ BeginJob \/ DealFirst \/ Load \/ EndSegment \/ CallFails \/ SkipLimit
         \/ DiskFails \/ BuildFails \/ AimMisses \/ Crash
  PROVE  Midway'
<1>1. at' \in {"off", "built", "reset", "first", "load"} /\ recorded' = recorded
  BY DEF Launch, BeginJob, DealFirst, Load, EndSegment, CallFails, SkipLimit, DiskFails,
         BuildFails, AimMisses, Crash, Fails, Forget, durable
<1> QED
  BY <1>1, CheckpointOfWorlds DEF Midway, Boundary

\* The invariant of the middle of a decision: what the logs of the lanes are, by the
\* actions that were drawn, at every step of the calls that carry them out.
THEOREM MidwayInvariant == SessionSpec => []Midway
<1>1. SessionInit => Midway
  BY DEF SessionInit, Midway, Boundary
<1>2. Inv /\ Midway /\ [SessionNext]_vars => Midway'
  <2> SUFFICES ASSUME Inv, Midway, [SessionNext]_vars
               PROVE  Midway'
    OBVIOUS
  <2>1. CASE VectorRuns
    <3>1. CASE Answer
      <4>1. UNCHANGED <<at, session, recorded, policy, log>>
        BY <2>1, <3>1 DEF VectorRuns, Answer, durable, memory
      <4>2. op = [kind |-> op.kind, args |-> op.args, was |-> op.was, answer |-> op.answer]
        BY DEF Inv, SessionInv, VectorInv, Shape
      <4>3. \/ op'.kind = "rollback" /\ op.kind = "restore"
            \/ op'.kind = op.kind /\ op'.args = op.args /\ job' = job
        BY <3>1, <4>2 DEF Answer
      <4>4. CASE op'.kind = "rollback" /\ op.kind = "restore"
        <5>1. at \notin {"press", "release"}
          BY <4>4 DEF Inv, WorldInv, Acting
        <5> QED
          BY <4>1, <4>4, <5>1, CheckpointOfWorlds DEF Midway
      <4> QED
        BY <4>1, <4>3, <4>4, MidwayStill
    <3>2. ASSUME NEW l \in Lanes, LaneStep(l)
          PROVE  Midway'
      BY <2>1, <3>2, MidwayOfALane DEF VectorRuns
    <3> QED
      BY <2>1, <3>1, <3>2 DEF VectorRuns, VectorStep
  <2>2. CASE AWorkerDies \/ UNCHANGED vars
    <3>1. UNCHANGED <<at, session, recorded, policy, log, op, job>>
      BY <2>2 DEF AWorkerDies, WorkerDies, vars, durable, memory, vectorVars
    <3> QED
      BY <3>1, MidwayStill
  <2>3. CASE Aim \/ RunUpdate \/ Skip \/ Learn \/ Publish \/ Record
    BY <2>3, MidwayOfClerks
  <2>4. CASE CommitFirst \/ Restore
    BY <2>4, MidwayOfStarts
  <2>5. CASE Press \/ Release \/ Deal \/ Commit
    BY <2>5, MidwayOfPress, MidwayOfRelease, MidwayOfDeal, MidwayOfCommit
  <2>6. CASE \/ Launch \/ BeginJob \/ DealFirst \/ Load \/ EndSegment \/ CallFails \/ SkipLimit
             \/ DiskFails \/ BuildFails \/ AimMisses \/ Crash
    BY <2>6, MidwayOfOthers
  <2> QED
    BY <2>1, <2>2, <2>3, <2>4, <2>5, <2>6 DEF SessionNext, SessionStep
<1> QED
  BY <1>1, <1>2, VectorInvariant, TailInvariant, WorldInvariant, PTL DEF SessionSpec, Inv

-----------------------------------------------------------------------------
(* Steps along the path. *)

\* The draws that determine the path are never taken back.
LEMMA PathStays ==
  ASSUME NEW path, NEW k, Path(path, k), policy \in Seq(Semantic),
         policy' = policy \/ \E a \in Semantic : policy' = Append(policy, a)
  PROVE  Path(path, k)'
<1>1. /\ Len(policy) \in Nat /\ Len(policy') \in Nat /\ Len(policy) <= Len(policy')
      /\ \A n \in 1 .. Len(policy) : policy'[n] = policy[n]
  OBVIOUS
<1>2. k \in 0 .. Len(policy) /\ \A n \in 0 .. k - 1 : n + 1 \in 1 .. Len(policy)
  BY <1>1 DEF Path
<1>3. k \in 0 .. Len(policy')
  BY <1>1, <1>2
<1>4. \A n \in 0 .. k - 1 : path[n + 1] = Decide(Onward(path[n]), policy'[n + 1])
  BY <1>1, <1>2 DEF Path
<1> QED
  BY <1>3, <1>4 DEF Path

\* A step that makes a checkpoint or nothing.
LEMMA DiskStays ==
  ASSUME NEW path, NEW k, OnDisk(path, k), UNCHANGED <<recorded, generations>>
  PROVE  OnDisk(path, k)'
BY DEF OnDisk

LEMMA HereAtFirst ==
  ASSUME NEW path, NEW k, Path(path, k), Inv, CommitFirst
  PROVE  Here(path, k)'
<1>1. /\ session = Unbuilt /\ at = "first" /\ op.answer = "ok" /\ at' = "save"
      /\ session' = [session EXCEPT
           !.ordinal = [l \in Lanes |-> 1], !.weight = [l \in Lanes |-> Weight(session)],
           !.label = op.args, !.current = op.args]
  BY DEF CommitFirst, Returned, Inv, TailInv
<1>2. op.args = FirstDealt
  BY <1>1, Placed DEF Placing, FirstDealt
<1>3. session' = FirstPoint.session
  BY <1>1, <1>2 DEF FirstPoint, Point
<1>4. 0 \in 0 .. k /\ path[0] = FirstPoint /\ path[0].session.draws = 0
  BY DEF Path
<1>5. FirstPoint.rollout = <<>> /\ Settle(FirstPoint) = FirstPoint.session /\ Full(FirstPoint)
  BY DEF FirstPoint, Point, Settle, Full
<1>6. Saved(path, k, session')
  BY <1>3, <1>4, <1>5 DEF Saved, Clean
<1> QED
  BY <1>1, <1>6 DEF Here

LEMMA HereAtBoundaries ==
  ASSUME NEW path, NEW k, Here(path, k), OnDisk(path, k), Inv, Restore \/ Aim \/ Publish \/ Record
  PROVE  Here(path, k)'
<1>1. CASE Restore
  BY <1>1 DEF Restore, Returned, Inv, TailInv, OnDisk, Here
<1>2. CASE Aim
  BY <1>2 DEF Aim, Here, Saved
<1>3. CASE Publish \/ Record
  BY <1>3 DEF Publish, Record, memory, Here, Saved
<1> QED
  BY <1>1, <1>2, <1>3

LEMMA HereAtTheUpdate ==
  ASSUME NEW path, NEW k, Path(path, k), Here(path, k), Skip \/ Learn
  PROVE  Here(path, k)'
<1> DEFINE p == path[session.draws]
<1>1. /\ at = "update" /\ session.draws \in 0 .. k /\ p = Point(session, rollout)
      /\ Full(p) /\ rollout # <<>>
  BY DEF Skip, Learn, Here
<1>2. p.session = session /\ p.rollout = rollout
  BY <1>1 DEF Point
<1>3. Learns(p) <=> ~Draining /\ Trainable
  BY <1>2 DEF Learns, Draining, Trainable
<1>4. IsSession(session)
  BY <1>1, <1>2 DEF Path
<1>5. session' = Settle(p) /\ at' \in {"save", "ready"} /\ (at' = "save" => Learns(p))
  <2>1. CASE Skip
    BY <1>1, <1>2, <1>3, <2>1 DEF Skip, Settle, Skipped
  <2>2. CASE Learn
    BY <1>1, <1>2, <1>3, <2>2 DEF Learn, Settle, LearnedFrom
  <2> QED
    BY <2>1, <2>2
<1>6. session'.draws = session.draws
  BY <1>2, <1>4, <1>5, SettledSession
<1> HIDE DEF p
<1>7. Clean(path, k, session') /\ (at' = "save" => Saved(path, k, session'))
  BY <1>1, <1>5, <1>6 DEF Clean, Saved, p
<1> QED
  BY <1>5, <1>7 DEF Here

LEMMA HereAtTheStart ==
  ASSUME NEW path, NEW k, Path(path, k), Here(path, k), Inv, RunUpdate
  PROVE  Here(path, k)'
<1>1. /\ at = "ready" /\ at' = "decide" /\ rollout' = <<>>
      /\ session' = [session EXCEPT !.phase = CollectionMode, !.streak = Streak]
  BY DEF RunUpdate
<1>2. session' = Started(session)
  BY <1>1 DEF Started, ModeOf, CollectionMode, Streak, AllZero
<1>3. /\ session.draws \in 0 .. k /\ Full(path[session.draws])
      /\ session = Settle(path[session.draws])
  BY <1>1 DEF Here, Clean
<1>4. session'.draws = session.draws
  BY <1>2, StartedSession DEF Inv, TailInv, Clock
<1>5. Point(session', rollout') = Onward(path[session.draws])
  BY <1>1, <1>2, <1>3 DEF Onward
<1> QED
  BY <1>1, <1>3, <1>4, <1>5 DEF Here

LEMMA HereInADecision ==
  ASSUME NEW path, NEW k, Here(path, k), Inv, Midway, Press \/ Release \/ Deal
  PROVE  Here(path, k)'
<1>1. at' \in {"press", "release", "deal"} /\ rollout' = rollout
  BY DEF Press, Release, Deal, memory
<1>2. \E n \in 0 .. k : /\ session' = Drawn(Onward(path[n]).session)
                        /\ rollout' = Onward(path[n]).rollout
  <2>1. CASE Press
    <3>1. session.draws \in 0 .. k /\ Point(session, rollout) = Onward(path[session.draws])
      BY <2>1 DEF Press, Here
    <3>2. Point(session, rollout).session = session /\ Point(session, rollout).rollout = rollout
      BY DEF Point
    <3>3. session' = Drawn(session)
      BY <2>1, MidwayOfPress
    <3> QED
      BY <1>1, <3>1, <3>2, <3>3
  <2>2. CASE Release \/ Deal
    <3>1. session' = session /\ at \in {"press", "release", "deal"}
      BY <2>2 DEF Release, Deal, Settled, Returned, memory
    <3> QED
      BY <1>1, <3>1 DEF Here
  <2> QED
    BY <2>1, <2>2
<1> QED
  BY <1>1, <1>2 DEF Here

\* The path is as long as any process has come.
LEMMA LongerPath ==
  ASSUME NEW path, NEW k, Path(path, k), k + 1 \in 1 .. Len(policy), NEW new,
         new = Decide(Onward(path[k]), policy[k + 1]),
         new = Point(new.session, new.rollout), IsSession(new.session), new.session.draws = k + 1,
         new.session.learned \in Seq(Seq(Rows)), new.rollout \in Seq(Rows)
  PROVE  \E longer :
           /\ Path(longer, k + 1) /\ longer[k + 1] = new
           /\ \A s : Saved(path, k, s) => Saved(longer, k + 1, s)
<1> DEFINE longer == [i \in 0 .. k + 1 |-> IF i = k + 1 THEN new ELSE path[i]]
           learned(q) == Len(Onward(q).session.learned)
<1>1. k \in Nat /\ k \in 0 .. k /\ k + 1 # k /\ k + 1 \in 0 .. Len(policy)
  BY DEF Path
<1>2. /\ longer[k + 1] = new
      /\ \A i \in 0 .. k : i \in 0 .. k + 1 /\ i # k + 1 /\ longer[i] = path[i]
  BY <1>1
<1> HIDE DEF longer
<1>3. longer[0] = FirstPoint
  BY <1>1, <1>2 DEF Path
<1>4. \A n \in 0 .. k : longer[n + 1] = Decide(Onward(longer[n]), policy[n + 1])
  <2> SUFFICES ASSUME NEW n \in 0 .. k
               PROVE  longer[n + 1] = Decide(Onward(longer[n]), policy[n + 1])
    OBVIOUS
  <2>1. CASE n = k
    BY <1>1, <1>2, <2>1
  <2>2. CASE n # k
    <3>1. n \in 0 .. k - 1 /\ n + 1 \in 0 .. k
      BY <1>1, <2>2
    <3>2. longer[n + 1] = path[n + 1] /\ longer[n] = path[n]
      BY <1>2, <3>1
    <3> QED
      BY <3>1, <3>2 DEF Path
  <2> QED
    BY <2>1, <2>2
<1>5. \A n \in 0 .. k + 1 : n \in 0 .. k \/ n = k + 1
  BY <1>1
<1>6. \A n \in 0 .. k + 1 :
        /\ longer[n] = Point(longer[n].session, longer[n].rollout)
        /\ IsSession(longer[n].session) /\ longer[n].session.draws = n
        /\ longer[n].session.learned \in Seq(Seq(Rows)) /\ longer[n].rollout \in Seq(Rows)
  BY <1>2, <1>5 DEF Path
<1>7. /\ \A n \in 0 .. k + 1 : learned(longer[n]) \in Nat
      /\ learned(longer[k]) <= learned(longer[k + 1])
  <2>1. \A n \in 0 .. k + 1 : learned(longer[n]) \in Nat
    BY <1>6, GoingOnward
  <2>2. Len(new.session.learned) <= learned(new) /\ Len(new.session.learned) \in Nat
    BY GoingOnward
  <2>3. new.session.learned = Onward(path[k]).session.learned
    <3> DEFINE p == Onward(path[k])
    <3>1. IsSession(p.session)
      BY <1>1, GoingOnward DEF Path
    <3> HIDE DEF p
    <3>2. Decide(p, policy[k + 1]).session.learned = p.session.learned
      BY <3>1, DrawnSession, CommittedSession DEF Decide, Point
    <3> QED
      BY <3>2 DEF p
  <2> QED
    BY <1>1, <1>2, <2>1, <2>2, <2>3
<1>8. ASSUME NEW m \in 0 .. k + 1, NEW n \in 0 .. k + 1, m <= n
      PROVE  learned(longer[m]) <= learned(longer[n])
  <2>1. \A i, j \in 0 .. k : i <= j => learned(longer[i]) <= learned(longer[j])
    BY <1>2 DEF Path
  <2>2. CASE n \in 0 .. k
    <3>1. m \in 0 .. k
      BY <1>1, <1>8, <2>2
    <3> QED
      BY <1>8, <2>1, <2>2, <3>1
  <2>3. CASE n = k + 1 /\ m \in 0 .. k
    <3>1. k \in 0 .. k /\ m <= k /\ k \in 0 .. k + 1
      BY <1>1, <2>3
    <3>2. learned(longer[m]) <= learned(longer[k])
      BY <2>1, <2>3, <3>1
    <3> HIDE DEF learned
    <3> QED
      BY <1>7, <2>3, <3>1, <3>2
  <2>4. CASE n = k + 1 /\ m = k + 1
    <3> HIDE DEF learned
    <3> QED
      BY <1>7, <2>4
  <2> QED
    BY <1>5, <2>2, <2>3, <2>4
<1>9. Path(longer, k + 1)
  <2>1. \A n \in 0 .. (k + 1) - 1 : longer[n + 1] = Decide(Onward(longer[n]), policy[n + 1])
    BY <1>1, <1>4
  <2>2. \A m, n \in 0 .. k + 1 :
          m <= n => Len(Onward(longer[m]).session.learned) <= Len(Onward(longer[n]).session.learned)
    BY <1>8
  <2> QED
    BY <1>1, <1>3, <1>6, <2>1, <2>2 DEF Path
<1>10. ASSUME NEW s, Saved(path, k, s)
       PROVE  Saved(longer, k + 1, s)
  BY <1>2, <1>10 DEF Saved, Clean
<1> QED
  BY <1>2, <1>9, <1>10

LEMMA TracedCommit ==
  ASSUME Traced, Inv, TailInv', Midway, Commit
  PROVE  Traced'
<1>1. PICK path, k : Path(path, k) /\ Here(path, k) /\ OnDisk(path, k)
  BY DEF Traced
<1>2. /\ at \in {"press", "release", "deal"} /\ UNCHANGED <<policy, recorded, generations>>
      /\ rollout' = Append(rollout, Row)
      /\ at' = IF Len(rollout') < Decisions THEN "decide" ELSE "update"
  BY DEF Commit, Settled, Returned, durable
<1>3. PICK n \in 0 .. k : /\ session = Drawn(Onward(path[n]).session)
                          /\ rollout = Onward(path[n]).rollout
  BY <1>1, <1>2 DEF Here
<1> DEFINE p == Onward(path[n])
           new == Point(session', rollout')
<1>4. k \in Nat /\ n \in Nat
  BY <1>1 DEF Path
<1>5. IsSession(p.session) /\ p.session.draws = n
  BY <1>1, GoingOnward DEF Path
<1>6. IsSession(session) /\ session.draws = n + 1 /\ n + 1 \in 1 .. Len(policy)
  <2> HIDE DEF p
  <2>1. IsSession(session) /\ session.draws = n + 1
    BY <1>3, <1>5, DrawnSession DEF p
  <2> QED
    BY <1>2, <2>1 DEF Inv, TailInv, RolloutInv
<1>7. new = Decide(p, policy[n + 1])
  <2>1. Taken = policy[n + 1]
    BY <1>6 DEF Taken
  <2> QED
    BY <1>3, <2>1, WhatIsCommitted DEF Decide
<1>8. session'.draws = n + 1
  BY <1>6, WhatIsCommitted, CommittedSession
<1>9. /\ new.session = session' /\ new.rollout = rollout'
      /\ IsSession(session') /\ session'.learned \in Seq(Seq(Rows)) /\ rollout' \in Seq(Rows)
  BY DEF Point, TailInv, Clock, RolloutInv
<1>10. /\ rollout' # <<>>
       /\ at' = "decide" => ~Full(new)
       /\ at' = "update" => Full(new)
  <2>1. rollout' # <<>> /\ Len(rollout') \in Nat /\ Decisions \in Nat
    <3>1. rollout \in Seq(Rows) /\ rollout' = Append(rollout, Row) /\ rollout' \in Seq(Rows)
      BY <1>2, <1>9 DEF Inv, TailInv, RolloutInv
    <3>2. Len(rollout') = Len(rollout) + 1 /\ Len(rollout) \in Nat
      BY <3>1
    <3>3. Len(<<>>) = 0
      OBVIOUS
    <3> QED
      BY <3>2, <3>3, SessionAssumption
  <2> QED
    BY <1>2, <1>9, <2>1 DEF Full
<1> HIDE DEF p, new
<1>11. ASSUME NEW path2, NEW k2, Path(path2, k2), n + 1 \in 0 .. k2, path2[n + 1] = new,
              \A s : Saved(path, k, s) => Saved(path2, k2, s)
       PROVE  Traced'
  <2>1. Path(path2, k2)'
    BY <1>2, <1>11, PathStays DEF Inv, TailInv
  <2>2. OnDisk(path2, k2)'
    BY <1>1, <1>2, <1>11 DEF OnDisk
  <2>3. at' = "decide" => Onward(path2[n + 1]) = new
    BY <1>10, <1>11 DEF Onward
  <2>4. Point(session', rollout') = new
    BY DEF new
  <2>5. Here(path2, k2)'
    BY <1>2, <1>8, <1>10, <1>11, <2>3, <2>4 DEF Here
  <2> QED
    BY <2>1, <2>2, <2>5 DEF Traced
<1>12. CASE n < k
  <2>1. n \in 0 .. k - 1 /\ n + 1 \in 0 .. k
    BY <1>4, <1>12
  <2>2. path[n + 1] = new
    BY <1>1, <1>7, <2>1 DEF Path, p
  <2> QED
    BY <1>1, <1>11, <2>1, <2>2
<1>13. CASE n = k
  <2>1. new = Decide(Onward(path[k]), policy[k + 1]) /\ new = Point(new.session, new.rollout)
    BY <1>7, <1>9, <1>13 DEF p, new
  <2>2. k + 1 \in 1 .. Len(policy) /\ new.session.draws = k + 1
    BY <1>6, <1>8, <1>9, <1>13
  <2>3. PICK longer : /\ Path(longer, k + 1) /\ longer[k + 1] = new
                      /\ \A s : Saved(path, k, s) => Saved(longer, k + 1, s)
    BY <1>1, <1>9, <2>1, <2>2, LongerPath
  <2>4. k + 1 \in 0 .. k + 1
    BY <1>4
  <2> QED
    BY <1>11, <1>13, <2>3, <2>4
<1> QED
  BY <1>4, <1>12, <1>13

\* A job begins with the path that has only its first point.
LEMMA FirstPath ==
  ASSUME policy = <<>>
  PROVE  \E path : Path(path, 0)
<1> DEFINE path == [i \in {0} |-> FirstPoint]
           weight == [l \in Lanes |-> Weight(Unbuilt)]
           ordinal == [l \in Lanes |-> 1]
<1>1. path[0] = FirstPoint
  OBVIOUS
<1>2. FirstPoint = Point([Unbuilt EXCEPT !.ordinal = ordinal, !.weight = weight,
                                         !.label = FirstDealt, !.current = FirstDealt], <<>>)
  BY DEF FirstPoint
<1> HIDE DEF path, weight, ordinal
<1>3. /\ FirstPoint = Point(FirstPoint.session, FirstPoint.rollout) /\ FirstPoint.rollout = <<>>
      /\ FirstPoint.session = [Unbuilt EXCEPT !.ordinal = ordinal, !.weight = weight,
                                              !.label = FirstDealt, !.current = FirstDealt]
  BY <1>2 DEF Point
<1>4. IsSession(Unbuilt) /\ Unbuilt.draws = 0 /\ Unbuilt.learned = <<>>
  BY DEF Unbuilt, IsSession
<1>5. /\ IsSession(FirstPoint.session) /\ FirstPoint.session.draws = 0
      /\ FirstPoint.session.learned = <<>>
  <2> HIDE DEF Unbuilt
  <2> QED
    BY <1>3, <1>4 DEF IsSession
<1>6. Len(policy) = 0 /\ <<>> \in Seq(Rows) /\ <<>> \in Seq(Seq(Rows))
  OBVIOUS
<1>7. /\ 0 \in 0 .. Len(policy) /\ \A n \in 0 .. 0 : n = 0
      /\ \A n \in 0 .. 0 - 1 : FALSE
  BY <1>6
<1>8. Len(Onward(path[0]).session.learned) \in Nat
  BY <1>1, <1>3, <1>5, <1>6, GoingOnward
<1>9. \A m, n \in 0 .. 0 :
        m <= n => Len(Onward(path[m]).session.learned) <= Len(Onward(path[n]).session.learned)
  BY <1>7, <1>8
<1>10. Path(path, 0)
  BY <1>1, <1>3, <1>5, <1>6, <1>7, <1>9 DEF Path
<1> QED
  BY <1>10

\* The invariant: a running session, whatever it was resumed from, and every
\* checkpoint are points of the one path that the draws of the policy determine.
THEOREM TracedInvariant == SessionSpec => []Traced
<1>1. SessionInit => Traced
  BY FirstPath DEF SessionInit, Traced, Here, OnDisk
<1>2. Inv /\ Inv' /\ Midway /\ Traced /\ [SessionNext]_vars => Traced'
  <2> SUFFICES ASSUME Inv, TailInv', Midway, Traced, [SessionNext]_vars
               PROVE  Traced'
    BY DEF Inv
  <2>1. PICK path, k : Path(path, k) /\ Here(path, k) /\ OnDisk(path, k)
    BY DEF Traced
  <2>2. ASSUME UNCHANGED <<policy, recorded, generations>>, Here(path, k)'
        PROVE  Traced'
    <3>1. Path(path, k)'
      BY <2>1, <2>2, PathStays DEF Inv, TailInv
    <3>2. OnDisk(path, k)'
      BY <2>1, <2>2, DiskStays
    <3> QED
      BY <2>2, <3>1, <3>2 DEF Traced
  <2>3. CASE VectorRuns \/ AWorkerDies \/ UNCHANGED vars
    <3>1. UNCHANGED <<at, session, rollout, policy, recorded, generations>>
      BY <2>3 DEF VectorRuns, AWorkerDies, vars, durable, memory
    <3>2. Here(path, k)'
      BY <2>1, <3>1 DEF Here
    <3> QED
      BY <2>2, <3>1, <3>2
  <2>4. CASE \/ Launch \/ BeginJob \/ DealFirst \/ Load \/ EndSegment \/ CallFails \/ SkipLimit
             \/ DiskFails \/ BuildFails \/ AimMisses \/ Crash
    <3>1. /\ at' \in {"off", "built", "reset", "first", "load"}
          /\ UNCHANGED <<policy, recorded, generations>>
      BY <2>4 DEF Launch, BeginJob, DealFirst, Load, EndSegment, CallFails, SkipLimit, DiskFails,
         BuildFails, AimMisses, Crash, Fails, Forget, durable
    <3>2. Here(path, k)'
      BY <3>1 DEF Here
    <3> QED
      BY <2>2, <3>1, <3>2
  <2>5. CASE CommitFirst
    BY <2>1, <2>2, <2>5, HereAtFirst DEF CommitFirst, durable
  <2>6. CASE Restore \/ Aim
    BY <2>1, <2>2, <2>6, HereAtBoundaries DEF Restore, Aim, durable
  <2>7. CASE Publish \/ Record
    <3>1. Saved(path, k, session) /\ log = session.current
      BY <2>1, <2>7 DEF Publish, Record, Here, Midway, Boundary
    <3>2. /\ policy' = policy
          /\ recorded' = recorded \/ recorded' = [session |-> session, log |-> log]
          /\ generations' \subseteq generations \cup {[session |-> session, log |-> log]}
      BY <2>7 DEF Publish, Record
    <3>3. OnDisk(path, k)'
      BY <2>1, <3>1, <3>2 DEF OnDisk
    <3>4. Here(path, k)'
      BY <2>1, <2>7, HereAtBoundaries
    <3>5. Path(path, k)'
      BY <2>1, <3>2, PathStays DEF Inv, TailInv
    <3> QED
      BY <3>3, <3>4, <3>5 DEF Traced
  <2>8. CASE Skip \/ Learn
    BY <2>1, <2>2, <2>8, HereAtTheUpdate DEF Skip, Learn, durable
  <2>9. CASE RunUpdate
    BY <2>1, <2>2, <2>9, HereAtTheStart DEF RunUpdate, durable
  <2>10. CASE Release \/ Deal
    BY <2>1, <2>2, <2>10, HereInADecision DEF Release, Deal, durable
  <2>11. CASE Press
    <3>1. /\ policy' = policy \/ \E a \in Semantic : policy' = Append(policy, a)
          /\ UNCHANGED <<recorded, generations>>
      BY <2>11 DEF Press
    <3>2. Path(path, k)'
      BY <2>1, <3>1, PathStays DEF Inv, TailInv
    <3> QED
      BY <2>1, <2>11, <3>1, <3>2, DiskStays, HereInADecision DEF Traced
  <2>12. CASE Commit
    BY <2>12, TracedCommit
  <2> QED
    BY <2>3, <2>4, <2>5, <2>6, <2>7, <2>8, <2>9, <2>10, <2>11, <2>12 DEF SessionNext, SessionStep
<1>3. SessionSpec => []Inv
  BY VectorInvariant, TailInvariant, WorldInvariant, PTL DEF Inv
<1> QED
  BY <1>1, <1>2, <1>3, MidwayInvariant, PTL DEF SessionSpec

\* Two generations of a job with the same number of updates are the same, wherever
\* the processes that wrote them had been interrupted and resumed.
THEOREM ResumesAreInvisible == SessionSpec => []ResumeIsInvisible
<1>1. Traced => ResumeIsInvisible
  <2> SUFFICES ASSUME Traced, NEW g \in generations, NEW h \in generations,
                      Len(g.session.learned) = Len(h.session.learned)
               PROVE  g = h
    BY DEF ResumeIsInvisible
  <2>1. PICK path, k : Path(path, k) /\ OnDisk(path, k)
    BY DEF Traced
  <2>2. g.session = h.session
    BY <2>1, SavedOnce DEF OnDisk
  <2> QED
    BY <2>1, <2>2 DEF OnDisk
<1> QED
  BY <1>1, TracedInvariant, PTL
=============================================================================
