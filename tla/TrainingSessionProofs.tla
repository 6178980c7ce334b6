------------------------ MODULE TrainingSessionProofs ------------------------
(***************************************************************************)
(* Theorems about the vector of exact workers inside a training job, for   *)
(* any lanes, library, budget and number of crashes.  A worker has one of  *)
(* unboundedly many worlds, so a worker is characterized here by its shape *)
(* and not as a member of a set.                                           *)
(***************************************************************************)
EXTENDS TrainingSession, TLAPS

IsWorker(w) ==
  /\ w = [up |-> w.up, world |-> w.world, reply |-> w.reply]
  /\ w.up \in BOOLEAN

\* The variables are functions over the lanes, the calls are records.
Shape ==
  /\ proc = [l \in Lanes |-> [s \in Slots |-> proc[l][s]]]
  /\ client \in [Lanes -> Slots \cup {None}]
  /\ log = [l \in Lanes |-> log[l]]
  /\ job \in [Lanes -> {"idle", "todo", "sent", "spawned", "ok", "failed"}]
  /\ op = [kind |-> op.kind, args |-> op.args, was |-> op.was, answer |-> op.answer]
  /\ op.kind \in {"none", "reset", "step", "restore", "rollback"}
  /\ op.answer \in {"none", "ok", "failed"}
  /\ broken \in BOOLEAN

\* What the client of a lane may rely on.  A request that is under way has been
\* executed exactly if its good answer waits; only a first reset that failed
\* leaves an open client in a world that the log does not name.
ClientInv(l) ==
  LET worker == proc[l][client[l]] IN
  /\ IsWorker(worker)
  /\ job[l] # "sent" => worker.reply = "none"
  /\ worker.reply = "none" => \/ worker.world = log[l]
                              \/ job[l] = "failed" /\ op.kind = "reset" /\ log[l] = None
  /\ worker.reply = "ok" => worker.world = After(log[l], op.args[l])

\* A lane takes part in the call under way or is idle, and has a second worker
\* only while it is replaced.
LaneInv(l) ==
  /\ job[l] # "idle" => l \in DOMAIN op.args
  /\ job[l] = "sent" => op.kind = "step"
  /\ job[l] = "spawned" => op.kind \in Replaces /\ IsWorker(proc[l][Candidate(l)])
                           /\ proc[l][Candidate(l)].reply = "none"
  /\ job[l] # "spawned" => \A s \in Slots : s # client[l] => proc[l][s] = None
  /\ client[l] # None => ClientInv(l)

\* A client is closed by a failed request only, and never by a restore.
Opened == \A l \in Lanes : client[l] = None => job[l] = "failed" /\ op.kind \in {"step", "reset"}

\* The lanes of the call, and what an answer says about them.
CallInv ==
  /\ DOMAIN op.args \subseteq Lanes
  /\ DOMAIN op.was = DOMAIN op.args
  /\ op.kind = "none" => op = NoCall
  /\ \A l \in DOMAIN op.args : job[l] # "idle"
  /\ op.answer # "none" => \A l \in DOMAIN op.args : job[l] \in {"ok", "failed"}
  /\ op.answer = "ok" => AllOk
  /\ op.kind = "restore" => op.answer # "failed"
  /\ op.kind = "rollback" =>
       /\ op.args = op.was /\ op.answer # "ok"
       /\ \A l \in DOMAIN op.args : job[l] = "ok" => log[l] = op.args[l]
       /\ op.answer = "failed" /\ ~broken => AllOk

VectorInv ==
  /\ Shape
  /\ \A l \in Lanes : LaneInv(l)
  /\ CallInv

Calling == {"reset", "first", "load", "press", "release", "deal"}

\* A session that runs has a vector, one that runs no call waits for none, and a
\* checkpoint has the logs of lanes.
SessionInv ==
  /\ VectorInv
  /\ at = "off" => NoVector
  /\ at # "off" => Opened
  /\ at \notin Calling => op = NoCall
  /\ recorded # None => DOMAIN recorded.log = Lanes

-----------------------------------------------------------------------------
(* The vector. *)

\* A step of one lane that is in the call leaves the other lanes alone.
LEMMA OneLane ==
  ASSUME VectorInv, Opened, NEW l \in Lanes,
         job[l] \in {"todo", "sent", "spawned"},
         Shape', UNCHANGED <<op, broken>>,
         \A k \in Lanes \ {l} : /\ proc'[k] = proc[k] /\ client'[k] = client[k]
                                /\ log'[k] = log[k] /\ job'[k] = job[k],
         LaneInv(l)', job'[l] # "idle",
         client'[l] = None => job'[l] = "failed" /\ op.kind \in {"step", "reset"},
         op.kind = "rollback" /\ job'[l] = "ok" => log'[l] = op.args[l]
  PROVE  VectorInv' /\ Opened'
<1>1. l \in DOMAIN op.args /\ op.answer = "none" /\ op' = op
  BY DEF VectorInv, LaneInv, CallInv, Shape
<1>2. \A k \in Lanes \ {l} : LaneInv(k)'
  BY <1>1 DEF VectorInv, LaneInv, ClientInv, Candidate
<1>3. CallInv'
  <2>1. \A k \in DOMAIN op.args : job[k] # "idle" /\ job'[k] # "idle"
    BY DEF VectorInv, CallInv
  <2>2. op.kind = "rollback" =>
          \A k \in DOMAIN op.args : job'[k] = "ok" => log'[k] = op.args[k]
    BY DEF VectorInv, CallInv
  <2>3. /\ DOMAIN op.args \subseteq Lanes /\ DOMAIN op.was = DOMAIN op.args
        /\ op.kind = "rollback" => op.args = op.was
        /\ op.kind = "none" => op = NoCall
    BY DEF VectorInv, CallInv
  <2> QED
    BY <1>1, <2>1, <2>2, <2>3 DEF CallInv
<1>4. Opened'
  BY <1>1 DEF Opened
<1> QED
  BY <1>2, <1>3, <1>4 DEF VectorInv

\* What an update of a worker, of its client and of its lane does to them.
LEMMA SetWorker ==
  ASSUME Shape, NEW l \in Lanes, NEW s \in Slots, NEW w,
         proc' = [proc EXCEPT ![l][s] = w]
  PROVE  /\ proc' = [k \in Lanes |-> [r \in Slots |-> proc'[k][r]]]
         /\ proc'[l][s] = w
         /\ \A r \in Slots \ {s} : proc'[l][r] = proc[l][r]
         /\ \A k \in Lanes \ {l} : proc'[k] = proc[k]
BY DEF Shape

\* The slots of a lane that is in the call: its client's and the other one.
LEMMA TwoSlots ==
  ASSUME VectorInv, Opened, NEW l \in Lanes, job[l] \in {"todo", "sent", "spawned"}
  PROVE  /\ client[l] \in Slots /\ client[l] # None
         /\ Candidate(l) \in Slots /\ Candidate(l) # client[l]
         /\ \A s \in Slots : s = client[l] \/ s = Candidate(l)
         /\ \A s \in Slots : s # None
BY VectorAssumption DEF VectorInv, Shape, Opened, Slots, Candidate

\* A request that fails closes the client.
LEMMA AbortedLane ==
  ASSUME VectorInv, Opened, NEW l \in Lanes,
         job[l] \in {"todo", "sent"}, op.kind \in {"step", "reset"},
         Abort(l), Finish(l, "failed"), UNCHANGED <<log, op, broken>>
  PROVE  VectorInv' /\ Opened'
<1>1. client[l] \in Slots
  BY TwoSlots
<1>2. proc' = [proc EXCEPT ![l][client[l]] = None]
  BY DEF Abort
<1>3. /\ proc' = [k \in Lanes |-> [r \in Slots |-> proc'[k][r]]]
      /\ proc'[l][client[l]] = None
      /\ \A r \in Slots \ {client[l]} : proc'[l][r] = proc[l][r]
      /\ \A k \in Lanes \ {l} : proc'[k] = proc[k]
  BY <1>1, <1>2, SetWorker DEF VectorInv
<1>4. /\ client' \in [Lanes -> Slots \cup {None}] /\ client'[l] = None
      /\ job' \in [Lanes -> {"idle", "todo", "sent", "spawned", "ok", "failed"}]
      /\ job'[l] = "failed"
      /\ \A k \in Lanes \ {l} : client'[k] = client[k] /\ job'[k] = job[k]
  BY DEF VectorInv, Shape, Abort, Finish
<1>5. Shape'
  BY <1>3, <1>4 DEF VectorInv, Shape
<1>6. LaneInv(l)'
  BY <1>3, <1>4 DEF VectorInv, LaneInv
<1> QED
  BY <1>3, <1>4, <1>5, <1>6, OneLane

\* The client's worker changes, and perhaps what the lane knows of it.
LEMMA CurrentLane ==
  ASSUME VectorInv, Opened, NEW l \in Lanes,
         job[l] \in {"todo", "sent"}, op.kind \in {"step", "reset"},
         NEW w, IsWorker(w), proc' = [proc EXCEPT ![l][client[l]] = w],
         NEW world, log' = [log EXCEPT ![l] = world],
         NEW stage \in {"sent", "ok", "failed"}, job' = [job EXCEPT ![l] = stage],
         UNCHANGED <<client, op, broken>>,
         stage = "sent" => op.kind = "step",
         stage # "sent" => w.reply = "none",
         w.reply = "none" => \/ w.world = world
                             \/ stage = "failed" /\ op.kind = "reset" /\ world = None,
         w.reply = "ok" => w.world = After(world, op.args[l])
  PROVE  VectorInv' /\ Opened'
<1>1. client[l] \in Slots /\ client[l] # None
  BY TwoSlots
<1>2. /\ proc' = [k \in Lanes |-> [r \in Slots |-> proc'[k][r]]]
      /\ proc'[l][client[l]] = w
      /\ \A r \in Slots \ {client[l]} : proc'[l][r] = proc[l][r]
      /\ \A k \in Lanes \ {l} : proc'[k] = proc[k]
  BY <1>1, SetWorker DEF VectorInv
<1>3. /\ log' = [k \in Lanes |-> log'[k]] /\ log'[l] = world
      /\ job' \in [Lanes -> {"idle", "todo", "sent", "spawned", "ok", "failed"}]
      /\ job'[l] = stage
      /\ \A k \in Lanes \ {l} : log'[k] = log[k] /\ job'[k] = job[k]
  BY DEF VectorInv, Shape
<1>4. Shape'
  BY <1>2, <1>3 DEF VectorInv, Shape
<1>5. LaneInv(l)'
  BY <1>1, <1>2, <1>3 DEF VectorInv, LaneInv, ClientInv
<1> QED
  BY <1>1, <1>2, <1>3, <1>4, <1>5, OneLane

\* The second worker of a lane changes, or is closed by a failure.
LEMMA CandidateLane ==
  ASSUME VectorInv, Opened, NEW l \in Lanes,
         job[l] \in {"todo", "spawned"}, op.kind \in Replaces,
         ~(InPlace(l) /\ job[l] = "todo"),
         NEW w, proc' = [proc EXCEPT ![l][Candidate(l)] = w],
         NEW stage, job' = [job EXCEPT ![l] = stage],
         \/ stage = "spawned" /\ IsWorker(w) /\ w.reply = "none"
         \/ stage = "failed" /\ w = None,
         UNCHANGED <<client, log, op, broken>>
  PROVE  VectorInv' /\ Opened'
<1>1. /\ client[l] \in Slots /\ client[l] # None
      /\ Candidate(l) \in Slots /\ Candidate(l) # client[l]
      /\ \A s \in Slots : s = client[l] \/ s = Candidate(l)
  BY TwoSlots
<1>2. /\ proc' = [k \in Lanes |-> [r \in Slots |-> proc'[k][r]]]
      /\ proc'[l][Candidate(l)] = w
      /\ \A r \in Slots \ {Candidate(l)} : proc'[l][r] = proc[l][r]
      /\ \A k \in Lanes \ {l} : proc'[k] = proc[k]
  BY <1>1, SetWorker DEF VectorInv
<1>3. /\ job' \in [Lanes -> {"idle", "todo", "sent", "spawned", "ok", "failed"}]
      /\ job'[l] = stage
      /\ \A k \in Lanes \ {l} : job'[k] = job[k]
  BY DEF VectorInv, Shape
<1>4. Shape'
  BY <1>2, <1>3 DEF VectorInv, Shape
<1>5. LaneInv(l)'
  BY <1>1, <1>2, <1>3 DEF VectorInv, LaneInv, ClientInv, Candidate
<1> QED
  BY <1>1, <1>2, <1>3, <1>4, <1>5, OneLane

\* No step of a lane breaks the invariant.
LEMMA LaneSteps ==
  ASSUME VectorInv, Opened, NEW l \in Lanes, LaneStep(l)
  PROVE  VectorInv' /\ Opened'
<1> DEFINE now == proc[l][client[l]]
           next == proc[l][Candidate(l)]
<1>0. job[l] \in {"todo", "sent", "spawned"} =>
        /\ client[l] # None /\ ClientInv(l) /\ IsWorker(now)
  BY TwoSlots DEF VectorInv, LaneInv, ClientInv
<1>1. CASE Send(l)
  <2>1. job[l] = "todo" /\ op.kind = "step"
    BY <1>1 DEF Send, Calls
  <2>2. CASE ~Current(l).up
    BY <1>1, <2>1, <2>2, AbortedLane DEF Send
  <2>3. CASE Current(l).up
    <3>1. job' = [job EXCEPT ![l] = "sent"] /\ UNCHANGED <<proc, client, log, op, broken>>
      BY <1>1, <2>3 DEF Send, Finish
    <3>2. /\ job' \in [Lanes -> {"idle", "todo", "sent", "spawned", "ok", "failed"}]
          /\ job'[l] = "sent"
          /\ \A k \in Lanes \ {l} : job'[k] = job[k]
      BY <3>1 DEF VectorInv, Shape
    <3>3. Shape'
      BY <3>1, <3>2 DEF VectorInv, Shape
    <3>4. LaneInv(l)'
      BY <1>0, <2>1, <3>1, <3>2 DEF VectorInv, LaneInv, ClientInv
    <3> QED
      BY <1>0, <2>1, <3>1, <3>2, <3>3, <3>4, OneLane
  <2> QED
    BY <2>2, <2>3
<1>2. ASSUME job[l] = "sent", now.reply = "none",
             NEW world, NEW reply \in {"ok", "bad"},
             proc' = [proc EXCEPT ![l][client[l]].world = world,
                                  ![l][client[l]].reply = reply],
             reply = "ok" => world = After(now.world, op.args[l]),
             UNCHANGED <<client, log, job, op, broken>>
      PROVE  VectorInv' /\ Opened'
  <2> DEFINE w == [up |-> now.up, world |-> world, reply |-> reply]
  <2>1. IsWorker(w) /\ w.world = world /\ w.reply = reply
    BY <1>0, <1>2 DEF IsWorker
  <2>2. proc' = [proc EXCEPT ![l][client[l]] = w]
    <3>1. client[l] \in Slots
      BY <1>2, TwoSlots
    <3>2. [[now EXCEPT !.world = world] EXCEPT !.reply = reply] = w
      <4>1. now = [up |-> now.up, world |-> now.world, reply |-> now.reply]
        BY <1>0, <1>2 DEF IsWorker
      <4>2. [now EXCEPT !.world = world] = [up |-> now.up, world |-> world, reply |-> now.reply]
        BY <4>1
      <4>3. [[up |-> now.up, world |-> world, reply |-> now.reply] EXCEPT !.reply = reply] = w
        OBVIOUS
      <4> QED
        BY <4>2, <4>3, Zenon
    <3>3. proc' = [proc EXCEPT ![l][client[l]] =
                     [[now EXCEPT !.world = world] EXCEPT !.reply = reply]]
      BY <1>2, <3>1 DEF VectorInv, Shape
    <3> QED
      BY <3>2, <3>3
  <2>3. op.kind = "step"
    BY <1>2 DEF VectorInv, LaneInv
  <2>4. log' = [log EXCEPT ![l] = log[l]] /\ job' = [job EXCEPT ![l] = "sent"]
    BY <1>2 DEF VectorInv, Shape
  <2>5. now.world = log[l]
    BY <1>0, <1>2 DEF ClientInv
  <2>6. w.reply # "none" /\ (w.reply = "ok" => w.world = After(log[l], op.args[l]))
    BY <1>2, <2>1, <2>5
  <2> HIDE DEF w
  <2> QED
    BY <1>2, <2>1, <2>2, <2>3, <2>4, <2>6, CurrentLane
<1>3. CASE WorkerAnswers(l)
  BY <1>2, <1>3 DEF WorkerAnswers, Current
<1>4. CASE WorkerAnswersBadly(l)
  BY <1>2, <1>4 DEF WorkerAnswersBadly, Current
<1>5. CASE Receive(l)
  <2>1. job[l] = "sent" /\ op.kind = "step"
    BY <1>5 DEF Receive, VectorInv, LaneInv
  <2>2. CASE Current(l).reply # "ok"
    BY <1>5, <2>1, <2>2, AbortedLane DEF Receive
  <2>3. CASE Current(l).reply = "ok"
    <3> DEFINE w == [now EXCEPT !.reply = "none"]
    <3>1. IsWorker(w) /\ w.world = now.world /\ w.reply = "none"
      BY <1>0, <2>1 DEF IsWorker
    <3>2. proc' = [proc EXCEPT ![l][client[l]] = w]
      BY <1>0, <1>5, <2>1, <2>3, TwoSlots DEF VectorInv, Shape, Receive, Current
    <3>3. /\ log' = [log EXCEPT ![l] = After(log[l], op.args[l])]
          /\ job' = [job EXCEPT ![l] = "ok"]
          /\ UNCHANGED <<client, op, broken>>
      BY <1>5, <2>3 DEF Receive, Finish, VectorInv, Shape
    <3>4. now.world = After(log[l], op.args[l])
      BY <1>0, <2>1, <2>3 DEF ClientInv, Current
    <3> HIDE DEF w
    <3> QED
      BY <2>1, <3>1, <3>2, <3>3, <3>4, CurrentLane
  <2> QED
    BY <2>2, <2>3
<1>6. ASSUME Calls(l, Replaces, "todo"), InPlace(l),
             proc' = [proc EXCEPT ![l][client[l]].world = op.args[l]],
             NEW stage \in {"ok", "failed"}, Finish(l, stage),
             NEW world, log' = [log EXCEPT ![l] = world],
             stage = "ok" => world = op.args[l],
             stage = "failed" => world = log[l],
             UNCHANGED <<client, op, broken>>
      PROVE  VectorInv' /\ Opened'
  <2> DEFINE w == [now EXCEPT !.world = op.args[l]]
  <2>1. job[l] = "todo" /\ op.kind = "reset" /\ log[l] = None
    BY <1>6 DEF Calls, InPlace
  <2>2. IsWorker(w) /\ w.world = op.args[l] /\ w.reply = "none"
    BY <1>0, <2>1 DEF IsWorker, ClientInv
  <2>3. proc' = [proc EXCEPT ![l][client[l]] = w]
    BY <1>0, <1>6, <2>1, TwoSlots DEF VectorInv, Shape
  <2> HIDE DEF w
  <2> QED
    BY <1>6, <2>1, <2>2, <2>3, CurrentLane DEF Finish
<1>7. CASE ResetInPlace(l)
  BY <1>6, <1>7 DEF ResetInPlace
<1>8. CASE ResetInPlaceFails(l)
  <2>1. CASE Abort(l)
    BY <1>8, <2>1, AbortedLane DEF ResetInPlaceFails, Calls, InPlace
  <2>2. CASE ~Abort(l)
    <3>1. log' = [log EXCEPT ![l] = log[l]]
      BY <1>8 DEF ResetInPlaceFails, VectorInv, Shape
    <3> QED
      BY <1>6, <1>8, <2>2, <3>1 DEF ResetInPlaceFails
  <2> QED
    BY <2>1, <2>2
<1>9. CASE Spawn(l)
  <2>1. IsWorker(NewWorker) /\ NewWorker.reply = "none"
    BY DEF IsWorker, NewWorker
  <2> QED
    BY <1>9, <2>1, CandidateLane DEF Spawn, Calls, Finish
<1>10. CASE SpawnFails(l)
  <2>1. proc[l][Candidate(l)] = None
    BY <1>10, TwoSlots DEF SpawnFails, Calls, VectorInv, LaneInv
  <2>2. proc' = [proc EXCEPT ![l][Candidate(l)] = None]
    BY <1>10, <2>1 DEF SpawnFails, VectorInv, Shape
  <2> QED
    BY <1>10, <2>2, CandidateLane DEF SpawnFails, Calls, Finish
<1>11. CASE Replay(l)
  <2>1. job[l] = "spawned" /\ op.kind \in Replaces /\ IsWorker(next) /\ next.reply = "none"
    BY <1>11 DEF Replay, Calls, VectorInv, LaneInv
  <2>2. PICK world : proc' = [proc EXCEPT ![l][Candidate(l)].world = world]
    BY <1>11 DEF Replay
  <2> DEFINE w == [next EXCEPT !.world = world]
  <2>3. IsWorker(w) /\ w.reply = "none"
    BY <2>1 DEF IsWorker
  <2>4. proc' = [proc EXCEPT ![l][Candidate(l)] = w]
    BY <2>1, <2>2, TwoSlots DEF VectorInv, Shape
  <2>5. job' = [job EXCEPT ![l] = "spawned"]
    BY <1>11, <2>1 DEF Replay, VectorInv, Shape
  <2> HIDE DEF w
  <2> QED
    <3>1. job[l] = "spawned" /\ op.kind \in Replaces /\ UNCHANGED <<client, log, op, broken>>
      BY <1>11, <2>1 DEF Replay
    <3> QED
      BY <2>3, <2>4, <2>5, <3>1, CandidateLane
<1>12. CASE ReplayFails(l)
  BY <1>12, CandidateLane DEF ReplayFails, Calls, Finish
<1>13. CASE Swap(l)
  <2>1. /\ job[l] = "spawned" /\ op.kind \in Replaces
        /\ next.world = op.args[l] /\ IsWorker(next) /\ next.reply = "none"
    BY <1>13 DEF Swap, Calls, VectorInv, LaneInv
  <2>2. /\ client[l] \in Slots
        /\ Candidate(l) \in Slots /\ Candidate(l) # client[l] /\ Candidate(l) # None
        /\ \A s \in Slots : s = client[l] \/ s = Candidate(l)
    BY <2>1, TwoSlots
  <2>3. /\ proc' = [k \in Lanes |-> [r \in Slots |-> proc'[k][r]]]
        /\ proc'[l][client[l]] = None
        /\ \A r \in Slots \ {client[l]} : proc'[l][r] = proc[l][r]
        /\ \A k \in Lanes \ {l} : proc'[k] = proc[k]
    BY <1>13, <2>2, SetWorker DEF VectorInv, Swap
  <2>4. /\ client' = [client EXCEPT ![l] = Candidate(l)]
        /\ log' = [log EXCEPT ![l] = op.args[l]]
        /\ job' = [job EXCEPT ![l] = "ok"]
        /\ UNCHANGED <<op, broken>>
    BY <1>13 DEF Swap, Finish
  <2>5. Shape'
    BY <2>2, <2>3, <2>4 DEF VectorInv, Shape
  <2>6. LaneInv(l)'
    BY <2>1, <2>2, <2>3, <2>4 DEF VectorInv, Shape, LaneInv, ClientInv
  <2> QED
    BY <2>1, <2>2, <2>3, <2>4, <2>5, <2>6, OneLane DEF VectorInv, Shape
<1> QED
  BY <1>1, <1>3, <1>4, <1>5, <1>7, <1>8, <1>9, <1>10, <1>11, <1>12, <1>13 DEF LaneStep
-----------------------------------------------------------------------------
(* Calls. *)

\* Between two calls, or with a call that has succeeded, every lane has its
\* client in the world of its log, and no second worker.
LEMMA Rested ==
  ASSUME VectorInv, Opened, op = NoCall \/ op.answer = "ok", NEW l \in Lanes
  PROVE  /\ job[l] \in {"idle", "ok"}
         /\ client[l] # None
         /\ IsWorker(proc[l][client[l]])
         /\ proc[l][client[l]].reply = "none" /\ proc[l][client[l]].world = log[l]
         /\ \A s \in Slots : s # client[l] => proc[l][s] = None
<1>1. job[l] \in {"idle", "ok"}
  <2>1. CASE op = NoCall
    <3>1. DOMAIN op.args = {}
      BY <2>1 DEF NoCall
    <3> QED
      BY <3>1 DEF VectorInv, LaneInv
  <2>2. CASE op.answer = "ok"
    BY <2>2 DEF VectorInv, LaneInv, CallInv, AllOk
  <2> QED
    BY <2>1, <2>2
<1> QED
  BY <1>1 DEF VectorInv, Opened, LaneInv, ClientInv

\* A call begins for any lanes.
LEMMA BeginCall ==
  ASSUME VectorInv, Opened, op = NoCall \/ op.answer = "ok",
         NEW kind \in {"reset", "step", "restore"}, NEW args, DOMAIN args \subseteq Lanes,
         Begin(kind, args)
  PROVE  VectorInv' /\ Opened'
<1>1. /\ op'.kind = kind /\ op'.args = args /\ op'.answer = "none"
      /\ op'.was = [l \in DOMAIN args |-> log[l]]
      /\ op' = [kind |-> op'.kind, args |-> op'.args, was |-> op'.was, answer |-> op'.answer]
  BY DEF Begin
<1>2. /\ job' \in [Lanes -> {"idle", "todo"}]
      /\ \A l \in Lanes : job'[l] = IF l \in DOMAIN args THEN "todo" ELSE "idle"
      /\ UNCHANGED <<proc, client, log, broken>>
  BY DEF Begin
<1>3. Shape'
  <2>1. job' \in [Lanes -> {"idle", "todo", "sent", "spawned", "ok", "failed"}]
    BY <1>2
  <2>2. op'.kind \in {"none", "reset", "step", "restore", "rollback"}
    BY <1>1
  <2>3. op'.answer \in {"none", "ok", "failed"}
    BY <1>1
  <2>4. /\ proc' = [l \in Lanes |-> [s \in Slots |-> proc'[l][s]]]
        /\ client' \in [Lanes -> Slots \cup {None}]
        /\ log' = [l \in Lanes |-> log'[l]]
        /\ broken' \in BOOLEAN
    BY <1>2 DEF VectorInv, Shape
  <2> QED
    BY <1>1, <2>1, <2>2, <2>3, <2>4 DEF Shape
<1>4. ASSUME NEW l \in Lanes
      PROVE  LaneInv(l)'
  BY <1>1, <1>2, <1>4, Rested DEF LaneInv, ClientInv
<1>5. CallInv'
  BY <1>1, <1>2 DEF CallInv, AllOk
<1>6. Opened'
  BY <1>2, Rested DEF Opened
<1> QED
  BY <1>3, <1>4, <1>5, <1>6 DEF VectorInv

\* The caller takes a good answer.
LEMMA ReturnCall ==
  ASSUME VectorInv, Opened, op.answer = "ok", Return
  PROVE  VectorInv' /\ Opened' /\ op' = NoCall
<1>1. /\ op' = NoCall /\ UNCHANGED <<proc, client, log, broken>>
      /\ job' \in [Lanes -> {"idle"}]
      /\ \A l \in Lanes : job'[l] = "idle"
  BY DEF Return
<1>2. Shape'
  BY <1>1 DEF VectorInv, Shape, NoCall
<1>3. ASSUME NEW l \in Lanes
      PROVE  LaneInv(l)'
  BY <1>1, <1>3, Rested DEF LaneInv, ClientInv
<1>4. CallInv'
  BY <1>1 DEF CallInv, AllOk, NoCall
<1>5. Opened'
  BY <1>1, Rested DEF Opened
<1> QED
  BY <1>1, <1>2, <1>3, <1>4, <1>5 DEF VectorInv

\* The answer of a call; a restore that failed goes on with its rollback.
LEMMA AnswerCall ==
  ASSUME VectorInv, Opened, Answer
  PROVE  VectorInv' /\ Opened'
<1>1. /\ op.answer = "none" /\ op.kind # "none"
      /\ \A l \in DOMAIN op.args : job[l] \in {"ok", "failed"}
      /\ UNCHANGED <<proc, client, log>>
  BY DEF Answer, Drained
<1>2. CASE op.kind = "restore" /\ ~AllOk
  <2>1. /\ op'.kind = "rollback" /\ op'.args = op.was /\ op'.was = op.was /\ op'.answer = "none"
        /\ op' = [kind |-> op'.kind, args |-> op'.args, was |-> op'.was, answer |-> op'.answer]
        /\ UNCHANGED broken
        /\ job' = [l \in Lanes |-> IF l \in DOMAIN op.args THEN "todo" ELSE "idle"]
    BY <1>1, <1>2 DEF Answer, VectorInv, Shape
  <2>2. Shape'
    BY <1>1, <2>1 DEF VectorInv, Shape
  <2>3. ASSUME NEW l \in Lanes
        PROVE  LaneInv(l)' /\ client'[l] # None
    <3>1. job[l] \in {"idle", "ok", "failed"}
      BY <1>1, <2>3 DEF VectorInv, LaneInv
    <3>2. client[l] # None
      BY <1>2 DEF Opened
    <3>3. /\ IsWorker(proc[l][client[l]])
          /\ proc[l][client[l]].reply = "none" /\ proc[l][client[l]].world = log[l]
          /\ \A s \in Slots : s # client[l] => proc[l][s] = None
      BY <1>2, <3>1, <3>2 DEF VectorInv, LaneInv, ClientInv
    <3> QED
      BY <1>1, <2>1, <3>2, <3>3 DEF LaneInv, ClientInv, VectorInv, CallInv
  <2>4. CallInv'
    BY <1>1, <2>1 DEF VectorInv, CallInv, AllOk
  <2> QED
    BY <2>2, <2>3, <2>4 DEF VectorInv, Opened
<1>3. CASE ~(op.kind = "restore" /\ ~AllOk)
  <2>1. /\ op'.kind = op.kind /\ op'.args = op.args /\ op'.was = op.was
        /\ op'.answer = IF AllOk /\ op.kind # "rollback" THEN "ok" ELSE "failed"
        /\ op' = [kind |-> op'.kind, args |-> op'.args, was |-> op'.was, answer |-> op'.answer]
        /\ broken' = (broken \/ (op.kind = "rollback" /\ ~AllOk))
        /\ UNCHANGED job
    BY <1>1, <1>3 DEF Answer, VectorInv, Shape
  <2>2. Shape'
    BY <1>1, <2>1 DEF VectorInv, Shape
  <2>3. ASSUME NEW l \in Lanes
        PROVE  LaneInv(l)'
    BY <1>1, <2>1, <2>3 DEF VectorInv, LaneInv, ClientInv, Candidate
  <2>4. CallInv'
    BY <1>1, <1>3, <2>1 DEF VectorInv, CallInv, AllOk
  <2>5. Opened'
    BY <1>1, <2>1 DEF Opened
  <2> QED
    BY <2>2, <2>3, <2>4, <2>5 DEF VectorInv
<1> QED
  BY <1>2, <1>3

\* A worker's death changes nothing that the invariant relies on.
LEMMA Death ==
  ASSUME VectorInv, Opened, NEW l \in Lanes, NEW s \in Slots, WorkerDies(l, s)
  PROVE  VectorInv' /\ Opened'
<1> DEFINE w == proc[l][s]
           dead == [up |-> FALSE, world |-> w.world, reply |-> w.reply]
<1>1. /\ job[l] \in {"todo", "sent", "spawned"} /\ w # None
      /\ UNCHANGED <<client, log, job, op, broken>>
  BY DEF WorkerDies
<1>2. /\ client[l] \in Slots /\ client[l] # None
      /\ Candidate(l) \in Slots /\ Candidate(l) # client[l]
      /\ s = client[l] \/ s = Candidate(l)
  BY <1>1, TwoSlots
<1>3. IsWorker(w) /\ (s = client[l] \/ job[l] = "spawned")
  BY <1>1, <1>2 DEF VectorInv, LaneInv, ClientInv
<1>4. IsWorker(dead) /\ dead.world = w.world /\ dead.reply = w.reply
  BY <1>3 DEF IsWorker
<1>5. proc' = [proc EXCEPT ![l][s] = dead]
  <2>1. w = [up |-> w.up, world |-> w.world, reply |-> w.reply]
    BY <1>3 DEF IsWorker
  <2>2. [w EXCEPT !.up = FALSE] = dead
    <3>1. \A x : [w EXCEPT !.up = x] = [up |-> x, world |-> w.world, reply |-> w.reply]
      BY <2>1
    <3> QED
      BY <3>1, Zenon
  <2>3. proc' = [proc EXCEPT ![l][s] = [w EXCEPT !.up = FALSE]]
    BY DEF WorkerDies, VectorInv, Shape
  <2> QED
    BY <2>2, <2>3, Zenon
<1> HIDE DEF dead
<1>6. /\ proc' = [k \in Lanes |-> [r \in Slots |-> proc'[k][r]]]
      /\ proc'[l][s] = dead
      /\ \A r \in Slots \ {s} : proc'[l][r] = proc[l][r]
      /\ \A k \in Lanes \ {l} : proc'[k] = proc[k]
  BY <1>5, SetWorker DEF VectorInv
<1>7. Shape'
  BY <1>1, <1>6 DEF VectorInv, Shape
<1>8. LaneInv(l)'
  BY <1>1, <1>2, <1>3, <1>4, <1>6 DEF VectorInv, LaneInv, ClientInv, Candidate
<1>9. op.kind = "rollback" /\ job'[l] = "ok" => log'[l] = op.args[l]
  BY <1>1
<1> QED
  BY <1>1, <1>2, <1>6, <1>7, <1>8, <1>9, OneLane

-----------------------------------------------------------------------------
(* The session. *)

\* An open or an empty vector satisfies its invariant.
LEMMA EmptyVector ==
  /\ NoVector => VectorInv
  /\ NoVector /\ OpenVector => VectorInv' /\ Opened' /\ op' = NoCall
<1>1. ASSUME NoVector
      PROVE  VectorInv
  <2>1. Shape
    BY <1>1 DEF NoVector, Shape, NoCall
  <2>2. ASSUME NEW l \in Lanes
        PROVE  LaneInv(l)
    BY <1>1, <2>2 DEF NoVector, LaneInv
  <2>3. CallInv
    BY <1>1 DEF NoVector, CallInv, NoCall, AllOk
  <2> QED
    BY <2>1, <2>2, <2>3 DEF VectorInv
<1>2. ASSUME NoVector, OpenVector
      PROVE  VectorInv' /\ Opened' /\ op' = NoCall
  <2>1. /\ op' = NoCall
        /\ \A l \in Lanes : client'[l] = 0 /\ job'[l] = "idle" /\ log'[l] = None
        /\ \A l \in Lanes : proc'[l][0] = NewWorker /\ proc'[l][1] = None
        /\ 0 # None
    BY <1>2, VectorAssumption DEF NoVector, OpenVector, Slots
  <2>2. Shape'
    BY <1>2 DEF NoVector, OpenVector, Shape, NoCall, Slots
  <2>3. ASSUME NEW l \in Lanes
        PROVE  LaneInv(l)'
    <3>1. IsWorker(NewWorker) /\ NewWorker.reply = "none" /\ NewWorker.world = None
      BY DEF IsWorker, NewWorker
    <3>2. \A t \in Slots : t # client'[l] => proc'[l][t] = None
      BY <2>1, <2>3 DEF Slots
    <3> QED
      BY <2>1, <2>3, <3>1, <3>2 DEF LaneInv, ClientInv
  <2>4. CallInv'
    BY <2>1 DEF CallInv, NoCall, AllOk
  <2> QED
    BY <2>1, <2>2, <2>3, <2>4 DEF VectorInv, Opened
<1> QED
  BY <1>1, <1>2

LEMMA DroppedVector ==
  ASSUME DropVector
  PROVE  NoVector' /\ VectorInv' /\ op' = NoCall
<1>1. NoVector'
  BY DEF DropVector, NoVector
<1>2. Shape'
  BY <1>1 DEF NoVector, Shape, NoCall
<1>3. ASSUME NEW l \in Lanes
      PROVE  LaneInv(l)'
  BY <1>1, <1>3 DEF NoVector, LaneInv
<1>4. CallInv'
  BY <1>1 DEF NoVector, CallInv, NoCall, AllOk
<1> QED
  BY <1>1, <1>2, <1>3, <1>4 DEF VectorInv, NoVector

LEMMA UnchangedVector ==
  ASSUME VectorInv, UNCHANGED vectorVars
  PROVE  VectorInv' /\ (Opened => Opened') /\ op' = op
<1>1. UNCHANGED <<proc, client, log, job, op, broken>>
  BY DEF vectorVars
<1>2. Shape'
  BY <1>1 DEF VectorInv, Shape
<1>3. \A l \in Lanes : LaneInv(l)'
  BY <1>1 DEF VectorInv, LaneInv, ClientInv, Candidate
<1>4. CallInv'
  BY <1>1 DEF VectorInv, CallInv, AllOk
<1>5. Opened => Opened'
  BY <1>1 DEF Opened
<1> QED
  BY <1>1, <1>2, <1>3, <1>4, <1>5 DEF VectorInv

\* Nothing happens in a vector that runs no call.
LEMMA VectorIsCalled ==
  ASSUME SessionInv, VectorStep \/ \E l \in Lanes, s \in Slots : WorkerDies(l, s)
  PROVE  at # "off" /\ at \in Calling
<1>1. SUFFICES ASSUME op = NoCall
               PROVE  FALSE
  BY DEF SessionInv, NoVector, Calling
<1>2. op.kind = "none" /\ DOMAIN op.args = {}
  BY <1>1 DEF NoCall
<1>3. \A l \in Lanes : job[l] = "idle"
  BY <1>2 DEF SessionInv, VectorInv, LaneInv
<1> QED
  BY <1>2, <1>3 DEF VectorStep, LaneStep, Answer, Drained, WorkerDies, Calls, Send, WorkerAnswers,
     WorkerAnswersBadly, Receive, ResetInPlace, ResetInPlaceFails, Spawn, SpawnFails, Replay,
     ReplayFails, Swap

\* Steps that begin a call, each when the one before has succeeded.
LEMMA CallingSteps ==
  ASSUME SessionInv, BeginJob \/ DealFirst \/ Load \/ Press \/ Release \/ Deal
  PROVE  SessionInv'
<1>1. at # "off" /\ Opened /\ (op = NoCall \/ op.answer = "ok")
  BY DEF SessionInv, BeginJob, DealFirst, Load, Press, Release, Deal, Settled, Returned, Calling
<1>2. PICK kind \in {"reset", "step", "restore"} :
        \E args : DOMAIN args \subseteq Lanes /\ Begin(kind, args)
  <2>1. CASE BeginJob
    BY <2>1 DEF BeginJob
  <2>2. CASE DealFirst
    BY <2>2 DEF DealFirst, CallRestore
  <2>3. CASE Load
    BY <2>3 DEF Load, CallRestore, SessionInv
  <2>4. CASE Press
    BY <2>4 DEF Press
  <2>5. CASE Release
    BY <2>5 DEF Release, Releasing
  <2>6. CASE Deal
    BY <2>6 DEF Deal, CallRestore, Done
  <2> QED
    BY <2>1, <2>2, <2>3, <2>4, <2>5, <2>6
<1>3. VectorInv' /\ Opened'
  BY <1>1, <1>2, BeginCall DEF SessionInv
<1>4. at' \in Calling /\ UNCHANGED recorded
  BY DEF BeginJob, DealFirst, Load, Press, Release, Deal, Calling, durable
<1> QED
  BY <1>3, <1>4 DEF SessionInv, Calling

\* Steps that take the answer of a call.
LEMMA ReturningSteps ==
  ASSUME SessionInv, CommitFirst \/ Restore \/ Commit
  PROVE  SessionInv'
<1>1. at # "off" /\ Opened /\ op.answer = "ok" /\ Return
  BY DEF SessionInv, CommitFirst, Restore, Commit, Settled, Returned
<1>2. VectorInv' /\ Opened' /\ op' = NoCall
  BY <1>1, ReturnCall DEF SessionInv
<1>3. at' # "off" /\ UNCHANGED recorded
  BY DEF CommitFirst, Restore, Commit, durable
<1> QED
  BY <1>2, <1>3 DEF SessionInv

\* Steps between two calls.
LEMMA OtherSteps ==
  ASSUME SessionInv, Aim \/ RunUpdate \/ Skip \/ Learn \/ Publish \/ Record
  PROVE  SessionInv'
<1>1. at # "off" /\ at \notin Calling /\ at' # "off" /\ at' \notin Calling
  BY DEF Aim, RunUpdate, Skip, Learn, Publish, Record, Calling
<1>2. UNCHANGED vectorVars
  BY DEF Aim, RunUpdate, Skip, Learn, Publish, Record
<1>3. VectorInv' /\ Opened' /\ op' = NoCall
  BY <1>1, <1>2, UnchangedVector DEF SessionInv
<1>4. recorded' = recorded \/ recorded'.log = log
  BY DEF Aim, RunUpdate, Skip, Learn, Publish, Record, durable
<1>5. DOMAIN log = Lanes
  BY DEF SessionInv, VectorInv, Shape
<1> QED
  BY <1>1, <1>3, <1>4, <1>5 DEF SessionInv

\* Steps that end the process, or start one.
LEMMA BoundarySteps ==
  ASSUME SessionInv,
         Launch \/ EndSegment \/ CallFails \/ SkipLimit \/ DiskFails \/ BuildFails \/ AimMisses \/ Crash
  PROVE  SessionInv'
<1>1. CASE Launch
  <2>1. NoVector /\ OpenVector /\ at' = "built" /\ UNCHANGED recorded
    BY <1>1 DEF Launch, SessionInv, durable
  <2>2. VectorInv' /\ Opened' /\ op' = NoCall
    BY <2>1, EmptyVector
  <2> QED
    BY <2>1, <2>2 DEF SessionInv
<1>2. CASE EndSegment \/ CallFails \/ SkipLimit \/ DiskFails \/ BuildFails \/ AimMisses \/ Crash
  <2>1. at' = "off" /\ DropVector /\ UNCHANGED recorded
    BY <1>2 DEF EndSegment, CallFails, SkipLimit, DiskFails, BuildFails, AimMisses, Fails,
           Crash, Forget, durable
  <2>2. NoVector' /\ VectorInv' /\ op' = NoCall
    BY <2>1, DroppedVector
  <2> QED
    BY <2>1, <2>2 DEF SessionInv
<1> QED
  BY <1>1, <1>2

\* Threads, workers and their deaths.
LEMMA VectorSteps ==
  ASSUME SessionInv, VectorRuns \/ AWorkerDies
  PROVE  SessionInv'
<1>1. at # "off" /\ at \in Calling /\ UNCHANGED <<at, recorded>>
  BY VectorIsCalled DEF VectorRuns, AWorkerDies, durable
<1>2. VectorInv' /\ Opened'
  BY <1>1, LaneSteps, AnswerCall, Death DEF SessionInv, VectorRuns, AWorkerDies, VectorStep
<1> QED
  BY <1>1, <1>2 DEF SessionInv

-----------------------------------------------------------------------------
(* The theorems. *)

\* The invariant that carries the others.
THEOREM VectorInvariant == SessionSpec => []SessionInv
<1>1. SessionInit => SessionInv
  <2> SUFFICES ASSUME SessionInit
               PROVE  SessionInv
    OBVIOUS
  <2>1. NoVector /\ at = "off" /\ recorded = None /\ op = NoCall
    BY DEF SessionInit, NoVector
  <2> QED
    BY <2>1, EmptyVector DEF SessionInv
<1>2. SessionInv /\ [SessionNext]_vars => SessionInv'
  <2> SUFFICES ASSUME SessionInv, [SessionNext]_vars
               PROVE  SessionInv'
    OBVIOUS
  <2>1. CASE SessionNext
    BY <2>1, CallingSteps, ReturningSteps, OtherSteps, BoundarySteps, VectorSteps
       DEF SessionNext, SessionStep
  <2>2. CASE UNCHANGED vars
    <3>1. UNCHANGED vectorVars /\ UNCHANGED <<at, recorded>>
      BY <2>2 DEF vars, durable
    <3>2. NoVector => NoVector'
      BY <3>1 DEF NoVector, vectorVars
    <3> QED
      BY <3>1, <3>2, UnchangedVector DEF SessionInv
  <2> QED
    BY <2>1, <2>2
<1> QED
  BY <1>1, <1>2, PTL DEF SessionSpec

\* A worker that a client may still be asked about is in the world that the
\* seed and the action log of its lane name, whatever failed or died before.
THEOREM WorldIsLogged == SessionSpec => []LogIsWorld
<1>1. SessionInv => LogIsWorld
  BY DEF SessionInv, VectorInv, LaneInv, ClientInv, LogIsWorld, Current
<1> QED
  BY <1>1, VectorInvariant, PTL

\* A restore of any lanes that fails has rolled every one of them back or has
\* poisoned the vector.
THEOREM RestoresAreAtomic == SessionSpec => []RestoreIsAtomic
<1>1. SessionInv => RestoreIsAtomic
  BY DEF SessionInv, VectorInv, CallInv, AllOk, RestoreIsAtomic
<1> QED
  BY <1>1, VectorInvariant, PTL

\* No worker process is left without a client that will close it.
THEOREM WorkersAreOwned == SessionSpec => []NoWorkerLeaks
<1>1. SessionInv => NoWorkerLeaks
  <2> SUFFICES ASSUME SessionInv, NEW l \in Lanes, NEW s \in Slots,
                      proc[l][s] # None, client[l] # s
               PROVE  client[l] # None /\ Calls(l, Replaces, "spawned")
    BY DEF NoWorkerLeaks
  <2>1. job[l] = "spawned"
    BY DEF SessionInv, VectorInv, LaneInv
  <2>2. l \in DOMAIN op.args /\ op.kind \in Replaces
    BY <2>1 DEF SessionInv, VectorInv, LaneInv
  <2>3. at # "off"
    BY <2>1 DEF SessionInv, NoVector
  <2>4. client[l] # None
    BY <2>1, <2>3 DEF SessionInv, Opened
  <2> QED
    BY <2>1, <2>2, <2>4 DEF Calls
<1> QED
  BY <1>1, VectorInvariant, PTL
=============================================================================
