----------------------------- MODULE ExactVector -----------------------------
(***************************************************************************)
(* A vector of exact simulators, one worker process per lane               *)
(* (python/irisu_env/exact_ipc.py: ExactWorkerClient, ExactSimulator;      *)
(* python/irisu_env/padded.py: PaddedVectorEnv).                           *)
(*                                                                         *)
(* A worker's solver state cannot be copied.  A snapshot is the seed and   *)
(* the log of actions; restoring it starts another worker, replays the log *)
(* in it and then swaps the two.  A world is named here by exactly that    *)
(* history, since the workers are deterministic.                           *)
(*                                                                         *)
(* The threads of one call interleave freely over the lanes.  The waves of *)
(* _step_exact and its poll loop, which receives in any order, are covered *)
(* by the same interleavings.                                              *)
(***************************************************************************)
EXTENDS Naturals, Sequences, FiniteSets

CONSTANTS Lanes, EpisodeLength, None

ASSUME VectorAssumption == EpisodeLength \in Nat \ {0} /\ None \notin {0, 1}

VARIABLES proc,    \* proc[l][s] : the worker in slot s of lane l, or None
          client,  \* client[l] : slot of the open client of lane l, or None
          log,     \* log[l] : ExactSimulator._seed and _actions, None before reset
          job,     \* job[l] : where lane l is in the call under way
          op,      \* the call under way on the vector
          broken   \* PaddedVectorEnv._poisoned

vectorVars == <<proc, client, log, job, op, broken>>

Slots == {0, 1}

NewWorld(seed) == [seed |-> seed, acts |-> <<>>]
After(world, a) == [world EXCEPT !.acts = Append(@, a)]

\* A truncated episode; terminated ones differ in no step of this model.
Over(world) == Len(world.acts) >= EpisodeLength

NewWorker == [up |-> TRUE, world |-> None, reply |-> "none"]
NoCall == [kind |-> "none", args |-> <<>>, was |-> <<>>, answer |-> "none"]

NoVector ==
  /\ proc = [l \in Lanes |-> [s \in Slots |-> None]]
  /\ client = [l \in Lanes |-> None]
  /\ log = [l \in Lanes |-> None]
  /\ job = [l \in Lanes |-> "idle"]
  /\ op = NoCall
  /\ broken = FALSE

\* The owner of a vector never uses it after a failed call (it is poisoned), so no
\* call meets the closed client of a lane.
Current(l) == proc[l][client[l]]
Candidate(l) == 1 - client[l]
Finish(l, result) == job' = [job EXCEPT ![l] = result]

\* PaddedVectorEnv.close, or the end of the process that owns the vector.
DropVector ==
  /\ proc' = [l \in Lanes |-> [s \in Slots |-> None]]
  /\ client' = [l \in Lanes |-> None]
  /\ log' = [l \in Lanes |-> None]
  /\ job' = [l \in Lanes |-> "idle"]
  /\ op' = NoCall
  /\ broken' = FALSE

\* PaddedVectorEnv.__init__
OpenVector ==
  /\ proc' = [l \in Lanes |-> [s \in Slots |-> IF s = 0 THEN NewWorker ELSE None]]
  /\ client' = [l \in Lanes |-> 0]
  /\ UNCHANGED <<log, job, op, broken>>

\* ExactWorkerClient._abort
Abort(l) ==
  /\ proc' = [proc EXCEPT ![l][client[l]] = None]
  /\ client' = [client EXCEPT ![l] = None]

Calls(l, kinds, stage) == op.kind \in kinds /\ l \in DOMAIN op.args /\ job[l] = stage

-----------------------------------------------------------------------------
(* One step of one lane: send_step_padded and receive_step_padded_raw. *)

Send(l) ==
  /\ Calls(l, {"step"}, "todo")
  /\ IF Current(l).up
     THEN Finish(l, "sent") /\ UNCHANGED <<proc, client>>
     ELSE Finish(l, "failed") /\ Abort(l)
  /\ UNCHANGED <<log, op, broken>>

\* The worker answers; "bad" is an error status or a frame that does not parse,
\* with the world advanced or not.
WorkerAnswers(l) ==
  /\ job[l] = "sent" /\ Current(l).up /\ Current(l).reply = "none"
  /\ proc' = [proc EXCEPT ![l][client[l]].world = After(@, op.args[l]),
                          ![l][client[l]].reply = "ok"]
  /\ UNCHANGED <<client, log, job, op, broken>>

WorkerAnswersBadly(l) ==
  /\ job[l] = "sent" /\ Current(l).up /\ Current(l).reply = "none"
  /\ \E world \in {Current(l).world, After(Current(l).world, op.args[l])} :
       proc' = [proc EXCEPT ![l][client[l]].world = world,
                            ![l][client[l]].reply = "bad"]
  /\ UNCHANGED <<client, log, job, op, broken>>

\* Mutant: a failed response leaves the client in place.
ReceiveKeepsClient(l) ==
  /\ job[l] = "sent"
  /\ Current(l).reply # "none" \/ ~Current(l).up
  /\ proc' = [proc EXCEPT ![l][client[l]].reply = "none"]
  /\ IF Current(l).reply = "ok"
     THEN /\ Finish(l, "ok")
          /\ log' = [log EXCEPT ![l] = After(@, op.args[l])]
     ELSE Finish(l, "failed") /\ UNCHANGED log
  /\ UNCHANGED <<client, op, broken>>

Receive(l) ==
  /\ job[l] = "sent"
  /\ Current(l).reply # "none" \/ ~Current(l).up
  /\ IF Current(l).reply = "ok"
     THEN /\ Finish(l, "ok")
          /\ proc' = [proc EXCEPT ![l][client[l]].reply = "none"]
          /\ log' = [log EXCEPT ![l] = After(@, op.args[l])]
          /\ UNCHANGED client
     ELSE Finish(l, "failed") /\ Abort(l) /\ UNCHANGED log
  /\ UNCHANGED <<op, broken>>

-----------------------------------------------------------------------------
(* Replacing a lane's worker: reset_typed and restore_state_typed. *)

Replaces == {"reset", "restore", "rollback"}
InPlace(l) == op.kind = "reset" /\ log[l] = None

\* The first reset needs no second worker.
ResetInPlace(l) ==
  /\ Calls(l, Replaces, "todo")
  /\ InPlace(l) /\ Current(l).up
  /\ proc' = [proc EXCEPT ![l][client[l]].world = op.args[l]]
  /\ log' = [log EXCEPT ![l] = op.args[l]]
  /\ Finish(l, "ok")
  /\ UNCHANGED <<client, op, broken>>

\* A frame that cannot be read closes the client.  A payload that does not decode
\* leaves it open, in a world that no seed names.
ResetInPlaceFails(l) ==
  /\ Calls(l, Replaces, "todo")
  /\ InPlace(l)
  /\ \/ Abort(l)
     \/ /\ Current(l).up
        /\ proc' = [proc EXCEPT ![l][client[l]].world = op.args[l]]
        /\ UNCHANGED client
  /\ Finish(l, "failed")
  /\ UNCHANGED <<log, op, broken>>

\* _spawn_matching_client
Spawn(l) ==
  /\ Calls(l, Replaces, "todo")
  /\ ~InPlace(l)
  /\ proc' = [proc EXCEPT ![l][Candidate(l)] = NewWorker]
  /\ Finish(l, "spawned")
  /\ UNCHANGED <<client, log, op, broken>>

SpawnFails(l) ==
  /\ Calls(l, Replaces, "todo")
  /\ ~InPlace(l)
  /\ Finish(l, "failed")
  /\ UNCHANGED <<proc, client, log, op, broken>>

\* candidate.reset, then candidate.step for every action of the snapshot.
Replay(l) ==
  /\ Calls(l, Replaces, "spawned")
  /\ proc[l][Candidate(l)].up /\ proc[l][Candidate(l)].world # op.args[l]
  /\ LET world == proc[l][Candidate(l)].world
         next  == IF world = None THEN NewWorld(op.args[l].seed)
                  ELSE After(world, op.args[l].acts[Len(world.acts) + 1])
     IN  proc' = [proc EXCEPT ![l][Candidate(l)].world = next]
  /\ UNCHANGED <<client, log, job, op, broken>>

\* Mutant: the candidate is not closed.
ReplayFailsAndLeaks(l) ==
  /\ Calls(l, Replaces, "spawned")
  /\ proc[l][Candidate(l)].world # op.args[l]
  /\ Finish(l, "failed")
  /\ UNCHANGED <<proc, client, log, op, broken>>

ReplayFails(l) ==
  /\ Calls(l, Replaces, "spawned")
  /\ proc[l][Candidate(l)].world # op.args[l]
  /\ proc' = [proc EXCEPT ![l][Candidate(l)] = None]
  /\ Finish(l, "failed")
  /\ UNCHANGED <<client, log, op, broken>>

Swap(l) ==
  /\ Calls(l, Replaces, "spawned")
  /\ proc[l][Candidate(l)].world = op.args[l]
  /\ proc' = [proc EXCEPT ![l][client[l]] = None]
  /\ client' = [client EXCEPT ![l] = Candidate(l)]
  /\ log' = [log EXCEPT ![l] = op.args[l]]
  /\ Finish(l, "ok")
  /\ UNCHANGED <<op, broken>>

\* A worker that dies between two requests is noticed by the next one, so its
\* death is left to when a request is under way or due.
WorkerDies(l, s) ==
  /\ job[l] \in {"todo", "sent", "spawned"}
  /\ proc[l][s] # None /\ proc[l][s].up
  /\ proc' = [proc EXCEPT ![l][s].up = FALSE]
  /\ UNCHANGED <<client, log, job, op, broken>>

-----------------------------------------------------------------------------
(* Calls of the vector. *)

Begin(kind, args) ==
  /\ op' = [kind |-> kind, args |-> args, was |-> [l \in DOMAIN args |-> log[l]],
            answer |-> "none"]
  /\ job' = [l \in Lanes |-> IF l \in DOMAIN args THEN "todo" ELSE "idle"]
  /\ UNCHANGED <<proc, client, log, broken>>

\* restore_many, which keeps a clone of every lane.
CallRestore(snapshots) == Begin("restore", snapshots)

Drained == op.kind # "none" /\ \A l \in DOMAIN op.args : job[l] \in {"ok", "failed"}
AllOk == \A l \in DOMAIN op.args : job[l] = "ok"

\* Mutant: a failed restore leaves the lanes that have committed.
AnswerWithoutRollback ==
  /\ op.answer = "none" /\ Drained
  /\ op' = [op EXCEPT !.answer = IF AllOk THEN "ok" ELSE "failed"]
  /\ UNCHANGED <<proc, client, log, job, broken>>

\* _drain, and the rollback of restore_many.
Answer ==
  /\ op.answer = "none" /\ Drained
  /\ IF op.kind = "restore" /\ ~AllOk
     THEN /\ op' = [op EXCEPT !.kind = "rollback", !.args = op.was]
          /\ job' = [l \in Lanes |-> IF l \in DOMAIN op.args THEN "todo" ELSE "idle"]
          /\ UNCHANGED broken
     ELSE /\ op' = [op EXCEPT !.answer =
                      IF AllOk /\ op.kind # "rollback" THEN "ok" ELSE "failed"]
          /\ broken' = (broken \/ (op.kind = "rollback" /\ ~AllOk))
          /\ UNCHANGED job
  /\ UNCHANGED <<proc, client, log>>

\* The caller takes the answer and goes on.
Return ==
  /\ op' = NoCall
  /\ job' = [l \in Lanes |-> "idle"]
  /\ UNCHANGED <<proc, client, log, broken>>

\* The thread that serves a lane, and the worker that answers it.
LaneStep(l) ==
  \/ Send(l) \/ WorkerAnswers(l) \/ WorkerAnswersBadly(l) \/ Receive(l)
  \/ ResetInPlace(l) \/ ResetInPlaceFails(l)
  \/ Spawn(l) \/ SpawnFails(l) \/ Replay(l) \/ ReplayFails(l) \/ Swap(l)

VectorStep == Answer \/ \E l \in Lanes : LaneStep(l)

-----------------------------------------------------------------------------
(* Properties. *)

\* A worker that a client may still be asked about is in exactly the world that
\* the seed and the action log of its lane name, after any failed response and
\* in the middle of any restore: otherwise "a stale action log [would] drive
\* subsequent steps or snapshots".
LogIsWorld ==
  \A l \in Lanes :
    client[l] # None /\ Current(l).up /\ job[l] # "sent" /\ log[l] # None =>
      Current(l).world = log[l]

\* A restore that fails and does not poison the vector has rolled back every
\* lane, those that had already swapped their workers too.
RestoreIsAtomic ==
  op.kind \in {"restore", "rollback"} /\ op.answer = "failed" /\ ~broken =>
    \A l \in DOMAIN op.was : log[l] = op.was[l]

\* A living worker has a client, or a restore that will swap or close it.
NoWorkerLeaks ==
  \A l \in Lanes, s \in Slots :
    proc[l][s] # None /\ proc[l][s].up /\ client[l] # s =>
      client[l] # None /\ Calls(l, Replaces, "spawned")
=============================================================================
