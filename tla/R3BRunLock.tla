----------------------------- MODULE R3BRunLock -----------------------------
(***************************************************************************)
(* The three advisory file locks that keep one operator command at a time  *)
(* and keep the next command out until the children of a dead one are gone *)
(* (python/irisu_rl/r3b_lock.py, with the evaluator pool of                *)
(* r3b_supervisor.py and the lease registration of irisu_env/exact_ipc.py).*)
(*                                                                         *)
(* flock() locks belong to an open file description, not to a process: a   *)
(* description is named here by the process that opened it, and is closed  *)
(* when the last process that holds it, inherited or not, has closed it.   *)
(***************************************************************************)
EXTENDS Naturals, FiniteSets

CONSTANTS Operators,  \* command processes of this user
          Pool,       \* Pool[o] : the child processes that o may spawn
          Run,        \* Run[o] : the run directory o works on
          None

ASSUME ProcessAssumption ==
  /\ \A o \in Operators : Pool[o] \cap Operators = {}
  /\ \A o, p \in Operators : o # p => Pool[o] \cap Pool[p] = {}
  /\ None \notin Operators

Children == UNION {Pool[o] : o \in Operators}
Processes == Operators \cup Children
Runs == {Run[o] : o \in Operators}
Parent(w) == CHOOSE o \in Operators : w \in Pool[o]

VARIABLES at,      \* at[p] : what process p does next
          exact,   \* exact[p] : whether the exact worker that p launched is alive
          global,  \* holder of .irisu-r3b-operator-<uid>.lock
          runLock, \* runLock[r] : holder of r/operator.lock
          gate,    \* gate[o] : whether the ready gate of o's pool is set
          lease,   \* lease[d] : lock of description d on .irisu-r3b-evaluator-<uid>.lock
          fds      \* fds[d] : "own" and "exact", who has description d open

vars == <<at, exact, global, runLock, gate, lease, fds>>

LockInit ==
  /\ at = [p \in Processes |-> "off"]
  /\ exact = [p \in Processes |-> FALSE]
  /\ global = None
  /\ runLock = [r \in Runs |-> None]
  /\ gate = [o \in Operators |-> FALSE]
  /\ lease = [d \in Processes |-> "none"]
  /\ fds = [d \in Processes |-> {}]

Goto(p, step) == at' = [at EXCEPT ![p] = step]
MayShare(d) == \A e \in Processes \ {d} : lease[e] # "EX"
MayExclude(d) == \A e \in Processes \ {d} : lease[e] = "none"

\* Closing a descriptor unlocks only if it was the last of its description.
Close(d, which) ==
  /\ fds' = [fds EXCEPT ![d] = @ \ {which}]
  /\ lease' = [lease EXCEPT ![d] = IF fds[d] \subseteq {which} THEN "none" ELSE @]

-----------------------------------------------------------------------------
(* R3BRunLock.__enter__ and __exit__.  Every lock but the last is requested *)
(* without waiting: a busy one makes the command fail.                      *)

\* A process name is used again once nothing of its last process is left.
Unused(o) == at[o] = "off" /\ \A p \in Pool[o] \cup {o} : at[p] = "off" /\ ~exact[p]

\* Mutant: the evaluator lease and the run lock are enough.
TakeGlobalOpen(o) ==
  /\ Unused(o)
  /\ global' = o
  /\ Goto(o, "global")
  /\ UNCHANGED <<exact, runLock, gate, lease, fds>>

TakeGlobal(o) ==
  /\ Unused(o)
  /\ global = None
  /\ global' = o
  /\ Goto(o, "global")
  /\ UNCHANGED <<exact, runLock, gate, lease, fds>>

TakeLease(o) ==
  /\ at[o] = "global"
  /\ MayExclude(o)
  /\ lease' = [lease EXCEPT ![o] = "EX"]
  /\ fds' = [fds EXCEPT ![o] = {"own"}]
  /\ Goto(o, "lease")
  /\ UNCHANGED <<exact, global, runLock, gate>>

\* Mutant: a refused command keeps the global lock.
LeaseBusyKeepsGlobal(o) ==
  /\ at[o] = "global"
  /\ ~MayExclude(o)
  /\ Goto(o, "off")
  /\ UNCHANGED <<exact, global, runLock, gate, lease, fds>>

LeaseBusy(o) ==
  /\ at[o] = "global"
  /\ ~MayExclude(o)
  /\ global' = None
  /\ Goto(o, "off")
  /\ UNCHANGED <<exact, runLock, gate, lease, fds>>

TakeRunLock(o) ==
  /\ at[o] = "lease"
  /\ runLock[Run[o]] = None
  /\ runLock' = [runLock EXCEPT ![Run[o]] = o]
  /\ Goto(o, "downgrade")
  /\ UNCHANGED <<exact, global, gate, lease, fds>>

\* register_exact_worker_lease, then flock(LOCK_SH): the kernel drops the
\* exclusive lock first and takes the shared one, waiting for it, afterwards.
Unlock(o) ==
  /\ at[o] = "downgrade" /\ lease[o] = "EX"
  /\ lease' = [lease EXCEPT ![o] = "none"]
  /\ UNCHANGED <<at, exact, global, runLock, gate, fds>>

Relock(o) ==
  /\ at[o] = "downgrade" /\ lease[o] = "none"
  /\ MayShare(o)
  /\ lease' = [lease EXCEPT ![o] = "SH"]
  /\ Goto(o, "operate")
  /\ UNCHANGED <<exact, global, runLock, gate, fds>>

\* The command's work is over or has raised; no child is started any more.
Stop(o) ==
  /\ at[o] = "operate"
  /\ Goto(o, "stop")
  /\ UNCHANGED <<exact, global, runLock, gate, lease, fds>>

\* A command returns only after its pool is stopped; an exact worker that it
\* launched itself may still be alive and keeps the lease.
CloseLease(o) ==
  /\ at[o] = "stop"
  /\ \A w \in Pool[o] : at[w] = "off"
  /\ Close(o, "own")
  /\ Goto(o, "release")
  /\ UNCHANGED <<exact, global, runLock, gate>>

ReleaseRunLock(o) ==
  /\ at[o] = "release" /\ runLock[Run[o]] = o
  /\ runLock' = [runLock EXCEPT ![Run[o]] = None]
  /\ UNCHANGED <<at, exact, global, gate, lease, fds>>

ReleaseGlobal(o) ==
  /\ at[o] = "release" /\ runLock[Run[o]] # o
  /\ global' = None
  /\ Goto(o, "off")
  /\ UNCHANGED <<exact, runLock, gate, lease, fds>>

-----------------------------------------------------------------------------
(* The pool: _evaluation_worker_initializer, _capture_evaluation_process_   *)
(* groups and _stop_evaluation_executor.                                    *)

\* A pool is complete before its gate is set; the next one has another gate.
Spawn(w) ==
  LET o == Parent(w) IN
  /\ at[o] = "operate"
  /\ at[w] = "off" /\ ~exact[w]
  /\ ~gate[o] \/ \A v \in Pool[o] : at[v] = "off"
  /\ gate' = [gate EXCEPT ![o] = FALSE]
  /\ Goto(w, "spawned")
  /\ UNCHANGED <<exact, global, runLock, lease, fds>>

\* The parent has pinned the process group of every child.
SetGate(o) ==
  /\ at[o] = "operate" /\ ~gate[o]
  /\ \A w \in Pool[o] : at[w] # "off"
  /\ gate' = [gate EXCEPT ![o] = TRUE]
  /\ UNCHANGED <<at, exact, global, runLock, lease, fds>>

\* Mutant: no signal when the parent dies, and no look at getppid().
AlwaysAlive(w) == TRUE

ParentAlive(w) == at[Parent(w)] \in {"operate", "stop"}

\* prctl(PR_SET_PDEATHSIG), and getppid() for a parent that died before it.
ArmDeathSignal(w) ==
  /\ at[w] = "spawned"
  /\ Goto(w, IF ParentAlive(w) THEN "armed" ELSE "off")
  /\ UNCHANGED <<exact, global, runLock, gate, lease, fds>>

\* Mutant: the default operation of _acquire.
HoldLeaseExclusive(w) ==
  /\ at[w] = "armed"
  /\ IF MayExclude(w)
     THEN /\ lease' = [lease EXCEPT ![w] = "EX"]
          /\ fds' = [fds EXCEPT ![w] = {"own"}]
          /\ Goto(w, "gate")
     ELSE Goto(w, "off") /\ UNCHANGED <<lease, fds>>
  /\ UNCHANGED <<exact, global, runLock, gate>>

\* hold_evaluator_lease; a busy lease makes the initializer raise.
HoldLease(w) ==
  /\ at[w] = "armed"
  /\ IF MayShare(w)
     THEN /\ lease' = [lease EXCEPT ![w] = "SH"]
          /\ fds' = [fds EXCEPT ![w] = {"own"}]
          /\ Goto(w, "gate")
     ELSE Goto(w, "off") /\ UNCHANGED <<lease, fds>>
  /\ UNCHANGED <<exact, global, runLock, gate>>

\* From its parent's death on a child has a signal pending: a flock() under way
\* may still succeed, but the handler ends the child before it goes on.
PassGate(w) ==
  /\ at[w] = "gate"
  /\ gate[Parent(w)] /\ ParentAlive(w)
  /\ Goto(w, "work")
  /\ UNCHANGED <<exact, global, runLock, gate, lease, fds>>

\* Popen(pass_fds = the registered lease) by a command or by a child.
LaunchExact(p) ==
  /\ at[p] \in {"operate", "work"} /\ ~exact[p]
  /\ exact' = [exact EXCEPT ![p] = TRUE]
  /\ fds' = [fds EXCEPT ![p] = @ \cup {"exact"}]
  /\ UNCHANGED <<at, global, runLock, gate, lease>>

\* Closed by its client, or end of file on its standard input.
ExactExits(p) ==
  /\ exact[p]
  /\ exact' = [exact EXCEPT ![p] = FALSE]
  /\ Close(p, "exact")
  /\ UNCHANGED <<at, global, runLock, gate>>

\* SIGTERM from the parent's teardown or by PR_SET_PDEATHSIG, SIGKILL from
\* outside: the process goes, its exact worker perhaps later.
ChildDies(w) ==
  /\ at[w] # "off"
  /\ Close(w, "own")
  /\ Goto(w, "off")
  /\ UNCHANGED <<exact, global, runLock, gate>>

\* SIGKILL of a command: the kernel closes what it had open.  A gate that is
\* set stays set for the children, who share its memory.
Crash(o) ==
  /\ at[o] # "off"
  /\ Goto(o, "off")
  /\ Close(o, "own")
  /\ global' = IF global = o THEN None ELSE global
  /\ runLock' = [r \in Runs |-> IF runLock[r] = o THEN None ELSE runLock[r]]
  /\ UNCHANGED <<exact, gate>>

OperatorStep(o) ==
  \/ TakeLease(o) \/ LeaseBusy(o) \/ TakeRunLock(o) \/ Unlock(o) \/ Relock(o)
  \/ Stop(o) \/ CloseLease(o) \/ ReleaseRunLock(o) \/ ReleaseGlobal(o)

ChildStep(w) == ArmDeathSignal(w) \/ HoldLease(w) \/ PassGate(w)

LockNext ==
  \/ \E o \in Operators : TakeGlobal(o) \/ OperatorStep(o) \/ Crash(o)
  \/ \E o \in Operators : SetGate(o)
  \/ \E w \in Children : Spawn(w) \/ ChildStep(w) \/ ChildDies(w)
  \/ \E p \in Processes : LaunchExact(p) \/ ExactExits(p)

LockSpec == LockInit /\ [][LockNext]_vars

-----------------------------------------------------------------------------
(* Properties. *)

OperatorSteps == {"off", "global", "lease", "downgrade", "operate", "stop", "release"}
ChildSteps == {"off", "spawned", "armed", "gate", "work"}

\* Every process is at one of its own steps, every description has its kind of
\* lock and holders, and no child ever holds the lease exclusively.
LockTypeOK ==
  /\ at \in [Processes -> OperatorSteps \cup ChildSteps]
  /\ \A o \in Operators : at[o] \in OperatorSteps
  /\ \A w \in Children : at[w] \in ChildSteps /\ lease[w] # "EX"
  /\ exact \in [Processes -> BOOLEAN]
  /\ global \in Operators \cup {None}
  /\ runLock \in [Runs -> Operators \cup {None}]
  /\ gate \in [Operators -> BOOLEAN]
  /\ lease \in [Processes -> {"none", "SH", "EX"}]
  /\ fds \in [Processes -> SUBSET {"own", "exact"}]

Works(p) == at[p] = "work" \/ exact[p]
Belongs(p, o) == p \in Pool[o] \cup {o}

\* "Recovery is rejected until children from an interrupted operator have
\* exited": while a command operates, no training or evaluating child and no
\* exact worker of any other command is alive, wherever that other command
\* was killed and whatever its children were just doing.
OrphansAreGone ==
  \A o \in Operators, p \in Processes :
    at[o] \in {"operate", "stop"} /\ Works(p) => Belongs(p, o)

\* "Admits only one local R3 operator": commands exclude one another, on the
\* same run or on different ones, also while the lease is being downgraded,
\* which unlocks it for a moment.
OneOperator ==
  \A o, p \in Operators :
    at[o] \in {"downgrade", "operate", "stop"} /\ at[p] \in {"downgrade", "operate", "stop"}
      => o = p

\* A lock never outlives everybody who could release it.
NoLockLeaks ==
  /\ \A o \in Operators : global = o => at[o] # "off"
  /\ \A r \in Runs : runLock[r] # None => at[runLock[r]] # "off"
  /\ \A d \in Processes : lease[d] # "none" => at[d] # "off" \/ exact[d]

\* Commands end, children get their signals, exact workers see their end of
\* file, and operators keep issuing commands.
Fairness ==
  /\ \A o \in Operators : WF_vars(OperatorStep(o)) /\ WF_vars(TakeGlobal(o))
  /\ \A w \in Children : WF_vars(ChildDies(w))
  /\ \A p \in Processes : WF_vars(ExactExits(p))

LiveSpec == LockSpec /\ Fairness /\ <>[][\A o \in Operators : ~Crash(o)]_vars

\* The three locks never shut everybody out: once commands stop being killed,
\* one of them operates again and again, whatever the killed ones left behind.
\* (A single operator may be refused for ever: it may come each time just when
\* the exact worker of the last command has not exited yet.)
SomeoneOperates == []<>(\E o \in Operators : at[o] = "operate")
=============================================================================
