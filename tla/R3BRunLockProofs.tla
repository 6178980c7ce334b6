--------------------------- MODULE R3BRunLockProofs ---------------------------
(***************************************************************************)
(* Theorems about the run lock, for any commands, children and runs.  The  *)
(* inductive invariant LockInv adds to the type invariant who holds what   *)
(* at which step: a command that has begun holds the global lock, a        *)
(* description is open exactly while its process is between taking and     *)
(* closing it, and no orphan works once a command has the exclusive lease. *)
(***************************************************************************)
EXTENDS R3BRunLock, TLAPS

\* The global lock is what keeps commands apart, from their first step on.
HolderIsGlobal == \A o \in Operators : at[o] # "off" <=> global = o

\* A run lock is held only for the run of its holder, and only while it runs.
RunLockIsOwn ==
  \A o \in Operators, r \in Runs :
    runLock[r] = o => r = Run[o] /\ at[o] \in {"downgrade", "operate", "stop", "release"}

Holding == {"lease", "downgrade", "operate", "stop", "gate", "work"}

\* Who has a description open, and that an open one is locked wherever its
\* process relies on it.
LeaseFollows(d) ==
  /\ "own" \in fds[d] <=> at[d] \in Holding
  /\ "exact" \in fds[d] <=> exact[d]
  /\ lease[d] # "none" => fds[d] # {}
  /\ at[d] = "lease" => lease[d] = "EX"
  /\ at[d] \in {"operate", "stop", "gate", "work"} => lease[d] = "SH"
  /\ exact[d] => lease[d] = "SH" /\ at[d] \in {"operate", "stop", "release", "work", "off"}

\* Nothing of another command works from the exclusive lease on.
NoForeignWork ==
  \A o \in Operators, p \in Processes :
    at[o] \in {"lease", "downgrade", "operate", "stop"} /\ Works(p) => Belongs(p, o)

LockInv ==
  /\ LockTypeOK
  /\ HolderIsGlobal
  /\ RunLockIsOwn
  /\ \A d \in Processes : LeaseFollows(d)
  /\ NoForeignWork

-----------------------------------------------------------------------------
(* Who is whose child. *)

\* A process is a command or a child, never both, and a child has one parent.
LEMMA Families ==
  /\ \A o \in Operators : o \in Processes /\ o \notin Children /\ o # None
  /\ \A w \in Children : w \in Processes /\ w \notin Operators
  /\ \A w \in Children : Parent(w) \in Operators /\ w \in Pool[Parent(w)]
  /\ \A o \in Operators : \A w \in Pool[o] : w \in Children /\ Parent(w) = o
  /\ \A o \in Operators : Run[o] \in Runs
<1>1. \A w \in Children : Parent(w) \in Operators /\ w \in Pool[Parent(w)]
  BY DEF Children, Parent
<1>2. \A o \in Operators : \A w \in Pool[o] : w \in Children
  BY DEF Children
<1>3. \A o \in Operators : \A w \in Pool[o] : Parent(w) = o
  BY <1>1, <1>2, ProcessAssumption
<1>4. \A w \in Children : w \notin Operators
  BY ProcessAssumption DEF Children
<1> QED
  BY <1>1, <1>2, <1>3, <1>4, ProcessAssumption DEF Processes, Runs

\* One step of the lock, by what kind of process takes it.
LEMMA StepCases ==
  ASSUME LockNext
  PROVE  \/ \E o \in Operators :
              \/ TakeGlobal(o) \/ TakeLease(o) \/ LeaseBusy(o) \/ TakeRunLock(o)
              \/ Unlock(o) \/ Relock(o) \/ Stop(o) \/ CloseLease(o)
              \/ ReleaseRunLock(o) \/ ReleaseGlobal(o) \/ SetGate(o) \/ Crash(o)
         \/ \E w \in Children :
              \/ Spawn(w) \/ ArmDeathSignal(w) \/ HoldLease(w) \/ PassGate(w) \/ ChildDies(w)
         \/ \E p \in Processes : LaunchExact(p) \/ ExactExits(p)
BY DEF LockNext, OperatorStep, ChildStep

\* What closing a descriptor leaves of the description.
LEMMA CloseFacts ==
  ASSUME LockTypeOK, NEW d \in Processes, NEW which \in {"own", "exact"}, Close(d, which)
  PROVE  /\ fds' \in [Processes -> SUBSET {"own", "exact"}]
         /\ lease' \in [Processes -> {"none", "SH", "EX"}]
         /\ \A e \in Processes \ {d} : fds'[e] = fds[e] /\ lease'[e] = lease[e]
         /\ fds'[d] = fds[d] \ {which}
         /\ fds'[d] = {} => lease'[d] = "none"
         /\ fds'[d] # {} => lease'[d] = lease[d]
BY DEF LockTypeOK, Close

LEMMA InitHolds ==
  ASSUME LockInit
  PROVE  LockInv
BY Families DEF LockInit, LockInv, LockTypeOK, HolderIsGlobal, RunLockIsOwn, LeaseFollows,
   NoForeignWork, Works, Holding, OperatorSteps, ChildSteps

-----------------------------------------------------------------------------
(* The parts of LockInv, one by one: no step breaks them. *)

LEMMA TypeStep ==
  ASSUME LockTypeOK, LockNext
  PROVE  LockTypeOK'
<1> USE Families DEF LockTypeOK, Goto, OperatorSteps, ChildSteps
<1>1. ASSUME NEW o \in Operators, TakeGlobal(o)
      PROVE  LockTypeOK'
  BY <1>1 DEF TakeGlobal
<1>2. ASSUME NEW o \in Operators, TakeLease(o)
      PROVE  LockTypeOK'
  BY <1>2 DEF TakeLease
<1>3. ASSUME NEW o \in Operators, LeaseBusy(o)
      PROVE  LockTypeOK'
  BY <1>3 DEF LeaseBusy
<1>4. ASSUME NEW o \in Operators, TakeRunLock(o)
      PROVE  LockTypeOK'
  BY <1>4 DEF TakeRunLock
<1>5. ASSUME NEW o \in Operators, Unlock(o)
      PROVE  LockTypeOK'
  BY <1>5 DEF Unlock
<1>6. ASSUME NEW o \in Operators, Relock(o)
      PROVE  LockTypeOK'
  BY <1>6 DEF Relock
<1>7. ASSUME NEW o \in Operators, Stop(o)
      PROVE  LockTypeOK'
  BY <1>7 DEF Stop
<1>8. ASSUME NEW o \in Operators, CloseLease(o)
      PROVE  LockTypeOK'
  BY <1>8, CloseFacts DEF CloseLease
<1>9. ASSUME NEW o \in Operators, ReleaseRunLock(o)
      PROVE  LockTypeOK'
  BY <1>9 DEF ReleaseRunLock
<1>10. ASSUME NEW o \in Operators, ReleaseGlobal(o)
      PROVE  LockTypeOK'
  BY <1>10 DEF ReleaseGlobal
<1>11. ASSUME NEW o \in Operators, SetGate(o)
      PROVE  LockTypeOK'
  BY <1>11 DEF SetGate
<1>12. ASSUME NEW o \in Operators, Crash(o)
      PROVE  LockTypeOK'
  BY <1>12, CloseFacts DEF Crash
<1>13. ASSUME NEW w \in Children, Spawn(w)
      PROVE  LockTypeOK'
  BY <1>13 DEF Spawn
<1>14. ASSUME NEW w \in Children, ArmDeathSignal(w)
      PROVE  LockTypeOK'
  BY <1>14 DEF ArmDeathSignal
<1>15. ASSUME NEW w \in Children, HoldLease(w)
      PROVE  LockTypeOK'
  BY <1>15 DEF HoldLease
<1>16. ASSUME NEW w \in Children, PassGate(w)
      PROVE  LockTypeOK'
  BY <1>16 DEF PassGate
<1>17. ASSUME NEW w \in Children, ChildDies(w)
      PROVE  LockTypeOK'
  BY <1>17, CloseFacts DEF ChildDies
<1>18. ASSUME NEW p \in Processes, LaunchExact(p)
      PROVE  LockTypeOK'
  BY <1>18 DEF LaunchExact
<1>19. ASSUME NEW p \in Processes, ExactExits(p)
      PROVE  LockTypeOK'
  BY <1>19, CloseFacts DEF ExactExits
<1> QED
  BY <1>1, <1>2, <1>3, <1>4, <1>5, <1>6, <1>7, <1>8, <1>9, <1>10, <1>11, <1>12,
     <1>13, <1>14, <1>15, <1>16, <1>17, <1>18, <1>19, StepCases

\* Only TakeGlobal begins a command, and it needs the global lock to be free.
LEMMA HolderStep ==
  ASSUME LockInv, LockNext
  PROVE  HolderIsGlobal' /\ RunLockIsOwn'
<1> USE Families DEF LockInv, LockTypeOK, HolderIsGlobal, RunLockIsOwn, Goto
<1>1. ASSUME NEW o \in Operators, TakeGlobal(o)
      PROVE  HolderIsGlobal' /\ RunLockIsOwn'
  BY <1>1 DEF TakeGlobal
<1>2. ASSUME NEW o \in Operators, TakeLease(o)
      PROVE  HolderIsGlobal' /\ RunLockIsOwn'
  BY <1>2 DEF TakeLease
<1>3. ASSUME NEW o \in Operators, LeaseBusy(o)
      PROVE  HolderIsGlobal' /\ RunLockIsOwn'
  BY <1>3 DEF LeaseBusy
<1>4. ASSUME NEW o \in Operators, TakeRunLock(o)
      PROVE  HolderIsGlobal' /\ RunLockIsOwn'
  BY <1>4 DEF TakeRunLock
<1>5. ASSUME NEW o \in Operators, Unlock(o)
      PROVE  HolderIsGlobal' /\ RunLockIsOwn'
  BY <1>5 DEF Unlock
<1>6. ASSUME NEW o \in Operators, Relock(o)
      PROVE  HolderIsGlobal' /\ RunLockIsOwn'
  BY <1>6 DEF Relock
<1>7. ASSUME NEW o \in Operators, Stop(o)
      PROVE  HolderIsGlobal' /\ RunLockIsOwn'
  BY <1>7 DEF Stop
<1>8. ASSUME NEW o \in Operators, CloseLease(o)
      PROVE  HolderIsGlobal' /\ RunLockIsOwn'
  BY <1>8, CloseFacts DEF CloseLease
<1>9. ASSUME NEW o \in Operators, ReleaseRunLock(o)
      PROVE  HolderIsGlobal' /\ RunLockIsOwn'
  BY <1>9 DEF ReleaseRunLock
<1>10. ASSUME NEW o \in Operators, ReleaseGlobal(o)
      PROVE  HolderIsGlobal' /\ RunLockIsOwn'
  BY <1>10 DEF ReleaseGlobal
<1>11. ASSUME NEW o \in Operators, SetGate(o)
      PROVE  HolderIsGlobal' /\ RunLockIsOwn'
  BY <1>11 DEF SetGate
<1>12. ASSUME NEW o \in Operators, Crash(o)
      PROVE  HolderIsGlobal' /\ RunLockIsOwn'
  BY <1>12, CloseFacts DEF Crash
<1>13. ASSUME NEW w \in Children, Spawn(w)
      PROVE  HolderIsGlobal' /\ RunLockIsOwn'
  BY <1>13 DEF Spawn
<1>14. ASSUME NEW w \in Children, ArmDeathSignal(w)
      PROVE  HolderIsGlobal' /\ RunLockIsOwn'
  BY <1>14 DEF ArmDeathSignal
<1>15. ASSUME NEW w \in Children, HoldLease(w)
      PROVE  HolderIsGlobal' /\ RunLockIsOwn'
  BY <1>15 DEF HoldLease
<1>16. ASSUME NEW w \in Children, PassGate(w)
      PROVE  HolderIsGlobal' /\ RunLockIsOwn'
  BY <1>16 DEF PassGate
<1>17. ASSUME NEW w \in Children, ChildDies(w)
      PROVE  HolderIsGlobal' /\ RunLockIsOwn'
  BY <1>17, CloseFacts DEF ChildDies
<1>18. ASSUME NEW p \in Processes, LaunchExact(p)
      PROVE  HolderIsGlobal' /\ RunLockIsOwn'
  BY <1>18 DEF LaunchExact
<1>19. ASSUME NEW p \in Processes, ExactExits(p)
      PROVE  HolderIsGlobal' /\ RunLockIsOwn'
  BY <1>19, CloseFacts DEF ExactExits
<1> QED
  BY <1>1, <1>2, <1>3, <1>4, <1>5, <1>6, <1>7, <1>8, <1>9, <1>10, <1>11, <1>12,
     <1>13, <1>14, <1>15, <1>16, <1>17, <1>18, <1>19, StepCases

\* A description that is opened was closed: its process was at a step that
\* does not hold it, and no exact worker of an earlier process is left.
LEMMA LeaseStep ==
  ASSUME LockInv, LockNext, NEW d \in Processes
  PROVE  LeaseFollows(d)'
<1> USE Families DEF LockInv, LockTypeOK, LeaseFollows, Holding, Goto, OperatorSteps, ChildSteps
<1>1. ASSUME NEW o \in Operators, TakeGlobal(o)
      PROVE  LeaseFollows(d)'
  BY <1>1 DEF TakeGlobal, Unused
<1>2. ASSUME NEW o \in Operators, TakeLease(o)
      PROVE  LeaseFollows(d)'
  BY <1>2 DEF TakeLease
<1>3. ASSUME NEW o \in Operators, LeaseBusy(o)
      PROVE  LeaseFollows(d)'
  BY <1>3 DEF LeaseBusy
<1>4. ASSUME NEW o \in Operators, TakeRunLock(o)
      PROVE  LeaseFollows(d)'
  BY <1>4 DEF TakeRunLock
<1>5. ASSUME NEW o \in Operators, Unlock(o)
      PROVE  LeaseFollows(d)'
  BY <1>5 DEF Unlock
<1>6. ASSUME NEW o \in Operators, Relock(o)
      PROVE  LeaseFollows(d)'
  BY <1>6 DEF Relock
<1>7. ASSUME NEW o \in Operators, Stop(o)
      PROVE  LeaseFollows(d)'
  BY <1>7 DEF Stop
<1>8. ASSUME NEW o \in Operators, CloseLease(o)
      PROVE  LeaseFollows(d)'
  BY <1>8, CloseFacts DEF CloseLease
<1>9. ASSUME NEW o \in Operators, ReleaseRunLock(o)
      PROVE  LeaseFollows(d)'
  BY <1>9 DEF ReleaseRunLock
<1>10. ASSUME NEW o \in Operators, ReleaseGlobal(o)
      PROVE  LeaseFollows(d)'
  BY <1>10 DEF ReleaseGlobal
<1>11. ASSUME NEW o \in Operators, SetGate(o)
      PROVE  LeaseFollows(d)'
  BY <1>11 DEF SetGate
<1>12. ASSUME NEW o \in Operators, Crash(o)
      PROVE  LeaseFollows(d)'
  BY <1>12, CloseFacts DEF Crash
<1>13. ASSUME NEW w \in Children, Spawn(w)
      PROVE  LeaseFollows(d)'
  BY <1>13 DEF Spawn
<1>14. ASSUME NEW w \in Children, ArmDeathSignal(w)
      PROVE  LeaseFollows(d)'
  BY <1>14 DEF ArmDeathSignal
<1>15. ASSUME NEW w \in Children, HoldLease(w)
      PROVE  LeaseFollows(d)'
  BY <1>15 DEF HoldLease
<1>16. ASSUME NEW w \in Children, PassGate(w)
      PROVE  LeaseFollows(d)'
  BY <1>16 DEF PassGate
<1>17. ASSUME NEW w \in Children, ChildDies(w)
      PROVE  LeaseFollows(d)'
  BY <1>17, CloseFacts DEF ChildDies
<1>18. ASSUME NEW p \in Processes, LaunchExact(p)
      PROVE  LeaseFollows(d)'
  BY <1>18 DEF LaunchExact
<1>19. ASSUME NEW p \in Processes, ExactExits(p)
      PROVE  LeaseFollows(d)'
  BY <1>19, CloseFacts DEF ExactExits
<1> QED
  BY <1>1, <1>2, <1>3, <1>4, <1>5, <1>6, <1>7, <1>8, <1>9, <1>10, <1>11, <1>12,
     <1>13, <1>14, <1>15, <1>16, <1>17, <1>18, <1>19, StepCases

\* The exclusive lease shows that nobody else works; afterwards only children
\* of a living command start to work, and there is only this one.
LEMMA ForeignStep ==
  ASSUME LockInv, LockNext
  PROVE  NoForeignWork'
<1> USE Families DEF LockInv, LockTypeOK, NoForeignWork, Works, Belongs, Goto
<1>1. ASSUME NEW o \in Operators, TakeGlobal(o)
      PROVE  NoForeignWork'
  BY <1>1 DEF TakeGlobal
<1>2. ASSUME NEW o \in Operators, TakeLease(o)
      PROVE  NoForeignWork'
  BY <1>2 DEF TakeLease, MayExclude, LeaseFollows
<1>3. ASSUME NEW o \in Operators, LeaseBusy(o)
      PROVE  NoForeignWork'
  BY <1>3 DEF LeaseBusy
<1>4. ASSUME NEW o \in Operators, TakeRunLock(o)
      PROVE  NoForeignWork'
  BY <1>4 DEF TakeRunLock
<1>5. ASSUME NEW o \in Operators, Unlock(o)
      PROVE  NoForeignWork'
  BY <1>5 DEF Unlock
<1>6. ASSUME NEW o \in Operators, Relock(o)
      PROVE  NoForeignWork'
  BY <1>6 DEF Relock
<1>7. ASSUME NEW o \in Operators, Stop(o)
      PROVE  NoForeignWork'
  BY <1>7 DEF Stop
<1>8. ASSUME NEW o \in Operators, CloseLease(o)
      PROVE  NoForeignWork'
  BY <1>8, CloseFacts DEF CloseLease
<1>9. ASSUME NEW o \in Operators, ReleaseRunLock(o)
      PROVE  NoForeignWork'
  BY <1>9 DEF ReleaseRunLock
<1>10. ASSUME NEW o \in Operators, ReleaseGlobal(o)
      PROVE  NoForeignWork'
  BY <1>10 DEF ReleaseGlobal
<1>11. ASSUME NEW o \in Operators, SetGate(o)
      PROVE  NoForeignWork'
  BY <1>11 DEF SetGate
<1>12. ASSUME NEW o \in Operators, Crash(o)
      PROVE  NoForeignWork'
  BY <1>12, CloseFacts DEF Crash
<1>13. ASSUME NEW w \in Children, Spawn(w)
      PROVE  NoForeignWork'
  BY <1>13 DEF Spawn
<1>14. ASSUME NEW w \in Children, ArmDeathSignal(w)
      PROVE  NoForeignWork'
  BY <1>14 DEF ArmDeathSignal
<1>15. ASSUME NEW w \in Children, HoldLease(w)
      PROVE  NoForeignWork'
  BY <1>15 DEF HoldLease
<1>16. ASSUME NEW w \in Children, PassGate(w)
      PROVE  NoForeignWork'
  BY <1>16 DEF PassGate, ParentAlive, HolderIsGlobal
<1>17. ASSUME NEW w \in Children, ChildDies(w)
      PROVE  NoForeignWork'
  BY <1>17, CloseFacts DEF ChildDies
<1>18. ASSUME NEW p \in Processes, LaunchExact(p)
      PROVE  NoForeignWork'
  BY <1>18 DEF LaunchExact, HolderIsGlobal, ChildSteps, Processes
<1>19. ASSUME NEW p \in Processes, ExactExits(p)
      PROVE  NoForeignWork'
  BY <1>19, CloseFacts DEF ExactExits
<1> QED
  BY <1>1, <1>2, <1>3, <1>4, <1>5, <1>6, <1>7, <1>8, <1>9, <1>10, <1>11, <1>12,
     <1>13, <1>14, <1>15, <1>16, <1>17, <1>18, <1>19, StepCases

-----------------------------------------------------------------------------
(* The theorems. *)

\* The invariant that carries the others.
THEOREM LockInvariant == LockSpec => []LockInv
<1>1. LockInit => LockInv
  BY InitHolds
<1>2. LockInv /\ [LockNext]_vars => LockInv'
  <2> SUFFICES ASSUME LockInv, [LockNext]_vars
               PROVE  LockInv'
    OBVIOUS
  <2>1. CASE LockNext
    BY <2>1, TypeStep, HolderStep, LeaseStep, ForeignStep DEF LockInv, Processes, Children
  <2>2. CASE UNCHANGED vars
    BY <2>2 DEF vars, LockInv, LockTypeOK, HolderIsGlobal, RunLockIsOwn, LeaseFollows,
                NoForeignWork, Works
  <2> QED
    BY <2>1, <2>2
<1> QED
  BY <1>1, <1>2, PTL DEF LockSpec

\* Every process is at one of its own steps and no child excludes the others.
THEOREM LockTypeCorrect == LockSpec => []LockTypeOK
<1>1. LockInv => LockTypeOK
  BY DEF LockInv
<1> QED
  BY <1>1, LockInvariant, PTL

\* Commands exclude one another, also while the lease is downgraded: each of
\* them holds the one global lock.
THEOREM CommandsExclude == LockSpec => []OneOperator
<1>1. LockInv => OneOperator
  BY DEF LockInv, HolderIsGlobal, OneOperator
<1> QED
  BY <1>1, LockInvariant, PTL

\* While a command operates, no child and no exact worker of another command
\* is alive, however many were killed and whatever their children were doing.
THEOREM OrphansGone == LockSpec => []OrphansAreGone
<1>1. LockInv => OrphansAreGone
  BY DEF LockInv, NoForeignWork, OrphansAreGone
<1> QED
  BY <1>1, LockInvariant, PTL

\* Every lock that is held is held by a process that can still release it.
THEOREM LocksAreReleasable == LockSpec => []NoLockLeaks
<1>1. LockInv => NoLockLeaks
  <2> SUFFICES ASSUME LockInv PROVE NoLockLeaks
    OBVIOUS
  <2>1. \A o \in Operators : global = o => at[o] # "off"
    BY DEF LockInv, HolderIsGlobal
  <2>2. \A r \in Runs : runLock[r] # None => at[runLock[r]] # "off"
    BY DEF LockInv, LockTypeOK, RunLockIsOwn
  <2>3. \A d \in Processes : lease[d] # "none" => at[d] # "off" \/ exact[d]
    BY DEF LockInv, LockTypeOK, LeaseFollows, Holding
  <2> QED
    BY <2>1, <2>2, <2>3 DEF NoLockLeaks
<1> QED
  BY <1>1, LockInvariant, PTL
=============================================================================
