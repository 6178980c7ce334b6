----------------------- MODULE SealedTestLedgerProofs -----------------------
(***************************************************************************)
(* Theorems about the one-shot ledger, for any jobs, tokens, outcomes and  *)
(* reasons.  The inductive invariant LedgerInv adds to the type invariant  *)
(* and to what each connect verifies how the attempt row and the unit rows *)
(* depend on each other: nothing is pending before the attempt is          *)
(* authorized, nothing is unfinished after it is finalized.                *)
(***************************************************************************)
EXTENDS SealedTestLedger, TLAPS

NothingEarly ==
  attempt \in {"absent", "ready"} => \A u \in Units : row[u].state = "absent"

NothingDecidedEarly == attempt # "finalized" => accepted = None

LedgerInv ==
  /\ LedgerTypeOK
  /\ ConnectionVerifies
  /\ DecisionCoversAll
  /\ NothingEarly
  /\ NothingDecidedEarly

-----------------------------------------------------------------------------
(* What one UPDATE of a unit's row does. *)

\* The four transitions of a row, whatever table it is in.
UnitStep(u, t) ==
  \/ Claim(u, t)
  \/ Begin(u, t)
  \/ \E o \in Outcomes : Complete(u, t, o)
  \/ \E f \in FailureTexts : Fail(u, t, f)

\* The wrappers of jobs and batch are unit steps: the proofs below split on
\* these six cases and not on the twelve disjuncts of the next-state relation.
LEMMA StepCases ==
  ASSUME LedgerNext
  PROVE  \/ Precommit
         \/ AuthorizeOnce
         \/ \E u \in Units, t \in Tokens : UnitStep(u, t)
         \/ \E f \in FailureTexts : TerminalizeOrphanedExecution(f)
         \/ \E gates \in BOOLEAN : FinalizeOnce(gates)
BY DEF LedgerNext, UnitStep, Units, ClaimJob, BeginJob, CompleteJob, FailJob,
       ClaimBaselineBatch, BeginBaselineBatch, CompleteBaselineBatch, FailBaselineBatch

\* Stripping a failure text gives a failure text.
LEMMA StripType ==
  ASSUME NEW f \in FailureTexts
  PROVE  Strip(f) \in FailureTexts
BY DEF Strip, FailureTexts

\* A unit step needs an authorized, unfinished unit and leaves a row of the
\* right shape there and everything else alone.
LEMMA UnitStepFacts ==
  ASSUME LedgerInv, NEW u \in Units, NEW t \in Tokens, UnitStep(u, t)
  PROVE  /\ row[u].state \in {"pending", "leased", "running"}
         /\ UNCHANGED <<attempt, accepted>>
         /\ row' \in [Units -> Rows]
         /\ \A v \in Units \ {u} : row'[v] = row[v]
         /\ RowVerifies(row'[u])
         /\ row'[u].state # "absent"
<1>1. row \in [Units -> Rows] /\ row[u] \in Rows /\ RowVerifies(row[u])
  BY DEF LedgerInv, LedgerTypeOK, ConnectionVerifies
\* It is enough to name the new row.
<1>2. ASSUME NEW r \in Rows, RowVerifies(r), r.state # "absent",
             row' = [row EXCEPT ![u] = r]
      PROVE  /\ row' \in [Units -> Rows]
             /\ \A v \in Units \ {u} : row'[v] = row[v]
             /\ RowVerifies(row'[u])
             /\ row'[u].state # "absent"
  <2>1. row'[u] = r
    BY <1>1, <1>2, Zenon
  <2>2. \A v \in Units \ {u} : row'[v] = row[v]
    BY <1>1, <1>2, Zenon
  <2>3. row' \in [Units -> Rows]
    BY <1>1, <1>2, Zenon
  <2> QED
    BY <1>2, <2>1, <2>2, <2>3, Zenon
<1>3. CASE Claim(u, t)
  <2> DEFINE r == [row[u] EXCEPT !.state = "leased", !.token = t]
  <2>1. row' = [row EXCEPT ![u] = r]
    BY <1>1, <1>3 DEF Claim, Rows
  <2>2. r \in Rows
    BY <1>1 DEF Rows, States
  <2>3. RowVerifies(r)
    BY <1>1, <1>3, NullAssumption DEF Claim, Rows, RowVerifies
  <2>4. r.state # "absent"
    BY <1>1 DEF Rows
  <2>5. row[u].state \in {"pending", "leased"} /\ UNCHANGED <<attempt, accepted>>
    BY <1>3 DEF Claim
  <2> HIDE DEF r
  <2> QED
    BY <1>2, <2>1, <2>2, <2>3, <2>4, <2>5
<1>4. CASE Begin(u, t)
  <2> DEFINE r == [row[u] EXCEPT !.state = "running"]
  <2>1. row' = [row EXCEPT ![u] = r]
    BY <1>1, <1>4 DEF Begin, Rows
  <2>2. r \in Rows
    BY <1>1 DEF Rows, States
  <2>3. RowVerifies(r)
    BY <1>1, <1>4 DEF Begin, Holds, Rows, RowVerifies
  <2>4. r.state # "absent"
    BY <1>1 DEF Rows
  <2>5. row[u].state = "leased" /\ UNCHANGED <<attempt, accepted>>
    BY <1>4 DEF Begin, Holds
  <2> HIDE DEF r
  <2> QED
    BY <1>2, <2>1, <2>2, <2>3, <2>4, <2>5
<1>5. ASSUME NEW o \in Outcomes, Complete(u, t, o)
      PROVE  /\ row[u].state = "running"
             /\ UNCHANGED <<attempt, accepted>>
             /\ row' \in [Units -> Rows]
             /\ \A v \in Units \ {u} : row'[v] = row[v]
             /\ RowVerifies(row'[u])
             /\ row'[u].state # "absent"
  <2> DEFINE r == [row[u] EXCEPT !.state = "complete", !.outcome = o]
  <2>1. row' = [row EXCEPT ![u] = r]
    BY <1>1, <1>5 DEF Complete, Rows
  <2>2. r \in Rows
    BY <1>1 DEF Rows, States
  <2>3. RowVerifies(r)
    BY <1>1, <1>5, NullAssumption DEF Complete, Holds, Rows, RowVerifies
  <2>4. r.state # "absent"
    BY <1>1 DEF Rows
  <2>5. row[u].state = "running" /\ UNCHANGED <<attempt, accepted>>
    BY <1>5 DEF Complete, Holds
  <2> HIDE DEF r
  <2> QED
    BY <1>2, <2>1, <2>2, <2>3, <2>4, <2>5
<1>6. ASSUME NEW f \in FailureTexts, Fail(u, t, f)
      PROVE  /\ row[u].state = "running"
             /\ UNCHANGED <<attempt, accepted>>
             /\ row' \in [Units -> Rows]
             /\ \A v \in Units \ {u} : row'[v] = row[v]
             /\ RowVerifies(row'[u])
             /\ row'[u].state # "absent"
  <2> DEFINE s == Strip(f)
             r == [row[u] EXCEPT !.state = "failure", !.failure = s]
  <2>1. row' = [row EXCEPT ![u] = r]
    BY <1>1, <1>6 DEF Fail, Rows
  <2>2. s \in FailureTexts /\ s # None
    BY StripType, NullAssumption DEF FailureTexts
  <2>3. row[u].state = "running" /\ UNCHANGED <<attempt, accepted>>
    BY <1>6 DEF Fail, Holds
  <2> HIDE DEF s
  <2>4. r \in Rows
    BY <1>1, <2>2 DEF Rows, States
  <2>5. RowVerifies(r)
    BY <1>1, <2>2, <2>3 DEF Rows, RowVerifies
  <2>6. r.state # "absent"
    BY <1>1 DEF Rows
  <2> HIDE DEF r
  <2> QED
    BY <1>2, <2>1, <2>3, <2>4, <2>5, <2>6
<1> QED
  BY <1>3, <1>4, <1>5, <1>6 DEF UnitStep

-----------------------------------------------------------------------------
(* The inductive invariant. *)

\* The freshly created ledger satisfies it.
LEMMA InitInv ==
  ASSUME LedgerInit
  PROVE  LedgerInv
<1>1. \A u \in Units : row[u] = Row("absent")
  BY DEF LedgerInit
<1>2. Row("absent") \in Rows /\ RowVerifies(Row("absent"))
  BY DEF Row, Rows, States, RowVerifies
<1>3. row \in [Units -> Rows]
  BY <1>2 DEF LedgerInit
<1> QED
  BY <1>1, <1>2, <1>3 DEF LedgerInit, LedgerInv, LedgerTypeOK, ConnectionVerifies,
     DecisionCoversAll, NothingEarly, NothingDecidedEarly, Row

\* Every operation preserves it.
LEMMA NextInv ==
  ASSUME LedgerInv, [LedgerNext]_ledger
  PROVE  LedgerInv'
<1>1. CASE UNCHANGED ledger
  BY <1>1 DEF ledger, LedgerInv, LedgerTypeOK, ConnectionVerifies, RowVerifies,
     DecisionCoversAll, AllTerminal, NoFailure, NothingEarly, NothingDecidedEarly
<1>2. CASE Precommit
  BY <1>2 DEF Precommit, LedgerInv, LedgerTypeOK, ConnectionVerifies, RowVerifies,
     DecisionCoversAll, NothingEarly, NothingDecidedEarly
<1>3. CASE AuthorizeOnce
  <2>1. Row("pending") \in Rows /\ RowVerifies(Row("pending"))
    BY DEF Row, Rows, States, RowVerifies
  <2>2. row' \in [Units -> Rows] /\ \A u \in Units : RowVerifies(row'[u])
    BY <1>3, <2>1 DEF AuthorizeOnce
  <2> QED
    BY <1>3, <2>2 DEF AuthorizeOnce, LedgerInv, LedgerTypeOK, ConnectionVerifies,
       DecisionCoversAll, NothingEarly, NothingDecidedEarly
<1>4. ASSUME NEW u \in Units, NEW t \in Tokens, UnitStep(u, t)
      PROVE  LedgerInv'
  <2>1. /\ row[u].state \in {"pending", "leased", "running"}
        /\ UNCHANGED <<attempt, accepted>>
        /\ row' \in [Units -> Rows]
        /\ \A v \in Units \ {u} : row'[v] = row[v]
        /\ RowVerifies(row'[u])
        /\ row'[u].state # "absent"
    BY <1>4, UnitStepFacts
  <2>2. attempt = "authorized"
    BY <2>1 DEF LedgerInv, LedgerTypeOK, DecisionCoversAll, AllTerminal, Terminal,
       NothingEarly
  <2>3. ConnectionVerifies'
    BY <2>1, <2>2 DEF LedgerInv, ConnectionVerifies
  <2> QED
    BY <2>1, <2>2, <2>3 DEF LedgerInv, LedgerTypeOK, DecisionCoversAll, NothingEarly,
       NothingDecidedEarly
<1>5. ASSUME NEW f \in FailureTexts, TerminalizeOrphanedExecution(f)
      PROVE  LedgerInv'
  <2> DEFINE failed(u) == [row[u] EXCEPT !.state = "failure", !.failure = Strip(f)]
  <2>1. Strip(f) \in FailureTexts /\ Strip(f) # None
    BY StripType, NullAssumption DEF FailureTexts
  <2>2. ASSUME NEW u \in Units, row[u].state = "running"
        PROVE  failed(u) \in Rows /\ RowVerifies(failed(u))
    BY <2>1, <2>2 DEF LedgerInv, LedgerTypeOK, ConnectionVerifies, RowVerifies, Rows, States
  <2>3. \A u \in Units : row'[u] = IF row[u].state = "running" THEN failed(u) ELSE row[u]
    BY <1>5 DEF TerminalizeOrphanedExecution
  <2>4. \A u \in Units : row'[u] \in Rows /\ RowVerifies(row'[u])
    BY <2>2, <2>3 DEF LedgerInv, LedgerTypeOK, ConnectionVerifies
  <2>5. row' \in [Units -> Rows]
    BY <1>5, <2>4 DEF TerminalizeOrphanedExecution
  <2>6. UNCHANGED <<attempt, accepted>> /\ attempt = "authorized"
    BY <1>5 DEF TerminalizeOrphanedExecution, LedgerInv, LedgerTypeOK, DecisionCoversAll,
       AllTerminal, Terminal, NothingEarly
  <2> QED
    BY <2>4, <2>5, <2>6 DEF LedgerInv, LedgerTypeOK, ConnectionVerifies,
       DecisionCoversAll, NothingEarly, NothingDecidedEarly
<1>6. ASSUME NEW gates \in BOOLEAN, FinalizeOnce(gates)
      PROVE  LedgerInv'
  <2>1. UNCHANGED row /\ AllTerminal /\ attempt' = "finalized"
        /\ accepted' = (gates /\ NoFailure)
    BY <1>6 DEF FinalizeOnce
  <2>2. accepted' \in BOOLEAN /\ (accepted' => NoFailure)
    BY <2>1
  <2>3. LedgerTypeOK' /\ ConnectionVerifies'
    BY <2>1, <2>2 DEF LedgerInv, LedgerTypeOK, ConnectionVerifies
  <2>4. DecisionCoversAll'
    BY <2>1, <2>2 DEF DecisionCoversAll, AllTerminal, NoFailure
  <2> QED
    BY <2>1, <2>3, <2>4 DEF LedgerInv, NothingEarly, NothingDecidedEarly
<1> QED
  BY <1>1, <1>2, <1>3, <1>4, <1>5, <1>6, StepCases

\* The ledger always satisfies the inductive invariant.
THEOREM LedgerInvariant == LedgerSpec => []LedgerInv
BY InitInv, NextInv, PTL DEF LedgerSpec

\* Type correctness.
THEOREM LedgerTypeCorrect == LedgerSpec => []LedgerTypeOK
<1>1. LedgerInv => LedgerTypeOK
  BY DEF LedgerInv
<1> QED
  BY <1>1, LedgerInvariant, PTL

\* No sequence of operations leaves a ledger that _verify_connection refuses.
THEOREM LedgerAlwaysVerifies == LedgerSpec => []ConnectionVerifies
<1>1. LedgerInv => ConnectionVerifies
  BY DEF LedgerInv
<1> QED
  BY <1>1, LedgerInvariant, PTL

\* The decision covers every result and accepts only if none is a failure.
THEOREM DecisionCovers == LedgerSpec => []DecisionCoversAll
<1>1. LedgerInv => DecisionCoversAll
  BY DEF LedgerInv
<1> QED
  BY <1>1, LedgerInvariant, PTL

\* Nothing changes any more after finalize_once, whatever tokens callers kept.
THEOREM DecisionLast == LedgerSpec => DecisionIsLast
<1>1. ASSUME LedgerInv, [LedgerNext]_ledger
      PROVE  [attempt = "finalized" => UNCHANGED ledger]_ledger
  <2> SUFFICES ASSUME attempt = "finalized", LedgerNext
               PROVE  FALSE
    BY <1>1
  <2>1. \A u \in Units : row[u].state \in Terminal
    BY <1>1 DEF LedgerInv, DecisionCoversAll, AllTerminal
  <2>2. ASSUME NEW u \in Units, NEW t \in Tokens, UnitStep(u, t)
        PROVE  FALSE
    BY <1>1, <2>1, <2>2, UnitStepFacts DEF Terminal
  <2> QED
    BY <2>1, <2>2, StepCases DEF Precommit, AuthorizeOnce, FinalizeOnce,
       TerminalizeOrphanedExecution, Terminal
<1> QED
  BY <1>1, LedgerInvariant, PTL DEF LedgerSpec, DecisionIsLast

-----------------------------------------------------------------------------
(* The ledger implements the one-shot trial. *)

Progress(r) == IF r.state = "running" THEN "started"
               ELSE IF r.state \in Terminal THEN "over" ELSE "waiting"

progressBar == [u \in Units |-> Progress(row[u])]
resultBar == [u \in Units |-> TrialResult(row[u])]
decisionBar == IF attempt # "finalized" THEN "open"
               ELSE IF accepted THEN "accepted" ELSE "rejected"

\* A unit step changes the progress and the result of its unit only.
LEMMA UnitStepBar ==
  ASSUME NEW u \in Units,
         \A v \in Units \ {u} : row'[v] = row[v]
  PROVE  /\ progressBar' = [progressBar EXCEPT ![u] = Progress(row'[u])]
         /\ resultBar' = [resultBar EXCEPT ![u] = TrialResult(row'[u])]
BY DEF progressBar, resultBar

\* Leasing a unit is invisible.
LEMMA ClaimRefines ==
  ASSUME LedgerInv, NEW u \in Units, NEW t \in Tokens, Claim(u, t)
  PROVE  UNCHANGED <<progressBar, resultBar>>
<1>1. row' = [row EXCEPT ![u] = [row[u] EXCEPT !.state = "leased", !.token = t]]
  BY DEF LedgerInv, LedgerTypeOK, Claim, Rows
<1>2. /\ \A v \in Units \ {u} : row'[v] = row[v]
      /\ row[u].state = "pending" /\ row'[u].state = "leased"
  BY <1>1 DEF LedgerInv, LedgerTypeOK, Claim, Rows
<1>3. /\ Progress(row'[u]) = Progress(row[u])
      /\ TrialResult(row'[u]) = TrialResult(row[u])
  BY <1>2 DEF Progress, TrialResult, Terminal
<1> QED
  BY <1>2, <1>3, UnitStepBar DEF progressBar, resultBar

\* Beginning a leased unit starts it.
LEMMA BeginRefines ==
  ASSUME LedgerInv, NEW u \in Units, NEW t \in Tokens, Begin(u, t)
  PROVE  /\ progressBar[u] = "waiting"
         /\ progressBar' = [progressBar EXCEPT ![u] = "started"]
         /\ UNCHANGED resultBar
<1>1. row' = [row EXCEPT ![u] = [row[u] EXCEPT !.state = "running"]]
  BY DEF LedgerInv, LedgerTypeOK, Begin, Rows
<1>2. /\ \A v \in Units \ {u} : row'[v] = row[v]
      /\ row[u].state = "leased" /\ row'[u].state = "running"
  BY <1>1 DEF LedgerInv, LedgerTypeOK, Begin, Holds, Rows
<1>3. /\ Progress(row[u]) = "waiting" /\ Progress(row'[u]) = "started"
      /\ TrialResult(row'[u]) = TrialResult(row[u])
  BY <1>2 DEF Progress, TrialResult, Terminal
<1> QED
  BY <1>2, <1>3, UnitStepBar DEF progressBar, resultBar

\* Completing a running unit ends it with the outcome.
LEMMA CompleteRefines ==
  ASSUME LedgerInv, NEW u \in Units, NEW t \in Tokens, NEW o \in Outcomes,
         Complete(u, t, o)
  PROVE  /\ progressBar[u] = "started"
         /\ progressBar' = [progressBar EXCEPT ![u] = "over"]
         /\ resultBar' = [resultBar EXCEPT ![u] = o]
<1>1. row' = [row EXCEPT ![u] = [row[u] EXCEPT !.state = "complete", !.outcome = o]]
  BY DEF LedgerInv, LedgerTypeOK, Complete, Rows
<1>2. /\ \A v \in Units \ {u} : row'[v] = row[v]
      /\ row[u].state = "running" /\ row'[u].state = "complete" /\ row'[u].outcome = o
  BY <1>1 DEF LedgerInv, LedgerTypeOK, Complete, Holds, Rows
<1>3. /\ Progress(row[u]) = "started" /\ Progress(row'[u]) = "over"
      /\ TrialResult(row'[u]) = o
  BY <1>2 DEF Progress, TrialResult, Terminal
<1> QED
  BY <1>2, <1>3, UnitStepBar DEF progressBar

\* Failing a running unit abandons it alone.
LEMMA FailRefines ==
  ASSUME LedgerInv, NEW u \in Units, NEW t \in Tokens, NEW f \in FailureTexts,
         Fail(u, t, f)
  PROVE  /\ progressBar[u] = "started"
         /\ progressBar' = [progressBar EXCEPT ![u] = "over"]
         /\ resultBar' = [resultBar EXCEPT ![u] = Strip(f)]
<1>1. row' = [row EXCEPT ![u] = [row[u] EXCEPT !.state = "failure", !.failure = Strip(f)]]
  BY DEF LedgerInv, LedgerTypeOK, Fail, Rows
<1>2. /\ \A v \in Units \ {u} : row'[v] = row[v]
      /\ row[u].state = "running" /\ row'[u].state = "failure"
      /\ row'[u].failure = Strip(f)
  BY <1>1 DEF LedgerInv, LedgerTypeOK, Fail, Holds, Rows
<1>3. /\ Progress(row[u]) = "started" /\ Progress(row'[u]) = "over"
      /\ TrialResult(row'[u]) = Strip(f)
  BY <1>2 DEF Progress, TrialResult, Terminal
<1> QED
  BY <1>2, <1>3, UnitStepBar DEF progressBar

\* Giving up the running units abandons exactly these.
LEMMA TerminalizeRefines ==
  ASSUME LedgerInv, NEW f \in FailureTexts, TerminalizeOrphanedExecution(f)
  PROVE  LET S == {u \in Units : row[u].state = "running"} IN
         /\ \A u \in S : progressBar[u] = "started"
         /\ progressBar' = [u \in Units |-> IF u \in S THEN "over" ELSE progressBar[u]]
         /\ resultBar' = [u \in Units |-> IF u \in S THEN Strip(f) ELSE resultBar[u]]
<1>1. \A u \in Units :
        /\ row[u].state # "running" => row'[u] = row[u]
        /\ row[u].state = "running" =>
             row'[u] = [row[u] EXCEPT !.state = "failure", !.failure = Strip(f)]
  BY DEF TerminalizeOrphanedExecution
<1>2. \A u \in Units : row[u].state = "running" =>
        row'[u].state = "failure" /\ row'[u].failure = Strip(f)
  <2> SUFFICES ASSUME NEW u \in Units, row[u].state = "running"
               PROVE  row'[u].state = "failure" /\ row'[u].failure = Strip(f)
    OBVIOUS
  <2> DEFINE s == Strip(f)
  <2>1. row[u] \in Rows /\ row'[u] = [row[u] EXCEPT !.state = "failure", !.failure = s]
    BY <1>1 DEF LedgerInv, LedgerTypeOK
  <2> HIDE DEF s
  <2>2. row'[u].state = "failure" /\ row'[u].failure = s
    BY <2>1 DEF Rows
  <2> QED
    BY <2>2 DEF s
<1>3. \A u \in Units : row[u].state = "running" =>
        /\ Progress(row[u]) = "started" /\ Progress(row'[u]) = "over"
        /\ TrialResult(row'[u]) = Strip(f)
  BY <1>2 DEF Progress, TrialResult, Terminal
<1>4. \A u \in Units : row[u].state # "running" =>
        /\ Progress(row'[u]) = Progress(row[u])
        /\ TrialResult(row'[u]) = TrialResult(row[u])
  BY <1>1
<1> HIDE DEF Progress, TrialResult
<1> QED
  BY <1>3, <1>4 DEF progressBar, resultBar

\* Each operation of the ledger is a step of the trial or invisible to it.
LEMMA StepRefines ==
  ASSUME LedgerInv, [LedgerNext]_ledger
  PROVE  [Trial!TrialNext]_Trial!trial
<1> DEFINE unchanged == UNCHANGED <<progressBar, resultBar, decisionBar>>
<1>1. unchanged => UNCHANGED Trial!trial
  BY DEF Trial!trial, progressBar, resultBar, decisionBar, Progress
<1>2. CASE UNCHANGED ledger
  BY <1>1, <1>2 DEF ledger, progressBar, resultBar, decisionBar
<1>3. CASE Precommit
  BY <1>1, <1>3 DEF Precommit, progressBar, resultBar, decisionBar
<1>4. CASE AuthorizeOnce
  <2>1. \A u \in Units : row[u].state = "absent" /\ row'[u] = Row("pending")
    BY <1>4 DEF AuthorizeOnce, LedgerInv, NothingEarly
  <2>2. \A u \in Units : /\ Progress(row'[u]) = Progress(row[u])
                         /\ TrialResult(row'[u]) = TrialResult(row[u])
    BY <2>1 DEF Row, Progress, TrialResult, Terminal
  <2> QED
    BY <1>1, <1>4, <2>2 DEF AuthorizeOnce, progressBar, resultBar, decisionBar
<1>5. ASSUME NEW u \in Units, NEW t \in Tokens, UnitStep(u, t)
      PROVE  Trial!TrialNext \/ unchanged
  <2>1. /\ decisionBar = "open" /\ UNCHANGED decisionBar
        /\ \A v \in Units \ {u} : row'[v] = row[v]
    BY <1>5, UnitStepFacts DEF LedgerInv, DecisionCoversAll, AllTerminal, Terminal,
       decisionBar
  <2>2. CASE Claim(u, t)
    BY <2>1, <2>2, ClaimRefines
  <2>3. CASE Begin(u, t)
    <3>1. Trial!Start(u)
      BY <2>1, <2>3, BeginRefines DEF Trial!Start, progressBar, resultBar, decisionBar,
         Progress
    <3> QED
      BY <3>1 DEF Trial!TrialNext
  <2>4. ASSUME NEW o \in Outcomes, Complete(u, t, o)
        PROVE  Trial!TrialNext
    <3>0. /\ progressBar[u] = "started"
          /\ progressBar' = [progressBar EXCEPT ![u] = "over"]
          /\ resultBar' = [resultBar EXCEPT ![u] = o]
      BY <2>4, CompleteRefines DEF progressBar, resultBar
    <3>1. Trial!Succeed(u, o)
      BY <2>1, <3>0, Zenon DEF Trial!Succeed, progressBar, resultBar, decisionBar, Progress
    <3> QED
      BY <3>1 DEF Trial!TrialNext
  <2>5. ASSUME NEW f \in FailureTexts, Fail(u, t, f)
        PROVE  Trial!TrialNext
    <3>1. /\ progressBar[u] = "started"
          /\ progressBar' = [v \in Units |-> IF v \in {u} THEN "over" ELSE progressBar[v]]
          /\ resultBar' = [v \in Units |-> IF v \in {u} THEN Strip(f) ELSE resultBar[v]]
      <4>1. \A g, x : g = [v \in Units |-> g[v]] =>
              [g EXCEPT ![u] = x] = [v \in Units |-> IF v \in {u} THEN x ELSE g[v]]
        OBVIOUS
      <4>2. /\ progressBar = [v \in Units |-> progressBar[v]]
            /\ resultBar = [v \in Units |-> resultBar[v]]
        BY DEF progressBar, resultBar
      <4>3. /\ progressBar[u] = "started"
            /\ progressBar' = [progressBar EXCEPT ![u] = "over"]
            /\ resultBar' = [resultBar EXCEPT ![u] = Strip(f)]
        BY <2>5, FailRefines
      <4>4. progressBar' = [v \in Units |-> IF v \in {u} THEN "over" ELSE progressBar[v]]
        BY <4>1, <4>2, <4>3, Zenon
      <4>5. resultBar' = [v \in Units |-> IF v \in {u} THEN Strip(f) ELSE resultBar[v]]
        BY <4>1, <4>2, <4>3, Zenon
      <4> QED
        BY <4>3, <4>4, <4>5
    <3>2. Trial!Abandon({u}, Strip(f))
      BY <2>1, <3>1 DEF Trial!Abandon, progressBar, resultBar, decisionBar, Progress
    <3> QED
      BY <3>2, StripType DEF Trial!TrialNext
  <2> QED
    BY <1>5, <2>2, <2>3, <2>4, <2>5 DEF UnitStep
<1>6. ASSUME NEW f \in FailureTexts, TerminalizeOrphanedExecution(f)
      PROVE  Trial!TrialNext
  <2> DEFINE S == {u \in Units : row[u].state = "running"}
  <2>1. decisionBar = "open" /\ UNCHANGED decisionBar
    BY <1>6 DEF TerminalizeOrphanedExecution, LedgerInv, DecisionCoversAll, AllTerminal,
       Terminal, decisionBar
  <2>2. Trial!Abandon(S, Strip(f))
    BY <1>6, <2>1, TerminalizeRefines DEF Trial!Abandon, progressBar, resultBar,
       decisionBar, Progress
  <2> QED
    BY <2>2, StripType DEF Trial!TrialNext
<1>7. ASSUME NEW gates \in BOOLEAN, FinalizeOnce(gates)
      PROVE  Trial!TrialNext
  <2> DEFINE verdict == IF accepted' THEN "accepted" ELSE "rejected"
  <2>1. UNCHANGED row /\ AllTerminal /\ attempt = "authorized" /\ attempt' = "finalized"
    BY <1>7 DEF FinalizeOnce
  <2>2. accepted' => NoFailure
    BY <1>7 DEF FinalizeOnce
  <2>3. \A u \in Units : progressBar[u] = "over"
    BY <2>1 DEF AllTerminal, Terminal, progressBar, Progress
  <2>4. ASSUME NoFailure, NEW u \in Units
        PROVE  resultBar[u] \in Outcomes
    <3>1. row[u].state = "complete" /\ row[u].outcome \in Outcomes
      BY <2>1, <2>4 DEF AllTerminal, NoFailure, Terminal, LedgerInv, LedgerTypeOK,
         ConnectionVerifies, RowVerifies, Rows
    <3> QED
      BY <3>1 DEF resultBar, TrialResult
  <2>5. decisionBar = "open" /\ decisionBar' = verdict
    BY <2>1 DEF decisionBar
  <2>6. UNCHANGED <<progressBar, resultBar>>
    BY <2>1 DEF progressBar, resultBar
  <2>7. Trial!Decide(verdict)
    BY <2>2, <2>3, <2>4, <2>5, <2>6 DEF Trial!Decide, progressBar, resultBar, decisionBar,
       Progress
  <2>8. verdict \in {"accepted", "rejected"}
    OBVIOUS
  <2> QED
    BY <2>7, <2>8 DEF Trial!TrialNext
<1> QED
  BY <1>1, <1>2, <1>3, <1>4, <1>5, <1>6, <1>7, StepCases

\* The refinement: there is no second start, no result ever changes, and one
\* decision is taken over all results.
THEOREM LedgerImplementsTrial == LedgerSpec => ImplementsTrial
<1>1. ASSUME LedgerInit
      PROVE  Trial!TrialInit
  <2>1. \A u \in Units : row[u] = Row("absent")
    BY <1>1 DEF LedgerInit
  <2> QED
    BY <1>1, <2>1 DEF LedgerInit, Trial!TrialInit, Row, TrialResult, Terminal
<1> QED
  BY <1>1, StepRefines, LedgerInvariant, PTL DEF LedgerSpec, ImplementsTrial, Trial!TrialSpec
=============================================================================
