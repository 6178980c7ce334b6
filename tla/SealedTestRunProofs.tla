------------------------- MODULE SealedTestRunProofs -------------------------
(***************************************************************************)
(* Theorems about the sealed test: the two databases and the private files *)
(* agree wherever a command dies, for any jobs, owners, tokens, digests    *)
(* and errors.  StoresInv is about what is durable, LocalInv is about what *)
(* the running command rests on.                                           *)
(***************************************************************************)
EXTENDS SealedTestRun, FiniteSetTheorems, TLAPS

Units == L!Units
State(j) == rows[j].columns.status
OwnerOf(j) == rows[j].columns.owner
ActiveStates == {"claimed", "running", "trained"}

Issued == [job : TestJobs, token : ClaimTokens, owner : Owners, from : {0}, checkpoint : {None}]

\* The claim that is good for an active job.
ClaimOf(j) == [job |-> j, token |-> rows[j].token, owner |-> OwnerOf(j),
               from |-> 0, checkpoint |-> None]

StoresTyped ==
  /\ rows \in [WorkflowJobs -> W!Rows]
  /\ claims \subseteq Issued
  /\ L!LedgerTypeOK
  /\ claimIntent \in [token : ClaimTokens, owner : Owners] \cup {None}
  /\ claimFile \in [TestJobs -> claims \cup {None}]
  /\ leaseIntent \in [Units -> LeaseTokens \cup {None}]
  /\ leaseFile \in [Units -> LeaseTokens \cup {None}]
  /\ package \in BOOLEAN
  /\ references \in SUBSET References

\* One job is active at most; its claim was issued, and is in the file of the
\* job or can still be made from the intent.
ClaimsKept ==
  /\ \A i, j \in TestJobs : State(i) \in ActiveStates /\ State(j) \in ActiveStates => i = j
  /\ \A j \in TestJobs : State(j) \in ActiveStates =>
       /\ ClaimOf(j) \in claims
       /\ claimFile[j] = None =>
            /\ State(j) = "claimed"
            /\ claimIntent = [token |-> rows[j].token, owner |-> OwnerOf(j)]
  /\ \A j \in TestJobs : claimFile[j] # None =>
       /\ State(j) \notin {"absent", "pending"}
       /\ State(j) \in ActiveStates => claimFile[j] = ClaimOf(j)

\* The token of a lease is in a file.
LeasesKept ==
  \A u \in Units :
    /\ row[u].state = "leased" =>
         row[u].token # None /\ row[u].token \in {leaseIntent[u], leaseFile[u]}
    /\ row[u].state = "running" => row[u].token = leaseFile[u]

\* A unit publishes one result, after it began and before it is complete.
ResultsFit ==
  /\ \A r \in references : row[r.unit].state \in {"running", "complete", "failure"}
  /\ \A r, s \in references : r.unit = s.unit => r = s
  /\ \A u \in Units : row[u].state = "complete" =>
       \E r \in references : r.unit = u /\ r.outcome = row[u].outcome

\* A job is leased while the workflow works on it, and over in the workflow with
\* the result of the ledger only.
StoresAgree ==
  \A j \in TestJobs :
    /\ row[j].state \in {"leased", "running"} => State(j) \in ActiveStates
    /\ State(j) = "completed" =>
         /\ row[j].state = "complete"
         /\ \A r \in references : r.unit = j => r.output = rows[j].columns.output
    /\ State(j) = "failed" => row[j].state = "failure" /\ row[j].failure = rows[j].columns.failure

AttemptFits ==
  /\ attempt = "ready" => \A u \in Units : row[u].state = "absent"
  /\ attempt = "finalized" => \A j \in TestJobs : Mirrored(j)

StoresInv ==
  /\ StoresTyped
  /\ ClaimsKept
  /\ LeasesKept
  /\ ResultsFit
  /\ StoresAgree
  /\ AttemptFits

LeaseSteps == {"lease", "keep lease", "drop lease intent", "begin"}
JobSteps == {"build", "update", "audit", "complete", "fail", "mirror"}
UnitSteps == LeaseSteps \cup JobSteps \cup {"publish", "commit"}

LocalsTyped ==
  /\ at \in Steps
  /\ owner \in Owners \cup {None} /\ unit \in Units \cup {None}
  /\ claim \in claims \cup {None} /\ text \in FailureTexts \cup {None}

LocalInv ==
  /\ LocalsTyped
  /\ at # "idle" => attempt = "authorized"
  /\ at \in {"acquire", "keep claim", "drop claim intent"} => owner \in Owners
  /\ at \in {"keep claim", "drop claim intent"} =>
       unit \in TestJobs /\ State(unit) \in ActiveStates /\ claim = ClaimOf(unit)
  /\ at = "drop claim intent" => claimFile[unit] = claim
  /\ at \in UnitSteps =>
       /\ unit \in Units
       /\ unit \in TestJobs =>
            /\ owner \in Owners
            /\ State(unit) \in ActiveStates
            /\ claim = ClaimOf(unit) /\ claimFile[unit] = claim
  /\ at = "keep lease" =>
       row[unit].state = "leased" /\ row[unit].token = leaseIntent[unit]
  /\ at = "drop lease intent" =>
       row[unit].state = "leased" /\ row[unit].token = leaseFile[unit]
  /\ at \in JobSteps => unit \in TestJobs
  /\ at \in {"build", "update", "audit", "publish"} =>
       row[unit].state = "running" /\ \A r \in references : r.unit # unit
  /\ at = "complete" => row[unit].state = "complete"
  /\ at = "fail" => text \in FailureTexts

RunInv == StoresInv /\ LocalInv

-----------------------------------------------------------------------------
(* The durable stores. *)

LEMMA ConstantFacts ==
  /\ Phase \in [WorkflowJobs -> {"validation", "test"}]
  /\ Batch \notin TestJobs /\ TestJobs \subseteq WorkflowJobs
  /\ Units = TestJobs \cup {Batch} /\ TestJobs \subseteq Units /\ Batch \in Units
  /\ \A c \in Issued : c # None /\ c.token \in ClaimTokens /\ c.owner \in Owners
  /\ \A t \in ClaimTokens, o \in Owners : [token |-> t, owner |-> o] # None
  /\ Errors \subseteq FailureTexts
  /\ OrphanedText \in FailureTexts
BY RunAssumption DEF Units, L!Units, TestJobs, Issued, FailureTexts, OrphanedText

stores == <<rows, claims, ledger, secrets, store>>

\* What the stores hold does not depend on anything else.
LEMMA StoresStay ==
  ASSUME StoresInv, UNCHANGED stores
  PROVE  StoresInv'
BY DEF stores, ledger, secrets, store, StoresInv, StoresTyped, ClaimsKept, LeasesKept, ResultsFit,
       StoresAgree, AttemptFits, State, OwnerOf, ClaimOf, Mirrored, W!Status, W!Columns, L!LedgerTypeOK

\* An active job goes on to a later active status.
LEMMA WorksKeep ==
  ASSUME StoresInv, NEW j \in TestJobs, claimFile[j] # None, State(j) \in ActiveStates,
         NEW s \in {"running", "trained"},
         rows' = [rows EXCEPT ![j] = W!JobRow([rows[j].columns EXCEPT !.status = s], rows[j].token)],
         UNCHANGED <<claims, ledger, secrets, store>>
  PROVE  /\ StoresInv'
         /\ State(j)' \in ActiveStates /\ ClaimOf(j)' = ClaimOf(j)
<1> USE DEF ledger, secrets, store
<1> DEFINE h == [rows[j].columns EXCEPT !.status = s]
<1>1. rows \in [WorkflowJobs -> W!Rows] /\ j \in WorkflowJobs
  BY ConstantFacts DEF StoresInv, StoresTyped
<1>2. rows[j].columns \in W!History /\ rows[j].token \in ClaimTokens \cup {None}
  BY <1>1 DEF W!Rows
<1>3. h \in W!History /\ h.status = s /\ h.owner = OwnerOf(j)
  BY <1>2 DEF W!History, W!Statuses, W!Active, OwnerOf
<1> HIDE DEF h
<1>4. /\ rows' \in [WorkflowJobs -> W!Rows]
      /\ \A i \in WorkflowJobs \ {j} : rows'[i] = rows[i]
      /\ rows'[j].columns = h /\ rows'[j].token = rows[j].token
  BY <1>1, <1>2, <1>3 DEF h, W!Rows, W!JobRow
<1>5. /\ \A i \in TestJobs \ {j} : State(i)' = State(i) /\ OwnerOf(i)' = OwnerOf(i)
                                   /\ ClaimOf(i)' = ClaimOf(i)
      /\ State(j)' = s /\ OwnerOf(j)' = OwnerOf(j) /\ ClaimOf(j)' = ClaimOf(j)
  BY <1>3, <1>4, ConstantFacts DEF State, OwnerOf, ClaimOf
<1>6. StoresTyped'
  BY <1>4 DEF StoresInv, StoresTyped, L!LedgerTypeOK
<1>7. ClaimsKept'
  BY <1>4, <1>5, ConstantFacts DEF StoresInv, ClaimsKept, ActiveStates
<1>8. LeasesKept' /\ ResultsFit'
  BY DEF StoresInv, LeasesKept, ResultsFit
<1>9. StoresAgree'
  BY <1>4, <1>5, ConstantFacts DEF StoresInv, StoresAgree, ActiveStates
<1>10. AttemptFits'
  BY <1>4, <1>5, ConstantFacts
     DEF StoresInv, AttemptFits, Mirrored, W!Status, W!Columns, State, ActiveStates
<1> QED
  BY <1>5, <1>6, <1>7, <1>8, <1>9, <1>10 DEF StoresInv, ActiveStates

\* The workflow takes the final state of a job over from the ledger.
Ends(j) ==
  /\ State(j) \in ActiveStates
  /\ rows' \in [WorkflowJobs -> W!Rows]
  /\ \A i \in WorkflowJobs \ {j} : rows'[i] = rows[i]
  /\ \/ /\ State(j)' = "completed" /\ row[j].state = "complete"
        /\ \E r \in references : r.unit = j /\ r.output = rows'[j].columns.output
     \/ /\ State(j)' = "failed" /\ row[j].state = "failure"
        /\ row[j].failure = rows'[j].columns.failure
  /\ UNCHANGED <<claims, ledger, secrets, store>>

LEMMA EndsKeep ==
  ASSUME StoresInv, NEW j \in TestJobs, Ends(j)
  PROVE  StoresInv'
<1> USE DEF ledger, secrets, store
<1>1. /\ \A i \in TestJobs \ {j} : State(i)' = State(i) /\ OwnerOf(i)' = OwnerOf(i)
                                   /\ ClaimOf(i)' = ClaimOf(i)
      /\ State(j)' \in {"completed", "failed"}
  BY ConstantFacts DEF Ends, State, OwnerOf, ClaimOf
<1>2. StoresTyped'
  BY DEF StoresInv, StoresTyped, L!LedgerTypeOK, Ends
<1>3. ClaimsKept'
  BY <1>1, ConstantFacts DEF StoresInv, ClaimsKept, ActiveStates, Ends
<1>4. LeasesKept' /\ ResultsFit'
  BY DEF StoresInv, LeasesKept, ResultsFit, Ends
<1>5. StoresAgree'
  <2>1. \A i \in TestJobs \ {j} : rows'[i] = rows[i]
    BY ConstantFacts DEF Ends
  <2>2. \A r \in references : r.unit = j /\ State(j)' = "completed" =>
          r.output = rows'[j].columns.output
    BY DEF Ends, StoresInv, ResultsFit
  <2> QED
    BY <1>1, <2>1, <2>2 DEF StoresInv, StoresAgree, Ends, State
<1>6. AttemptFits'
  BY <1>1, ConstantFacts DEF StoresInv, AttemptFits, Mirrored, W!Status, W!Columns, State, Ends
<1> QED
  BY <1>2, <1>3, <1>4, <1>5, <1>6 DEF StoresInv

\* A transaction of the ledger on one unit; the workflow and the files stay.
RowChanges(u) ==
  /\ row' \in [Units -> L!Rows]
  /\ \A v \in Units \ {u} : row'[v] = row[v]
  /\ UNCHANGED <<attempt, accepted, rows, claims, secrets, store>>

LEMMA RowChangesIs ==
  ASSUME StoresTyped, NEW u \in Units, NEW r \in L!Rows, row' = [row EXCEPT ![u] = r],
         UNCHANGED <<attempt, accepted, rows, claims, secrets, store>>
  PROVE  RowChanges(u) /\ row'[u] = r
BY DEF StoresTyped, L!LedgerTypeOK, Units, RowChanges

LEMMA RowTyped ==
  ASSUME StoresTyped, NEW u \in Units
  PROVE  row[u] \in L!Rows
BY DEF StoresTyped, L!LedgerTypeOK, Units

\* What a transaction on one unit must respect.
LEMMA RowChangesKeep ==
  ASSUME StoresInv, NEW u \in Units, RowChanges(u),
         row[u].state \in {"pending", "leased", "running"}, row'[u].state # "absent",
         row'[u].state = "leased" =>
           row'[u].token # None /\ row'[u].token \in {leaseIntent[u], leaseFile[u]},
         row'[u].state = "running" => row'[u].token = leaseFile[u],
         row'[u].state \in {"leased", "running"} /\ u \in TestJobs => State(u) \in ActiveStates,
         row[u].state = "running" => row'[u].state \in {"complete", "failure"},
         row'[u].state = "complete" =>
           \E r \in references : r.unit = u /\ r.outcome = row'[u].outcome
  PROVE  StoresInv'
<1> USE DEF ledger, secrets, store
<1>1. StoresTyped'
  BY DEF StoresInv, StoresTyped, L!LedgerTypeOK, RowChanges, Units
<1>2. ClaimsKept'
  BY DEF StoresInv, ClaimsKept, RowChanges, State, OwnerOf, ClaimOf
<1>3. LeasesKept'
  BY DEF StoresInv, LeasesKept, RowChanges
<1>4. \A r \in references : r.unit \in Units
  BY DEF StoresInv, StoresTyped, References, Units
<1>5. ResultsFit'
  BY <1>4 DEF StoresInv, ResultsFit, RowChanges
<1>6. StoresAgree'
  <2> SUFFICES ASSUME NEW j \in TestJobs
               PROVE  /\ row'[j].state \in {"leased", "running"} => State(j) \in ActiveStates
                      /\ State(j) = "completed" =>
                           /\ row'[j].state = "complete"
                           /\ \A r \in references : r.unit = j => r.output = rows[j].columns.output
                      /\ State(j) = "failed" =>
                           row'[j].state = "failure" /\ row'[j].failure = rows[j].columns.failure
    BY DEF StoresAgree, RowChanges, State
  <2>1. CASE j = u
    BY <2>1 DEF StoresInv, StoresAgree
  <2>2. CASE j # u
    BY <2>2, ConstantFacts DEF StoresInv, StoresAgree, RowChanges
  <2> QED
    BY <2>1, <2>2
<1>7. AttemptFits'
  BY DEF StoresInv, AttemptFits, RowChanges, Mirrored, W!Status, W!Columns
<1> QED
  BY <1>1, <1>2, <1>3, <1>5, <1>6, <1>7 DEF StoresInv

\* A lease is taken with the token of the intent.
LEMMA LeaseKeeps ==
  ASSUME StoresInv, NEW u \in Units, leaseIntent[u] # None,
         u \in TestJobs => State(u) \in ActiveStates,
         L!Claim(u, leaseIntent[u]), UNCHANGED <<rows, claims, secrets, store>>
  PROVE  /\ StoresInv' /\ row'[u].state = "leased" /\ row'[u].token = leaseIntent[u]
<1>1. row[u] \in L!Rows /\ leaseIntent[u] \in LeaseTokens
  BY RowTyped DEF StoresInv, StoresTyped
<1> DEFINE r == [row[u] EXCEPT !.state = "leased", !.token = leaseIntent[u]]
<1>2. r \in L!Rows /\ r.state = "leased" /\ r.token = leaseIntent[u]
  BY <1>1 DEF L!Rows, L!States
<1>3. row' = [row EXCEPT ![u] = r] /\ UNCHANGED <<attempt, accepted>> /\ row[u].state = "pending"
  BY DEF L!Claim
<1> HIDE DEF r
<1>4. RowChanges(u) /\ row'[u] = r
  BY <1>2, <1>3, RowChangesIs DEF StoresInv
<1> QED
  BY <1>2, <1>3, <1>4, RowChangesKeep

LEMMA BeginKeeps ==
  ASSUME StoresInv, NEW u \in Units,
         L!Begin(u, leaseFile[u]), UNCHANGED <<rows, claims, secrets, store>>
  PROVE  /\ StoresInv' /\ row'[u].state = "running"
         /\ \A r \in references : r.unit # u
<1>1. row[u] \in L!Rows /\ row[u].state = "leased" /\ row[u].token = leaseFile[u]
  BY RowTyped DEF StoresInv, L!Begin, L!Holds
<1> DEFINE r == [row[u] EXCEPT !.state = "running"]
<1>2. r \in L!Rows /\ r.state = "running" /\ r.token = leaseFile[u]
  BY <1>1 DEF L!Rows, L!States
<1>3. row' = [row EXCEPT ![u] = r] /\ UNCHANGED <<attempt, accepted>>
  BY DEF L!Begin
<1> HIDE DEF r
<1>4. RowChanges(u) /\ row'[u] = r
  BY <1>2, <1>3, RowChangesIs DEF StoresInv
<1>5. u \in TestJobs => State(u) \in ActiveStates
  BY <1>1 DEF StoresInv, StoresAgree
<1>6. StoresInv'
  BY <1>1, <1>2, <1>4, <1>5, RowChangesKeep
<1>7. \A x \in references : x.unit # u
  BY <1>1 DEF StoresInv, ResultsFit
<1> QED
  BY <1>2, <1>4, <1>6, <1>7

LEMMA CommitKeeps ==
  ASSUME StoresInv, NEW u \in Units, NEW x \in references, x.unit = u,
         L!Complete(u, leaseFile[u], x.outcome), UNCHANGED <<rows, claims, secrets, store>>
  PROVE  StoresInv' /\ row'[u].state = "complete"
<1>1. row[u] \in L!Rows /\ row[u].state = "running" /\ x.outcome \in Outcomes
  BY RowTyped DEF StoresInv, StoresTyped, References, L!Complete, L!Holds
<1> DEFINE r == [row[u] EXCEPT !.state = "complete", !.outcome = x.outcome]
<1>2. r \in L!Rows /\ r.state = "complete" /\ r.outcome = x.outcome
  BY <1>1 DEF L!Rows, L!States
<1>3. row' = [row EXCEPT ![u] = r] /\ UNCHANGED <<attempt, accepted>>
  BY DEF L!Complete
<1> HIDE DEF r
<1>4. RowChanges(u) /\ row'[u] = r
  BY <1>2, <1>3, RowChangesIs DEF StoresInv
<1> QED
  BY <1>1, <1>2, <1>4, RowChangesKeep

LEMMA FailKeeps ==
  ASSUME StoresInv, NEW u \in Units, NEW f \in FailureTexts,
         L!Fail(u, leaseFile[u], f), UNCHANGED <<rows, claims, secrets, store>>
  PROVE  StoresInv' /\ row'[u].state = "failure"
<1>1. row[u] \in L!Rows /\ row[u].state = "running"
  BY RowTyped DEF StoresInv, L!Fail, L!Holds
<1>2. L!Strip(f) \in FailureTexts
  BY DEF L!Strip, FailureTexts
<1> DEFINE g == L!Strip(f)
<1> DEFINE r == [row[u] EXCEPT !.state = "failure", !.failure = g]
<1>3. row' = [row EXCEPT ![u] = r] /\ UNCHANGED <<attempt, accepted>>
  BY DEF L!Fail
<1>4. g \in L!FailureTexts
  BY <1>2 DEF FailureTexts, L!FailureTexts
<1> HIDE DEF g
<1>5. r \in L!Rows /\ r.state = "failure"
  BY <1>1, <1>4 DEF L!Rows, L!States
<1> HIDE DEF r
<1>6. RowChanges(u) /\ row'[u] = r
  BY <1>3, <1>5, RowChangesIs DEF StoresInv
<1> QED
  BY <1>1, <1>5, <1>6, RowChangesKeep

-----------------------------------------------------------------------------
(* The commands. *)

\* A command that is over leaves nothing for the next one to remember.
LEMMA ReturnKeeps ==
  ASSUME Return
  PROVE  LocalInv'
BY DEF Return, LocalInv, LocalsTyped, Steps, UnitSteps, LeaseSteps, JobSteps

LEMMA CrashKeeps ==
  ASSUME RunInv, Crash
  PROVE  RunInv'
BY StoresStay, ReturnKeeps DEF RunInv, Crash, stores, workflow

LEMMA AuthorizeKeeps ==
  ASSUME StoresInv, L!AuthorizeOnce, UNCHANGED <<rows, claims, secrets, store>>
  PROVE  StoresInv'
<1> USE DEF ledger, secrets, store
<1>1. /\ attempt = "ready" /\ attempt' = "authorized"
      /\ row' = [u \in Units |-> L!Row("pending")] /\ UNCHANGED accepted
  BY DEF L!AuthorizeOnce, Units
<1>2. L!Row("pending") \in L!Rows /\ L!Row("pending").state = "pending"
  BY DEF L!Row, L!Rows, L!States
<1> HIDE DEF ledger
<1>3. StoresTyped'
  BY <1>1, <1>2 DEF StoresInv, StoresTyped, L!LedgerTypeOK, Units
<1>4. ClaimsKept'
  BY DEF StoresInv, ClaimsKept, State, OwnerOf, ClaimOf
<1>5. LeasesKept'
  BY <1>1, <1>2 DEF LeasesKept
<1>6. references = {}
  <2> SUFFICES ASSUME NEW r \in references
               PROVE  FALSE
    OBVIOUS
  <2>1. r.unit \in Units
    BY DEF StoresInv, StoresTyped, References, Units
  <2> QED
    BY <1>1, <2>1 DEF StoresInv, ResultsFit, AttemptFits
<1>7. ResultsFit'
  BY <1>1, <1>2, <1>6 DEF ResultsFit
<1>8. StoresAgree'
  <2>1. \A j \in TestJobs : State(j) \notin {"completed", "failed"}
    BY <1>1, ConstantFacts DEF StoresInv, StoresAgree, AttemptFits
  <2> QED
    BY <1>1, <1>2, <2>1, ConstantFacts DEF StoresAgree, State
<1>9. AttemptFits'
  BY <1>1 DEF AttemptFits
<1> QED
  BY <1>3, <1>4, <1>5, <1>7, <1>8, <1>9 DEF StoresInv

LEMMA StartPrepareKeeps ==
  ASSUME RunInv, StartPrepare
  PROVE  RunInv'
<1>1. at = "idle" /\ UNCHANGED <<rows, claims, secrets, store, locals>>
  BY DEF StartPrepare, workflow, Continue
<1>2. StoresInv'
  <2>1. CASE UNCHANGED ledger
    BY <1>1, <2>1, StoresStay DEF RunInv, stores
  <2>2. CASE L!AuthorizeOnce
    BY <1>1, <2>2, AuthorizeKeeps DEF RunInv
  <2> QED
    BY <2>1, <2>2 DEF StartPrepare
<1>3. at' \in {"package", "install"} /\ attempt' = "authorized"
  BY DEF StartPrepare, Continue, Authorized, ledger, L!AuthorizeOnce
<1>4. LocalInv'
  BY <1>1, <1>3 DEF RunInv, LocalInv, LocalsTyped, Steps, UnitSteps, LeaseSteps, JobSteps, locals
<1> QED
  BY <1>2, <1>4 DEF RunInv

LEMMA PublishPackageKeeps ==
  ASSUME RunInv, PublishPackage
  PROVE  RunInv'
<1>1. /\ at = "package" /\ at' = "install" /\ package' = TRUE
      /\ UNCHANGED <<rows, claims, attempt, row, accepted, secrets, references, locals>>
  BY DEF PublishPackage, workflow, ledger, Continue
<1>2. StoresTyped'
  BY <1>1 DEF RunInv, StoresInv, StoresTyped, L!LedgerTypeOK, secrets
<1>3. (ClaimsKept /\ LeasesKept /\ ResultsFit /\ StoresAgree /\ AttemptFits)'
  BY <1>1 DEF RunInv, StoresInv, ClaimsKept, LeasesKept, ResultsFit, StoresAgree, AttemptFits,
              State, OwnerOf, ClaimOf, Mirrored, W!Status, W!Columns, secrets
<1>4. LocalInv'
  BY <1>1 DEF RunInv, LocalInv, LocalsTyped, Steps, UnitSteps, LeaseSteps, JobSteps, locals
<1> QED
  BY <1>2, <1>3, <1>4 DEF RunInv, StoresInv

LEMMA InstallKeeps ==
  ASSUME RunInv, InstallTestJobs
  PROVE  RunInv'
<1>1. LocalInv' /\ UNCHANGED <<ledger, secrets, store>>
  BY ReturnKeeps DEF InstallTestJobs
<1>2. CASE UNCHANGED workflow
  BY <1>1, <1>2, StoresStay DEF RunInv, stores, workflow
<1>3. ASSUME W!AppendJobs("test")
      PROVE  StoresInv'
  <2> USE DEF ledger, secrets, store
  <2>1. /\ \A j \in TestJobs : State(j) = "absent"
        /\ rows' = [j \in WorkflowJobs |->
             IF j \in TestJobs THEN W!JobRow(W!Blank("pending"), None) ELSE rows[j]]
        /\ UNCHANGED claims
    BY <1>3 DEF W!AppendJobs, W!InPhase, W!Status, W!Columns, TestJobs, State
  <2>2. /\ W!JobRow(W!Blank("pending"), None) \in W!Rows
        /\ W!JobRow(W!Blank("pending"), None).columns.status = "pending"
    BY DEF W!JobRow, W!Blank, W!Rows, W!History, W!Statuses
  <2>3. \A j \in TestJobs : State(j)' = "pending"
    BY <2>1, <2>2, ConstantFacts DEF State
  <2>4. \A j \in TestJobs : claimFile[j] = None
    BY <2>1 DEF RunInv, StoresInv, ClaimsKept
  <2>5. rows' \in [WorkflowJobs -> W!Rows]
    BY <2>1, <2>2 DEF RunInv, StoresInv, StoresTyped
  <2>6. StoresTyped'
    BY <1>1, <2>1, <2>5 DEF RunInv, StoresInv, StoresTyped, L!LedgerTypeOK
  <2>7. ClaimsKept'
    BY <1>1, <2>3, <2>4 DEF ClaimsKept, ActiveStates
  <2>8. LeasesKept' /\ ResultsFit'
    BY <1>1 DEF RunInv, StoresInv, LeasesKept, ResultsFit
  <2>9. StoresAgree'
    BY <1>1, <2>1, <2>3 DEF RunInv, StoresInv, StoresAgree, ActiveStates
  <2>10. AttemptFits'
    BY <1>1, <2>1 DEF RunInv, StoresInv, AttemptFits, Mirrored, W!Status, W!Columns, State, LocalInv,
                      InstallTestJobs
  <2> QED
    BY <2>6, <2>7, <2>8, <2>9, <2>10 DEF StoresInv
<1> QED
  BY <1>1, <1>2, <1>3 DEF RunInv, InstallTestJobs

LEMMA StartsKeep ==
  ASSUME RunInv, StartBaselines \/ StartFinalize \/ \E o \in Owners : StartJob(o)
  PROVE  RunInv'
<1>1. StoresInv'
  BY StoresStay DEF RunInv, StartBaselines, StartFinalize, StartJob, stores, workflow
<1> USE DEF RunInv, LocalInv, LocalsTyped, Steps, UnitSteps, LeaseSteps, JobSteps, locals, ledger,
            workflow, secrets, store
<1>2. CASE StartBaselines
  BY <1>1, <1>2, ConstantFacts DEF StartBaselines, Authorized
<1>3. CASE StartFinalize
  BY <1>1, <1>3 DEF StartFinalize, Authorized, Continue
<1>4. ASSUME NEW o \in Owners, StartJob(o)
      PROVE  LocalInv'
  BY <1>4 DEF StartJob, Authorized
<1> QED
  BY <1>1, <1>2, <1>3, <1>4

-----------------------------------------------------------------------------
(* acquire_sealed_job. *)

LEMMA StatusIs ==
  ASSUME NEW j
  PROVE  W!Status(j) = State(j) /\ W!Columns(j) = rows[j].columns /\ W!Active = ActiveStates
BY DEF W!Status, W!Columns, W!Active, State, ActiveStates

\* The scan finds every job that is active and has its file.
LEMMA ScanIsComplete ==
  ASSUME ActiveClaims = {}, NEW j \in TestJobs, State(j) \in ActiveStates
  PROVE  claimFile[j] = None
BY StatusIs DEF ActiveClaims

\* If it finds none, an active job can be claimed from the intent.
LEMMA IntentIsGood ==
  ASSUME StoresInv, ActiveClaims = {}, NEW j \in TestJobs, State(j) \in ActiveStates
  PROVE  /\ claimIntent # None
         /\ claimIntent.token = rows[j].token /\ claimIntent.owner = OwnerOf(j)
         /\ State(j) = "claimed"
<1>1. claimIntent = [token |-> rows[j].token, owner |-> OwnerOf(j)] /\ State(j) = "claimed"
  BY ScanIsComplete DEF StoresInv, ClaimsKept
<1>2. rows[j].token \in ClaimTokens /\ OwnerOf(j) \in Owners
  <2>1. ClaimOf(j) \in Issued
    BY DEF StoresInv, StoresTyped, ClaimsKept
  <2> QED
    BY <2>1 DEF ClaimOf, Issued
<1> QED
  BY <1>1, <1>2, ConstantFacts

\* An active job that the scan did not find has the token and the owner of the
\* intent: the command resumes it.
LEMMA NothingHidden ==
  ASSUME StoresInv, OwnIntent, Claimed(claimIntent.token, owner) = {}
  PROVE  \A j \in TestJobs : State(j) \notin ActiveStates
<1> SUFFICES ASSUME NEW j \in TestJobs, State(j) \in ActiveStates
             PROVE  FALSE
  OBVIOUS
<1>1. claimIntent.token = rows[j].token /\ claimIntent.owner = OwnerOf(j)
  BY IntentIsGood DEF OwnIntent
<1> QED
  BY <1>1 DEF OwnIntent, Claimed, OwnerOf

LEMMA AdoptKeeps ==
  ASSUME RunInv, AdoptActiveClaim
  PROVE  RunInv'
<1>1. PICK c \in ActiveClaims : Adopt(c, "lease")
  BY DEF AdoptActiveClaim
<1>2. at = "acquire" /\ UNCHANGED stores
  BY DEF AdoptActiveClaim, workflow, stores
<1>3. PICK j \in TestJobs : c = claimFile[j] /\ claimFile[j] # None /\ State(j) \in ActiveStates
  BY StatusIs DEF ActiveClaims
<1>4. c = ClaimOf(j) /\ c \in claims /\ c.job = j
  BY <1>3 DEF RunInv, StoresInv, ClaimsKept, ClaimOf
<1>5. StoresInv'
  BY <1>2, StoresStay DEF RunInv
<1>6. /\ at' = "lease" /\ claim' = c /\ unit' = j /\ UNCHANGED <<owner, text>>
  BY <1>1, <1>4 DEF Adopt
<1>7. LocalInv'
  BY <1>2, <1>3, <1>4, <1>6, ConstantFacts
     DEF RunInv, LocalInv, LocalsTyped, Steps, UnitSteps, LeaseSteps, JobSteps, stores, ledger,
         secrets, ClaimOf, OwnerOf, State
<1> QED
  BY <1>5, <1>7 DEF RunInv

LEMMA ForeignClaimKeeps ==
  ASSUME RunInv, ForeignClaim
  PROVE  RunInv'
BY StoresStay, ReturnKeeps DEF RunInv, ForeignClaim, stores, workflow

\* Claims and their intents do not matter for the rest.
LEMMA ClaimFilesChange ==
  ASSUME StoresInv, UNCHANGED <<rows, ledger, leaseIntent, leaseFile, store>>
  PROVE  (LeasesKept /\ ResultsFit /\ StoresAgree /\ AttemptFits)'
<1>1. LeasesKept' /\ ResultsFit'
  BY DEF StoresInv, LeasesKept, ResultsFit, ledger, store
<1>2. StoresAgree'
  BY DEF StoresInv, StoresAgree, State, ledger, store
<1>3. AttemptFits'
  BY DEF StoresInv, AttemptFits, Mirrored, W!Status, W!Columns, ledger
<1> QED
  BY <1>1, <1>2, <1>3

LEMMA WriteClaimIntentKeeps ==
  ASSUME RunInv, NEW t \in ClaimTokens, WriteClaimIntent(t)
  PROVE  RunInv'
<1>1. /\ at = "acquire" /\ at' = "acquire" /\ ActiveClaims = {} /\ claimIntent = None
      /\ claimIntent' = [token |-> t, owner |-> owner]
      /\ UNCHANGED <<rows, claims, ledger, claimFile, leaseIntent, leaseFile, store, locals>>
  BY DEF WriteClaimIntent, workflow, Continue
<1>2. owner \in Owners
  BY <1>1 DEF RunInv, LocalInv
<1>3. \A j \in TestJobs : State(j) \notin ActiveStates
  BY <1>1, IntentIsGood DEF RunInv
<1>4. StoresTyped'
  BY <1>1, <1>2 DEF RunInv, StoresInv, StoresTyped, L!LedgerTypeOK, ledger, store
<1>5. ClaimsKept'
  BY <1>1, <1>3 DEF RunInv, StoresInv, ClaimsKept, State, OwnerOf, ClaimOf
<1>6. (LeasesKept /\ ResultsFit /\ StoresAgree /\ AttemptFits)'
  BY <1>1, ClaimFilesChange DEF RunInv
<1>7. LocalInv'
  BY <1>1 DEF RunInv, LocalInv, LocalsTyped, Steps, UnitSteps, LeaseSteps, JobSteps, locals, ledger
<1> QED
  BY <1>4, <1>5, <1>6, <1>7 DEF RunInv, StoresInv

LEMMA ResumeClaimKeeps ==
  ASSUME RunInv, ResumeClaim
  PROVE  RunInv'
<1>1. PICK j \in Claimed(claimIntent.token, owner) :
        /\ W!Status(j) = "claimed"
        /\ Adopt([job |-> j, token |-> claimIntent.token, owner |-> owner,
                  from |-> 0, checkpoint |-> None], "keep claim")
  BY DEF ResumeClaim
<1>2. at = "acquire" /\ UNCHANGED stores
  BY DEF ResumeClaim, OwnIntent, workflow, stores
<1>3. /\ j \in TestJobs /\ State(j) = "claimed"
      /\ rows[j].token = claimIntent.token /\ OwnerOf(j) = owner
  BY <1>1, StatusIs DEF Claimed, OwnerOf
<1>4. at' = "keep claim" /\ claim' = ClaimOf(j) /\ unit' = j /\ UNCHANGED <<owner, text>>
  BY <1>1, <1>3 DEF Adopt, ClaimOf
<1>5. ClaimOf(j) \in claims
  BY <1>3 DEF RunInv, StoresInv, ClaimsKept, ActiveStates
<1>6. StoresInv'
  BY <1>2, StoresStay DEF RunInv
<1>7. LocalInv'
  BY <1>2, <1>3, <1>4, <1>5, ConstantFacts
     DEF RunInv, LocalInv, LocalsTyped, Steps, UnitSteps, LeaseSteps, JobSteps, stores, ledger,
         secrets, ClaimOf, OwnerOf, State, ActiveStates
<1> QED
  BY <1>6, <1>7 DEF RunInv

\* claim_next is called only if nothing is active.
LEMMA ClaimNextJobKeeps ==
  ASSUME RunInv, ClaimNextJob
  PROVE  RunInv'
<1>1. PICK j \in TestJobs :
        /\ W!Status(j) = "pending"
        /\ W!SetRow(j, [W!Columns(j) EXCEPT !.status = "claimed", !.owner = owner],
                    claimIntent.token)
        /\ claims' = claims \cup
             {[job |-> j, token |-> claimIntent.token, owner |-> owner,
               from |-> 0, checkpoint |-> None]}
  BY DEF ClaimNextJob, W!ClaimNext, W!InPhase, TestJobs
<1>2. /\ at = "acquire" /\ claimIntent # None /\ claimIntent.owner = owner
      /\ UNCHANGED <<ledger, secrets, store>>
  BY DEF ClaimNextJob, OwnIntent
<1>3. \A i \in TestJobs : State(i) \notin ActiveStates
  BY NothingHidden DEF RunInv, ClaimNextJob
<1>4. /\ owner \in Owners /\ claimIntent.token \in ClaimTokens
      /\ claimIntent = [token |-> claimIntent.token, owner |-> owner]
  BY <1>2 DEF RunInv, StoresInv, StoresTyped, LocalInv
<1> DEFINE h == [rows[j].columns EXCEPT !.status = "claimed", !.owner = owner]
<1>5. rows[j].columns \in W!History /\ State(j) = "pending" /\ rows \in [WorkflowJobs -> W!Rows]
  BY <1>1, StatusIs, ConstantFacts DEF RunInv, StoresInv, StoresTyped, W!Rows
<1>6. h \in W!History /\ h.status = "claimed" /\ h.owner = owner
  BY <1>4, <1>5 DEF W!History, W!Statuses, W!Active
<1>7. rows' = [rows EXCEPT ![j] = W!JobRow(h, claimIntent.token)]
  BY <1>1, StatusIs DEF W!SetRow
<1> HIDE DEF h
<1>8. /\ rows' \in [WorkflowJobs -> W!Rows]
      /\ \A i \in WorkflowJobs \ {j} : rows'[i] = rows[i]
      /\ State(j)' = "claimed" /\ OwnerOf(j)' = owner /\ rows'[j].token = claimIntent.token
  BY <1>4, <1>5, <1>6, <1>7, ConstantFacts DEF W!Rows, W!JobRow, State, OwnerOf
<1>9. claims' = claims \cup {ClaimOf(j)'} /\ ClaimOf(j)' \in Issued
  BY <1>1, <1>4, <1>8 DEF ClaimOf, Issued
<1>10. /\ \A i \in TestJobs \ {j} : State(i)' = State(i)
       /\ claimFile[j] = None
  BY <1>5, <1>8, ConstantFacts DEF State, RunInv, StoresInv, ClaimsKept
<1>11. StoresTyped'
  BY <1>2, <1>8, <1>9
     DEF RunInv, StoresInv, StoresTyped, L!LedgerTypeOK, ledger, secrets, store
<1>12. ClaimsKept'
  <2>1. \A i \in TestJobs : State(i)' \in ActiveStates => i = j
    BY <1>3, <1>10
  <2>2. /\ ClaimOf(j)' \in claims'
        /\ claimIntent' = [token |-> rows'[j].token, owner |-> OwnerOf(j)']
    BY <1>2, <1>4, <1>8, <1>9 DEF secrets
  <2>3. \A i \in TestJobs : claimFile'[i] # None => i # j /\ State(i)' = State(i)
    BY <1>2, <1>10 DEF secrets
  <2>4. \A i \in TestJobs : claimFile'[i] # None => State(i) \notin {"absent", "pending"}
    BY <1>2 DEF secrets, RunInv, StoresInv, ClaimsKept
  <2> QED
    BY <1>8, <2>1, <2>2, <2>3, <2>4 DEF ClaimsKept
<1>13. LeasesKept' /\ ResultsFit'
  BY <1>2 DEF RunInv, StoresInv, LeasesKept, ResultsFit, ledger, secrets, store
<1>14. StoresAgree'
  <2>1. \A i \in TestJobs \ {j} : rows'[i] = rows[i]
    BY <1>8, ConstantFacts
  <2> QED
    BY <1>2, <1>3, <1>8, <1>10, <2>1
       DEF RunInv, StoresInv, StoresAgree, ActiveStates, ledger, store
<1>15. AttemptFits'
  BY <1>2, <1>8 DEF RunInv, StoresInv, AttemptFits, LocalInv, ledger
<1>16. StoresInv'
  BY <1>11, <1>12, <1>13, <1>14, <1>15 DEF StoresInv
<1>17. PICK c \in claims' \ claims : Adopt(c, "keep claim")
  BY DEF ClaimNextJob
<1>18. c = ClaimOf(j)'
  BY <1>9, <1>17
<1>19. at' = "keep claim" /\ claim' = ClaimOf(j)' /\ unit' = j /\ UNCHANGED <<owner, text>>
  BY <1>17, <1>18 DEF Adopt, ClaimOf
<1>20. LocalInv'
  BY <1>2, <1>4, <1>8, <1>9, <1>19, ConstantFacts
     DEF RunInv, LocalInv, LocalsTyped, Steps, UnitSteps, LeaseSteps, JobSteps, ledger, ActiveStates,
         ClaimOf, OwnerOf, State
<1> QED
  BY <1>16, <1>20 DEF RunInv

LEMMA NoPendingJobKeeps ==
  ASSUME RunInv, NoPendingJob
  PROVE  RunInv'
<1>1. /\ claimIntent' = None
      /\ UNCHANGED <<rows, claims, ledger, claimFile, leaseIntent, leaseFile, store>>
  BY DEF NoPendingJob, workflow
<1>2. \A j \in TestJobs : State(j) \notin ActiveStates
  BY NothingHidden DEF RunInv, NoPendingJob
<1>3. StoresTyped'
  BY <1>1 DEF RunInv, StoresInv, StoresTyped, L!LedgerTypeOK, ledger, store
<1>4. ClaimsKept'
  BY <1>1, <1>2 DEF RunInv, StoresInv, ClaimsKept, State, OwnerOf, ClaimOf
<1>5. (LeasesKept /\ ResultsFit /\ StoresAgree /\ AttemptFits)'
  BY <1>1, ClaimFilesChange DEF RunInv
<1> QED
  BY <1>3, <1>4, <1>5, ReturnKeeps DEF RunInv, StoresInv, NoPendingJob

LEMMA WriteClaimKeeps ==
  ASSUME RunInv, WriteClaim
  PROVE  RunInv'
<1>1. /\ at = "keep claim" /\ at' = "drop claim intent" /\ claimFile[unit] = None
      /\ claimFile' = [claimFile EXCEPT ![unit] = claim]
      /\ UNCHANGED <<rows, claims, ledger, claimIntent, leaseIntent, leaseFile, store, locals>>
  BY DEF WriteClaim, workflow, Continue
<1>2. /\ unit \in TestJobs /\ State(unit) \in ActiveStates /\ claim = ClaimOf(unit)
      /\ claim \in claims
  BY <1>1 DEF RunInv, LocalInv, StoresInv, ClaimsKept
<1>3. \A j \in TestJobs : claimFile'[j] = IF j = unit THEN claim ELSE claimFile[j]
  BY <1>1 DEF RunInv, StoresInv, StoresTyped
<1>4. StoresTyped'
  BY <1>1, <1>2 DEF RunInv, StoresInv, StoresTyped, L!LedgerTypeOK, ledger, store
<1>5. ClaimsKept'
  BY <1>1, <1>2, <1>3 DEF RunInv, StoresInv, ClaimsKept, State, OwnerOf, ClaimOf, ActiveStates
<1>6. (LeasesKept /\ ResultsFit /\ StoresAgree /\ AttemptFits)'
  BY <1>1, ClaimFilesChange DEF RunInv
<1>7. LocalInv'
  BY <1>1, <1>2, <1>3
     DEF RunInv, LocalInv, LocalsTyped, Steps, UnitSteps, LeaseSteps, JobSteps, locals, ledger,
         ClaimOf, OwnerOf, State
<1> QED
  BY <1>4, <1>5, <1>6, <1>7 DEF RunInv, StoresInv

LEMMA UnlinkClaimIntentKeeps ==
  ASSUME RunInv, UnlinkClaimIntent
  PROVE  RunInv'
<1>1. /\ at = "drop claim intent" /\ at' = "lease" /\ claimIntent' = None
      /\ UNCHANGED <<rows, claims, ledger, claimFile, leaseIntent, leaseFile, store, locals>>
  BY DEF UnlinkClaimIntent, workflow, Continue
<1>2. /\ unit \in TestJobs /\ State(unit) \in ActiveStates
      /\ claim = ClaimOf(unit) /\ claimFile[unit] = claim /\ claim \in claims
      /\ owner \in Owners
  BY <1>1 DEF RunInv, LocalInv, StoresInv, ClaimsKept
<1>3. claimFile[unit] # None
  BY <1>2, ConstantFacts DEF RunInv, StoresInv, StoresTyped
<1>4. StoresTyped'
  BY <1>1 DEF RunInv, StoresInv, StoresTyped, L!LedgerTypeOK, ledger, store
<1>5. ClaimsKept'
  <2>1. \A j \in TestJobs : State(j) \in ActiveStates => j = unit
    BY <1>2 DEF RunInv, StoresInv, ClaimsKept
  <2> QED
    BY <1>1, <1>3, <2>1 DEF RunInv, StoresInv, ClaimsKept, State, OwnerOf, ClaimOf
<1>6. (LeasesKept /\ ResultsFit /\ StoresAgree /\ AttemptFits)'
  BY <1>1, ClaimFilesChange DEF RunInv
<1>7. LocalInv'
  BY <1>1, <1>2, ConstantFacts
     DEF RunInv, LocalInv, LocalsTyped, Steps, UnitSteps, LeaseSteps, JobSteps, locals, ledger,
         ClaimOf, OwnerOf, State
<1> QED
  BY <1>4, <1>5, <1>6, <1>7 DEF RunInv, StoresInv

-----------------------------------------------------------------------------
(* The lease, or the recovery of what an earlier command left behind. *)

\* What a command that works on a unit rests on, when only the lease files, the
\* ledger row of the unit or the references change and it goes on.
LEMMA UnitStepKeeps ==
  ASSUME LocalInv, at \in UnitSteps, at' \in UnitSteps,
         at' \in JobSteps => unit \in TestJobs,
         UNCHANGED <<attempt, rows, claims, claimFile, owner, unit, claim>>,
         text' \in FailureTexts \cup {None},
         at' = "keep lease" => row'[unit].state = "leased" /\ row'[unit].token = leaseIntent'[unit],
         at' = "drop lease intent" =>
           row'[unit].state = "leased" /\ row'[unit].token = leaseFile'[unit],
         at' \in {"build", "update", "audit", "publish"} =>
           row'[unit].state = "running" /\ \A r \in references' : r.unit # unit,
         at' = "complete" => row'[unit].state = "complete",
         at' = "fail" => text' \in FailureTexts
  PROVE  LocalInv'
BY DEF LocalInv, LocalsTyped, Steps, UnitSteps, LeaseSteps, JobSteps, ClaimOf, OwnerOf, State

LEMMA LeaseFilesKeep ==
  ASSUME StoresInv, UNCHANGED <<rows, claims, ledger, claimIntent, claimFile, store>>,
         leaseIntent' \in [Units -> LeaseTokens \cup {None}],
         leaseFile' \in [Units -> LeaseTokens \cup {None}],
         LeasesKept'
  PROVE  StoresInv'
<1>1. StoresTyped'
  BY DEF StoresInv, StoresTyped, L!LedgerTypeOK, ledger, store
<1>2. ClaimsKept'
  BY DEF StoresInv, ClaimsKept, State, OwnerOf, ClaimOf
<1>3. (ResultsFit /\ StoresAgree /\ AttemptFits)'
  BY DEF StoresInv, ResultsFit, StoresAgree, AttemptFits,
         State, Mirrored, W!Status, W!Columns, ledger, store
<1> QED
  BY <1>1, <1>2, <1>3 DEF StoresInv

LEMMA WriteLeaseIntentKeeps ==
  ASSUME RunInv, NEW t \in LeaseTokens, WriteLeaseIntent(t)
  PROVE  RunInv'
<1>1. /\ at = "lease" /\ at' = "lease" /\ leaseFile[unit] = None /\ leaseIntent[unit] = None
      /\ leaseIntent' = [leaseIntent EXCEPT ![unit] = t]
      /\ UNCHANGED <<rows, claims, ledger, claimIntent, claimFile, leaseFile, store, locals>>
  BY DEF WriteLeaseIntent, workflow, Continue
<1>2. /\ leaseIntent' \in [Units -> LeaseTokens \cup {None}]
      /\ \A u \in Units \ {unit} : leaseIntent'[u] = leaseIntent[u]
  BY <1>1 DEF RunInv, StoresInv, StoresTyped
<1>3. LeasesKept'
  BY <1>1, <1>2 DEF RunInv, StoresInv, LeasesKept, ledger
<1>4. StoresInv'
  BY <1>1, <1>2, <1>3, LeaseFilesKeep DEF RunInv, StoresInv, StoresTyped
<1>5. LocalInv'
  BY <1>1, UnitStepKeeps
     DEF RunInv, LocalInv, LocalsTyped, UnitSteps, LeaseSteps, JobSteps, ledger, locals
<1> QED
  BY <1>4, <1>5 DEF RunInv

LEMMA TakeLeaseKeeps ==
  ASSUME RunInv, TakeLease
  PROVE  RunInv'
<1>1. /\ at = "lease" /\ at' = "keep lease" /\ leaseIntent[unit] # None
      /\ UNCHANGED <<rows, claims, secrets, store, locals>>
  BY DEF TakeLease, workflow, Continue
<1>2. unit \in Units /\ (unit \in TestJobs => State(unit) \in ActiveStates)
  BY <1>1 DEF RunInv, LocalInv, UnitSteps, LeaseSteps
<1>3. /\ StoresInv' /\ attempt' = attempt
      /\ row'[unit].state = "leased" /\ row'[unit].token = leaseIntent[unit]
  <2>1. CASE L!MayResume(unit, leaseIntent[unit])
    <3>1. UNCHANGED ledger /\ row[unit].state = "leased" /\ row[unit].token = leaseIntent[unit]
      BY <2>1 DEF TakeLease, L!MayResume, L!Holds
    <3>2. StoresInv'
      BY <1>1, <3>1, StoresStay DEF RunInv, stores
    <3> QED
      BY <3>1, <3>2 DEF ledger
  <2>2. CASE L!Claim(unit, leaseIntent[unit])
    <3>1. StoresInv' /\ row'[unit].state = "leased" /\ row'[unit].token = leaseIntent[unit]
      BY <1>1, <1>2, <2>2, LeaseKeeps DEF RunInv
    <3> QED
      BY <2>2, <3>1 DEF L!Claim
  <2> QED
    BY <2>1, <2>2 DEF TakeLease
<1>4. LocalInv'
  BY <1>1, <1>3, UnitStepKeeps
     DEF RunInv, LocalInv, LocalsTyped, UnitSteps, LeaseSteps, JobSteps, locals, secrets
<1> QED
  BY <1>3, <1>4 DEF RunInv

LEMMA WriteLeaseKeeps ==
  ASSUME RunInv, WriteLease
  PROVE  RunInv'
<1>1. /\ at = "keep lease" /\ at' = "drop lease intent"
      /\ leaseFile' = [leaseFile EXCEPT ![unit] = leaseIntent[unit]]
      /\ UNCHANGED <<rows, claims, ledger, claimIntent, claimFile, leaseIntent, store, locals>>
  BY DEF WriteLease, workflow, Continue
<1>2. unit \in Units /\ row[unit].state = "leased" /\ row[unit].token = leaseIntent[unit]
  BY <1>1 DEF RunInv, LocalInv, UnitSteps, LeaseSteps
<1>3. /\ leaseFile' \in [Units -> LeaseTokens \cup {None}]
      /\ \A u \in Units \ {unit} : leaseFile'[u] = leaseFile[u]
      /\ leaseFile'[unit] = leaseIntent[unit]
  BY <1>1, <1>2 DEF RunInv, StoresInv, StoresTyped
<1>4. LeasesKept'
  BY <1>1, <1>2, <1>3 DEF RunInv, StoresInv, LeasesKept, ledger
<1>5. StoresInv'
  BY <1>1, <1>3, <1>4, LeaseFilesKeep DEF RunInv, StoresInv, StoresTyped
<1>6. LocalInv'
  BY <1>1, <1>2, <1>3, UnitStepKeeps
     DEF RunInv, LocalInv, LocalsTyped, UnitSteps, LeaseSteps, JobSteps, ledger, locals
<1> QED
  BY <1>5, <1>6 DEF RunInv

LEMMA UnlinkLeaseIntentKeeps ==
  ASSUME RunInv, UnlinkLeaseIntent
  PROVE  RunInv'
<1>1. /\ at = "drop lease intent" /\ at' = "begin"
      /\ leaseIntent' = [leaseIntent EXCEPT ![unit] = None]
      /\ UNCHANGED <<rows, claims, ledger, claimIntent, claimFile, leaseFile, store, locals>>
  BY DEF UnlinkLeaseIntent, workflow, Continue
<1>2. unit \in Units /\ row[unit].state = "leased" /\ row[unit].token = leaseFile[unit]
  BY <1>1 DEF RunInv, LocalInv, UnitSteps, LeaseSteps
<1>3. /\ leaseIntent' \in [Units -> LeaseTokens \cup {None}]
      /\ \A u \in Units \ {unit} : leaseIntent'[u] = leaseIntent[u]
  BY <1>1 DEF RunInv, StoresInv, StoresTyped
<1>4. LeasesKept'
  BY <1>1, <1>2, <1>3 DEF RunInv, StoresInv, LeasesKept, ledger
<1>5. StoresInv'
  BY <1>1, <1>3, <1>4, LeaseFilesKeep DEF RunInv, StoresInv, StoresTyped
<1>6. LocalInv'
  BY <1>1, UnitStepKeeps
     DEF RunInv, LocalInv, LocalsTyped, UnitSteps, LeaseSteps, JobSteps, ledger, locals
<1> QED
  BY <1>5, <1>6 DEF RunInv

LEMMA UseLeaseKeeps ==
  ASSUME RunInv, UseLease
  PROVE  RunInv'
<1>1. at = "lease" /\ at' = "begin" /\ UNCHANGED stores /\ UNCHANGED locals
  BY DEF UseLease, Recovering, stores, workflow, Continue
<1>2. StoresInv'
  BY <1>1, StoresStay DEF RunInv
<1>3. LocalInv'
  BY <1>1, UnitStepKeeps
     DEF RunInv, LocalInv, LocalsTyped, UnitSteps, LeaseSteps, JobSteps, stores, ledger, secrets, locals
<1> QED
  BY <1>2, <1>3 DEF RunInv

\* How the reconciliations of the workflow end a job.
LEMMA CompletionEnds ==
  ASSUME StoresInv, NEW j \in TestJobs, NEW r \in references, r.unit = j,
         State(j) \in ActiveStates, row[j].state = "complete", W!SetCompleted(j, r.output),
         UNCHANGED <<ledger, secrets, store>>
  PROVE  Ends(j)
<1> DEFINE h == [rows[j].columns EXCEPT !.status = "completed", !.output = r.output]
<1>1. rows \in [WorkflowJobs -> W!Rows] /\ j \in WorkflowJobs /\ r.output \in Outputs
  BY ConstantFacts DEF StoresInv, StoresTyped, References
<1>2. rows[j].columns \in W!History
  BY <1>1 DEF W!Rows
<1>3. h \in W!History /\ h.status = "completed" /\ h.output = r.output
  BY <1>1, <1>2 DEF W!History, W!Statuses
<1>4. rows' = [rows EXCEPT ![j] = W!JobRow(h, None)] /\ UNCHANGED claims
  BY DEF W!SetCompleted, W!SetRow, W!Columns
<1> HIDE DEF h
<1>5. /\ rows' \in [WorkflowJobs -> W!Rows]
      /\ \A i \in WorkflowJobs \ {j} : rows'[i] = rows[i]
      /\ State(j)' = "completed" /\ rows'[j].columns.output = r.output
  BY <1>1, <1>3, <1>4 DEF W!Rows, W!JobRow, State
<1> QED
  BY <1>4, <1>5 DEF Ends

LEMMA FailureEnds ==
  ASSUME StoresInv, NEW j \in TestJobs, State(j) \in ActiveStates,
         row[j].state = "failure", W!SetFailed(j, row[j].failure),
         UNCHANGED <<ledger, secrets, store>>
  PROVE  Ends(j)
<1> DEFINE f == row[j].failure
<1> DEFINE h == [rows[j].columns EXCEPT !.status = "failed", !.failure = f]
<1>1. rows \in [WorkflowJobs -> W!Rows] /\ j \in WorkflowJobs
  BY ConstantFacts DEF StoresInv, StoresTyped
<1>2. rows[j].columns \in W!History
  BY <1>1 DEF W!Rows
<1>3. rows' = [rows EXCEPT ![j] = W!JobRow(h, None)] /\ UNCHANGED claims
  BY DEF W!SetFailed, W!SetRow, W!Columns
<1>4. f \in FailureTexts \cup {None} /\ f = row[j].failure
  BY RowTyped, ConstantFacts DEF StoresInv, L!Rows, FailureTexts, L!FailureTexts
<1> HIDE DEF f
<1>5. h \in W!History /\ h.status = "failed" /\ h.failure = f
  BY <1>2, <1>4 DEF W!History, W!Statuses
<1> HIDE DEF h
<1>6. /\ rows' \in [WorkflowJobs -> W!Rows]
      /\ \A i \in WorkflowJobs \ {j} : rows'[i] = rows[i]
      /\ State(j)' = "failed" /\ rows'[j].columns.failure = f
  BY <1>1, <1>3, <1>5 DEF W!Rows, W!JobRow, State
<1> QED
  BY <1>3, <1>4, <1>6 DEF Ends

LEMMA RecoverResultKeeps ==
  ASSUME RunInv, RecoverResult
  PROVE  RunInv'
<1>1. /\ at = "lease" /\ at' = "acquire" /\ unit # Batch /\ unit' = None /\ claim' = None
      /\ UNCHANGED <<ledger, secrets, store, owner, text>>
  BY DEF RecoverResult, Recovering
<1>2. /\ unit \in TestJobs /\ owner \in Owners /\ State(unit) \in ActiveStates
      /\ attempt = "authorized"
  BY <1>1, ConstantFacts DEF RunInv, LocalInv, UnitSteps, LeaseSteps
<1>3. Ends(unit)
  <2>1. ASSUME NEW r \in Published(unit),
               W!ReconcileSealedCompletion(unit, r.outcome, r.output)
        PROVE  Ends(unit)
    BY <1>1, <1>2, <2>1, CompletionEnds DEF RunInv, Published, W!ReconcileSealedCompletion
  <2>2. CASE W!ReconcileSealedFailure(unit, row[unit].failure)
    BY <1>1, <1>2, <2>2, FailureEnds DEF RunInv, W!ReconcileSealedFailure
  <2> QED
    BY <2>1, <2>2 DEF RecoverResult
<1>4. StoresInv'
  BY <1>2, <1>3, EndsKeep DEF RunInv
<1>5. LocalInv'
  BY <1>1, <1>2
     DEF RunInv, LocalInv, LocalsTyped, Steps, UnitSteps, LeaseSteps, JobSteps, ledger
<1> QED
  BY <1>4, <1>5 DEF RunInv

LEMMA FailOrphanKeeps ==
  ASSUME RunInv, FailOrphan
  PROVE  RunInv'
<1>1. /\ at = "lease" /\ L!Fail(unit, leaseFile[unit], OrphanedText)
      /\ UNCHANGED <<rows, claims, secrets, store>>
  BY DEF FailOrphan, Recovering, workflow, Lease
<1>2. unit \in Units
  BY <1>1 DEF RunInv, LocalInv, UnitSteps, LeaseSteps
<1>3. StoresInv' /\ attempt' = attempt
  <2>1. OrphanedText \in FailureTexts
    BY ConstantFacts
  <2>2. StoresInv'
    BY <1>1, <1>2, <2>1, FailKeeps DEF RunInv
  <2> QED
    BY <1>1, <2>2 DEF L!Fail
<1>4. CASE unit = Batch
  BY <1>3, <1>4, ReturnKeeps DEF FailOrphan, RunInv
<1>5. CASE unit # Batch
  <2>1. at' = "mirror" /\ text' = OrphanedText /\ UNCHANGED <<owner, unit, claim>>
    BY <1>5 DEF FailOrphan
  <2>2. unit \in TestJobs /\ text' \in FailureTexts
    BY <1>2, <1>5, <2>1, ConstantFacts
  <2>3. LocalInv'
    BY <1>1, <1>3, <2>1, <2>2, UnitStepKeeps
       DEF RunInv, UnitSteps, LeaseSteps, JobSteps, secrets
  <2> QED
    BY <1>3, <2>3 DEF RunInv
<1> QED
  BY <1>4, <1>5

-----------------------------------------------------------------------------
(* The execution of a job or of the batch. *)

LEMMA BeginLeaseKeeps ==
  ASSUME RunInv, BeginLease
  PROVE  RunInv'
<1>1. /\ at = "begin" /\ L!Begin(unit, leaseFile[unit])
      /\ at' = IF unit = Batch THEN "publish" ELSE "build"
      /\ UNCHANGED <<rows, claims, secrets, store, locals>>
  BY DEF BeginLease, Lease, workflow, Continue
<1>2. unit \in Units
  BY <1>1 DEF RunInv, LocalInv, UnitSteps, LeaseSteps
<1>3. /\ StoresInv' /\ row'[unit].state = "running"
      /\ \A r \in references : r.unit # unit
  BY <1>1, <1>2, BeginKeeps DEF RunInv
<1>4. attempt' = attempt
  BY <1>1 DEF L!Begin
<1>5. at' \in {"build", "publish"} /\ (at' = "build" => unit \in TestJobs)
  BY <1>1, <1>2, ConstantFacts
<1>6. LocalInv'
  BY <1>1, <1>3, <1>4, <1>5, UnitStepKeeps
     DEF RunInv, LocalInv, LocalsTyped, UnitSteps, LeaseSteps, JobSteps, locals, secrets, store
<1> QED
  BY <1>3, <1>6 DEF RunInv

LEMMA BuildFailsKeeps ==
  ASSUME RunInv, NEW f \in Errors, BuildFails(f)
  PROVE  RunInv'
<1>1. /\ at = "build" /\ at' = "fail" /\ text' = f /\ L!Fail(unit, leaseFile[unit], f)
      /\ UNCHANGED <<rows, claims, secrets, store, owner, unit, claim>>
  BY DEF BuildFails, L!FailJob, Lease, workflow
<1>2. unit \in TestJobs /\ unit \in Units /\ f \in FailureTexts
  BY <1>1, ConstantFacts DEF RunInv, LocalInv, UnitSteps, JobSteps
<1>3. StoresInv'
  BY <1>1, <1>2, FailKeeps DEF RunInv
<1>4. attempt' = attempt
  BY <1>1 DEF L!Fail
<1>5. LocalInv'
  BY <1>1, <1>2, <1>4, UnitStepKeeps DEF RunInv, UnitSteps, LeaseSteps, JobSteps, secrets
<1> QED
  BY <1>3, <1>5 DEF RunInv

\* The two moves of the workflow row while a job is executed.
LEMMA TrainsKeep ==
  ASSUME RunInv, BeginTraining \/ FinishTraining
  PROVE  RunInv'
<1> DEFINE s == IF BeginTraining THEN "running" ELSE "trained"
<1>1. /\ at \in {"build", "update"} /\ at' \in {"update", "audit"}
      /\ UNCHANGED <<ledger, secrets, store, locals>>
      /\ W!SetRow(claim.job, [W!Columns(claim.job) EXCEPT !.status = s], rows[claim.job].token)
      /\ UNCHANGED claims
  BY DEF BeginTraining, FinishTraining, W!Begin, W!MarkTrained, Continue
<1>2. s \in {"running", "trained"}
  OBVIOUS
<1> HIDE DEF s
<1>3. PICK j \in TestJobs : j = unit
  BY <1>1 DEF RunInv, LocalInv, JobSteps
<1>4. /\ State(j) \in ActiveStates /\ claim = ClaimOf(j) /\ claimFile[j] = claim
      /\ owner \in Owners /\ attempt = "authorized"
  BY <1>1, <1>3 DEF RunInv, LocalInv, UnitSteps, JobSteps
<1>5. row[j].state = "running" /\ \A r \in references : r.unit # j
  BY <1>1, <1>3 DEF RunInv, LocalInv
<1>6. claim \in claims /\ claim # None /\ claim.job = j
  BY <1>4, ConstantFacts DEF RunInv, StoresInv, StoresTyped, ClaimsKept, ClaimOf
<1>7. rows' = [rows EXCEPT ![j] =
        W!JobRow([rows[j].columns EXCEPT !.status = s], rows[j].token)]
  BY <1>1, <1>6 DEF W!SetRow, W!Columns
<1>8. StoresInv' /\ State(j)' \in ActiveStates /\ ClaimOf(j)' = ClaimOf(j)
  <2>1. claimFile[j] # None
    BY <1>4, <1>6
  <2> QED
    BY <1>1, <1>2, <1>4, <1>7, <2>1, WorksKeep DEF RunInv
<1>9. LocalsTyped' /\ unit' = j
  BY <1>1, <1>3 DEF RunInv, LocalInv, LocalsTyped, Steps, locals
<1>10. LocalInv'
  <2>1. /\ owner' \in Owners /\ claim' = ClaimOf(j)' /\ claimFile'[j] = claim'
        /\ attempt' = "authorized" /\ row'[j].state = "running"
        /\ \A r \in references' : r.unit # j
    BY <1>1, <1>4, <1>5, <1>8 DEF locals, ledger, secrets, store
  <2>2. unit' \in TestJobs /\ unit' \in Units
    BY <1>9, ConstantFacts
  <2>3. (State(unit) = State(j))' /\ (ClaimOf(unit) = ClaimOf(j))'
    BY <1>9
  <2> QED
    BY <1>1, <1>8, <1>9, <2>1, <2>2, <2>3 DEF LocalInv, UnitSteps, LeaseSteps, JobSteps
<1> QED
  BY <1>8, <1>10 DEF RunInv

\* Checkpoints and audits decide nothing in the stores that agree.
LEMMA RecordsKeep ==
  ASSUME RunInv, NEW a, SaveCheckpoint(a) \/ AuditResume(a)
  PROVE  RunInv'
<1>1. /\ at \in {"update", "audit"} /\ at' \in {"update", "publish"}
      /\ UNCHANGED stores /\ UNCHANGED locals
  BY DEF SaveCheckpoint, AuditResume, W!RecordCheckpoint, W!PublishResumeAudit, Continue, stores
<1>2. StoresInv'
  BY <1>1, StoresStay DEF RunInv
<1>3. LocalInv'
  BY <1>1, UnitStepKeeps
     DEF RunInv, LocalInv, LocalsTyped, UnitSteps, LeaseSteps, JobSteps, locals, stores, ledger,
         secrets, store
<1> QED
  BY <1>2, <1>3 DEF RunInv

\* A unit that publishes runs, and has not published before.
LEMMA PublishResultKeeps ==
  ASSUME RunInv, NEW outcome \in Outcomes, NEW output \in Outputs, PublishResult(outcome, output)
  PROVE  RunInv'
<1> DEFINE new == [unit |-> unit, outcome |-> outcome, output |-> output]
<1>1. /\ at = "publish" /\ at' = "commit" /\ references' = references \cup {new}
      /\ UNCHANGED <<rows, claims, ledger, secrets, package, locals>>
  BY DEF PublishResult, workflow, Continue
<1>2. /\ unit \in Units /\ row[unit].state = "running"
      /\ \A r \in references : r.unit # unit
  BY <1>1 DEF RunInv, LocalInv, UnitSteps
<1>3. new \in References /\ new.unit = unit /\ new.outcome = outcome
  BY <1>2 DEF References, Units
<1> HIDE DEF new
<1>4. StoresTyped'
  BY <1>1, <1>3 DEF RunInv, StoresInv, StoresTyped, L!LedgerTypeOK, ledger, secrets
<1>5. (ClaimsKept /\ LeasesKept /\ AttemptFits)'
  BY <1>1 DEF RunInv, StoresInv, ClaimsKept, LeasesKept, AttemptFits,
              State, OwnerOf, ClaimOf, Mirrored, W!Status, W!Columns, ledger, secrets
<1>6. ResultsFit'
  BY <1>1, <1>2, <1>3 DEF RunInv, StoresInv, ResultsFit, ledger
<1>7. StoresAgree'
  BY <1>1, <1>2, <1>3 DEF RunInv, StoresInv, StoresAgree, State, ledger
<1>8. StoresInv'
  BY <1>4, <1>5, <1>6, <1>7 DEF StoresInv
<1>9. LocalInv'
  BY <1>1, UnitStepKeeps
     DEF RunInv, LocalInv, LocalsTyped, UnitSteps, LeaseSteps, JobSteps, locals, ledger, secrets
<1> QED
  BY <1>8, <1>9 DEF RunInv

LEMMA CommitResultKeeps ==
  ASSUME RunInv, CommitResult
  PROVE  RunInv'
<1>1. PICK x \in references : x.unit = unit /\ L!Complete(unit, leaseFile[unit], x.outcome)
  BY DEF CommitResult, Lease
<1>2. at = "commit" /\ UNCHANGED <<rows, claims, secrets, store>>
  BY DEF CommitResult, workflow
<1>3. unit \in Units
  BY <1>2 DEF RunInv, LocalInv, UnitSteps
<1>4. StoresInv' /\ row'[unit].state = "complete"
  BY <1>1, <1>2, <1>3, CommitKeeps DEF RunInv
<1>5. CASE unit = Batch
  BY <1>4, <1>5, ReturnKeeps DEF CommitResult, RunInv
<1>6. CASE unit # Batch
  <2>1. at' = "complete" /\ UNCHANGED locals
    BY <1>6 DEF CommitResult, Continue
  <2>2. unit \in TestJobs /\ attempt' = attempt
    BY <1>1, <1>3, <1>6, ConstantFacts DEF L!Complete
  <2>3. LocalInv'
    BY <1>2, <1>4, <2>1, <2>2, UnitStepKeeps
       DEF RunInv, LocalInv, LocalsTyped, UnitSteps, LeaseSteps, JobSteps, locals, secrets
  <2> QED
    BY <1>4, <2>3 DEF RunInv
<1> QED
  BY <1>5, <1>6

LEMMA CompleteRowKeeps ==
  ASSUME RunInv, CompleteRow
  PROVE  RunInv'
<1>1. PICK r \in Published(unit) : W!Complete(claim, r.output)
  BY DEF CompleteRow
<1>2. at = "complete" /\ UNCHANGED <<ledger, secrets, store>> /\ Return
  BY DEF CompleteRow
<1>3. /\ unit \in TestJobs /\ State(unit) \in ActiveStates /\ claim = ClaimOf(unit)
      /\ row[unit].state = "complete"
  BY <1>2 DEF RunInv, LocalInv, UnitSteps, JobSteps
<1>4. claim.job = unit
  BY <1>3 DEF ClaimOf
<1>5. Ends(unit)
  BY <1>1, <1>2, <1>3, <1>4, CompletionEnds DEF RunInv, Published, W!Complete
<1> QED
  BY <1>2, <1>3, <1>5, EndsKeep, ReturnKeeps DEF RunInv

LEMMA ExecutionFailsKeeps ==
  ASSUME RunInv, NEW f \in Errors, ExecutionFails(f)
  PROVE  RunInv'
<1>1. /\ at \in {"build", "update", "audit", "publish", "commit"} /\ unit # Batch
      /\ at' = "fail" /\ text' = f /\ UNCHANGED stores /\ UNCHANGED <<owner, unit, claim>>
  BY DEF ExecutionFails, workflow, stores
<1>2. unit \in TestJobs /\ f \in FailureTexts
  BY <1>1, ConstantFacts DEF RunInv, LocalInv, UnitSteps, JobSteps
<1>3. StoresInv'
  BY <1>1, StoresStay DEF RunInv
<1>4. LocalInv'
  BY <1>1, <1>2, UnitStepKeeps
     DEF RunInv, UnitSteps, LeaseSteps, JobSteps, stores, ledger, secrets
<1> QED
  BY <1>3, <1>4 DEF RunInv

LEMMA BaselinesFailKeeps ==
  ASSUME RunInv, NEW f \in Errors, BaselinesFail(f)
  PROVE  RunInv'
<1>1. /\ unit = Batch /\ L!Fail(Batch, leaseFile[Batch], f) /\ Return
      /\ UNCHANGED <<rows, claims, secrets, store>>
  BY DEF BaselinesFail, L!FailBaselineBatch, Lease, workflow
<1>2. StoresInv'
  BY <1>1, ConstantFacts, FailKeeps DEF RunInv
<1> QED
  BY <1>1, <1>2, ReturnKeeps DEF RunInv

LEMMA RecordFailureKeeps ==
  ASSUME RunInv, RecordFailure
  PROVE  RunInv'
<1>1. /\ at = "fail" /\ at' = "mirror"
      /\ UNCHANGED <<rows, claims, secrets, store, owner, unit, claim>>
  BY DEF RecordFailure, workflow
<1>2. unit \in TestJobs /\ unit \in Units /\ text \in FailureTexts
  BY <1>1 DEF RunInv, LocalInv, UnitSteps, JobSteps
<1>3. StoresInv' /\ attempt' = attempt /\ text' \in FailureTexts \cup {None}
  <2>1. CASE L!FailJob(unit, Lease, text) /\ UNCHANGED text
    <3>1. L!Fail(unit, leaseFile[unit], text)
      BY <2>1 DEF L!FailJob, Lease
    <3>2. StoresInv'
      BY <1>1, <1>2, <3>1, FailKeeps DEF RunInv
    <3> QED
      BY <1>2, <2>1, <3>1, <3>2 DEF L!Fail
  <2>2. CASE text' = row[unit].failure /\ UNCHANGED ledger
    <3>1. row[unit].failure \in FailureTexts \cup {None}
      BY <1>2, RowTyped DEF RunInv, StoresInv, L!Rows, FailureTexts, L!FailureTexts
    <3>2. StoresInv'
      BY <1>1, <2>2, StoresStay DEF RunInv, stores
    <3> QED
      BY <2>2, <3>1, <3>2 DEF ledger
  <2> QED
    BY <2>1, <2>2 DEF RecordFailure
<1>4. LocalInv'
  BY <1>1, <1>2, <1>3, UnitStepKeeps DEF RunInv, UnitSteps, LeaseSteps, JobSteps, secrets
<1> QED
  BY <1>3, <1>4 DEF RunInv

LEMMA MirrorFailureKeeps ==
  ASSUME RunInv, MirrorFailure
  PROVE  RunInv'
<1>1. at = "mirror" /\ Return /\ UNCHANGED <<ledger, secrets, store>>
  BY DEF MirrorFailure
<1>2. unit \in TestJobs /\ State(unit) \in ActiveStates
  BY <1>1 DEF RunInv, LocalInv, UnitSteps, JobSteps
<1>3. CASE L!VerifyFailedJob(unit, text) /\ W!ReconcileSealedFailure(unit, text)
  <2>1. Ends(unit)
    BY <1>1, <1>2, <1>3, FailureEnds DEF RunInv, L!VerifyFailedJob, W!ReconcileSealedFailure
  <2> QED
    BY <1>1, <1>2, <2>1, EndsKeep, ReturnKeeps DEF RunInv
<1>4. CASE UNCHANGED workflow
  BY <1>1, <1>4, StoresStay, ReturnKeeps DEF RunInv, stores, workflow
<1> QED
  BY <1>3, <1>4 DEF MirrorFailure

-----------------------------------------------------------------------------
(* finalize-test. *)

LEMMA ReconcileRecordKeeps ==
  ASSUME RunInv, NEW j \in TestJobs, ReconcileRecord(j)
  PROVE  RunInv'
<1>1. at = "finalize" /\ at' = "finalize" /\ UNCHANGED <<ledger, secrets, store, locals>>
  BY DEF ReconcileRecord, Continue
<1>2. Ends(j)
  <2>1. ASSUME NEW r \in Published(j), W!ReconcileSealedCompletion(j, r.outcome, r.output)
        PROVE  Ends(j)
    <3>1. State(j) \in ActiveStates
      BY <2>1, StatusIs DEF W!ReconcileSealedCompletion, ActiveStates
    <3> QED
      BY <1>1, <2>1, <3>1, CompletionEnds DEF RunInv, Published, W!ReconcileSealedCompletion
  <2>2. CASE W!ReconcileSealedFailure(j, row[j].failure)
    <3>1. State(j) \in ActiveStates
      BY <2>2, StatusIs DEF W!ReconcileSealedFailure
    <3> QED
      BY <1>1, <2>2, <3>1, FailureEnds DEF RunInv, W!ReconcileSealedFailure
  <2> QED
    BY <2>1, <2>2 DEF ReconcileRecord
<1>3. StoresInv'
  BY <1>2, EndsKeep DEF RunInv
<1>4. LocalInv'
  BY <1>1, <1>2
     DEF RunInv, LocalInv, LocalsTyped, Steps, UnitSteps, LeaseSteps, JobSteps, locals, ledger, Ends
<1> QED
  BY <1>3, <1>4 DEF RunInv

LEMMA FinalizeTestKeeps ==
  ASSUME RunInv, NEW gates \in BOOLEAN, FinalizeTest(gates)
  PROVE  RunInv'
<1>1. Return /\ UNCHANGED <<rows, claims, secrets, store>> /\ \A j \in TestJobs : Mirrored(j)
  BY DEF FinalizeTest, workflow
<1>2. CASE UNCHANGED ledger
  BY <1>1, <1>2, StoresStay, ReturnKeeps DEF RunInv, stores
<1>3. CASE L!FinalizeOnce(gates)
  <2>1. /\ attempt' = "finalized" /\ accepted' \in BOOLEAN /\ UNCHANGED row
    BY <1>3 DEF L!FinalizeOnce, L!NoFailure
  <2>2. StoresTyped'
    BY <1>1, <2>1 DEF RunInv, StoresInv, StoresTyped, L!LedgerTypeOK, secrets, store
  <2>3. (ClaimsKept /\ LeasesKept /\ ResultsFit /\ StoresAgree)'
    BY <1>1, <2>1 DEF RunInv, StoresInv, ClaimsKept, LeasesKept, ResultsFit, StoresAgree,
                      State, OwnerOf, ClaimOf, secrets, store
  <2>4. AttemptFits'
    BY <1>1, <2>1 DEF AttemptFits, Mirrored, W!Status, W!Columns
  <2> QED
    BY <1>1, <2>2, <2>3, <2>4, ReturnKeeps DEF RunInv, StoresInv
<1> QED
  BY <1>2, <1>3 DEF FinalizeTest

-----------------------------------------------------------------------------
(* The invariant. *)

LEMMA InitHolds ==
  ASSUME RunInit
  PROVE  RunInv
<1>1. PICK o \in Owners, out \in Outputs :
        rows = [j \in WorkflowJobs |->
          W!JobRow(IF Phase[j] = "validation"
                   THEN Completed(o, out) ELSE W!Blank("absent"), None)]
  BY DEF RunInit
<1>2. /\ claims = {} /\ attempt = "ready" /\ row = [u \in Units |-> L!Row("absent")]
      /\ accepted = None /\ claimIntent = None
      /\ claimFile = [j \in TestJobs |-> None]
      /\ leaseIntent = [u \in Units |-> None] /\ leaseFile = [u \in Units |-> None]
      /\ package = FALSE /\ references = {}
      /\ at = "idle" /\ owner = None /\ unit = None /\ claim = None /\ text = None
  BY DEF RunInit, Units
<1>3. /\ W!Blank("absent") \in W!History /\ W!Blank("absent").status = "absent"
      /\ Completed(o, out) \in W!History
  BY DEF Completed, W!Blank, W!History, W!Statuses
<1>4. rows \in [WorkflowJobs -> W!Rows] /\ \A j \in TestJobs : State(j) = "absent"
  BY <1>1, <1>3, ConstantFacts DEF W!JobRow, W!Rows, State, TestJobs
<1>5. L!Row("absent") \in L!Rows /\ L!Row("absent").state = "absent"
  BY DEF L!Row, L!Rows, L!States
<1>6. StoresTyped
  BY <1>2, <1>4, <1>5 DEF StoresTyped, L!LedgerTypeOK, Units
<1>7. ClaimsKept /\ LeasesKept /\ ResultsFit /\ StoresAgree /\ AttemptFits
  BY <1>2, <1>4, <1>5, ConstantFacts
     DEF ClaimsKept, LeasesKept, ResultsFit, StoresAgree, AttemptFits, ActiveStates
<1>8. LocalInv
  BY <1>2 DEF LocalInv, LocalsTyped, Steps, UnitSteps, LeaseSteps, JobSteps
<1> QED
  BY <1>6, <1>7, <1>8 DEF RunInv, StoresInv

LEMMA StutterKeeps ==
  ASSUME RunInv, UNCHANGED all
  PROVE  RunInv'
<1>1. StoresInv'
  BY StoresStay DEF RunInv, all, stores, workflow
<1>2. LocalsTyped'
  BY DEF RunInv, LocalInv, LocalsTyped, all, workflow, locals
<1>3. /\ UNCHANGED <<at, attempt, row, claims, claimFile, leaseIntent, leaseFile, references, locals>>
      /\ State(unit)' = State(unit) /\ ClaimOf(unit)' = ClaimOf(unit)
  BY DEF all, workflow, ledger, secrets, store, locals, ClaimOf, OwnerOf, State
<1>4. LocalInv'
  BY <1>2, <1>3 DEF RunInv, LocalInv, locals
<1> QED
  BY <1>1, <1>4 DEF RunInv

LEMMA NextKeeps ==
  ASSUME RunInv, [RunNext]_all
  PROVE  RunInv'
<1>1. CASE Acquire
  BY <1>1, AdoptKeeps, ForeignClaimKeeps, ResumeClaimKeeps, ClaimNextJobKeeps, NoPendingJobKeeps,
     WriteClaimKeeps, UnlinkClaimIntentKeeps, WriteClaimIntentKeeps, WriteLeaseIntentKeeps,
     TakeLeaseKeeps, WriteLeaseKeeps, UnlinkLeaseIntentKeeps, UseLeaseKeeps, RecoverResultKeeps,
     FailOrphanKeeps
     DEF Acquire
<1>2. CASE Execute
  BY <1>2, BeginLeaseKeeps, TrainsKeep, RecordsKeep, PublishResultKeeps, CommitResultKeeps,
     CompleteRowKeeps, BuildFailsKeeps, ExecutionFailsKeeps, BaselinesFailKeeps, RecordFailureKeeps,
     MirrorFailureKeeps
     DEF Execute
<1>3. CASE Step /\ ~Acquire /\ ~Execute
  BY <1>3, PublishPackageKeeps, InstallKeeps, ReconcileRecordKeeps, FinalizeTestKeeps DEF Step
<1>4. CASE Start
  BY <1>4, StartPrepareKeeps, StartsKeep DEF Start
<1>5. CASE Crash
  BY <1>5, CrashKeeps
<1>6. CASE UNCHANGED all
  BY <1>6, StutterKeeps
<1> QED
  BY <1>1, <1>2, <1>3, <1>4, <1>5, <1>6 DEF RunNext, Step

\* What every command finds, wherever the ones before it stopped: no token of an
\* active job or of a lease is lost, the ledger and the workflow agree, and what
\* the running command carries in its variables is what the stores say.
THEOREM SealedRunInvariant == RunSpec => []RunInv
<1>1. RunInit => RunInv
  BY InitHolds
<1>2. RunInv /\ [RunNext]_all => RunInv'
  BY NextKeeps
<1> QED
  BY <1>1, <1>2, PTL DEF RunSpec

\* Both databases, the private files and the variables of the running command
\* hold their kinds of value, whatever commands run and wherever they die.
THEOREM TypesHold == RunSpec => []RunTypeOK
<1>1. RunInv => RunTypeOK
  BY DEF RunInv, StoresInv, StoresTyped, LocalInv, LocalsTyped, RunTypeOK, Units
<1> QED
  BY <1>1, SealedRunInvariant, PTL

\* Two active jobs would both be found by the scan for the active claim, which
\* then raises in every later command: it never happens, for any owners.
THEOREM ActiveJobIsAlone == RunSpec => []OneActiveJob
<1>1. RunInv => OneActiveJob
  <2> SUFFICES ASSUME RunInv
               PROVE  OneActiveJob
    OBVIOUS
  <2> DEFINE A == {j \in TestJobs : W!Status(j) \in W!Active}
  <2>1. \A i, j \in A : i = j
    BY StatusIs DEF RunInv, StoresInv, ClaimsKept
  <2>2. A = {} \/ \E i \in A : A = {i}
    BY <2>1
  <2>3. Cardinality(A) \in {0, 1}
    BY <2>2, FS_EmptySet, FS_Singleton
  <2> QED
    BY <2>3 DEF OneActiveJob
<1> QED
  BY <1>1, SealedRunInvariant, PTL

\* A unit that is leased or running has its token in a file of the next command,
\* and an active job its claim: nothing one-shot can neither run nor fail.
THEOREM TokensSurvive == RunSpec => []NoAuthorityIsLost
<1>1. RunInv => NoAuthorityIsLost
  <2> SUFFICES ASSUME RunInv
               PROVE  NoAuthorityIsLost
    OBVIOUS
  <2>1. \A u \in L!Units :
          /\ row[u].state = "leased" => row[u].token \in {leaseIntent[u], leaseFile[u]}
          /\ row[u].state = "running" => row[u].token = leaseFile[u]
    BY DEF RunInv, StoresInv, LeasesKept, Units
  <2>2. ASSUME NEW j \in TestJobs, State(j) \in ActiveStates
        PROVE  \/ claimFile[j] # None /\ W!Authorizes(claimFile[j], W!Active)
               \/ /\ claimIntent = [token |-> rows[j].token, owner |-> rows[j].columns.owner]
                  /\ W!Status(j) = "claimed"
    <3>1. CASE claimFile[j] = None
      BY <2>2, <3>1, StatusIs DEF RunInv, StoresInv, ClaimsKept, OwnerOf
    <3>2. CASE claimFile[j] # None
      <4>1. claimFile[j] = ClaimOf(j)
        BY <2>2, <3>2 DEF RunInv, StoresInv, ClaimsKept
      <4>2. /\ claimFile[j].job = j /\ claimFile[j].token = rows[j].token
            /\ claimFile[j].owner = rows[j].columns.owner
        BY <4>1 DEF ClaimOf, OwnerOf
      <4> QED
        BY <2>2, <3>2, <4>2, StatusIs DEF W!Authorizes
    <3> QED
      BY <3>1, <3>2
  <2> QED
    BY <2>1, <2>2, StatusIs DEF NoAuthorityIsLost
<1> QED
  BY <1>1, SealedRunInvariant, PTL

\* The workflow is over for a job only after the ledger and with its result,
\* through the one reference that was published for it.
THEOREM StoresTellOneStory == RunSpec => []WorkflowFollowsLedger
<1>1. RunInv => WorkflowFollowsLedger
  <2> SUFFICES ASSUME RunInv, NEW j \in TestJobs
               PROVE  /\ State(j) = "completed" =>
                           /\ row[j].state = "complete"
                           /\ \A r \in Published(j) : r.output = rows[j].columns.output
                           /\ Cardinality(Published(j)) = 1
                      /\ State(j) = "failed" => row[j].state = "failure"
                                                /\ row[j].failure = rows[j].columns.failure
                      /\ row[j].state \in {"leased", "running"} => State(j) \in W!Active
    BY StatusIs DEF WorkflowFollowsLedger
  <2>1. ASSUME row[j].state = "complete"
        PROVE  Cardinality(Published(j)) = 1
    <3>1. PICK r \in Published(j) : TRUE
      BY <2>1, ConstantFacts DEF RunInv, StoresInv, ResultsFit, Published
    <3>2. Published(j) = {r}
      BY <3>1 DEF RunInv, StoresInv, ResultsFit, Published
    <3> QED
      BY <3>2, FS_Singleton
  <2> QED
    BY <2>1, StatusIs DEF RunInv, StoresInv, StoresAgree, Published
<1> QED
  BY <1>1, SealedRunInvariant, PTL

\* The decision of finalize-test comes after the workflow shows the final state
\* that the ledger has for every job.
THEOREM DecisionComesLast == RunSpec => []DecisionIsMirrored
<1>1. RunInv => DecisionIsMirrored
  BY StatusIs DEF RunInv, StoresInv, StoresAgree, AttemptFits, Mirrored, DecisionIsMirrored
<1> QED
  BY <1>1, SealedRunInvariant, PTL
-----------------------------------------------------------------------------
(* The commands implement the one-shot trial: all they do to the ledger are *)
(* its operations, so what is proved of any caller holds of them.           *)

LP == INSTANCE SealedTestLedgerProofs WITH Jobs <- TestJobs, Tokens <- LeaseTokens

LEMMA LedgerAssumptions == LP!UnitsAssumption /\ LP!NullAssumption
BY RunAssumption DEF LP!UnitsAssumption, LP!NullAssumption, TestJobs

\* A lease that the ledger holds is a token.
LEMMA HeldIsToken ==
  ASSUME LP!LedgerInv, NEW u \in Units, NEW t, NEW s \in {"leased", "running"},
         L!Holds(u, s, t)
  PROVE  t \in LeaseTokens
<1>1. row[u] \in LP!Rows /\ row[u].state = s /\ row[u].token = t
  BY DEF LP!LedgerInv, LP!LedgerTypeOK, LP!Units, Units, L!Units, L!Holds
<1>2. row[u].token # None
  BY <1>1 DEF LP!LedgerInv, LP!ConnectionVerifies, LP!RowVerifies, LP!Units, Units, L!Units
<1> QED
  BY <1>1, <1>2 DEF LP!Rows

\* The operations of the ledger that commands use.
Operates ==
  \/ LP!AuthorizeOnce
  \/ \E u \in Units, t \in LeaseTokens : LP!UnitStep(u, t)
  \/ \E gates \in BOOLEAN : LP!FinalizeOnce(gates)

LEMMA OperatesOnLedger ==
  ASSUME Operates
  PROVE  LP!LedgerNext
<1>1. ASSUME NEW u \in Units, NEW t \in LeaseTokens, LP!UnitStep(u, t)
      PROVE  LP!LedgerNext
  <2>1. u \in TestJobs \/ u = Batch
    BY ConstantFacts
  <2>2. CASE u \in TestJobs
    BY <1>1, <2>2 DEF LP!UnitStep, LP!LedgerNext, LP!ClaimJob, LP!BeginJob, LP!CompleteJob,
       LP!FailJob
  <2>3. CASE u = Batch
    BY <1>1, <2>3 DEF LP!UnitStep, LP!LedgerNext, LP!ClaimBaselineBatch, LP!BeginBaselineBatch,
       LP!CompleteBaselineBatch, LP!FailBaselineBatch
  <2> QED
    BY <2>1, <2>2, <2>3
<1> QED
  BY <1>1 DEF Operates, LP!LedgerNext

\* A transaction on one unit, whichever.
LEMMA UnitOperates ==
  ASSUME NEW u \in Units, NEW t \in LeaseTokens,
         \/ L!Claim(u, t)
         \/ L!Begin(u, t)
         \/ \E o \in Outcomes : L!Complete(u, t, o)
         \/ \E f \in FailureTexts : L!Fail(u, t, f)
  PROVE  Operates
<1>1. /\ L!Claim(u, t) => LP!Claim(u, t)
      /\ L!Begin(u, t) => LP!Begin(u, t)
      /\ \A o : L!Complete(u, t, o) => LP!Complete(u, t, o)
      /\ \A f : L!Fail(u, t, f) => LP!Fail(u, t, f)
  BY DEF L!Claim, L!Begin, L!Complete, L!Fail, L!Holds, L!Strip, L!Table,
         LP!Claim, LP!Begin, LP!Complete, LP!Fail, LP!Holds, LP!Strip, LP!Table
<1>2. FailureTexts = LP!FailureTexts
  BY DEF FailureTexts, LP!FailureTexts
<1>3. LP!UnitStep(u, t)
  BY <1>1, <1>2 DEF LP!UnitStep
<1> QED
  BY <1>3 DEF Operates

\* A step of a command is one operation of the ledger, or does nothing to it.
LEMMA CommandOperates ==
  ASSUME RunInv, LP!LedgerInv, RunNext
  PROVE  (Operates /\ UNCHANGED workflow) \/ UNCHANGED ledger
<1>1. CASE StartPrepare
  <2>1. L!AuthorizeOnce => LP!AuthorizeOnce
    BY DEF L!AuthorizeOnce, LP!AuthorizeOnce, L!Units, LP!Units, L!Row, LP!Row
  <2> QED
    BY <1>1, <2>1 DEF StartPrepare, Operates
<1>2. /\ at \in UnitSteps => unit \in Units
      /\ \A u \in Units : leaseIntent[u] \in LeaseTokens \cup {None}
      /\ \A r \in references : r.outcome \in Outcomes
  BY DEF RunInv, StoresInv, StoresTyped, LocalInv, References
<1>3. CASE TakeLease
  <2>1. unit \in Units /\ leaseIntent[unit] \in LeaseTokens
    BY <1>2, <1>3 DEF TakeLease, UnitSteps, LeaseSteps
  <2> QED
    BY <1>3, <2>1, UnitOperates DEF TakeLease
<1>4. CASE BeginLease
  <2>1. unit \in Units /\ L!Begin(unit, Lease)
    BY <1>2, <1>4 DEF BeginLease, UnitSteps, LeaseSteps
  <2>2. Lease \in LeaseTokens
    BY <2>1, HeldIsToken DEF L!Begin
  <2> QED
    BY <1>4, <2>1, <2>2, UnitOperates DEF BeginLease
<1>5. CASE CommitResult
  <2>1. unit \in Units
    BY <1>2, <1>5 DEF CommitResult, UnitSteps
  <2>2. PICK r \in references : L!Complete(unit, Lease, r.outcome)
    BY <1>5 DEF CommitResult
  <2>3. Lease \in LeaseTokens
    BY <2>1, <2>2, HeldIsToken DEF L!Complete
  <2> QED
    BY <1>2, <1>5, <2>1, <2>2, <2>3, UnitOperates DEF CommitResult
<1>6. ASSUME NEW f \in FailureTexts, unit \in Units, L!Fail(unit, Lease, f)
      PROVE  Operates
  <2>1. Lease \in LeaseTokens
    BY <1>6, HeldIsToken DEF L!Fail
  <2> QED
    BY <1>6, <2>1, UnitOperates
<1>7. CASE FailOrphan
  <2>1. unit \in Units /\ L!Fail(unit, Lease, OrphanedText)
    BY <1>2, <1>7 DEF FailOrphan, Recovering, UnitSteps, LeaseSteps
  <2> QED
    BY <1>6, <1>7, <2>1, ConstantFacts DEF FailOrphan
<1>8. CASE \E f \in Errors : BuildFails(f) \/ BaselinesFail(f)
  <2>1. PICK f \in Errors : BuildFails(f) \/ BaselinesFail(f)
    BY <1>8
  <2>2. unit \in Units
    BY <1>2, <2>1 DEF BuildFails, BaselinesFail, UnitSteps, JobSteps
  <2>3. L!Fail(unit, Lease, f)
    BY <2>1 DEF BuildFails, BaselinesFail, L!FailJob, L!FailBaselineBatch
  <2> QED
    BY <1>6, <2>1, <2>2, <2>3, ConstantFacts DEF BuildFails, BaselinesFail
<1>9. CASE RecordFailure
  <2>1. unit \in Units /\ text \in FailureTexts
    BY <1>2, <1>9 DEF RecordFailure, UnitSteps, JobSteps, RunInv, LocalInv
  <2> QED
    BY <1>6, <1>9, <2>1 DEF RecordFailure, L!FailJob
<1>10. CASE \E gates \in BOOLEAN : FinalizeTest(gates)
  <2>1. \A gates : L!FinalizeOnce(gates) => LP!FinalizeOnce(gates)
    BY DEF L!FinalizeOnce, LP!FinalizeOnce, L!AllTerminal, LP!AllTerminal, L!NoFailure,
           LP!NoFailure, L!Units, LP!Units, L!Terminal, LP!Terminal
  <2> QED
    BY <1>10, <2>1 DEF FinalizeTest, Operates
<1>11. CASE Acquire /\ ~TakeLease /\ ~FailOrphan
  BY <1>11 DEF Acquire, AdoptActiveClaim, ForeignClaim, ResumeClaim, ClaimNextJob, NoPendingJob,
     WriteClaim, UnlinkClaimIntent, WriteClaimIntent, WriteLeaseIntent, WriteLease,
     UnlinkLeaseIntent, UseLease, RecoverResult
<1>12. CASE /\ Execute /\ ~BeginLease /\ ~CommitResult /\ ~RecordFailure
            /\ ~(\E f \in Errors : BuildFails(f) \/ BaselinesFail(f))
  BY <1>12 DEF Execute, BeginTraining, FinishTraining, SaveCheckpoint, AuditResume, PublishResult,
     CompleteRow, ExecutionFails, MirrorFailure
<1>13. CASE \/ PublishPackage \/ InstallTestJobs \/ Crash \/ StartBaselines \/ StartFinalize
            \/ \E j \in TestJobs : ReconcileRecord(j)
            \/ \E o \in Owners : StartJob(o)
  BY <1>13 DEF PublishPackage, InstallTestJobs, Crash, StartBaselines, StartFinalize,
     ReconcileRecord, StartJob
<1> QED
  BY <1>1, <1>3, <1>4, <1>5, <1>7, <1>8, <1>9, <1>10, <1>11, <1>12, <1>13
     DEF RunNext, Step, Start

LEMMA OperatesOrRests ==
  ASSUME RunInv, LP!LedgerInv, [RunNext]_all
  PROVE  [LP!LedgerNext]_LP!ledger
BY CommandOperates, OperatesOnLedger DEF all, ledger, LP!ledger

\* The suite was precommitted when the commands start.
LEMMA LedgerStarts ==
  ASSUME RunInit
  PROVE  LP!LedgerInv /\ LP!Trial!TrialInit
<1>1. /\ attempt = "ready" /\ accepted = None
      /\ row = [u \in LP!Units |-> LP!Row("absent")]
  BY DEF RunInit, L!Units, LP!Units, L!Row, LP!Row
<1>2. /\ LP!Row("absent") \in LP!Rows /\ LP!RowVerifies(LP!Row("absent"))
      /\ LP!Row("absent").state = "absent"
  BY DEF LP!Row, LP!Rows, LP!States, LP!RowVerifies
<1>3. LP!LedgerInv
  BY <1>1, <1>2 DEF LP!LedgerInv, LP!LedgerTypeOK, LP!ConnectionVerifies, LP!DecisionCoversAll,
     LP!NothingEarly, LP!NothingDecidedEarly
<1>4. LP!Trial!TrialInit
  BY <1>1 DEF LP!Trial!TrialInit, LP!Row, LP!TrialResult, LP!Terminal
<1> QED
  BY <1>3, <1>4

\* The ledger that the commands work on always satisfies the inductive invariant of
\* the ledger, which was proved for callers that present any token at any time.
THEOREM CommandsKeepTheLedger == RunSpec => []LP!LedgerInv
<1>1. RunInit => LP!LedgerInv
  BY LedgerStarts
<1>2. RunInv /\ LP!LedgerInv /\ [RunNext]_all => LP!LedgerInv'
  BY OperatesOrRests, LedgerAssumptions, LP!NextInv
<1> QED
  BY <1>1, <1>2, SealedRunInvariant, PTL DEF RunSpec

\* The promise of the sealed test for the commands as they run and die: every job and
\* the batch are started at most once, no result ever changes, and one decision is
\* taken over all of them.
THEOREM CommandsImplementTrial == RunSpec => LP!ImplementsTrial
<1>1. RunInit => LP!Trial!TrialInit
  BY LedgerStarts
<1>2. RunInv /\ LP!LedgerInv /\ [RunNext]_all => [LP!Trial!TrialNext]_LP!Trial!trial
  BY OperatesOrRests, LedgerAssumptions, LP!StepRefines
<1> QED
  BY <1>1, <1>2, SealedRunInvariant, CommandsKeepTheLedger, PTL
     DEF RunSpec, LP!ImplementsTrial, LP!Trial!TrialSpec

-----------------------------------------------------------------------------
(* The commands keep the workflow: all they do to it are its operations, by *)
(* holders of claims and next to a ledger that decides, so what is proved   *)
(* of the table alone holds of the commands.                                *)

\* What the ledger has decided of a job, in the columns the workflow asks about.
Undecided == [state |-> "open", outcome |-> None, failure |-> None]
Verdict(r) ==
  IF r.state \in {"complete", "failure"}
  THEN [state |-> r.state, outcome |-> r.outcome, failure |-> r.failure] ELSE Undecided
verdicts == [j \in WorkflowJobs |-> IF j \in TestJobs THEN Verdict(row[j]) ELSE Undecided]

\* There is no clock here, and the reader of the theorems about verify() rests.
WP == INSTANCE R3BWorkflowProofs WITH
  Jobs <- WorkflowJobs, Tokens <- ClaimTokens, Texts <- FailureTexts,
  MaxClock <- 0, ClockStepsBack <- FALSE, clock <- 0, sealed <- verdicts,
  stage <- "jobs", readRows <- rows, readCheckpoints <- checkpoints, readAudits <- audits

LEMMA WorkflowAssumptions ==
  WP!PhaseAssumption /\ WP!BudgetAssumption /\ WP!ClockAssumption /\ WP!NoneAssumption
<1>1. WP!PhaseAssumption
  BY RunAssumption DEF WP!PhaseAssumption, WP!Phases
<1>2. WP!BudgetAssumption /\ WP!ClockAssumption
  BY RunAssumption DEF WP!BudgetAssumption, WP!ClockAssumption
<1>3. WP!NoneAssumption
  BY RunAssumption DEF WP!NoneAssumption, FailureTexts
<1> QED
  BY <1>1, <1>2, <1>3

LEMMA VerdictTypes ==
  ASSUME LP!LedgerInv
  PROVE  verdicts \in [WorkflowJobs -> WP!Verdicts]
<1>1. Undecided \in WP!Verdicts
  BY DEF Undecided, WP!Verdicts
<1>2. ASSUME NEW j \in TestJobs
      PROVE  Verdict(row[j]) \in WP!Verdicts
  <2>1. row[j] \in LP!Rows
    BY DEF LP!LedgerInv, LP!LedgerTypeOK, LP!Units
  <2> QED
    BY <1>1, <2>1 DEF LP!Rows, Verdict, WP!Verdicts, LP!FailureTexts, FailureTexts
<1> QED
  BY <1>1, <1>2 DEF verdicts

\* What a decision makes of an undecided verdict.
LEMMA Decided ==
  ASSUME NEW o, NEW f
  PROVE  /\ [WP!Open EXCEPT !.state = "complete", !.outcome = o] =
              [state |-> "complete", outcome |-> o, failure |-> None]
         /\ [WP!Open EXCEPT !.state = "failure", !.failure = f] =
              [state |-> "failure", outcome |-> None, failure |-> f]
<1> DEFINE x == WP!Open
<1>1. x = [state |-> "open", outcome |-> None, failure |-> None]
  BY DEF WP!Open
<1>2. x \in [state : {"open"}, outcome : {None}, failure : {None}]
  BY <1>1
<1> HIDE DEF x
<1> DEFINE y == [x EXCEPT !.state = "complete", !.outcome = o]
           z == [x EXCEPT !.state = "failure", !.failure = f]
<1>3. /\ y \in [state : {"complete"}, outcome : {o}, failure : {None}]
      /\ z \in [state : {"failure"}, outcome : {None}, failure : {f}]
  BY <1>2
<1> HIDE DEF y, z
<1>4. /\ y = [state |-> "complete", outcome |-> o, failure |-> None]
      /\ z = [state |-> "failure", outcome |-> None, failure |-> f]
  BY <1>3
<1> QED
  BY <1>4 DEF x, y, z

\* A transaction of the ledger decides one job at most.
LEMMA OperatesDecides ==
  ASSUME RunInv, LP!LedgerInv, Operates, UNCHANGED workflow
  PROVE  WP!WorkflowNext \/ UNCHANGED WP!vars
<1>1. UNCHANGED WP!workflow
  BY DEF workflow, WP!workflow, WP!log
<1>2. CASE UNCHANGED verdicts
  BY <1>1, <1>2 DEF WP!vars
<1>3. CASE LP!AuthorizeOnce
  <2>1. \A j \in TestJobs : row[j].state = "absent" /\ row'[j].state = "pending"
    BY <1>3, ConstantFacts
       DEF LP!AuthorizeOnce, LP!Units, LP!Row, RunInv, StoresInv, AttemptFits
  <2> QED
    BY <1>2, <2>1 DEF verdicts, Verdict
<1>4. ASSUME NEW u \in Units, NEW t \in LeaseTokens, LP!UnitStep(u, t)
      PROVE  WP!WorkflowNext \/ UNCHANGED WP!vars
  <2>1. /\ u \in LP!Units /\ row[u] \in LP!Rows /\ LP!RowVerifies(row[u])
        /\ row \in [LP!Units -> LP!Rows]
    BY DEF Units, L!Units, LP!Units, LP!LedgerInv, LP!LedgerTypeOK, LP!ConnectionVerifies
  <2>2. \A v \in Units \ {u} : row'[v] = row[v]
    BY <1>4, <2>1, LedgerAssumptions, LP!UnitStepFacts DEF Units, L!Units, LP!Units
  <2>3. \A j \in TestJobs \ {u} : Verdict(row'[j]) = Verdict(row[j])
    BY <2>2, ConstantFacts
  <2>4. CASE u \notin TestJobs \/ Verdict(row'[u]) = Verdict(row[u])
    BY <1>2, <2>3, <2>4 DEF verdicts
  <2>5. CASE LP!Claim(u, t) \/ LP!Begin(u, t)
    <3>1. row[u].state \in {"pending", "leased"} /\ row'[u].state \in {"leased", "running"}
      BY <2>1, <2>5 DEF LP!Claim, LP!Begin, LP!Holds, LP!Rows
    <3> QED
      BY <2>4, <3>1 DEF Verdict
  <2>6. ASSUME u \in TestJobs, NEW v, Verdict(row'[u]) = v
        PROVE  verdicts' = [verdicts EXCEPT ![u] = v]
    BY <2>3, <2>6 DEF verdicts, TestJobs
  <2>7. u \in TestJobs => u \in WorkflowJobs /\ WP!Sealed(u)
    BY DEF TestJobs, WP!Sealed
  <2>8. row[u].state = "running" /\ u \in TestJobs => verdicts[u].state = "open"
    BY <2>7 DEF verdicts, Verdict, Undecided
  <2>9. ASSUME NEW o \in Outcomes, LP!Complete(u, t, o), u \in TestJobs
        PROVE  WP!WorkflowNext
    <3>1. row' = [row EXCEPT ![u] = [row[u] EXCEPT !.state = "complete", !.outcome = o]]
      BY <2>1, <2>9 DEF LP!Complete, LP!Rows
    <3>2. row[u].state = "running" /\ row[u].failure = None
      BY <2>1, <2>9 DEF LP!Complete, LP!Holds, LP!RowVerifies
    <3>3. Verdict(row'[u]) = [WP!Open EXCEPT !.state = "complete", !.outcome = o]
      <4> DEFINE r == [row[u] EXCEPT !.state = "complete", !.outcome = o]
      <4>0. r.state = "complete" /\ r.outcome = o /\ r.failure = None
        BY <2>1, <3>2 DEF LP!Rows
      <4> HIDE DEF r
      <4>1. row'[u] = r
        BY <2>1, <3>1 DEF r
      <4>2. [WP!Open EXCEPT !.state = "complete", !.outcome = o] =
              [state |-> "complete", outcome |-> o, failure |-> None]
        BY Decided
      <4> QED
        BY <4>0, <4>1, <4>2 DEF Verdict
    <3>4. verdicts' = [verdicts EXCEPT ![u] =
                         [WP!Open EXCEPT !.state = "complete", !.outcome = o]]
      BY <2>6, <2>9, <3>3
    <3>5. WP!LedgerDecides(u)
      BY <1>1, <2>7, <2>8, <2>9, <3>2, <3>4 DEF WP!LedgerDecides
    <3> QED
      BY <2>7, <2>9, <3>5 DEF WP!WorkflowNext
  <2>10. ASSUME NEW f \in LP!FailureTexts, LP!Fail(u, t, f), u \in TestJobs
         PROVE  WP!WorkflowNext
    <3> DEFINE g == LP!Strip(f)
    <3>1. row' = [row EXCEPT ![u] = [row[u] EXCEPT !.state = "failure", !.failure = g]]
      BY <2>1, <2>10 DEF LP!Fail, LP!Rows
    <3>2. row[u].state = "running" /\ row[u].outcome = None
      BY <2>1, <2>10 DEF LP!Fail, LP!Holds, LP!RowVerifies
    <3>3. g \in FailureTexts
      BY DEF LP!Strip, LP!FailureTexts, FailureTexts
    <3> HIDE DEF g
    <3>4. Verdict(row'[u]) = [WP!Open EXCEPT !.state = "failure", !.failure = g]
      <4> DEFINE r == [row[u] EXCEPT !.state = "failure", !.failure = g]
      <4>0. r.state = "failure" /\ r.outcome = None /\ r.failure = g
        BY <2>1, <3>2 DEF LP!Rows
      <4> HIDE DEF r
      <4>1. row'[u] = r
        BY <2>1, <3>1 DEF r
      <4>2. [WP!Open EXCEPT !.state = "failure", !.failure = g] =
              [state |-> "failure", outcome |-> None, failure |-> g]
        BY Decided
      <4> QED
        BY <4>0, <4>1, <4>2 DEF Verdict
    <3>5. verdicts' = [verdicts EXCEPT ![u] =
                         [WP!Open EXCEPT !.state = "failure", !.failure = g]]
      BY <2>6, <2>10, <3>4
    <3>6. WP!LedgerDecides(u)
      BY <1>1, <2>7, <2>8, <2>10, <3>2, <3>3, <3>5 DEF WP!LedgerDecides
    <3> QED
      BY <2>7, <2>10, <3>6 DEF WP!WorkflowNext
  <2> QED
    BY <1>4, <2>4, <2>5, <2>9, <2>10 DEF LP!UnitStep
<1>5. CASE \E gates \in BOOLEAN : LP!FinalizeOnce(gates)
  BY <1>2, <1>5 DEF LP!FinalizeOnce, verdicts
<1> QED
  BY <1>3, <1>4, <1>5 DEF Operates

\* The workflow of the commands has the operations of the table.
LEMMA SameOperations ==
  /\ W!AppendJobs("test") => WP!AppendJobs("test")
  /\ \A o, t : W!ClaimNext("test", o, t) => WP!ClaimNext("test", o, t)
  /\ \A c : W!Begin(c) => WP!Begin(c)
  /\ \A c, u, a : W!RecordCheckpoint(c, u, a) => WP!RecordCheckpoint(c, u, a)
  /\ \A c : W!MarkTrained(c) => WP!MarkTrained(c)
  /\ \A c, a : W!PublishResumeAudit(c, a) => WP!PublishResumeAudit(c, a)
  /\ \A c, out : W!Complete(c, out) => WP!Complete(c, out)
<1> USE DEF W!Status, W!Columns, W!SetRow, W!JobRow, W!LogTransition, W!Stamp, W!Sealed, W!HasFinal,
            W!Recorded, W!Updates, W!Authorizes, W!InPhase, W!Blank, W!Prerequisite, W!Active,
            WP!Status, WP!Columns, WP!SetRow, WP!JobRow, WP!LogTransition, WP!Stamp, WP!Sealed,
            WP!HasFinal, WP!Recorded, WP!Updates, WP!Authorizes, WP!InPhase, WP!Blank,
            WP!Prerequisite, WP!Active
<1>1. W!AppendJobs("test") => WP!AppendJobs("test")
  BY Zenon DEF W!AppendJobs, WP!AppendJobs, W!LogInstalled, WP!LogInstalled
<1>2. \A o, t : W!ClaimNext("test", o, t) => WP!ClaimNext("test", o, t)
  BY Zenon DEF W!ClaimNext, WP!ClaimNext, W!Fresh, WP!Fresh, W!LogClaimed, WP!LogClaimed
<1>3. \A c : W!Begin(c) => WP!Begin(c)
  BY Zenon DEF W!Begin, WP!Begin, W!LogStarted, WP!LogStarted
<1>4. \A c, u, a : W!RecordCheckpoint(c, u, a) => WP!RecordCheckpoint(c, u, a)
  BY Zenon DEF W!RecordCheckpoint, WP!RecordCheckpoint, W!LogCheckpoint, WP!LogCheckpoint
<1>5. \A c : W!MarkTrained(c) => WP!MarkTrained(c)
  BY Zenon DEF W!MarkTrained, WP!MarkTrained, W!LogTrained, WP!LogTrained
<1>6. \A c, a : W!PublishResumeAudit(c, a) => WP!PublishResumeAudit(c, a)
  BY Zenon DEF W!PublishResumeAudit, WP!PublishResumeAudit, W!LogAudit, WP!LogAudit
<1>7. \A c, out : W!Complete(c, out) => WP!Complete(c, out)
  BY Zenon DEF W!Complete, WP!Complete, W!SetCompleted, WP!SetCompleted, W!LogCompleted,
     WP!LogCompleted
<1> QED
  BY <1>1, <1>2, <1>3, <1>4, <1>5, <1>6, <1>7

\* So it has for the two that take a result over, which ask the ledger.
LEMMA SameReconciliation ==
  ASSUME NEW j \in TestJobs
  PROVE  /\ \A oc, out : W!ReconcileSealedCompletion(j, oc, out) =>
                           WP!ReconcileSealedCompletion(j, oc, out)
         /\ \A f : W!ReconcileSealedFailure(j, f) => WP!ReconcileSealedFailure(j, f)
<1> USE DEF W!Status, W!Columns, W!SetRow, W!JobRow, W!LogTransition, W!Stamp, W!Sealed, W!HasFinal,
            W!Active, WP!Status, WP!Columns, WP!SetRow, WP!JobRow, WP!LogTransition, WP!Stamp,
            WP!Sealed, WP!HasFinal, WP!Active
<1>1. /\ row[j].state = "complete" =>
           verdicts[j].state = "complete" /\ verdicts[j].outcome = row[j].outcome
      /\ row[j].state = "failure" =>
           verdicts[j].state = "failure" /\ verdicts[j].failure = row[j].failure
  BY DEF verdicts, Verdict, TestJobs
<1>2. \A out : W!SetCompleted(j, out) => WP!SetCompleted(j, out)
  BY Zenon DEF W!SetCompleted, WP!SetCompleted, W!LogCompleted, WP!LogCompleted
<1>3. \A f : W!SetFailed(j, f) => WP!SetFailed(j, f)
  BY Zenon DEF W!SetFailed, WP!SetFailed, W!LogFailed, WP!LogFailed
<1>4. \A oc, out : W!ReconcileSealedCompletion(j, oc, out) =>
                     WP!ReconcileSealedCompletion(j, oc, out)
  BY <1>1, <1>2 DEF W!ReconcileSealedCompletion, WP!ReconcileSealedCompletion
<1>5. \A f : W!ReconcileSealedFailure(j, f) => WP!ReconcileSealedFailure(j, f)
  BY <1>1, <1>3 DEF W!ReconcileSealedFailure, WP!ReconcileSealedFailure
<1> QED
  BY <1>4, <1>5

\* A step of a command is one operation of the workflow, or does nothing to it.
LEMMA CommandWorks ==
  ASSUME RunInv, LP!LedgerInv, RunNext
  PROVE  (WP!Operation /\ UNCHANGED ledger) \/ UNCHANGED workflow
<1>1. /\ at \in UnitSteps /\ unit # Batch =>
           /\ unit \in TestJobs
           /\ claim \in claims /\ claim.job = unit
      /\ at \in JobSteps => at \in UnitSteps /\ unit # Batch
  <2>1. \A j \in TestJobs : State(j) \in ActiveStates => ClaimOf(j) \in claims
    BY DEF RunInv, StoresInv, ClaimsKept
  <2>2. ASSUME at \in UnitSteps, unit # Batch
        PROVE  unit \in TestJobs /\ claim \in claims /\ claim.job = unit
    <3>1. unit \in Units /\ unit \in TestJobs
      BY <2>2, ConstantFacts DEF RunInv, LocalInv
    <3>2. State(unit) \in ActiveStates /\ claim = ClaimOf(unit)
      BY <2>2, <3>1 DEF RunInv, LocalInv
    <3> QED
      BY <2>1, <3>1, <3>2 DEF ClaimOf
  <2>3. at \in JobSteps => at \in UnitSteps /\ unit # Batch
    BY ConstantFacts DEF UnitSteps, RunInv, LocalInv
  <2> QED
    BY <2>2, <2>3
<1>2. \A r \in references : r.outcome \in Outcomes /\ r.output \in Outputs
  BY DEF RunInv, StoresInv, StoresTyped, References
<1>3. \A j \in TestJobs : j \in WorkflowJobs /\ row[j].state = "failure" => row[j].failure \in FailureTexts
  <2> SUFFICES ASSUME NEW j \in TestJobs, row[j].state = "failure"
               PROVE  row[j].failure \in FailureTexts
    OBVIOUS
  <2>1. j \in LP!Units /\ row[j] \in LP!Rows
    BY DEF LP!LedgerInv, LP!LedgerTypeOK, LP!Units
  <2> QED
    BY <2>1 DEF LP!LedgerInv, LP!ConnectionVerifies, LP!RowVerifies, LP!Rows, LP!FailureTexts,
       FailureTexts
<1>4. TestJobs \subseteq WorkflowJobs
  BY ConstantFacts
\* The one way in which a failure, and the ones in which a result is taken over.
<1>5. ASSUME NEW j \in TestJobs, NEW f, f = row[j].failure,
             W!ReconcileSealedFailure(j, f)
      PROVE  WP!Operation
  <2>1. f \in FailureTexts
    BY <1>3, <1>4, <1>5 DEF W!ReconcileSealedFailure
  <2>2. WP!ReconcileSealedFailure(j, f)
    BY <1>5, SameReconciliation
  <2> QED
    BY <1>4, <2>1, <2>2 DEF WP!Operation
<1>6. ASSUME NEW j \in TestJobs, NEW r \in references,
             W!ReconcileSealedCompletion(j, r.outcome, r.output)
      PROVE  WP!Operation
  <2>1. WP!ReconcileSealedCompletion(j, r.outcome, r.output)
    BY <1>6, SameReconciliation
  <2> QED
    BY <1>2, <1>4, <2>1 DEF WP!Operation
<1>7. \A j : Published(j) \subseteq references
  BY DEF Published
<1>8. CASE InstallTestJobs
  BY <1>8, SameOperations DEF InstallTestJobs, WP!Operation
<1>9. CASE ClaimNextJob
  <2>1. owner \in Owners /\ claimIntent.token \in ClaimTokens
    BY <1>9 DEF ClaimNextJob, OwnIntent, RunInv, LocalInv, StoresInv, StoresTyped
  <2>2. WP!ClaimNext("test", owner, claimIntent.token)
    BY <1>9, SameOperations DEF ClaimNextJob
  <2>3. "test" \in WP!Phases
    BY DEF WP!Phases
  <2> QED
    BY <1>9, <2>1, <2>2, <2>3 DEF WP!Operation, ClaimNextJob
<1>10. CASE RecoverResult
  <2>1. unit \in TestJobs
    BY <1>1, <1>10 DEF RecoverResult, Recovering, UnitSteps, LeaseSteps
  <2> QED
    BY <1>5, <1>6, <1>7, <1>10, <2>1 DEF RecoverResult
<1>11. CASE BeginTraining \/ FinishTraining \/ \E a \in Artifacts : AuditResume(a)
  <2>1. claim \in claims
    BY <1>1, <1>11 DEF BeginTraining, FinishTraining, AuditResume, JobSteps
  <2> QED
    BY <1>11, <2>1, SameOperations DEF BeginTraining, FinishTraining, AuditResume, WP!Operation
<1>12. ASSUME NEW a \in Artifacts, SaveCheckpoint(a)
       PROVE  WP!Operation /\ UNCHANGED ledger
  <2> DEFINE u == Cardinality(W!Recorded(unit))
  <2>1. claim \in claims /\ unit \in TestJobs
    BY <1>1, <1>12 DEF SaveCheckpoint, JobSteps
  <2>2. WP!RecordCheckpoint(claim, u, a) /\ UNCHANGED ledger
    BY <1>12, SameOperations DEF SaveCheckpoint
  <2>3. u \in WP!Updates
    <3>1. Budget \in Nat /\ Budget - 1 \in Int
      BY RunAssumption
    <3>2. W!Recorded(unit) \subseteq 0..(Budget - 1)
      BY <1>12, <3>1 DEF SaveCheckpoint, W!HasFinal, W!Recorded, W!Updates
    <3>3. IsFiniteSet(0..(Budget - 1)) /\ Cardinality(0..(Budget - 1)) = Budget
      <4>1. ~(0 > Budget - 1) /\ (Budget - 1) - 0 + 1 = Budget
        BY RunAssumption
      <4> QED
        BY <3>1, <4>1, FS_Interval
    <3>4. IsFiniteSet(W!Recorded(unit)) /\ u <= Budget
      BY <3>2, <3>3, FS_Subset
    <3>5. u \in Nat
      BY <3>4, FS_CardinalityType
    <3> QED
      BY <3>1, <3>4, <3>5 DEF WP!Updates
  <2> QED
    BY <2>1, <2>2, <2>3 DEF WP!Operation
<1>13. CASE CompleteRow
  <2>1. claim \in claims
    BY <1>1, <1>13 DEF CompleteRow, JobSteps
  <2> QED
    BY <1>2, <1>7, <1>13, <2>1, SameOperations DEF CompleteRow, WP!Operation
<1>14. CASE MirrorFailure
  <2>1. unit \in TestJobs
    BY <1>1, <1>14 DEF MirrorFailure, JobSteps
  <2> QED
    BY <1>5, <1>14, <2>1 DEF MirrorFailure, L!VerifyFailedJob
<1>15. ASSUME NEW j \in TestJobs, ReconcileRecord(j)
       PROVE  WP!Operation /\ UNCHANGED ledger
  BY <1>5, <1>6, <1>7, <1>15 DEF ReconcileRecord
<1>16. CASE Acquire /\ ~ClaimNextJob /\ ~RecoverResult
  BY <1>16 DEF Acquire, AdoptActiveClaim, ForeignClaim, ResumeClaim, NoPendingJob,
     WriteClaim, UnlinkClaimIntent, WriteClaimIntent, WriteLeaseIntent, WriteLease,
     UnlinkLeaseIntent, UseLease, TakeLease, FailOrphan
<1>17. CASE \/ BeginLease \/ CommitResult \/ RecordFailure
            \/ \E oc \in Outcomes, out \in Outputs : PublishResult(oc, out)
            \/ \E f \in Errors : BuildFails(f) \/ ExecutionFails(f) \/ BaselinesFail(f)
  BY <1>17 DEF BeginLease, CommitResult, RecordFailure, PublishResult, BuildFails, ExecutionFails,
     BaselinesFail
<1>18. CASE \/ PublishPackage \/ Crash \/ Start
            \/ \E gates \in BOOLEAN : FinalizeTest(gates)
  BY <1>18 DEF PublishPackage, Crash, Start, StartPrepare, StartJob, StartBaselines, StartFinalize,
     FinalizeTest
<1> QED
  BY <1>8, <1>9, <1>10, <1>11, <1>12, <1>13, <1>14, <1>15, <1>16, <1>17, <1>18
     DEF RunNext, Step, Execute, RecoverResult, BeginTraining, FinishTraining, AuditResume,
         CompleteRow, MirrorFailure, InstallTestJobs, ClaimNextJob

LEMMA WorksOrRests ==
  ASSUME RunInv, LP!LedgerInv, [RunNext]_all
  PROVE  [WP!WorkflowNext]_WP!vars
<1>1. UNCHANGED ledger => UNCHANGED verdicts
  BY DEF ledger, verdicts
<1>2. CASE WP!Operation /\ UNCHANGED ledger
  BY <1>1, <1>2 DEF WP!WorkflowNext
<1>3. CASE Operates /\ UNCHANGED workflow
  BY <1>3, OperatesDecides
<1>4. CASE UNCHANGED ledger /\ UNCHANGED workflow
  BY <1>1, <1>4 DEF workflow, WP!vars, WP!workflow, WP!log
<1>5. CASE UNCHANGED all
  BY <1>4, <1>5 DEF all
<1>6. CASE RunNext
  BY <1>2, <1>3, <1>4, <1>6, CommandWorks, CommandOperates
<1> QED
  BY <1>5, <1>6

\* The workflow that validation leaves behind.
LEMMA WorkflowStarts ==
  ASSUME RunInit
  PROVE  WP!ClaimInv /\ WP!LogInv
<1>0. /\ \A s : W!Blank(s) = WP!Blank(s)
      /\ \A h : W!JobRow(h, None) = WP!JobRow(h, None)
      /\ W!Updates = WP!Updates
  BY DEF W!Blank, WP!Blank, W!JobRow, WP!JobRow, W!Updates, WP!Updates
<1>a. PICK o \in Owners, out \in Outputs, a \in Artifacts :
        /\ rows = [j \in WorkflowJobs |->
             W!JobRow(IF Phase[j] = "validation"
                      THEN Completed(o, out)
                      ELSE W!Blank("absent"), None)]
        /\ checkpoints = [j \in WorkflowJobs |-> [u \in W!Updates |->
             IF Phase[j] = "validation" THEN a ELSE None]]
        /\ history = [j \in WorkflowJobs |->
             IF Phase[j] = "validation"
             THEN Completed(o, out)
             ELSE W!Blank("pending")]
  BY DEF RunInit
<1>1. /\ seen = [j \in WorkflowJobs |-> IF Phase[j] = "validation" THEN W!Updates ELSE {}]
      /\ audits = [j \in WorkflowJobs |-> {}]
      /\ seenAudits = [j \in WorkflowJobs |-> {}]
      /\ installed = {"validation"} /\ lastAt = 0 /\ accepts = TRUE /\ claims = {}
  BY DEF RunInit
<1> DEFINE V(j) == Phase[j] = "validation"
           d == Completed(o, out)
<1>2. d \in WP!History /\ d.status = "completed"
  <2> DEFINE x == WP!Blank("completed")
  <2>1. x \in WP!History /\ x.status = "completed"
    BY DEF WP!Blank, WP!History, WP!Statuses
  <2> HIDE DEF x
  <2> QED
    BY <1>0, <2>1 DEF x, Completed, WP!History
<1>3. /\ WP!Blank("absent") \in WP!History /\ WP!Blank("absent").status = "absent"
      /\ WP!Blank("pending") \in WP!History /\ WP!Blank("pending").status = "pending"
  BY DEF WP!Blank, WP!History, WP!Statuses
<1> HIDE DEF d
<1>4. /\ rows = [j \in WorkflowJobs |-> WP!JobRow(IF V(j) THEN d ELSE WP!Blank("absent"), None)]
      /\ checkpoints = [j \in WorkflowJobs |-> [u \in WP!Updates |-> IF V(j) THEN a ELSE None]]
      /\ history = [j \in WorkflowJobs |-> IF V(j) THEN d ELSE WP!Blank("pending")]
      /\ seen = [j \in WorkflowJobs |-> IF V(j) THEN WP!Updates ELSE {}]
  BY <1>0, <1>1, <1>a DEF d
<1>5. /\ rows \in [WorkflowJobs -> WP!Rows] /\ history \in [WorkflowJobs -> WP!History]
      /\ \A j \in WorkflowJobs : /\ rows[j].columns = IF V(j) THEN d ELSE WP!Blank("absent")
                                 /\ rows[j].token = None
  <2>1. /\ rows \in [WorkflowJobs -> WP!Rows]
        /\ \A j \in WorkflowJobs : /\ rows[j].columns = IF V(j) THEN d ELSE WP!Blank("absent")
                                   /\ rows[j].token = None
    BY <1>2, <1>3, <1>4 DEF WP!JobRow, WP!Rows
  <2>2. history \in [WorkflowJobs -> WP!History]
    BY <1>2, <1>3, <1>4
  <2> QED
    BY <2>1, <2>2
<1>6. \A j \in WorkflowJobs : rows[j].columns.status = IF V(j) THEN "completed" ELSE "absent"
  BY <1>2, <1>3, <1>5
<1>7. verdicts \in [WorkflowJobs -> WP!Verdicts]
  BY LedgerStarts, VerdictTypes
<1>8. WP!WorkflowTypeOK
  <2>1. checkpoints \in [WorkflowJobs -> [WP!Updates -> Artifacts \cup {None}]]
    BY <1>4
  <2>2. seen \in [WorkflowJobs -> SUBSET WP!Updates]
    BY <1>4
  <2>3. /\ audits \in [WorkflowJobs -> SUBSET Artifacts]
        /\ seenAudits \in [WorkflowJobs -> SUBSET Artifacts]
        /\ installed \in SUBSET {"validation", "test"} /\ lastAt \in 0..0 /\ 0 \in 0..0
        /\ claims \in SUBSET WP!Claims
    BY <1>1
  <2>4. accepts \in BOOLEAN
    BY <1>1
  <2> QED
    BY <1>5, <1>7, <2>1, <2>2, <2>3, <2>4 DEF WP!WorkflowTypeOK
<1>9. WP!ClaimInv
  BY <1>1, <1>8 DEF WP!ClaimInv, WP!ClaimsAreStarted, WP!ClaimsAreUnique
<1>10. WP!AbsentAreBlank
  BY <1>4, <1>6 DEF WP!AbsentAreBlank, WP!Status, WP!Columns
<1>11. seen = [j \in WorkflowJobs |-> WP!Recorded(j)]
  <2>1. a # None
    BY RunAssumption
  <2>2. \A j \in WorkflowJobs : WP!Recorded(j) = IF V(j) THEN WP!Updates ELSE {}
    BY <1>4, <2>1 DEF WP!Recorded
  <2> QED
    BY <1>4, <2>2
<1>12. installed = WP!Present
  <2>1. \E j \in WorkflowJobs : V(j)
    BY RunAssumption
  <2>2. {Phase[j] : j \in {i \in WorkflowJobs : rows[i].columns.status # "absent"}} =
          {"validation"}
    BY <1>6, <2>1
  <2> QED
    BY <1>1, <2>2 DEF WP!Present
<1>13. ASSUME NEW j \in WorkflowJobs
       PROVE  WP!RowAgrees(j)
  <2>1. V(j) => rows[j].columns = history[j] /\ rows[j].columns.status = "completed"
    BY <1>4, <1>5, <1>6
  <2>2. V(j) => checkpoints[j][Budget] # None
    BY <1>4, RunAssumption DEF WP!Updates
  <2> QED
    BY <1>5, <1>6, <2>1, <2>2 DEF WP!RowAgrees, WP!Active
<1>14. WP!VerifyStateMachine
  <2>1. accepts /\ seenAudits = audits
    BY <1>1
  <2> QED
    BY <1>11, <1>12, <1>13, <2>1, WorkflowAssumptions, WP!VerifyParts
<1>15. lastAt <= 0
  BY <1>1
<1> QED
  BY <1>9, <1>10, <1>14, <1>15 DEF WP!LogInv

\* Both stores accept what is in them.
StoresOpen == L!ConnectionVerifies /\ W!VerifyStateMachine

\* Whatever commands run and wherever they die, the stores open for the next one: the
\* connect of the ledger and the verify() of the workflow, with which every command
\* begins, do not refuse what they find.
THEOREM NextCommandOpensTheStores == RunSpec => []StoresOpen
<1>1. RunInit => WP!ClaimInv /\ WP!LogInv
  BY WorkflowStarts
<1>2. RunInv /\ LP!LedgerInv /\ WP!ClaimInv /\ WP!LogInv /\ [RunNext]_all =>
        WP!ClaimInv' /\ WP!LogInv'
  <2> SUFFICES ASSUME RunInv, LP!LedgerInv, WP!ClaimInv, WP!LogInv, [RunNext]_all
               PROVE  WP!ClaimInv' /\ WP!LogInv'
    OBVIOUS
  <2>1. [WP!WorkflowNext]_WP!vars
    BY WorksOrRests
  <2>2. WP!ClaimInv'
    BY <2>1, WorkflowAssumptions, WP!NextClaims
  <2>3. WP!LogInv'
    BY <2>1, WorkflowAssumptions, WP!NextLog
  <2> QED
    BY <2>2, <2>3
<1>3. LP!LedgerInv /\ WP!LogInv => StoresOpen
  <2>1. LP!LedgerInv => L!ConnectionVerifies
    BY DEF LP!LedgerInv, LP!ConnectionVerifies, L!ConnectionVerifies, LP!RowVerifies, L!RowVerifies,
       LP!Units, L!Units
  <2>2. WP!LogInv => W!VerifyStateMachine
    BY DEF WP!LogInv, WP!VerifyStateMachine, W!VerifyStateMachine, WP!Verifies, W!Verifies,
       WP!Updates, W!Updates, WP!Active, W!Active
  <2> QED
    BY <2>1, <2>2 DEF StoresOpen
<1> QED
  BY <1>1, <1>2, <1>3, SealedRunInvariant, CommandsKeepTheLedger, PTL DEF RunSpec

=============================================================================
