------------------------- MODULE TrainingBatchProofs -------------------------
(***************************************************************************)
(* Theorems about the private files of a training phase, for any jobs,     *)
(* owners, slots, tokens and digests.  FileInv is about the table and the  *)
(* files only; CommandInv adds what the running command, its children and  *)
(* the bindings of the batch rest on.                                      *)
(***************************************************************************)
EXTENDS TrainingBatch, TLAPS

State(j) == rows[j].columns.status
ActiveStates == {"claimed", "running", "trained"}

TableTyped ==
  /\ rows \in [BatchJobs -> W!Rows]
  /\ intent \in [Claimants -> Tokens \cup {None}]
  /\ DOMAIN claimFile = BatchJobs

\* A claim file is the claim of its job, for as long as the job is active.
FilesMatch ==
  \A j \in BatchJobs : claimFile[j] # None =>
    /\ claimFile[j] \in claims /\ claimFile[j].job = j
    /\ State(j) # "pending"
    /\ j \in Active => claimFile[j].token = rows[j].token /\ claimFile[j].owner = OwnerOf(j)

\* The token of an active job is in its claim file, or still in the intent.
TokenKept ==
  \A j \in Active :
    claimFile[j] # None \/ (State(j) = "claimed" /\ intent[OwnerOf(j)] = rows[j].token)

\* Every token is in one intent and was used for one claimant only.
TokensDiffer ==
  /\ \A o, p \in Claimants : intent[o] = intent[p] /\ intent[o] # None => o = p
  /\ \A c \in claims : c.token # None
  /\ \A o \in Claimants : \A c \in claims : c.token = intent[o] => c.owner = o
  /\ \A j \in Active :
       /\ OwnerOf(j) \in Claimants /\ rows[j].token # None
       /\ \E c \in claims : c.token = rows[j].token /\ c.owner = OwnerOf(j)
  /\ \A i, j \in Active : rows[i].token = rows[j].token => i = j

FileInv ==
  /\ TableTyped
  /\ FilesMatch
  /\ TokenKept
  /\ TokensDiffer
  /\ OneJobPerSlot

\* Whatever a child trains, a command has chosen or a wave lists has its claim
\* in a file, and the command knows who it is.
LocalInv ==
  /\ DOMAIN trainer = BatchJobs
  /\ who \in BatchOwners \cup {Single, None}
  /\ at # "idle" => who # None
  /\ at \in {"claim", "adopt"} => who = Single
  /\ at \in {"plan", "clear", "unbind"} => who \in BatchOwners
  /\ count \in 0..MaxSlots
  /\ chosen \subseteq BatchJobs /\ wave \subseteq BatchJobs
  /\ \A j \in BatchJobs :
       trainer[j] # "none" \/ j \in chosen \/ j \in wave => claimFile[j] # None

\* The single command that claims finds no other claim of its own.
ClaimInv ==
  at = "claim" => \A j \in Kept : OwnerOf(j) = Single => rows[j].token = intent[Single]

\* The batch that runs owns all that is claimed and is bound.  With a wave
\* nothing else is being claimed, and what is claimed is in it; when a batch is
\* cleared there is nothing left.
BindInv ==
  /\ who \in BatchOwners =>
       /\ Intents \subseteq Batch(who)
       /\ \A j \in Active : OwnerOf(j) \in Batch(who)
       /\ identity # None /\ identity.owner = who
  /\ at \in {"train", "evaluate"} /\ who \in BatchOwners => wave # {}
  /\ wave # {} =>
       /\ identity # None
       /\ Intents \subseteq {Single}
       /\ \A j \in Active : OwnerOf(j) # Single => j \in wave
  /\ at \in {"clear", "unbind"} =>
       /\ Intents = {} /\ Active = {}
       /\ \A j \in wave : State(j) = "completed"
  /\ at = "unbind" => wave = {}
  /\ BoundWhileClaimed

PhaseInv ==
  /\ FileInv
  /\ LocalInv
  /\ ClaimInv
  /\ BindInv

-----------------------------------------------------------------------------
(* The table and the files. *)

LEMMA ActiveIs ==
  /\ Active = {j \in BatchJobs : State(j) \in ActiveStates}
  /\ Active' = {j \in BatchJobs : State(j)' \in ActiveStates}
BY DEF Active, W!Active, W!Status, W!Columns, State, ActiveStates

\* An active job goes on to one of the later states.
Moved(j) ==
  /\ j \in Active
  /\ rows' \in [BatchJobs -> W!Rows]
  /\ \A i \in BatchJobs \ {j} : rows'[i] = rows[i]
  /\ State(j)' \in {"running", "trained", "completed", "failed"}
  /\ OwnerOf(j)' = OwnerOf(j)
  /\ State(j)' \in ActiveStates => rows'[j].token = rows[j].token
  /\ UNCHANGED claims

\* What the holder of a claim does to the table.
LEMMA Moves ==
  ASSUME TableTyped, FilesMatch, NEW j \in BatchJobs, claimFile[j] # None,
         None \notin Tokens,
         \/ W!Begin(claimFile[j]) \/ W!MarkTrained(claimFile[j])
         \/ \E out \in Outputs : W!Complete(claimFile[j], out)
         \/ \E f \in Errors : W!Fail(claimFile[j], f)
  PROVE  Moved(j)
<1>1. claimFile[j].job = j /\ rows[j] \in W!Rows
  BY DEF FilesMatch, TableTyped
<1>2. rows[j].columns \in W!History /\ rows[j].token \in Tokens \cup {None}
  BY <1>1 DEF W!Rows
<1> USE DEF W!Authorizes, W!Status, W!Columns, W!SetRow, W!JobRow, W!Active
<1>3. ASSUME NEW s \in {"running", "trained"},
             State(j) \in ActiveStates,
             rows' = [rows EXCEPT ![j] =
                        W!JobRow([rows[j].columns EXCEPT !.status = s], rows[j].token)],
             UNCHANGED claims
      PROVE  Moved(j)
  <2>1. [rows[j].columns EXCEPT !.status = s] \in W!History
    BY <1>2, <1>3 DEF W!History, W!Statuses
  <2>2. [rows[j].columns EXCEPT !.status = s].owner = rows[j].columns.owner
        /\ [rows[j].columns EXCEPT !.status = s].status = s
    BY <1>2 DEF W!History
  <2> QED
    BY <1>2, <1>3, <2>1, <2>2, ActiveIs DEF Moved, State, OwnerOf, ActiveStates, TableTyped, W!Rows
<1>4. CASE W!Begin(claimFile[j])
  BY <1>1, <1>3, <1>4 DEF W!Begin, State, ActiveStates
<1>5. CASE W!MarkTrained(claimFile[j])
  BY <1>1, <1>3, <1>5 DEF W!MarkTrained, State, ActiveStates
<1>6. ASSUME NEW h \in W!History, h.status \in {"completed", "failed"},
             h.owner = rows[j].columns.owner,
             State(j) \in ActiveStates,
             rows' = [rows EXCEPT ![j] = W!JobRow(h, None)],
             UNCHANGED claims
      PROVE  Moved(j)
  BY <1>2, <1>6, ActiveIs DEF Moved, State, OwnerOf, ActiveStates, TableTyped, W!Rows
<1>7. ASSUME NEW out \in Outputs, W!Complete(claimFile[j], out)
      PROVE  Moved(j)
  <2> DEFINE h == [rows[j].columns EXCEPT !.status = "completed", !.output = out]
  <2>1. h \in W!History /\ h.status = "completed" /\ h.owner = rows[j].columns.owner
    BY <1>2 DEF W!History, W!Statuses
  <2>2. /\ State(j) \in ActiveStates /\ UNCHANGED claims
        /\ rows' = [rows EXCEPT ![j] = W!JobRow(h, None)]
    BY <1>1, <1>7 DEF W!Complete, W!SetCompleted, State, ActiveStates
  <2> HIDE DEF h
  <2> QED
    BY <1>6, <2>1, <2>2
<1>8. ASSUME NEW f \in Errors, W!Fail(claimFile[j], f)
      PROVE  Moved(j)
  <2> DEFINE h == [rows[j].columns EXCEPT !.status = "failed", !.failure = f]
  <2>1. h \in W!History /\ h.status = "failed" /\ h.owner = rows[j].columns.owner
    BY <1>2 DEF W!History, W!Statuses
  <2>2. /\ State(j) \in ActiveStates /\ UNCHANGED claims
        /\ rows' = [rows EXCEPT ![j] = W!JobRow(h, None)]
    BY <1>1, <1>8 DEF W!Fail, W!SetFailed, State, ActiveStates
  <2> HIDE DEF h
  <2> QED
    BY <1>6, <2>1, <2>2
<1> QED
  BY <1>4, <1>5, <1>7, <1>8

\* A new intent has a token that nobody has used.
LEMMA WriteIntentKeeps ==
  ASSUME FileInv, NEW o \in Claimants, NEW t \in Tokens, WriteIntent(o, t)
  PROVE  FileInv'
<1> USE DEF FileInv
<1>1. /\ intent[o] = None /\ intent' = [intent EXCEPT ![o] = t]
      /\ \A c \in claims : c.token # t
      /\ \A p \in Claimants : intent[p] # t
      /\ UNCHANGED <<rows, claims, claimFile>>
  BY DEF WriteIntent, workflow
<1>2. Active' = Active /\ \A j : State(j)' = State(j) /\ OwnerOf(j)' = OwnerOf(j)
  BY <1>1, ActiveIs DEF Active, W!Status, W!Columns, State, OwnerOf
<1>3. TableTyped'
  BY <1>1 DEF TableTyped
<1>4. FilesMatch'
  BY <1>1, <1>2 DEF FilesMatch
<1>5. TokenKept'
  BY <1>1, <1>2 DEF TokenKept, TokensDiffer, TableTyped
<1>6. TokensDiffer'
  <2>1. \A p \in Claimants : intent'[p] = IF p = o THEN t ELSE intent[p]
    BY <1>1 DEF TableTyped
  <2> QED
    BY <1>1, <1>2, <2>1 DEF TokensDiffer
<1>7. OneJobPerSlot'
  BY <1>1, <1>2 DEF OneJobPerSlot
<1> QED
  BY <1>3, <1>4, <1>5, <1>6, <1>7

\* claim_next moves one pending job.
LEMMA ClaimNextMoves ==
  ASSUME TableTyped, NEW o \in Claimants, intent[o] # None,
         W!ClaimNext("calibration", o, intent[o])
  PROVE  \E j \in BatchJobs : \E c :
           /\ State(j) = "pending"
           /\ rows' \in [BatchJobs -> W!Rows]
           /\ \A i \in BatchJobs \ {j} : rows'[i] = rows[i]
           /\ State(j)' = "claimed" /\ OwnerOf(j)' = o /\ rows'[j].token = intent[o]
           /\ c.job = j /\ c.token = intent[o] /\ c.owner = o
           /\ claims' = claims \cup {c}
<1>1. PICK j \in BatchJobs :
        /\ W!Status(j) = "pending"
        /\ W!SetRow(j, [W!Columns(j) EXCEPT !.status = "claimed", !.owner = o], intent[o])
        /\ claims' = claims \cup
             {[job |-> j, token |-> intent[o], owner |-> o, from |-> 0, checkpoint |-> None]}
  BY DEF W!ClaimNext, W!InPhase
<1>2. rows[j].columns \in W!History /\ intent[o] \in Tokens
  BY DEF TableTyped, W!Rows
<1> DEFINE h == [rows[j].columns EXCEPT !.status = "claimed", !.owner = o]
           c == [job |-> j, token |-> intent[o], owner |-> o, from |-> 0, checkpoint |-> None]
<1>3. h \in W!History /\ h.status = "claimed" /\ h.owner = o
  BY <1>2 DEF W!History, W!Statuses, W!Active
<1>4. c.job = j /\ c.token = intent[o] /\ c.owner = o
  OBVIOUS
<1>5. rows' = [rows EXCEPT ![j] = W!JobRow(h, intent[o])] /\ claims' = claims \cup {c}
  BY <1>1 DEF W!SetRow, W!Columns
<1>6. State(j) = "pending"
  BY <1>1 DEF W!Status, W!Columns, State
<1> HIDE DEF h, c
<1>7. /\ rows' \in [BatchJobs -> W!Rows]
      /\ \A i \in BatchJobs \ {j} : rows'[i] = rows[i]
      /\ State(j)' = "claimed" /\ OwnerOf(j)' = o /\ rows'[j].token = intent[o]
  BY <1>2, <1>3, <1>5 DEF TableTyped, W!Rows, W!JobRow, State, OwnerOf
<1> QED
  BY <1>4, <1>5, <1>6, <1>7

\* A job that is claimed with an intent has no claim file yet, and its owner
\* has no other active job.
LEMMA ClaimWithIntentKeeps ==
  ASSUME FileInv, NEW o \in Claimants, ClaimWithIntent(o),
         \A j \in Kept : OwnerOf(j) = o => rows[j].token = intent[o]
  PROVE  /\ FileInv'
         /\ \E j \in BatchJobs :
              /\ State(j) = "pending" /\ OwnerOf(j)' = o
              /\ Active' = Active \cup {j}
              /\ \A i \in BatchJobs \ {j} : rows'[i] = rows[i]
         /\ UNCHANGED <<intent, claimFile>>
<1>1. UNCHANGED <<intent, claimFile>>
  BY DEF ClaimWithIntent, secrets
<1>2. PICK j \in BatchJobs : \E c :
           /\ State(j) = "pending"
           /\ rows' \in [BatchJobs -> W!Rows]
           /\ \A i \in BatchJobs \ {j} : rows'[i] = rows[i]
           /\ State(j)' = "claimed" /\ OwnerOf(j)' = o /\ rows'[j].token = intent[o]
           /\ c.job = j /\ c.token = intent[o] /\ c.owner = o
           /\ claims' = claims \cup {c}
  BY ClaimNextMoves DEF FileInv, ClaimWithIntent
<1>3. PICK c :
           /\ State(j) = "pending"
           /\ rows' \in [BatchJobs -> W!Rows]
           /\ \A i \in BatchJobs \ {j} : rows'[i] = rows[i]
           /\ State(j)' = "claimed" /\ OwnerOf(j)' = o /\ rows'[j].token = intent[o]
           /\ c.job = j /\ c.token = intent[o] /\ c.owner = o
           /\ claims' = claims \cup {c}
  BY <1>2
<1>4. /\ \A i \in BatchJobs \ {j} : State(i)' = State(i) /\ OwnerOf(i)' = OwnerOf(i)
      /\ Active' = Active \cup {j} /\ j \notin Active
  BY <1>3, ActiveIs DEF State, OwnerOf, ActiveStates
<1>5. intent[o] # None /\ Resumable(o) = {}
  BY DEF ClaimWithIntent
<1>6. \A i \in Active : OwnerOf(i) # o
  <2> SUFFICES ASSUME NEW i \in Active, OwnerOf(i) = o
               PROVE  FALSE
    OBVIOUS
  <2>1. rows[i].token = intent[o]
    BY DEF FileInv, TokenKept, Kept
  <2> QED
    BY <1>5, <2>1 DEF Resumable
<1>7. \A i \in Active : rows[i].token # intent[o]
  BY <1>6 DEF FileInv, TokensDiffer
<1>8. claimFile[j] = None
  BY <1>3 DEF FileInv, FilesMatch
<1>9. TableTyped'
  BY <1>1, <1>3 DEF FileInv, TableTyped
<1>10. FilesMatch'
  BY <1>1, <1>3, <1>4, <1>8 DEF FileInv, FilesMatch
<1>11. TokenKept'
  BY <1>1, <1>3, <1>4 DEF FileInv, TokenKept, Active
<1>12. TokensDiffer'
  <2>1. \A p, q \in Claimants : intent'[p] = intent'[q] /\ intent'[p] # None => p = q
    BY <1>1 DEF FileInv, TokensDiffer
  <2>2. \A p \in Claimants : \A d \in claims' : d.token = intent'[p] => d.owner = p
    BY <1>1, <1>3, <1>5 DEF FileInv, TokensDiffer
  <2>3. \A i \in Active' : /\ OwnerOf(i)' \in Claimants /\ rows'[i].token # None
                           /\ \E d \in claims' : d.token = rows'[i].token /\ d.owner = OwnerOf(i)'
    BY <1>3, <1>4, <1>5 DEF FileInv, TokensDiffer, Active
  <2>4. \A h, i \in Active' : rows'[h].token = rows'[i].token => h = i
    BY <1>3, <1>4, <1>7 DEF FileInv, TokensDiffer, Active
  <2>5. \A d \in claims' : d.token # None
    BY <1>3, <1>5 DEF FileInv, TokensDiffer
  <2> QED
    BY <2>1, <2>2, <2>3, <2>4, <2>5 DEF TokensDiffer
<1>13. OneJobPerSlot'
  BY <1>3, <1>4, <1>6 DEF FileInv, OneJobPerSlot, Active
<1> QED
  BY <1>1, <1>3, <1>4, <1>9, <1>10, <1>11, <1>12, <1>13 DEF FileInv

\* A claim goes to the file of its job.
LEMMA WriteClaimKeeps ==
  ASSUME FileInv, NEW o \in Claimants, WriteClaim(o)
  PROVE  /\ FileInv'
         /\ \A j \in BatchJobs : claimFile[j] # None => claimFile'[j] # None
         /\ \A j \in BatchJobs : claimFile'[j] # claimFile[j] => rows[j].token = intent[o]
<1>1. PICK c \in claims :
       /\ c.job \in Resumable(o) /\ c.token = intent[o]
       /\ claimFile[c.job] = None
       /\ claimFile' = [claimFile EXCEPT ![c.job] = c]
  BY DEF WriteClaim
<1>2. intent[o] # None /\ UNCHANGED <<rows, claims, intent>>
  BY DEF WriteClaim, workflow
<1>3. Active' = Active /\ \A j : State(j)' = State(j) /\ OwnerOf(j)' = OwnerOf(j)
  BY <1>2, ActiveIs DEF State, OwnerOf
<1>4. c.job \in Active /\ OwnerOf(c.job) = o /\ rows[c.job].token = c.token
  BY <1>1 DEF Resumable
<1>5. c.owner = o
  BY <1>1 DEF FileInv, TokensDiffer
<1>6. c.job \in BatchJobs /\ State(c.job) # "pending"
  BY <1>4, ActiveIs DEF ActiveStates
<1>7. \A j \in BatchJobs : claimFile'[j] = IF j = c.job THEN c ELSE claimFile[j]
  BY <1>1 DEF FileInv, TableTyped
<1>8. TableTyped' /\ TokensDiffer' /\ OneJobPerSlot'
  BY <1>1, <1>2, <1>3 DEF FileInv, TableTyped, TokensDiffer, OneJobPerSlot
<1>9. FilesMatch'
  BY <1>2, <1>3, <1>4, <1>5, <1>6, <1>7 DEF FileInv, FilesMatch
<1>10. TokenKept'
  <2> SUFFICES ASSUME NEW j \in Active, claimFile'[j] = None
               PROVE  State(j) = "claimed" /\ intent[OwnerOf(j)] = rows[j].token
    BY <1>2, <1>3 DEF TokenKept
  <2>1. j \in BatchJobs
    BY DEF Active
  <2>2. claimFile[j] = None \/ (j = c.job /\ c = None)
    BY <1>7, <2>1
  <2>3. c.job \in Active /\ claimFile[c.job] = None
    BY <1>1, <1>4
  <2> QED
    BY <2>2, <2>3 DEF FileInv, TokenKept
<1>11. \A j \in BatchJobs : claimFile[j] # None => claimFile'[j] # None
  BY <1>1, <1>7
<1>12. \A j \in BatchJobs : claimFile'[j] # claimFile[j] => rows[j].token = intent[o]
  BY <1>1, <1>4, <1>7
<1> QED
  BY <1>8, <1>9, <1>10, <1>11, <1>12 DEF FileInv

\* An intent is dropped when the claim file has its token, or when no job has it.
LEMMA UnlinkIntentKeeps ==
  ASSUME FileInv, NEW o \in Claimants, UnlinkIntent(o)
  PROVE  FileInv'
<1>1. /\ intent[o] # None /\ intent' = [intent EXCEPT ![o] = None]
      /\ UNCHANGED <<rows, claims, claimFile>>
  BY DEF UnlinkIntent, workflow
<1>2. Active' = Active /\ \A j : State(j)' = State(j) /\ OwnerOf(j)' = OwnerOf(j)
  BY <1>1, ActiveIs DEF State, OwnerOf
<1>3. \A p \in Claimants : intent'[p] = IF p = o THEN None ELSE intent[p]
  BY <1>1 DEF FileInv, TableTyped
<1>4. TableTyped' /\ FilesMatch' /\ OneJobPerSlot'
  BY <1>1, <1>2 DEF FileInv, TableTyped, FilesMatch, OneJobPerSlot
<1>5. \A j \in Active : OwnerOf(j) = o /\ rows[j].token = intent[o] => claimFile[j] # None
  <2> SUFFICES ASSUME NEW j \in Active, OwnerOf(j) = o, rows[j].token = intent[o]
               PROVE  claimFile[j] # None
    OBVIOUS
  <2>1. j \in Resumable(o)
    BY DEF Resumable
  <2>2. PICK i \in Kept : claimFile[i].owner = o /\ claimFile[i].token = intent[o]
    BY <2>1 DEF UnlinkIntent
  <2>3. i \in Active /\ i \in BatchJobs /\ claimFile[i] # None
    BY DEF Kept, Active
  <2>4. rows[i].token = rows[j].token
    BY <2>2, <2>3 DEF FileInv, FilesMatch
  <2> QED
    BY <2>3, <2>4 DEF FileInv, TokensDiffer
<1>6. TokenKept'
  BY <1>1, <1>2, <1>3, <1>5 DEF FileInv, TokenKept, TokensDiffer
<1>7. TokensDiffer'
  <2>1. \A p, q \in Claimants : intent'[p] = intent'[q] /\ intent'[p] # None => p = q
    BY <1>3 DEF FileInv, TokensDiffer
  <2>2. \A c \in claims : c.token # None
    BY DEF FileInv, TokensDiffer
  <2> QED
    BY <1>1, <1>2, <1>3, <2>1, <2>2 DEF FileInv, TokensDiffer
<1> QED
  BY <1>4, <1>6, <1>7 DEF FileInv

\* The holder of a claim moves its job; the files stay.
LEMMA MovedKeeps ==
  ASSUME FileInv, NEW j \in BatchJobs, claimFile[j] # None,
         Moved(j), UNCHANGED <<intent, claimFile>>
  PROVE  /\ FileInv'
         /\ Active' \subseteq Active
         /\ \A i \in BatchJobs : OwnerOf(i)' = OwnerOf(i)
         /\ \A i \in Active' : rows'[i].token = rows[i].token
<1>1. /\ \A i \in BatchJobs : OwnerOf(i)' = OwnerOf(i)
      /\ Active' \subseteq Active
      /\ \A i \in Active' : rows'[i].token = rows[i].token
  BY ActiveIs DEF Moved, State, OwnerOf
<1>3. TableTyped'
  BY DEF FileInv, TableTyped, Moved
<1>4. FilesMatch'
  BY <1>1 DEF FileInv, FilesMatch, Moved, State
<1>5. TokenKept'
  <2> SUFFICES ASSUME NEW i \in Active', claimFile[i] = None
               PROVE  State(i)' = "claimed" /\ intent[OwnerOf(i)'] = rows'[i].token
    BY DEF TokenKept
  <2>1. i \in Active /\ i \in BatchJobs /\ i # j /\ claimFile[i] = None
    BY <1>1, ActiveIs
  <2>2. State(i) = "claimed" /\ intent[OwnerOf(i)] = rows[i].token
    BY <2>1 DEF FileInv, TokenKept
  <2> QED
    BY <1>1, <2>1, <2>2 DEF Moved, State
<1>6. TokensDiffer'
  BY <1>1, ActiveIs DEF FileInv, TokensDiffer, Moved
<1>7. OneJobPerSlot'
  BY <1>1, ActiveIs DEF FileInv, OneJobPerSlot
<1> QED
  BY <1>1, <1>3, <1>4, <1>5, <1>6, <1>7 DEF FileInv

-----------------------------------------------------------------------------
(* The running command and the bindings. *)

LEMMA FilesFrame ==
  ASSUME UNCHANGED <<rows, claims, intent, claimFile>>
  PROVE  /\ FileInv => FileInv'
         /\ Active' = Active /\ Kept' = Kept /\ Intents' = Intents
         /\ \A j : State(j)' = State(j) /\ OwnerOf(j)' = OwnerOf(j)
<1>1. Active' = Active /\ \A j : State(j)' = State(j) /\ OwnerOf(j)' = OwnerOf(j)
  BY ActiveIs DEF State, OwnerOf
<1>2. Kept' = Kept /\ Intents' = Intents
  BY <1>1 DEF Kept, Intents
<1>3. ASSUME FileInv
      PROVE  FileInv'
  BY <1>1, <1>3 DEF FileInv, TableTyped, FilesMatch, TokenKept, TokensDiffer, OneJobPerSlot
<1> QED
  BY <1>1, <1>2, <1>3

\* Steps that touch no file.
LEMMA QuietSteps ==
  ASSUME PhaseInv, LocalInv', UNCHANGED <<rows, claims, intent, claimFile, identity, wave>>,
         at' = "claim" => at = "claim" \/ Kept = {},
         who' \in {who, Single, None},
         at' \in {"clear", "unbind"} => at' = at,
         at' \in {"train", "evaluate"} /\ who' \in BatchOwners => wave # {}
  PROVE  PhaseInv'
<1>1. FileInv' /\ Active' = Active /\ Kept' = Kept /\ Intents' = Intents
  BY FilesFrame DEF PhaseInv
<1>2. \A j : State(j)' = State(j) /\ OwnerOf(j)' = OwnerOf(j)
  BY FilesFrame
<1>3. ClaimInv'
  BY <1>1, <1>2 DEF PhaseInv, ClaimInv
<1>4. BoundWhileClaimed'
  BY <1>1, <1>2 DEF PhaseInv, BindInv, BoundWhileClaimed
<1>5. who' \in BatchOwners => who' = who
  BY BatchAssumption
<1>6. BindInv'
  BY <1>1, <1>2, <1>4, <1>5 DEF PhaseInv, BindInv
<1> QED
  BY <1>1, <1>3, <1>6 DEF PhaseInv

\* Steps of a claimant: the single command, or a batch that prepares.
LEMMA ClaimantKeepsBinding ==
  ASSUME PhaseInv, NEW o \in Claimants,
         \/ o = Single /\ at = "claim"
         \/ o \in Batch(who) /\ at = "plan" /\ wave = {},
         Intents' \subseteq Intents \cup {o},
         \A j \in Active' : \/ OwnerOf(j)' = o
                            \/ j \in Active /\ OwnerOf(j)' = OwnerOf(j),
         UNCHANGED <<identity, wave>>,
         who' \in {who, None},
         at' \notin {"train", "evaluate", "clear", "unbind"}
  PROVE  BindInv'
<1>1. /\ None \notin BatchOwners /\ Single \notin BatchOwners
      /\ \A b \in BatchOwners : Single \notin Batch(b)
  BY BatchAssumption DEF Batch, Slots
<1>2. at = "claim" => who = Single
  BY DEF PhaseInv, LocalInv
<1>3. at = "plan" => who \in BatchOwners
  BY DEF PhaseInv, LocalInv
<1>4. \A b, d \in BatchOwners : b # d => Batch(b) \cap Batch(d) = {}
  BY DEF Batch
<1>5. who' \in BatchOwners =>
       /\ Intents' \subseteq Batch(who')
       /\ \A j \in Active' : OwnerOf(j)' \in Batch(who')
       /\ identity' # None /\ identity'.owner = who'
  BY <1>1, <1>2 DEF PhaseInv, BindInv
<1>6. wave' # {} =>
       /\ identity' # None
       /\ Intents' \subseteq {Single}
       /\ \A j \in Active' : OwnerOf(j)' # Single => j \in wave'
  BY DEF PhaseInv, BindInv
<1>7. BoundWhileClaimed'
  <2> SUFFICES ASSUME NEW b \in BatchOwners, ~(identity # None /\ identity.owner = b)
               PROVE  /\ Intents' \cap Batch(b) = {}
                      /\ \A j \in Active' : OwnerOf(j)' \notin Batch(b)
    BY DEF BoundWhileClaimed, Batch
  <2>1. Intents \cap Batch(b) = {} /\ \A j \in Active : OwnerOf(j) \notin Batch(b)
    BY DEF PhaseInv, BindInv, BoundWhileClaimed
  <2>2. o \notin Batch(b)
    BY <1>1, <1>3, <1>4 DEF PhaseInv, BindInv
  <2> QED
    BY <2>1, <2>2
<1> QED
  BY <1>5, <1>6, <1>7 DEF BindInv

\* What a claimant does to the files.
ClaimantStep(o) ==
  \/ \E t \in Tokens : WriteIntent(o, t)
  \/ ClaimWithIntent(o) /\ \A j \in Kept : OwnerOf(j) = o => rows[j].token = intent[o]
  \/ WriteClaim(o)
  \/ UnlinkIntent(o)

LEMMA ClaimantStepKeeps ==
  ASSUME FileInv, NEW o \in Claimants, ClaimantStep(o)
  PROVE  /\ FileInv'
         /\ Intents' \subseteq Intents \cup {o}
         /\ \A j \in Active' : \/ OwnerOf(j)' = o
                               \/ j \in Active /\ OwnerOf(j)' = OwnerOf(j)
         /\ \A j \in BatchJobs : claimFile[j] # None => claimFile'[j] # None
<1>1. ASSUME NEW t \in Tokens, WriteIntent(o, t)
      PROVE  /\ Intents' \subseteq Intents \cup {o}
             /\ UNCHANGED <<rows, claimFile>>
  BY <1>1 DEF WriteIntent, workflow, Intents, FileInv, TableTyped
<1>2. ASSUME UnlinkIntent(o)
      PROVE  /\ Intents' \subseteq Intents
             /\ UNCHANGED <<rows, claimFile>>
  BY <1>2 DEF UnlinkIntent, workflow, Intents, FileInv, TableTyped
<1>3. ASSUME UNCHANGED rows
      PROVE  \A j \in Active' : j \in Active /\ OwnerOf(j)' = OwnerOf(j)
  BY <1>3, ActiveIs DEF State, OwnerOf
<1>4. CASE \E t \in Tokens : WriteIntent(o, t)
  BY <1>1, <1>3, <1>4, WriteIntentKeeps
<1>5. CASE UnlinkIntent(o)
  BY <1>2, <1>3, <1>5, UnlinkIntentKeeps
<1>6. CASE WriteClaim(o)
  <2>1. UNCHANGED <<rows, intent>>
    BY <1>6 DEF WriteClaim, workflow
  <2>2. Intents' = Intents
    BY <2>1 DEF Intents
  <2> QED
    BY <1>3, <1>6, <2>1, <2>2, WriteClaimKeeps
<1>7. CASE ClaimWithIntent(o) /\ \A j \in Kept : OwnerOf(j) = o => rows[j].token = intent[o]
  <2>1. FileInv'
    BY <1>7, ClaimWithIntentKeeps
  <2>2. UNCHANGED <<intent, claimFile>>
    BY <1>7, ClaimWithIntentKeeps
  <2>3. \A j \in Active' : OwnerOf(j)' = o \/ (j \in Active /\ OwnerOf(j)' = OwnerOf(j))
    BY <1>7, ClaimWithIntentKeeps, ActiveIs DEF OwnerOf
  <2>4. Intents' = Intents
    BY <2>2 DEF Intents
  <2> QED
    BY <2>1, <2>2, <2>3, <2>4
<1> QED
  BY <1>4, <1>5, <1>6, <1>7 DEF ClaimantStep

\* The batch that prepares, for one of its slots.
LEMMA PreparingStep ==
  ASSUME PhaseInv, NEW s \in Slots, Preparing, ClaimantStep(<<who, s>>),
         UNCHANGED <<bindings, trainer, at, who, count, chosen>>
  PROVE  PhaseInv'
<1>1. at = "plan" /\ who \in BatchOwners /\ wave = {}
  BY DEF Preparing, PhaseInv, LocalInv
<1>2. <<who, s>> \in Claimants /\ <<who, s>> \in Batch(who)
  BY <1>1 DEF Claimants, Workers, Batch
<1>3. /\ FileInv'
      /\ Intents' \subseteq Intents \cup {<<who, s>>}
      /\ \A j \in Active' : \/ OwnerOf(j)' = <<who, s>>
                            \/ j \in Active /\ OwnerOf(j)' = OwnerOf(j)
      /\ \A j \in BatchJobs : claimFile[j] # None => claimFile'[j] # None
  BY <1>2, ClaimantStepKeeps DEF PhaseInv
<1>4. BindInv'
  BY <1>1, <1>2, <1>3, ClaimantKeepsBinding DEF bindings
<1>5. LocalInv'
  BY <1>3 DEF PhaseInv, LocalInv, bindings
<1>6. ClaimInv'
  BY <1>1 DEF ClaimInv
<1> QED
  BY <1>3, <1>4, <1>5, <1>6 DEF PhaseInv

LEMMA PrepareSteps ==
  ASSUME PhaseInv,
         \/ \E t \in Tokens : OpenSlot(t)
         \/ \E s \in Slots : ClaimForSlot(s) \/ CloseSlot(s)
  PROVE  PhaseInv'
<1>1. ASSUME NEW t \in Tokens, OpenSlot(t)
      PROVE  PhaseInv'
  <2>1. slot \in Slots
    BY <1>1, BatchAssumption DEF OpenSlot, PhaseInv, LocalInv, Slots
  <2>2. Preparing /\ ClaimantStep(<<who, slot>>)
    BY <1>1 DEF OpenSlot, ClaimantStep
  <2>3. UNCHANGED <<bindings, trainer, at, who, count, chosen>>
    BY <1>1 DEF OpenSlot, WriteIntent, Goto, locals, Preparing
  <2> QED
    BY <2>1, <2>2, <2>3, PreparingStep
<1>2. ASSUME NEW s \in Slots, ClaimForSlot(s)
      PROVE  PhaseInv'
  <2>1. Preparing /\ ~Claimed(s)
    BY <1>2 DEF ClaimForSlot, Pending
  <2>2. \A j \in Kept : OwnerOf(j) # <<who, s>>
    BY <2>1 DEF Claimed, Kept, Active, PhaseInv, FileInv, FilesMatch
  <2>3. ClaimantStep(<<who, s>>)
    BY <1>2, <2>2 DEF ClaimForSlot, ClaimantStep
  <2>4. UNCHANGED <<bindings, trainer, at, who, count, chosen>>
    BY <1>2 DEF ClaimForSlot, ClaimWithIntent, WriteClaim, Goto, locals, Pending, Preparing
  <2> QED
    BY <2>1, <2>3, <2>4, PreparingStep
<1>3. ASSUME NEW s \in Slots, CloseSlot(s)
      PROVE  PhaseInv'
  <2>1. Preparing /\ ClaimantStep(<<who, s>>)
    BY <1>3 DEF CloseSlot, Pending, ClaimantStep
  <2>2. UNCHANGED <<bindings, trainer, at, who, count, chosen>>
    BY <1>3 DEF CloseSlot, UnlinkIntent
  <2> QED
    BY <2>1, <2>2, PreparingStep
<1> QED
  BY <1>1, <1>2, <1>3

\* The single command.
LEMMA SingleSteps ==
  ASSUME PhaseInv, ClaimSingle \/ SingleClaimed
  PROVE  PhaseInv'
<1>1. at = "claim" /\ who = Single /\ Single \in Claimants
  BY DEF ClaimSingle, SingleClaimed, PhaseInv, LocalInv, Claimants
<1>2. ClaimantStep(Single)
  BY <1>1 DEF ClaimSingle, SingleClaimed, ClaimantStep, PhaseInv, ClaimInv
<1>3. /\ UNCHANGED <<bindings, trainer>>
      /\ \/ at' \in {"claim", "adopt"} /\ UNCHANGED locals
         \/ Return
  BY DEF ClaimSingle, SingleClaimed, WriteIntent, ClaimWithIntent, WriteClaim, UnlinkIntent, Goto
<1>4. /\ FileInv'
      /\ Intents' \subseteq Intents \cup {Single}
      /\ \A j \in Active' : \/ OwnerOf(j)' = Single
                            \/ j \in Active /\ OwnerOf(j)' = OwnerOf(j)
      /\ \A j \in BatchJobs : claimFile[j] # None => claimFile'[j] # None
  BY <1>1, <1>2, ClaimantStepKeeps DEF PhaseInv
<1>5. /\ who' \in {who, None} /\ at' \in {"claim", "adopt", "idle"}
      /\ UNCHANGED <<identity, wave>>
  BY <1>3 DEF Return, locals, bindings
<1>6. BindInv'
  BY <1>1, <1>4, <1>5, ClaimantKeepsBinding
<1>7. LocalInv'
  BY <1>1, <1>3, <1>4, BatchAssumption DEF PhaseInv, LocalInv, bindings, locals, Return
<1>8. ClaimInv'
  <2> SUFFICES ASSUME at' = "claim", NEW j \in Kept', OwnerOf(j)' = Single
               PROVE  rows'[j].token = intent'[Single]
    BY DEF ClaimInv
  <2>1. CASE \E t \in Tokens : WriteIntent(Single, t)
    <3>1. intent[Single] = None /\ UNCHANGED <<rows, claims, claimFile>>
      BY <2>1 DEF WriteIntent, workflow
    <3>2. j \in Kept /\ OwnerOf(j) = Single
      BY <3>1, ActiveIs DEF Kept, State, OwnerOf
    <3> QED
      BY <1>1, <3>1, <3>2 DEF PhaseInv, ClaimInv, FileInv, TokensDiffer, Kept
  <2>2. CASE ClaimWithIntent(Single)
    <3>1. PICK i \in BatchJobs :
              /\ State(i) = "pending"
              /\ Active' = Active \cup {i}
              /\ \A h \in BatchJobs \ {i} : rows'[h] = rows[h]
      BY <1>1, <2>2, ClaimWithIntentKeeps DEF PhaseInv, ClaimInv
    <3>2. UNCHANGED <<intent, claimFile>>
      BY <2>2 DEF ClaimWithIntent, secrets
    <3>3. j # i /\ j \in BatchJobs
      BY <3>1, <3>2, ActiveIs DEF Kept, PhaseInv, FileInv, FilesMatch
    <3>4. j \in Kept /\ OwnerOf(j) = Single
      BY <3>1, <3>2, <3>3 DEF Kept, OwnerOf
    <3> QED
      BY <1>1, <3>1, <3>2, <3>3, <3>4 DEF PhaseInv, ClaimInv
  <2>3. CASE WriteClaim(Single)
    <3>1. UNCHANGED <<rows, claims, intent>>
      BY <2>3 DEF WriteClaim, workflow
    <3>2. j \in Active /\ OwnerOf(j) = Single /\ j \in BatchJobs /\ claimFile'[j] # None
      BY <3>1, ActiveIs DEF Kept, State, OwnerOf
    <3>3. CASE claimFile'[j] = claimFile[j]
      BY <1>1, <3>1, <3>2, <3>3 DEF PhaseInv, ClaimInv, Kept
    <3>4. CASE claimFile'[j] # claimFile[j]
      BY <1>1, <2>3, <3>1, <3>2, <3>4, WriteClaimKeeps DEF PhaseInv
    <3> QED
      BY <3>3, <3>4
  <2>4. CASE SingleClaimed
    BY <2>4 DEF SingleClaimed, Return
  <2> QED
    BY <2>1, <2>2, <2>3, <2>4 DEF ClaimSingle
<1> QED
  BY <1>4, <1>6, <1>7, <1>8 DEF PhaseInv

\* A command that trains, waits or stops.
LEMMA CommandSteps ==
  ASSUME PhaseInv,
         SkipSlot \/ TrainSingle \/ StopPool \/ JoinPool \/ StartSingle \/ Crash
  PROVE  PhaseInv'
<1>1. UNCHANGED <<rows, claims, intent, claimFile, identity, wave>>
  BY DEF SkipSlot, NextSlot, TrainSingle, StopPool, JoinPool, StartSingle, Crash,
         workflow, secrets, bindings
<1> USE BatchAssumption
<1>2. CASE SkipSlot
  <2>1. UNCHANGED <<trainer, at, who, count, chosen>>
    BY <1>2 DEF SkipSlot, NextSlot
  <2>2. LocalInv'
    BY <1>1, <2>1 DEF PhaseInv, LocalInv
  <2> QED
    BY <1>1, <2>1, <2>2, QuietSteps DEF PhaseInv, BindInv
<1>3. CASE TrainSingle
  <2>1. at = "adopt" /\ who = Single
    BY <1>3 DEF TrainSingle, PhaseInv, LocalInv
  <2>2. PICK j \in Kept : Train({j})
    BY <1>3 DEF TrainSingle
  <2>3. j \in BatchJobs /\ claimFile[j] # None
    BY DEF Kept, Active
  <2>4. at' = "train" /\ UNCHANGED <<who, count>>
    BY <2>2 DEF Train
  <2>5. LocalInv'
    BY <1>1, <2>1, <2>2, <2>3 DEF Train, PhaseInv, LocalInv
  <2> QED
    BY <1>1, <2>1, <2>4, <2>5, QuietSteps
<1>4. CASE StopPool
  <2>1. LocalInv' /\ at' = "idle" /\ who' = None
    BY <1>1, <1>4 DEF StopPool, Return, PhaseInv, LocalInv
  <2> QED
    BY <1>1, <2>1, QuietSteps
<1>5. CASE JoinPool
  <2>1. at = "train" /\ at' = "evaluate" /\ UNCHANGED <<who, count, chosen>>
    BY <1>5 DEF JoinPool, Goto, locals
  <2>2. LocalInv'
    BY <1>1, <1>5, <2>1 DEF JoinPool, PhaseInv, LocalInv
  <2> QED
    BY <1>1, <2>1, <2>2, QuietSteps DEF PhaseInv, BindInv
<1>6. CASE StartSingle
  <2>1. CASE /\ Kept = {}
             /\ at' = "claim" /\ who' = Single
             /\ UNCHANGED <<trainer, count, slot, chosen>>
    <3>1. LocalInv'
      BY <1>1, <2>1 DEF PhaseInv, LocalInv
    <3> QED
      BY <1>1, <2>1, <3>1, QuietSteps
  <2>2. ASSUME NEW j \in Kept, at' = "train", who' = Single, chosen' = {j},
               trainer' = [trainer EXCEPT ![j] = "start"],
               UNCHANGED count
        PROVE  PhaseInv'
    <3>1. j \in BatchJobs /\ claimFile[j] # None
      BY DEF Kept, Active
    <3>2. LocalInv'
      BY <1>1, <2>2, <3>1 DEF PhaseInv, LocalInv
    <3> QED
      BY <1>1, <2>2, <3>2, QuietSteps
  <2> QED
    BY <1>6, <2>1, <2>2 DEF StartSingle
<1>7. CASE Crash
  <2>1. LocalInv' /\ at' = "idle" /\ who' = None
    BY <1>1, <1>7 DEF Crash, Return, Live, PhaseInv, LocalInv
  <2> QED
    BY <1>1, <2>1, QuietSteps
<1> QED
  BY <1>2, <1>3, <1>4, <1>5, <1>6, <1>7

\* While a batch is being cleared, or a command is idle, only its children act.
LEMMA TrainerQuiet ==
  ASSUME PhaseInv, UNCHANGED <<rows, claims, secrets, bindings, at, locals>>,
         DOMAIN trainer' = BatchJobs,
         \A j \in BatchJobs : trainer'[j] # "none" => trainer[j] # "none"
  PROVE  PhaseInv'
<1>1. /\ UNCHANGED <<rows, claims, intent, claimFile, identity, wave>>
      /\ UNCHANGED <<at, who, count, chosen>>
  BY DEF secrets, bindings, locals
<1>2. LocalInv'
  BY <1>1 DEF PhaseInv, LocalInv
<1> QED
  BY <1>1, <1>2, QuietSteps DEF PhaseInv, BindInv

\* A job goes on: the command is not clearing, and loses nothing.
LEMMA HolderSteps ==
  ASSUME PhaseInv, NEW j \in BatchJobs, claimFile[j] # None,
         \/ W!Begin(claimFile[j]) \/ W!MarkTrained(claimFile[j])
         \/ \E out \in Outputs : W!Complete(claimFile[j], out)
         \/ \E f \in Errors : W!Fail(claimFile[j], f),
         UNCHANGED <<secrets, bindings, at, locals>>,
         DOMAIN trainer' = BatchJobs,
         \A i \in BatchJobs : trainer'[i] # "none" => trainer[i] # "none"
  PROVE  PhaseInv'
<1>1. Moved(j)
  BY BatchAssumption, Moves DEF PhaseInv, FileInv
<1>2. UNCHANGED <<intent, claimFile, identity, wave, at, who, count, chosen>>
  BY DEF secrets, bindings, locals
<1>3. /\ FileInv'
      /\ Active' \subseteq Active
      /\ \A i \in BatchJobs : OwnerOf(i)' = OwnerOf(i)
      /\ \A i \in Active' : rows'[i].token = rows[i].token
  BY <1>1, <1>2, MovedKeeps DEF PhaseInv
<1>4. LocalInv'
  BY <1>2 DEF PhaseInv, LocalInv
<1>5. Kept' \subseteq Kept /\ Kept \subseteq BatchJobs /\ Active \subseteq BatchJobs
  BY <1>2, <1>3 DEF Kept, Active
<1>6. ClaimInv'
  BY <1>2, <1>3, <1>5 DEF PhaseInv, ClaimInv, Kept
<1>7. Intents' = Intents /\ at \notin {"clear", "unbind"}
  BY <1>1, <1>2 DEF Intents, PhaseInv, BindInv, Moved
<1>8. BoundWhileClaimed'
  BY <1>2, <1>3, <1>5, <1>7 DEF PhaseInv, BindInv, BoundWhileClaimed
<1>9. BindInv'
  BY <1>2, <1>3, <1>5, <1>7, <1>8 DEF PhaseInv, BindInv
<1> QED
  BY <1>3, <1>4, <1>6, <1>9 DEF PhaseInv

LEMMA ChildSteps ==
  ASSUME PhaseInv, NEW j \in BatchJobs,
         TrainerStep(j) \/ TrainerDies(j) \/ OrphanDies(j)
  PROVE  PhaseInv'
<1>1. UNCHANGED <<secrets, bindings, at, locals>>
  BY DEF TrainerStep, TrainerDies, OrphanDies, BeginOrResume, SaveCheckpoint,
         FinishTraining, TrainingFails, TrainerFrame
<1>2. trainer[j] # "none" /\ claimFile[j] # None
  BY DEF TrainerStep, TrainerDies, OrphanDies, BeginOrResume, SaveCheckpoint,
         FinishTraining, TrainingFails, Live, PhaseInv, LocalInv
<1>3. UNCHANGED trainer \/ \E step : Proceed(j, step)
  BY DEF TrainerStep, TrainerDies, OrphanDies, BeginOrResume, SaveCheckpoint,
         FinishTraining, TrainingFails
<1>4. DOMAIN trainer' = BatchJobs
  BY <1>3 DEF Proceed, PhaseInv, LocalInv
<1>5. \A i \in BatchJobs : trainer'[i] # "none" => trainer[i] # "none"
  BY <1>2, <1>3 DEF Proceed, PhaseInv, LocalInv
<1>6. \/ W!Begin(claimFile[j]) \/ W!MarkTrained(claimFile[j])
      \/ \E f \in Errors : W!Fail(claimFile[j], f)
      \/ UNCHANGED <<rows, claims>>
  BY DEF TrainerStep, TrainerDies, OrphanDies, BeginOrResume, SaveCheckpoint,
         FinishTraining, TrainingFails, W!RecordCheckpoint, workflow
<1>7. CASE UNCHANGED <<rows, claims>>
  BY <1>1, <1>4, <1>5, <1>7, TrainerQuiet
<1> QED
  BY <1>1, <1>2, <1>4, <1>5, <1>6, <1>7, HolderSteps

LEMMA EvaluationSteps ==
  ASSUME PhaseInv, NEW j \in BatchJobs,
         \/ \E a \in Artifacts : AuditResume(j, a)
         \/ \E out \in Outputs : CompleteJob(j, out)
  PROVE  PhaseInv'
<1>1. Evaluates(j) /\ at = "evaluate" /\ j \in chosen
  BY DEF AuditResume, CompleteJob, Evaluates
<1>2. UNCHANGED <<secrets, bindings, at, locals>> /\ trainer' = trainer
  BY <1>1 DEF Evaluates, Goto
<1>3. claimFile[j] # None /\ DOMAIN trainer' = BatchJobs
  BY <1>1, <1>2 DEF PhaseInv, LocalInv
<1>4. CASE \E a \in Artifacts : AuditResume(j, a)
  <2>1. UNCHANGED <<rows, claims>>
    BY <1>4 DEF AuditResume, W!PublishResumeAudit
  <2> QED
    BY <1>2, <1>3, <2>1, TrainerQuiet
<1>5. CASE \E out \in Outputs : CompleteJob(j, out)
  <2>1. \E out \in Outputs : W!Complete(claimFile[j], out)
    BY <1>5 DEF CompleteJob
  <2> QED
    BY <1>2, <1>3, <2>1, HolderSteps
<1> QED
  BY <1>4, <1>5

\* A batch binds itself before it claims.
LEMMA StartBatchStep ==
  ASSUME PhaseInv, NEW o \in BatchOwners, NEW p \in Policies, NEW n \in Slots, StartBatch(o, p, n)
  PROVE  PhaseInv'
<1>1. /\ UNCHANGED <<rows, claims, intent, claimFile, wave, trainer, chosen>>
      /\ identity \in {None, [owner |-> o, policy |-> p]}
      /\ identity' = [owner |-> o, policy |-> p]
      /\ at' = "plan" /\ who' = o /\ count' = n
      /\ Intents \subseteq Batch(o)
      /\ \A j \in Active : OwnerOf(j) \in Batch(o)
  BY DEF StartBatch, Recoverable, workflow, secrets
<1>2. /\ FileInv' /\ Active' = Active /\ Kept' = Kept /\ Intents' = Intents
      /\ \A j : State(j)' = State(j) /\ OwnerOf(j)' = OwnerOf(j)
  BY <1>1, FilesFrame DEF PhaseInv
<1>3. identity' # None /\ identity'.owner = o
  BY <1>1, BatchAssumption
<1>4. LocalInv'
  BY <1>1, BatchAssumption DEF PhaseInv, LocalInv, Slots
<1>5. ClaimInv'
  BY <1>1 DEF ClaimInv
<1>6. \A b \in BatchOwners : b # o => Batch(b) \cap Batch(o) = {}
  BY DEF Batch
<1>7. BoundWhileClaimed'
  BY <1>1, <1>2, <1>3, <1>6 DEF BoundWhileClaimed
<1>8. BindInv'
  BY <1>1, <1>2, <1>3, <1>7 DEF PhaseInv, BindInv
<1> QED
  BY <1>2, <1>4, <1>5, <1>8 DEF PhaseInv

\* When nothing is intended any more, every active job has a claim file.
LEMMA NothingIntended ==
  ASSUME PhaseInv, Intents = {}
  PROVE  \A j \in Active : j \in Kept /\ claimFile[j].owner = OwnerOf(j)
<1> SUFFICES ASSUME NEW j \in Active
             PROVE  j \in Kept /\ claimFile[j].owner = OwnerOf(j)
  OBVIOUS
<1>1. OwnerOf(j) \in Claimants /\ rows[j].token # None /\ j \in BatchJobs
  BY DEF PhaseInv, FileInv, TokensDiffer, Active
<1>2. intent[OwnerOf(j)] = None
  BY <1>1 DEF Intents
<1> QED
  BY <1>1, <1>2 DEF PhaseInv, FileInv, TokenKept, FilesMatch, Kept

\* The wave of a batch is all that is active.
LEMMA WaveIsAll ==
  ASSUME PhaseInv, who \in BatchOwners, wave # {}
  PROVE  Intents = {} /\ Active \subseteq wave
<1>1. \A b \in BatchOwners : Single \notin Batch(b)
  BY BatchAssumption DEF Batch, Slots
<1> QED
  BY <1>1 DEF PhaseInv, BindInv

LEMMA PublishWaveStep ==
  ASSUME PhaseInv, PublishWave
  PROVE  PhaseInv'
<1>1. /\ at = "plan" /\ who \in BatchOwners /\ BatchIntents = {}
      /\ wave' = {j \in Kept : claimFile[j].owner \in Batch(who)}
      /\ at' = IF wave' = {} THEN "clear" ELSE "plan"
      /\ UNCHANGED <<rows, claims, intent, claimFile, identity, trainer, who, count, chosen>>
  BY DEF PublishWave, Preparing, Goto, locals, workflow, secrets, PhaseInv, LocalInv
<1>2. /\ FileInv' /\ Active' = Active /\ Kept' = Kept /\ Intents' = Intents
      /\ \A j : State(j)' = State(j) /\ OwnerOf(j)' = OwnerOf(j)
  BY <1>1, FilesFrame DEF PhaseInv
<1>3. Intents = {}
  BY <1>1 DEF BatchIntents, PhaseInv, BindInv
<1>4. Active \subseteq wave'
  BY <1>1, <1>3, NothingIntended DEF PhaseInv, BindInv
<1>5. LocalInv'
  BY <1>1 DEF PhaseInv, LocalInv, Kept, Active
<1>6. ClaimInv'
  BY <1>1 DEF ClaimInv
<1>7. BoundWhileClaimed'
  BY <1>1, <1>2 DEF PhaseInv, BindInv, BoundWhileClaimed
<1>8. BindInv'
  BY <1>1, <1>2, <1>3, <1>4, <1>7 DEF PhaseInv, BindInv
<1> QED
  BY <1>2, <1>5, <1>6, <1>8 DEF PhaseInv

\* A batch goes on to clear only when nothing of it is left.
LEMMA ToClear ==
  ASSUME PhaseInv, LocalInv', wave # {}, who \in BatchOwners, Unfinished = {},
         at' = "clear", UNCHANGED <<rows, claims, intent, claimFile, bindings, who>>
  PROVE  PhaseInv'
<1>1. /\ FileInv' /\ Active' = Active /\ Kept' = Kept /\ Intents' = Intents
      /\ \A j : State(j)' = State(j) /\ OwnerOf(j)' = OwnerOf(j)
  BY FilesFrame DEF PhaseInv
<1>2. UNCHANGED <<identity, wave>>
  BY DEF bindings
<1>3. \A j \in wave : State(j) = "completed"
  BY DEF Unfinished, W!Status, W!Columns, State
<1>4. Intents = {} /\ Active = {}
  BY <1>3, WaveIsAll, ActiveIs DEF ActiveStates
<1>5. ClaimInv'
  BY DEF ClaimInv
<1>6. BoundWhileClaimed'
  BY <1>1, <1>4 DEF BoundWhileClaimed
<1>7. BindInv'
  BY <1>1, <1>2, <1>3, <1>4, <1>6 DEF PhaseInv, BindInv
<1> QED
  BY <1>1, <1>5, <1>7 DEF PhaseInv

LEMMA WaveSteps ==
  ASSUME PhaseInv, RunWave \/ FinishCommand
  PROVE  PhaseInv'
<1>1. UNCHANGED <<rows, claims, intent, claimFile, bindings, identity, wave>>
  BY DEF RunWave, FinishCommand, workflow, secrets, bindings
<1>2. ASSUME Return, UNCHANGED trainer
      PROVE  PhaseInv'
  <2>1. LocalInv' /\ at' = "idle" /\ who' = None
    BY <1>1, <1>2, BatchAssumption DEF Return, PhaseInv, LocalInv
  <2> QED
    BY <1>1, <2>1, QuietSteps
<1>3. ASSUME Goto("clear"), UNCHANGED trainer, wave # {}, who \in BatchOwners, Unfinished = {}
      PROVE  PhaseInv'
  <2>1. at' = "clear" /\ UNCHANGED <<who, count, chosen>>
    BY <1>3 DEF Goto, locals
  <2>2. LocalInv'
    BY <1>1, <1>3, <2>1, BatchAssumption DEF PhaseInv, LocalInv
  <2> QED
    BY <1>1, <1>3, <2>1, <2>2, ToClear
<1>4. CASE RunWave
  <2>1. at = "plan" /\ wave # {} /\ who \in BatchOwners
    BY <1>4 DEF RunWave, PhaseInv, LocalInv
  <2>2. CASE Train(Subwave)
    <3>1. Subwave \subseteq wave
      BY DEF Subwave, Unfinished
    <3>2. at' = "train" /\ UNCHANGED <<who, count>> /\ chosen' = Subwave
          /\ trainer' = [j \in BatchJobs |-> IF j \in Subwave THEN "start" ELSE "none"]
      BY <2>2 DEF Train
    <3> HIDE DEF Subwave
    <3>3. LocalInv'
      BY <1>1, <2>1, <3>1, <3>2 DEF PhaseInv, LocalInv
    <3> QED
      BY <1>1, <2>1, <3>2, <3>3, QuietSteps
  <2> QED
    BY <1>2, <1>3, <1>4, <2>1, <2>2 DEF RunWave
<1>5. CASE FinishCommand
  <2>1. at = "evaluate" /\ who # Single => who \in BatchOwners /\ wave # {}
    BY DEF PhaseInv, LocalInv, BindInv
  <2> QED
    BY <1>2, <1>3, <1>5, <2>1 DEF FinishCommand
<1> QED
  BY <1>4, <1>5

LEMMA ClearSteps ==
  ASSUME PhaseInv, ClearWave \/ ClearIdentity
  PROVE  PhaseInv'
<1>1. /\ UNCHANGED <<rows, claims, intent, claimFile, trainer>>
      /\ at \in {"clear", "unbind"} /\ who \in BatchOwners
      /\ Intents = {} /\ Active = {}
  BY DEF ClearWave, ClearIdentity, workflow, secrets, PhaseInv, LocalInv, BindInv
<1>2. /\ FileInv' /\ Active' = {} /\ Intents' = {}
  BY <1>1, FilesFrame DEF PhaseInv
<1>3. ClaimInv'
  BY <1>2 DEF ClaimInv, Kept
<1>4. BoundWhileClaimed'
  BY <1>2 DEF BoundWhileClaimed
<1>5. wave' = {}
  BY DEF ClearWave, ClearIdentity, PhaseInv, BindInv
<1>6. CASE ClearWave
  <2>1. at' = "unbind" /\ UNCHANGED <<identity, who, count, chosen>>
    BY <1>6 DEF ClearWave, Goto, locals
  <2>2. LocalInv'
    BY <1>1, <1>5, <2>1 DEF PhaseInv, LocalInv
  <2>3. BindInv'
    BY <1>1, <1>2, <1>4, <1>5, <2>1 DEF PhaseInv, BindInv
  <2> QED
    BY <1>2, <1>3, <2>2, <2>3 DEF PhaseInv
<1>7. CASE ClearIdentity
  <2>1. at' = "idle" /\ who' = None /\ count' = 0 /\ chosen' = {}
    BY <1>7 DEF ClearIdentity, Return
  <2>2. LocalInv'
    BY <1>1, <1>5, <2>1, BatchAssumption DEF PhaseInv, LocalInv
  <2>3. BindInv'
    BY <1>4, <1>5, <2>1, BatchAssumption DEF BindInv
  <2> QED
    BY <1>2, <1>3, <2>2, <2>3 DEF PhaseInv
<1> QED
  BY <1>6, <1>7

-----------------------------------------------------------------------------
(* The theorems. *)

LEMMA StepKeeps ==
  ASSUME PhaseInv, BatchNext
  PROVE  PhaseInv'
<1>1. CASE Step
  BY <1>1, PrepareSteps, SingleSteps, CommandSteps, EvaluationSteps, PublishWaveStep,
     WaveSteps, ClearSteps DEF Step
<1>2. CASE Start
  BY <1>2, StartBatchStep, CommandSteps DEF Start
<1> QED
  BY <1>1, <1>2, CommandSteps, ChildSteps DEF BatchNext

\* PhaseInv holds in every state, whatever mix of commands and crashes led to it.
THEOREM PhaseInvariant == BatchSpec => []PhaseInv
<1>1. BatchInit => PhaseInv
  <2> SUFFICES ASSUME BatchInit
               PROVE  PhaseInv
    OBVIOUS
  <2>1. /\ claims = {}
        /\ intent = [o \in Claimants |-> None]
        /\ claimFile = [j \in BatchJobs |-> None]
        /\ identity = None /\ wave = {} /\ at = "idle" /\ who = None
        /\ count = 0 /\ chosen = {}
        /\ trainer = [j \in BatchJobs |-> "none"]
        /\ rows = [j \in BatchJobs |-> W!JobRow(W!Blank("pending"), None)]
    BY DEF BatchInit, W!WorkflowInit
  <2>2. W!Blank("pending") \in W!History /\ W!Blank("pending").status = "pending"
    BY DEF W!Blank, W!History, W!Statuses
  <2>3. rows \in [BatchJobs -> W!Rows] /\ \A j \in BatchJobs : State(j) = "pending"
    BY <2>1, <2>2 DEF W!JobRow, W!Rows, State
  <2>4. Active = {} /\ Kept = {} /\ Intents = {}
    BY <2>1, <2>3, ActiveIs DEF ActiveStates, Kept, Intents
  <2>5. FileInv
    BY <2>1, <2>3, <2>4
       DEF FileInv, TableTyped, FilesMatch, TokenKept, TokensDiffer, OneJobPerSlot
  <2>6. LocalInv
    BY <2>1, BatchAssumption DEF LocalInv
  <2>7. ClaimInv /\ BindInv
    BY <2>1, <2>4, BatchAssumption DEF ClaimInv, BindInv, BoundWhileClaimed
  <2> QED
    BY <2>5, <2>6, <2>7 DEF PhaseInv
<1>2. PhaseInv /\ [BatchNext]_vars => PhaseInv'
  <2> SUFFICES ASSUME PhaseInv, [BatchNext]_vars
               PROVE  PhaseInv'
    OBVIOUS
  <2>1. CASE UNCHANGED vars
    <3>1. /\ UNCHANGED <<rows, claims, secrets, bindings, at, locals>> /\ trainer' = trainer
      BY <2>1 DEF vars, workflow
    <3>2. DOMAIN trainer' = BatchJobs
      BY <3>1 DEF PhaseInv, LocalInv
    <3> QED
      BY <3>1, <3>2, TrainerQuiet
  <2> QED
    BY <2>1, StepKeeps
<1> QED
  BY <1>1, <1>2, PTL DEF BatchSpec

\* An active job has its bearer token in a file that the next command of its
\* owner reads.
THEOREM SecretsAreKept == BatchSpec => []NoSecretIsLost
<1>1. PhaseInv => NoSecretIsLost
  <2> SUFFICES ASSUME PhaseInv, NEW j \in Active
               PROVE  \/ claimFile[j] # None /\ W!Authorizes(claimFile[j], W!Active)
                      \/ W!Status(j) = "claimed" /\ intent[OwnerOf(j)] = rows[j].token
    BY DEF NoSecretIsLost
  <2>1. j \in BatchJobs /\ W!Status(j) \in W!Active
    BY DEF Active
  <2>2. CASE claimFile[j] # None
    <3>1. /\ claimFile[j].job = j /\ claimFile[j].token = rows[j].token
          /\ claimFile[j].owner = rows[j].columns.owner
      BY <2>1, <2>2 DEF PhaseInv, FileInv, FilesMatch, OwnerOf
    <3> QED
      BY <2>1, <2>2, <3>1 DEF W!Authorizes
  <2>3. CASE claimFile[j] = None
    BY <2>3 DEF PhaseInv, FileInv, TokenKept, W!Status, W!Columns, State
  <2> QED
    BY <2>2, <2>3
<1> QED
  BY <1>1, PhaseInvariant, PTL

\* No slot and no single command ever owns two active jobs.
THEOREM OwnersHaveOneJob == BatchSpec => []OneJobPerSlot
<1>1. PhaseInv => OneJobPerSlot
  BY DEF PhaseInv, FileInv
<1> QED
  BY <1>1, PhaseInvariant, PTL

\* The identity file names the batch that has intents or active jobs.
THEOREM ClaimsAreBound == BatchSpec => []BoundWhileClaimed
<1>1. PhaseInv => BoundWhileClaimed
  BY DEF PhaseInv, BindInv
<1> QED
  BY <1>1, PhaseInvariant, PTL

\* A published wave lists every active job that a batch has claimed.
THEOREM WavesAreWhole == BatchSpec => []WaveHoldsTheBatch
<1>1. PhaseInv => WaveHoldsTheBatch
  BY DEF PhaseInv, BindInv, WaveHoldsTheBatch
<1> QED
  BY <1>1, PhaseInvariant, PTL

\* A wave is only ever cleared, and only when all its jobs are complete.
THEOREM WavesAreImmutable == BatchSpec => WaveIsImmutable
<1>1. PhaseInv /\ [BatchNext]_vars =>
        [wave # {} /\ wave' # wave =>
           wave' = {} /\ \A j \in wave : W!Status(j) = "completed"]_vars
  <2> SUFFICES ASSUME PhaseInv, BatchNext, wave # {}, wave' # wave
               PROVE  wave' = {} /\ \A j \in wave : W!Status(j) = "completed"
    OBVIOUS
  <2>1. ClearWave
    BY DEF BatchNext, Step, Start, OpenSlot, WriteIntent, SkipSlot, NextSlot, ClaimForSlot,
           ClaimWithIntent, WriteClaim, CloseSlot, UnlinkIntent, PublishWave, Preparing,
           RunWave, ClearIdentity, ClaimSingle, SingleClaimed, TrainSingle, StopPool, JoinPool,
           AuditResume, CompleteJob, Evaluates, FinishCommand, StartBatch, StartSingle, Crash,
           TrainerStep, TrainerDies, OrphanDies, BeginOrResume, SaveCheckpoint,
           FinishTraining, TrainingFails, TrainerFrame, bindings
  <2> QED
    BY <2>1 DEF ClearWave, PhaseInv, BindInv, W!Status, W!Columns, State
<1> QED
  BY <1>1, PhaseInvariant, PTL DEF BatchSpec, WaveIsImmutable

-----------------------------------------------------------------------------
(* Types. *)

TrainerStates == {"none", "start", "update", "done", "error"}
Steps == {"idle", "plan", "claim", "adopt", "train", "evaluate", "clear", "unbind"}

\* The slot that a batch prepares stays in bounds because the only intent it can
\* still have is that slot's, and it has none beyond the last slot.
SlotInv ==
  /\ slot \in 0..(MaxSlots + 1)
  /\ at = "idle" => slot = 0
  /\ Preparing /\ slot # 0 =>
       /\ BatchIntents \subseteq {<<who, slot>>}
       /\ slot > count => BatchIntents = {}

KindInv ==
  /\ claimFile = [j \in BatchJobs |-> claimFile[j]]
  /\ identity \in [owner : BatchOwners, policy : Policies] \cup {None}
  /\ trainer \in [BatchJobs -> TrainerStates]
  /\ at \in Steps
  /\ SlotInv

LEMMA SlotFrame ==
  ASSUME SlotInv, UNCHANGED <<intent, wave, at, who, count, slot>>
  PROVE  SlotInv'
BY DEF SlotInv, Preparing, BatchIntents, Intents

\* Steps that no longer prepare.
LEMMA SlotLeft ==
  ASSUME SlotInv, slot' \in {slot, 0}, at' = "idle" => slot' = 0,
         ~Preparing' \/ slot' = 0
  PROVE  SlotInv'
<1>1. 0 \in 0..(MaxSlots + 1)
  BY BatchAssumption
<1> QED
  BY <1>1 DEF SlotInv

LEMMA PrepareKinds ==
  ASSUME PhaseInv, KindInv,
         \/ \E t \in Tokens : OpenSlot(t)
         \/ SkipSlot
         \/ \E s \in Slots : ClaimForSlot(s) \/ CloseSlot(s)
  PROVE  KindInv'
<1>1. MaxSlots \in Nat /\ count \in 0..MaxSlots /\ slot \in Nat
  BY BatchAssumption DEF PhaseInv, LocalInv, KindInv, SlotInv
<1>2. DOMAIN intent = Claimants /\ intent = [o \in Claimants |-> intent[o]]
  BY DEF PhaseInv, FileInv, TableTyped
<1>3. ASSUME NEW t \in Tokens, OpenSlot(t)
      PROVE  KindInv'
  <2>1. /\ UNCHANGED <<claimFile, identity, trainer, at, slot, who, count, wave>>
        /\ intent' = [intent EXCEPT ![<<who, slot>>] = t]
        /\ BatchIntents = {} /\ slot \in 1..count
    BY <1>3 DEF OpenSlot, WriteIntent, Goto, locals, bindings, Preparing
  <2>2. BatchIntents' \subseteq {<<who, slot>>}
    BY <1>2, <2>1 DEF BatchIntents, Intents, Batch
  <2>3. SlotInv'
    BY <1>1, <2>1, <2>2 DEF KindInv, SlotInv
  <2> QED
    BY <2>1, <2>3 DEF KindInv
<1>4. CASE SkipSlot
  <2>1. /\ UNCHANGED <<claimFile, intent, identity, trainer, at, who, count, wave>>
        /\ BatchIntents = {} /\ slot <= count /\ slot' = slot + 1 /\ at = "plan"
    BY <1>4 DEF SkipSlot, NextSlot, Preparing, secrets, bindings
  <2>2. BatchIntents' = {}
    BY <2>1 DEF BatchIntents, Intents
  <2>3. slot' \in 0..(MaxSlots + 1)
    BY <1>1, <2>1
  <2>4. SlotInv'
    BY <2>1, <2>2, <2>3 DEF SlotInv
  <2> QED
    BY <2>1, <2>4 DEF KindInv
<1>5. ASSUME NEW s \in Slots, ClaimForSlot(s)
      PROVE  KindInv'
  <2>1. UNCHANGED <<intent, identity, trainer, at, slot, who, count, wave>>
    BY <1>5 DEF ClaimForSlot, ClaimWithIntent, WriteClaim, Goto, locals, secrets, bindings, Pending,
      Preparing
  <2>2. claimFile' = [j \in BatchJobs |-> claimFile'[j]]
    BY <1>5 DEF ClaimForSlot, ClaimWithIntent, WriteClaim, secrets, KindInv
  <2> QED
    BY <2>1, <2>2, SlotFrame DEF KindInv
<1>6. ASSUME NEW s \in Slots, CloseSlot(s)
      PROVE  KindInv'
  <2>1. /\ UNCHANGED <<claimFile, identity, trainer, at, who, count, wave>>
        /\ intent' = [intent EXCEPT ![<<who, s>>] = None] /\ intent[<<who, s>>] # None
        /\ slot' = IF slot = 0 THEN 0 ELSE slot + 1
        /\ Preparing
    BY <1>6 DEF CloseSlot, UnlinkIntent, Pending, bindings
  <2>2. CASE slot = 0
    BY <2>1, <2>2, SlotLeft DEF KindInv, Preparing
  <2>3. CASE slot # 0
    <3>1. who \in BatchOwners
      BY <2>1 DEF Preparing, PhaseInv, LocalInv
    <3>2. <<who, s>> \in BatchIntents
      BY <2>1, <3>1 DEF BatchIntents, Intents, Batch, Claimants, Workers
    <3>3. BatchIntents \subseteq {<<who, slot>>} /\ ~(slot > count)
      BY <2>1, <2>3, <3>2 DEF KindInv, SlotInv
    <3>4. BatchIntents' = {}
      BY <1>2, <2>1, <3>2, <3>3 DEF BatchIntents, Intents, Batch
    <3>5. slot' \in 0..(MaxSlots + 1)
      BY <1>1, <2>1, <2>3, <3>3
    <3>6. SlotInv'
      BY <2>1, <3>4, <3>5 DEF SlotInv, Preparing
    <3> QED
      BY <2>1, <3>6 DEF KindInv
  <2> QED
    BY <2>2, <2>3
<1> QED
  BY <1>3, <1>4, <1>5, <1>6

LEMMA CommandKinds ==
  ASSUME PhaseInv, KindInv,
         \/ PublishWave \/ RunWave \/ ClearWave \/ ClearIdentity
         \/ ClaimSingle \/ SingleClaimed \/ TrainSingle
         \/ StopPool \/ JoinPool \/ FinishCommand \/ StartSingle \/ Crash
  PROVE  KindInv'
<1>1. claimFile' = [j \in BatchJobs |-> claimFile'[j]]
  BY DEF KindInv, PublishWave, RunWave, ClearWave, ClearIdentity, ClaimSingle, SingleClaimed,
    TrainSingle, StopPool, JoinPool, FinishCommand, StartSingle, Crash, secrets,
    WriteIntent, ClaimWithIntent, WriteClaim, UnlinkIntent
<1>2. identity' \in {identity, None}
  BY DEF PublishWave, RunWave, ClearWave, ClearIdentity, ClaimSingle, SingleClaimed,
    TrainSingle, StopPool, JoinPool, FinishCommand, StartSingle, Crash, bindings,
    WriteIntent, ClaimWithIntent, WriteClaim, UnlinkIntent
<1>3. trainer' \in [BatchJobs -> TrainerStates]
  <2>1. ASSUME NEW jobs, Train(jobs)
        PROVE  trainer' \in [BatchJobs -> TrainerStates]
    BY <2>1 DEF Train, TrainerStates
  <2>2. CASE UNCHANGED trainer
    BY <2>2 DEF KindInv
  <2>3. CASE StartSingle
    BY <2>3 DEF StartSingle, KindInv, TrainerStates
  <2>4. CASE Crash
    BY <2>4 DEF Crash, KindInv, TrainerStates
  <2>5. CASE StopPool \/ JoinPool
    BY <2>5 DEF StopPool, JoinPool, TrainerStates
  <2>6. CASE TrainSingle
    BY <2>1, <2>6 DEF TrainSingle
  <2>7. CASE RunWave
    BY <2>1, <2>2, <2>7 DEF RunWave
  <2>8. CASE PublishWave \/ ClearWave \/ ClearIdentity \/ ClaimSingle \/ SingleClaimed
               \/ FinishCommand
    BY <2>2, <2>8 DEF PublishWave, ClearWave, ClearIdentity, ClaimSingle, SingleClaimed,
      FinishCommand, WriteIntent, ClaimWithIntent, WriteClaim, UnlinkIntent
  <2> QED
    BY <2>3, <2>4, <2>5, <2>6, <2>7, <2>8
<1>4. \/ at' = "idle" /\ slot' = 0
      \/ /\ at' \in {"claim", "adopt", "train", "evaluate", "clear", "unbind"}
         /\ slot' = slot
      \/ PublishWave /\ at' = "plan" /\ slot' = slot /\ wave' # {}
  BY DEF PublishWave, RunWave, ClearWave, ClearIdentity, ClaimSingle, SingleClaimed,
    TrainSingle, Train, StopPool, JoinPool, FinishCommand, StartSingle, Crash, Goto, Return, locals
<1>5. at' \in Steps /\ SlotInv'
  <2>1. slot' \in {slot, 0} /\ (at' = "idle" => slot' = 0) /\ ~Preparing'
    BY <1>4 DEF Preparing
  <2>2. at' \in Steps
    BY <1>4 DEF Steps
  <2> QED
    BY <2>1, <2>2, SlotLeft DEF KindInv
<1> QED
  BY <1>1, <1>2, <1>3, <1>5 DEF KindInv

LEMMA ChildKinds ==
  ASSUME PhaseInv, KindInv, NEW j \in BatchJobs,
         \/ TrainerStep(j) \/ TrainerDies(j) \/ OrphanDies(j)
         \/ \E a \in Artifacts : AuditResume(j, a)
         \/ \E out \in Outputs : CompleteJob(j, out)
  PROVE  KindInv'
<1>1. UNCHANGED <<secrets, bindings, at, locals>>
  BY DEF TrainerStep, TrainerDies, OrphanDies, BeginOrResume, SaveCheckpoint,
    FinishTraining, TrainingFails, TrainerFrame, AuditResume, CompleteJob, Evaluates, Goto
<1>2. UNCHANGED trainer \/ \E step \in TrainerStates : Proceed(j, step)
  BY DEF TrainerStep, TrainerDies, OrphanDies, BeginOrResume, SaveCheckpoint,
    FinishTraining, TrainingFails, AuditResume, CompleteJob, Evaluates, TrainerStates
<1>3. trainer' \in [BatchJobs -> TrainerStates]
  BY <1>2 DEF Proceed, KindInv
<1> QED
  BY <1>1, <1>3, SlotFrame DEF KindInv, secrets, bindings, locals

LEMMA StartKinds ==
  ASSUME PhaseInv, KindInv, NEW o \in BatchOwners, NEW p \in Policies, NEW n \in Slots,
         StartBatch(o, p, n)
  PROVE  KindInv'
<1>1. /\ UNCHANGED <<claimFile, trainer>>
      /\ identity' = [owner |-> o, policy |-> p]
      /\ at' = "plan" /\ slot' = slot /\ slot = 0
  BY DEF StartBatch, secrets, KindInv, SlotInv
<1> QED
  BY <1>1, SlotLeft DEF KindInv, Steps

LEMMA KindsHold == BatchSpec => []KindInv
<1>1. BatchInit => KindInv
  BY BatchAssumption DEF BatchInit, KindInv, SlotInv, Preparing, TrainerStates, Steps
<1>2. PhaseInv /\ KindInv /\ [BatchNext]_vars => KindInv'
  <2> SUFFICES ASSUME PhaseInv, KindInv, [BatchNext]_vars
               PROVE  KindInv'
    OBVIOUS
  <2>1. CASE UNCHANGED vars
    BY <2>1, SlotFrame DEF vars, KindInv, secrets, bindings, locals
  <2> QED
    BY <2>1, PrepareKinds, CommandKinds, ChildKinds, StartKinds DEF BatchNext, Step, Start
<1> QED
  BY <1>1, <1>2, PhaseInvariant, PTL DEF BatchSpec

\* The table, the private files and the variables of the running command hold
\* their kinds of value; the loop over the slots ends one past the last.
THEOREM BatchTypeCorrect == BatchSpec => []BatchTypeOK
<1>1. PhaseInv /\ KindInv => BatchTypeOK
  <2> SUFFICES ASSUME PhaseInv, KindInv
               PROVE  BatchTypeOK
    OBVIOUS
  <2>1. claimFile \in [BatchJobs -> claims \cup {None}]
    BY DEF KindInv, PhaseInv, FileInv, FilesMatch
  <2> QED
    BY <2>1 DEF BatchTypeOK, KindInv, SlotInv, TrainerStates, Steps, PhaseInv, FileInv,
      TableTyped, LocalInv
<1> QED
  BY <1>1, PhaseInvariant, KindsHold, PTL
==============================================================================
