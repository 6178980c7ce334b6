------------------------- MODULE CalibrationRunProofs -------------------------
(***************************************************************************)
(* The theorems about the calibration of the original game: no press is    *)
(* off the record or felt twice, every press is let go of while its claim  *)
(* lasts, a harness that says its buttons are neutral is right if its      *)
(* release-all was not interrupted, and each sample of a journal that      *)
(* qualifies is one whole press.                                           *)
(*                                                                         *)
(* All four rest on the two pipes: requests and answers are numbered and   *)
(* in order, so an answer with the number of the last request finds the    *)
(* pipe to the broker empty.                                               *)
(***************************************************************************)
EXTENDS CalibrationRun, TLAPS

Methods == {"claim", "renew", "capture", "button_up", "release_all", "release_claim"}
Attempts == 1 .. Cells
Requests ==
  [method : Methods, sequence : Int]
    \cup [method : {"button_down"}, sequence : Int, attempt : Attempts,
          latest : Int, deadline : Int, observed : Int]
Frames == [observed : Int, usable : BOOLEAN]
Results ==
  Int \cup Frames \cup [injected : Int, deadline : Int] \cup {"released", "neutral", None}
Answers == [sequence : Int, result : Results]
Buttons == [down : BOOLEAN, attempt : Attempts, injected : Int, deadline : Int, observed : Int]
Felt == [attempt : Attempts, by : {"broker", "button_up"}, injected : Int, released : Int]
Shots ==
  [attempt : Int \cup {None}, latest : Int, deadline : Int, injected : Int, released : Int]
Lines ==
  [line : {"intent"}, attempt : Attempts]
    \cup [line : {"outcome"}, attempt : Attempts, status : {"completed", "failed"},
          seen : Int \cup {None}]
    \cup {Torn}

HarnessType ==
  /\ now \in Int /\ link \in {"open", "closed", "gone"}
  /\ inbox \in Seq(Requests) /\ outbox \in Seq(Answers)
  /\ claim \in Int \cup {None} /\ button \in Buttons \cup {None} /\ presses \in Seq(Felt)
  /\ sequence \in Int /\ lease \in Int \cup {None} /\ neutral \in BOOLEAN
  /\ buffer \in Seq(Frames) /\ shot \in Shots

RunnerType ==
  /\ journal \in Seq(Lines) /\ pending \in BOOLEAN /\ attempted \in 0 .. Cells
  /\ effect \in Int \cup {None}

Quiet == {"ready", "armed", "holding"}
Calling == {"claiming", "framing", "renewing", "pressing", "releasing"}
Shooting == {"renewing", "armed", "pressing", "holding", "releasing"}
Leased == {"framing", "ready"} \cup Shooting

\* What the harness has wherever it is.
LeaseInv ==
  /\ at \in Leased \cup {"neutralizing", "unclaiming"} => lease \in Int
  /\ at = "claiming" => lease = None
  /\ at \in {"ready"} \cup Shooting => buffer # <<>>
  /\ at \in Shooting => shot.attempt \in Attempts
  /\ at = "off" => link = "gone"
  /\ link = "gone" => inbox = <<>> /\ outbox = <<>> /\ claim = None /\ button = None

AsksFor(method) ==
  \/ at = "claiming" /\ method = "claim"
  \/ at = "framing" /\ method = "capture"
  \/ at = "renewing" /\ method = "renew"
  \/ at = "pressing" /\ method = "button_down"
  \/ at = "releasing" /\ method = "button_up"
  \/ at = "neutralizing" /\ method = "release_all"
  \/ at = "unclaiming" /\ method = "release_claim"
  \/ at \in {"stopped", "abandoned"}

\* The pipes: numbered, in order, and empty between two calls that were answered.
PipeInv ==
  /\ at # "dead" =>
       /\ \A i \in DOMAIN inbox :
            /\ inbox[i].sequence <= sequence
            /\ inbox[i].sequence = sequence => AsksFor(inbox[i].method)
       /\ \A i, j \in DOMAIN inbox : i < j => inbox[i].sequence < inbox[j].sequence
       /\ \A i \in DOMAIN outbox :
            /\ outbox[i].sequence <= sequence
            /\ \A j \in DOMAIN inbox : outbox[i].sequence < inbox[j].sequence
  /\ at \in Quiet => inbox = <<>> /\ outbox = <<>>
  /\ at \in Calling =>
       /\ \A i \in DOMAIN inbox : i = 1 /\ inbox[i].sequence = sequence
       /\ \A i \in DOMAIN outbox : i = 1 /\ outbox[i].sequence = sequence
  /\ \A i \in DOMAIN inbox :
       /\ inbox[i].method = "button_down" => i = 1
       /\ inbox[i].method = "claim" =>
            /\ at \in {"claiming", "stopped", "abandoned", "dead"}
            /\ Len(inbox) = 1 /\ button = None /\ claim = None

\* A claim only grows while it lasts, so what the harness believes of it is on
\* the safe side, and so is every deadline it has put on a request.
CoverInv ==
  /\ PressIsCovered
  /\ \A i \in DOMAIN inbox : inbox[i].method = "button_down" =>
       /\ inbox[i].latest - inbox[i].observed <= Stale
       /\ claim # None => inbox[i].deadline < claim
  /\ at \in Leased /\ claim # None => lease <= claim
  /\ at \in {"claiming", "renewing"} =>
       \A i \in DOMAIN outbox : outbox[i].result # None =>
         outbox[i].result \in Int /\ (claim # None => outbox[i].result <= claim)
  /\ at = "framing" =>
       \A i \in DOMAIN outbox : outbox[i].result # None => outbox[i].result \in Frames

NoPress == button = None /\ \A i \in DOMAIN inbox : inbox[i].method # "button_down"

NeutralInv ==
  /\ NeutralIsTrue
  /\ at = "claiming" => NoPress
  /\ at = "unclaiming" /\ neutral /\ cause # "cut short" =>
       ~Down /\ \A i \in DOMAIN inbox : inbox[i].method # "button_down"
  /\ at \in {"neutralizing", "unclaiming"} =>
       \A i \in DOMAIN outbox :
         outbox[i].sequence = sequence /\ outbox[i].result # None => button = None

\* While its lease and its deadline last, the press of this shot is in the broker's hand.
InTime == now < shot.deadline /\ now < lease
IsHeld(instant) ==
  /\ Down /\ button.attempt = shot.attempt
  /\ button.injected = instant /\ button.deadline = shot.deadline
Matches(press, attempt, injected, released) ==
  /\ press.attempt = attempt /\ press.by = "button_up"
  /\ press.injected = injected /\ press.released = released
IsFelt(released) ==
  \E i \in DOMAIN presses : Matches(presses[i], shot.attempt, shot.injected, released)

HoldInv ==
  /\ at = "pressing" =>
       /\ \A i \in DOMAIN inbox :
            inbox[i].attempt = shot.attempt /\ inbox[i].deadline = shot.deadline
       /\ \A i \in DOMAIN outbox : outbox[i].result # None =>
            /\ outbox[i].result.injected \in Int
            /\ InTime /\ button # None => IsHeld(outbox[i].result.injected)
  /\ at = "holding" => (InTime /\ button # None => IsHeld(shot.injected))
  /\ at = "releasing" =>
       /\ inbox # <<>> => (InTime /\ button # None => IsHeld(shot.injected))
       /\ \A i \in DOMAIN outbox : outbox[i].result # None =>
            /\ outbox[i].result.injected \in Int
            /\ InTime => IsFelt(outbox[i].result.injected)

HarnessInv ==
  HarnessType /\ LeaseInv /\ PipeInv /\ CoverInv /\ NeutralInv /\ HoldInv

\* Where the harness can be in each phase of the runner.
ControlInv ==
  /\ \/ phase = "idle" /\ at = "off"
     \/ phase = "opening" /\ at \in {"claiming", "framing", "ready"} \cup Cleaning
     \/ phase \in {"between", "looking", "recording"} /\ at = "ready"
     \/ phase = "looked" /\ at \in {"framing", "ready"} \cup Cleaning
     \/ phase = "observing" /\ at \in Leased \cup Cleaning
     \/ phase = "exiting" /\ at \in {"ready", "abandoned"} \cup Cleaning
     \/ phase = "over" /\ at \in {"stopped", "abandoned"}
     \/ phase = "dead" /\ at = "dead"
  /\ phase \in {"looking", "looked", "observing", "recording"} => pending
  /\ pending => attempted < Cells /\ Intent(attempted + 1) \in Range(journal)
  /\ at \in Shooting => shot.attempt = attempted + 1

\* What was felt, is felt or waits to be felt.
Asked(a) == \E i \in DOMAIN inbox : inbox[i].method = "button_down" /\ inbox[i].attempt = a
Feels(a) == Down /\ button.attempt = a
HasFelt(a) == \E i \in DOMAIN presses : presses[i].attempt = a
Used(a) == Asked(a) \/ Feels(a) \/ HasFelt(a)

OnRecord ==
  \A a \in Attempts : Used(a) =>
    /\ Intent(a) \in Range(journal)
    /\ phase # "dead" =>
         \/ a <= attempted
         \/ /\ a = attempted + 1 /\ pending
            /\ phase \notin {"looking", "looked"} /\ at \notin {"renewing", "armed"}
OnceInv ==
  /\ \A a \in Attempts :
       /\ Asked(a) => ~Feels(a) /\ ~HasFelt(a)
       /\ Feels(a) => ~HasFelt(a)
  /\ \A i, j \in DOMAIN presses : presses[i].attempt = presses[j].attempt => i = j
RecordInv == OnRecord /\ OnceInv

LongEnough(injected, released) == released - injected \in Press - Error .. Press + Error
Sampled(attempt, seen) ==
  \E i \in DOMAIN presses :
    /\ presses[i].attempt = attempt /\ presses[i].by = "button_up"
    /\ LongEnough(presses[i].injected, presses[i].released)
    /\ presses[i].released <= seen
IsSample(line) == line.line = "outcome" /\ line.status = "completed"

FeltInv ==
  phase = "observing" /\ at \in {"ready", "framing"} =>
    /\ shot.attempt = attempted + 1
    /\ IsFelt(shot.released) /\ LongEnough(shot.injected, shot.released)
EffectInv ==
  phase = "recording" => effect \in Int /\ Sampled(attempted + 1, effect)
LinesInv ==
  \A n \in DOMAIN journal :
    IsSample(journal[n]) =>
      journal[n].seen \in Int /\ Sampled(journal[n].attempt, journal[n].seen)
VerdictInv ==
  /\ verdict # None => phase \in {"idle", "dead"}
  /\ verdict = "complete" => Complete(journal)
SampleInv == FeltInv /\ EffectInv /\ LinesInv /\ VerdictInv

RunInv ==
  HarnessInv /\ RunnerType /\ ControlInv /\ RecordInv /\ SampleInv

-----------------------------------------------------------------------------
(* Pipes. *)

\* Reading takes the first item and moves the others one place to the front.
LEMMA TailItems ==
  ASSUME NEW S, NEW s \in Seq(S), s # <<>>
  PROVE  /\ Tail(s) \in Seq(S) /\ Head(s) \in S /\ Head(s) = s[1] /\ 1 \in DOMAIN s
         /\ Len(Tail(s)) = Len(s) - 1
         /\ \A i \in DOMAIN Tail(s) : i + 1 \in DOMAIN s /\ Tail(s)[i] = s[i + 1]
OBVIOUS

\* Writing adds one item behind the others.
LEMMA AppendItems ==
  ASSUME NEW S, NEW s \in Seq(S), NEW x \in S
  PROVE  /\ Append(s, x) \in Seq(S) /\ Len(Append(s, x)) = Len(s) + 1
         /\ DOMAIN Append(s, x) = DOMAIN s \cup {Len(s) + 1} /\ Len(s) + 1 \notin DOMAIN s
         /\ \A i \in DOMAIN s : Append(s, x)[i] = s[i]
         /\ Append(s, x)[Len(s) + 1] = x
OBVIOUS

LEMMA LastItem ==
  ASSUME NEW S, NEW s \in Seq(S), s # <<>>
  PROVE  Last(s) \in S /\ Last(s) \in Range(s)
<1>1. Len(s) \in DOMAIN s
  OBVIOUS
<1> QED
  BY <1>1 DEF Last, Range

\* A request joins the others at the end of the pipe, if the pipe is open.
LEMMA SendItems ==
  ASSUME NEW r \in Requests, Send(r), inbox \in Seq(Requests), sequence \in Int
  PROVE  /\ sequence' = sequence + 1 /\ inbox' \in Seq(Requests)
         /\ link # "open" => inbox' = inbox
         /\ \A i \in DOMAIN inbox' :
              \/ i \in DOMAIN inbox /\ inbox'[i] = inbox[i]
              \/ i = Len(inbox) + 1 /\ inbox'[i] = r /\ i \notin DOMAIN inbox
         /\ \A i \in DOMAIN inbox : i \in DOMAIN inbox' /\ inbox'[i] = inbox[i]
BY AppendItems DEF Send

LEMMA PlainRequest ==
  ASSUME NEW method \in Methods, sequence \in Int
  PROVE  /\ Request(method) \in Requests
         /\ Request(method).method = method /\ Request(method).sequence = sequence + 1
BY DEF Request, Requests

\* What is in the pipes has its kind and its number.
LEMMA ItemTypes ==
  ASSUME HarnessType
  PROVE  /\ \A i \in DOMAIN inbox :
              i \in Nat \ {0} /\ i <= Len(inbox) /\ inbox[i] \in Requests /\ inbox[i].sequence \in Int
         /\ \A i \in DOMAIN outbox :
              i \in Nat \ {0} /\ i <= Len(outbox) /\ outbox[i] \in Answers /\ outbox[i].sequence \in Int
         /\ Len(inbox) \in Nat /\ Len(outbox) \in Nat
<1>1. /\ \A i \in DOMAIN inbox : i \in Nat \ {0} /\ i <= Len(inbox) /\ inbox[i] \in Requests
      /\ Len(inbox) \in Nat
  BY DEF HarnessType
<1>2. /\ \A i \in DOMAIN outbox : i \in Nat \ {0} /\ i <= Len(outbox) /\ outbox[i] \in Answers
      /\ Len(outbox) \in Nat
  BY DEF HarnessType
<1>3. /\ \A r \in Requests : r.sequence \in Int
      /\ \A r \in Answers : r.sequence \in Int
  BY DEF Requests, Answers
<1> QED
  BY <1>1, <1>2, <1>3

\* Whatever the broker reads was the first of the pipe, and its answer the last
\* of the other one.
LEMMA ServedItems ==
  ASSUME HarnessInv, NEW method, Serving(method), NEW result \in Results, Reply(result)
  PROVE  /\ inbox \in Seq(Requests) /\ inbox # <<>> /\ link # "gone"
         /\ inbox' \in Seq(Requests) /\ outbox' \in Seq(Answers)
         /\ \A i \in DOMAIN inbox' :
              /\ i + 1 \in DOMAIN inbox /\ inbox'[i] = inbox[i + 1]
              /\ inbox'[i].method \notin {"button_down", "claim"}
         /\ \A i \in DOMAIN outbox' :
              \/ i \in DOMAIN outbox /\ outbox'[i] = outbox[i]
              \/ /\ i = Len(outbox) + 1 /\ link = "open"
                 /\ outbox'[i] = [sequence |-> Head(inbox).sequence, result |-> result]
         /\ Head(inbox) = inbox[1] /\ Head(inbox) \in Requests /\ 1 \in DOMAIN inbox
         /\ inbox[1].method = method
<1>1. /\ inbox' \in Seq(Requests) /\ Head(inbox) = inbox[1] /\ 1 \in DOMAIN inbox
      /\ inbox \in Seq(Requests) /\ inbox # <<>> /\ Head(inbox) \in Requests
      /\ \A i \in DOMAIN inbox' : i \in Nat \ {0} /\ i + 1 \in DOMAIN inbox /\ inbox'[i] = inbox[i + 1]
  BY TailItems DEF HarnessInv, HarnessType, Serving
<1>2. \A i \in DOMAIN inbox' : inbox'[i].method \notin {"button_down", "claim"}
  BY <1>1 DEF HarnessInv, PipeInv
<1>3. [sequence |-> Head(inbox).sequence, result |-> result] \in Answers
  BY <1>1 DEF Requests, Answers
<1>4. /\ outbox' \in Seq(Answers)
      /\ \A i \in DOMAIN outbox' :
              \/ i \in DOMAIN outbox /\ outbox'[i] = outbox[i]
              \/ /\ i = Len(outbox) + 1 /\ link = "open"
                 /\ outbox'[i] = [sequence |-> Head(inbox).sequence, result |-> result]
  BY <1>3, AppendItems DEF HarnessInv, HarnessType, Reply
<1> QED
  BY <1>1, <1>2, <1>4 DEF Serving

\* The pipes stay numbered and in order when the broker serves one request.
LEMMA ServedPipes ==
  ASSUME HarnessInv, NEW method, Serving(method), NEW result \in Results, Reply(result)
  PROVE  PipeInv'
<1> DEFINE answer == [sequence |-> Head(inbox).sequence, result |-> result]
<1>0. /\ PipeInv /\ UNCHANGED <<at, sequence>> /\ sequence \in Int /\ answer.sequence = inbox[1].sequence
  BY ServedItems DEF HarnessInv, HarnessType, Serving, clientVars
<1>1. /\ \A i \in DOMAIN inbox' :
           i \in Nat \ {0} /\ i + 1 \in DOMAIN inbox /\ inbox'[i] = inbox[i + 1]
      /\ \A i \in DOMAIN inbox : inbox[i].sequence \in Int /\ i \in Nat \ {0}
      /\ 1 \in DOMAIN inbox
      /\ \A i \in DOMAIN outbox' :
           \/ i \in DOMAIN outbox /\ outbox'[i] = outbox[i]
           \/ i = Len(outbox) + 1 /\ outbox'[i] = answer
      /\ \A i \in DOMAIN outbox : outbox[i].sequence \in Int /\ i \in Nat \ {0} /\ i <= Len(outbox)
      /\ Len(outbox) \in Nat
  BY ServedItems, ItemTypes DEF HarnessInv
<1> HIDE DEF answer
<1>2. ASSUME at # "dead"
      PROVE  /\ \A i \in DOMAIN inbox' :
                  /\ inbox'[i].sequence <= sequence
                  /\ inbox'[i].sequence = sequence => AsksFor(inbox'[i].method)
             /\ \A i, j \in DOMAIN inbox' : i < j => inbox'[i].sequence < inbox'[j].sequence
             /\ \A i \in DOMAIN outbox' :
                  /\ outbox'[i].sequence <= sequence
                  /\ \A j \in DOMAIN inbox' : outbox'[i].sequence < inbox'[j].sequence
  <2>1. \A i \in DOMAIN inbox' :
             /\ inbox'[i].sequence <= sequence
             /\ inbox'[i].sequence = sequence => AsksFor(inbox'[i].method)
    BY <1>0, <1>1, <1>2 DEF PipeInv
  <2>3. ASSUME NEW i \in DOMAIN inbox', NEW j \in DOMAIN inbox', i < j
        PROVE  inbox'[i].sequence < inbox'[j].sequence
    <3>1. i + 1 \in DOMAIN inbox /\ j + 1 \in DOMAIN inbox /\ i + 1 < j + 1
      BY <1>1, <2>3
    <3> QED
      BY <3>1, <1>0, <1>1, <1>2 DEF PipeInv
  <2>2. ASSUME NEW i \in DOMAIN outbox'
        PROVE  /\ outbox'[i].sequence <= sequence
               /\ \A j \in DOMAIN inbox' : outbox'[i].sequence < inbox'[j].sequence
    <3>1. CASE i \in DOMAIN outbox /\ outbox'[i] = outbox[i]
      BY <3>1, <1>0, <1>1, <1>2 DEF PipeInv
    <3>2. CASE outbox'[i] = answer
      BY <3>2, <1>0, <1>1, <1>2 DEF PipeInv
    <3> QED
      BY <3>1, <3>2, <1>1
  <2> QED
    BY <2>1, <2>2, <2>3
<1>3. at \notin Quiet
  BY <1>0, <1>1 DEF PipeInv
<1>4. ASSUME at \in Calling
      PROVE  /\ \A i \in DOMAIN inbox' : i = 1 /\ inbox'[i].sequence = sequence
             /\ \A i \in DOMAIN outbox' : i = 1 /\ outbox'[i].sequence = sequence
  <2>1. inbox[1].sequence = sequence /\ \A i \in DOMAIN inbox : i = 1
    BY <1>0, <1>1, <1>4 DEF PipeInv
  <2>4. \A i \in DOMAIN inbox' : FALSE
    BY <2>1, <1>1
  <2>2. \A i \in DOMAIN outbox : FALSE
    BY <1>0, <1>1, <1>4, <2>1 DEF PipeInv, Calling
  <2>3. Len(outbox) = 0
    <3>1. outbox # <<>> => 1 \in DOMAIN outbox
      BY TailItems DEF HarnessInv, HarnessType
    <3> QED
      BY <2>2, <3>1
  <2> QED
    BY <1>0, <1>1, <2>1, <2>2, <2>3, <2>4
<1> QED
  BY <1>0, <1>2, <1>3, <1>4, ServedItems DEF PipeInv, AsksFor

\* In a call there is one request and one answer, and it is to the request.
LEMMA ServedCall ==
  ASSUME HarnessInv, NEW method, Serving(method), NEW result \in Results, Reply(result)
  PROVE  /\ at \in Calling =>
              /\ inbox' = <<>> /\ AsksFor(method)
              /\ inbox[1].sequence = sequence
              /\ \A i \in DOMAIN outbox' : outbox'[i].result = result
         /\ at \in {"neutralizing", "unclaiming"} =>
              \A i \in DOMAIN outbox' :
                \/ i \in DOMAIN outbox /\ outbox'[i] = outbox[i]
                \/ outbox'[i].sequence = sequence => AsksFor(method) /\ outbox'[i].result = result
<1> DEFINE answer == [sequence |-> Head(inbox).sequence, result |-> result]
<1>0. PipeInv /\ answer.sequence = inbox[1].sequence /\ answer.result = result
  BY ServedItems DEF HarnessInv
<1>1. /\ \A i \in DOMAIN inbox' : i \in Nat \ {0} /\ i + 1 \in DOMAIN inbox
      /\ inbox[1].method = method
      /\ \A i \in DOMAIN inbox : inbox[i].sequence \in Int /\ i \in Nat \ {0}
      /\ 1 \in DOMAIN inbox
      /\ \A i \in DOMAIN outbox' :
           \/ i \in DOMAIN outbox /\ outbox'[i] = outbox[i]
           \/ i = Len(outbox) + 1 /\ outbox'[i] = answer
  BY ServedItems, ItemTypes DEF HarnessInv
<1>2. ASSUME at \in Calling
      PROVE  /\ inbox[1].sequence = sequence /\ inbox' = <<>> /\ AsksFor(method)
             /\ \A i \in DOMAIN outbox' : outbox'[i].result = result
  <2>1. /\ inbox[1].sequence = sequence /\ AsksFor(method)
        /\ \A i \in DOMAIN inbox : i = 1 
    BY <1>0, <1>1, <1>2 DEF PipeInv, Calling
  <2>2. \A i \in DOMAIN inbox' : FALSE
    BY <2>1, <1>1
  <2>3. inbox' = <<>>
    <3>1. inbox' \in Seq(Requests)
      BY ServedItems
    <3>2. inbox' # <<>> => 1 \in DOMAIN inbox'
      BY <3>1
    <3> QED
      BY <3>2, <2>2
  <2>4. \A i \in DOMAIN outbox : FALSE
    <3> SUFFICES ASSUME NEW i \in DOMAIN outbox PROVE FALSE
      OBVIOUS
    <3>1. outbox[i].sequence = sequence /\ outbox[i].sequence < inbox[1].sequence
      BY <1>0, <1>1, <1>2 DEF PipeInv, Calling
    <3> QED
      BY <3>1, <2>1, <1>1
  <2> QED
    BY <1>0, <1>1, <2>1, <2>3, <2>4
<1>3. ASSUME at \in {"neutralizing", "unclaiming"}, NEW i \in DOMAIN outbox', outbox'[i] = answer,
             outbox'[i].sequence = sequence
      PROVE  AsksFor(method) /\ outbox'[i].result = result
  BY <1>0, <1>1, <1>3 DEF PipeInv
<1> HIDE DEF answer
<1> QED
  BY <1>1, <1>2, <1>3

\* A request is served and the claim, the button and the presses are as they were.
LEMMA ServedTypes ==
  ASSUME HarnessInv, NEW method, Serving(method), NEW result \in Results, Reply(result),
         claim' \in Int \cup {None}, button' \in Buttons \cup {None}, presses' \in Seq(Felt)
  PROVE  HarnessType' /\ LeaseInv'
<1>1. HarnessType'
  BY ServedItems DEF HarnessInv, HarnessType, Serving, clientVars
<1>2. LeaseInv'
  BY ServedItems DEF HarnessInv, LeaseInv, Serving, clientVars
<1> QED
  BY <1>1, <1>2

-----------------------------------------------------------------------------
(* The broker. *)

\* Letting go adds the press to those that were felt, and loses none.
LEMMA Lifted ==
  ASSUME HarnessType, NEW by \in {"broker", "button_up"}, NEW instant \in Int, Lift(by, instant)
  PROVE  /\ presses' \in Seq(Felt)
         /\ \A i \in DOMAIN presses : i \in DOMAIN presses' /\ presses'[i] = presses[i]
         /\ \A i \in DOMAIN presses' :
              \/ i \in DOMAIN presses /\ presses'[i] = presses[i]
              \/ /\ Down /\ i = Len(presses) + 1 /\ i \notin DOMAIN presses
                 /\ presses'[i] = [attempt |-> button.attempt, by |-> by,
                                   injected |-> button.injected, released |-> instant]
         /\ Down => /\ Len(presses) + 1 \in DOMAIN presses'
                    /\ presses'[Len(presses) + 1] =
                         [attempt |-> button.attempt, by |-> by,
                          injected |-> button.injected, released |-> instant]
<1> DEFINE press == [attempt |-> button.attempt, by |-> by,
                     injected |-> button.injected, released |-> instant]
<1>1. CASE Down
  <2>1. press \in Felt
    BY <1>1 DEF HarnessType, Down, Buttons, Felt
  <2>2. presses' = Append(presses, press) /\ presses \in Seq(Felt)
    BY <1>1 DEF Lift, HarnessType
  <2> HIDE DEF press
  <2>3. /\ presses' \in Seq(Felt) /\ DOMAIN presses' = DOMAIN presses \cup {Len(presses) + 1}
        /\ Len(presses) + 1 \notin DOMAIN presses
        /\ \A i \in DOMAIN presses : presses'[i] = presses[i]
        /\ presses'[Len(presses) + 1] = press
    BY <2>1, <2>2, AppendItems
  <2> QED
    BY <1>1, <2>3 DEF press
<1>2. CASE ~Down
  BY <1>2 DEF Lift, HarnessType
<1> QED
  BY <1>1, <1>2

\* A button that is let go of stays on record as it was.
LEMMA LetGo ==
  ASSUME NEW b \in Buttons
  PROVE  /\ [b EXCEPT !.down = FALSE] \in Buttons /\ [b EXCEPT !.down = FALSE].down = FALSE
         /\ b.deadline \in Int
BY DEF Buttons

LEMMA ServeClaimKeeps == HarnessInv /\ ServeClaim => HarnessInv'
<1> SUFFICES ASSUME HarnessInv, ServeClaim PROVE HarnessInv'
  OBVIOUS
<1>1. /\ Serving("claim") /\ claim = None /\ claim' = now + LeaseTime /\ Reply(claim')
      /\ UNCHANGED <<button, presses>> /\ claim' \in Int /\ claim' \in Results
  BY HarnessAssumption DEF ServeClaim, HarnessInv, HarnessType, Results
<1>2. /\ at \in {"claiming", "stopped", "abandoned", "dead"} /\ button = None
      /\ UNCHANGED clientVars
  BY <1>1, ServedItems DEF HarnessInv, PipeInv, Serving
<1>3. \A i \in DOMAIN inbox' : inbox'[i].method # "button_down"
  BY <1>1, ServedItems
<1>4. HarnessType' /\ LeaseInv'
  BY <1>1, ServedTypes DEF HarnessInv, HarnessType
<1>5. PipeInv'
  BY <1>1, ServedPipes
<1>6. CoverInv'
  <2>1. PressIsCovered'
    BY <1>1, <1>2 DEF PressIsCovered, Down
  <2>2. at = "claiming" => \A i \in DOMAIN outbox' : outbox'[i].result = claim'
    BY <1>1, ServedCall DEF Calling
  <2> QED
    BY <1>1, <1>2, <1>3, <2>1, <2>2 DEF CoverInv, clientVars, Leased, Shooting
<1>7. NeutralInv'
  BY <1>1, <1>2, <1>3 DEF HarnessInv, NeutralInv, NeutralIsTrue, NoPress, Down, clientVars
<1>8. HoldInv'
  BY <1>2 DEF HoldInv, clientVars
<1> QED
  BY <1>4, <1>5, <1>6, <1>7, <1>8 DEF HarnessInv

LEMMA ServeRenewKeeps == HarnessInv /\ ServeRenew => HarnessInv'
<1> SUFFICES ASSUME HarnessInv, ServeRenew PROVE HarnessInv'
  OBVIOUS
<1>1. /\ Serving("renew") /\ claim # None /\ claim' = now + LeaseTime /\ Reply(claim')
      /\ now + LeaseTime > claim
      /\ UNCHANGED <<button, presses>> /\ claim' \in Int /\ claim' \in Results /\ claim \in Int
  BY HarnessAssumption DEF ServeRenew, HarnessInv, HarnessType, Results
<1>2. UNCHANGED clientVars
  BY <1>1 DEF Serving
<1>3. \A i \in DOMAIN inbox' : inbox'[i].method # "button_down"
  BY <1>1, ServedItems
<1>4. HarnessType' /\ LeaseInv'
  BY <1>1, ServedTypes DEF HarnessInv, HarnessType
<1>5. PipeInv'
  BY <1>1, ServedPipes
<1>9. at \notin {"claiming", "framing", "pressing", "releasing"} /\ at \notin Quiet
  <2>1. at \in Calling => AsksFor("renew")
    BY <1>1, ServedCall
  <2>2. at \notin Quiet
    BY <1>1, ServedItems DEF HarnessInv, PipeInv
  <2> QED
    BY <2>1, <2>2 DEF AsksFor, Calling
<1>6. CoverInv'
  <2>1. PressIsCovered'
    <3>1. LeaseTime \in Int /\ now \in Int
      BY HarnessAssumption DEF HarnessInv, HarnessType
    <3>2. Down => button.deadline \in Int
      BY DEF HarnessInv, HarnessType, Down, Buttons
    <3>3. PressIsCovered /\ claim' # None
      BY <1>1, <3>1, HarnessAssumption DEF HarnessInv, CoverInv
    <3> QED
      BY <1>1, <3>1, <3>2, <3>3 DEF PressIsCovered, Down
  <2>2. at = "renewing" => \A i \in DOMAIN outbox' : outbox'[i].result = claim'
    BY <1>1, ServedCall DEF Calling
  <2>3. at \in Leased => lease <= claim'
    BY <1>1 DEF HarnessInv, HarnessType, CoverInv, LeaseInv
  <2> QED
    BY <1>1, <1>2, <1>3, <1>9, <2>1, <2>2, <2>3 DEF CoverInv, clientVars
<1>7. NeutralInv'
  <2>1. at \in {"neutralizing", "unclaiming"} =>
          \A i \in DOMAIN outbox' :
            outbox'[i].sequence = sequence /\ outbox'[i].result # None => button = None
    <3>1. at \in {"neutralizing", "unclaiming"} =>
            \A i \in DOMAIN outbox :
              outbox[i].sequence = sequence /\ outbox[i].result # None => button = None
      BY DEF HarnessInv, NeutralInv
    <3> QED
      BY <1>1, <3>1, ServedCall DEF AsksFor
  <2> QED
    BY <1>1, <1>2, <1>3, <1>9, <2>1 DEF HarnessInv, NeutralInv, NeutralIsTrue, NoPress, Down, clientVars
<1>8. HoldInv'
  BY <1>2, <1>9 DEF HoldInv, clientVars, Quiet
<1> QED
  BY <1>4, <1>5, <1>6, <1>7, <1>8 DEF HarnessInv

\* What a release does to the button is the same whatever asks for it.
LEMMA ReleaseKeeps ==
  ASSUME HarnessInv, NEW method \in {"release_claim", "release_all"}, NEW answer \in Results,
         Serving(method), Reply(answer), Lift("broker", now), button' = None,
         claim' \in {claim, None}
  PROVE  HarnessInv'
<1>1. UNCHANGED clientVars /\ ~Down'
  BY DEF Serving, Down
<1>2. presses' \in Seq(Felt)
  BY Lifted DEF HarnessInv, HarnessType
<1>3. \A i \in DOMAIN inbox' : inbox'[i].method # "button_down"
  BY ServedItems
<1>4. HarnessType' /\ LeaseInv'
  BY <1>2, ServedTypes DEF HarnessInv, HarnessType
<1>5. PipeInv'
  BY ServedPipes
<1>9. at \notin Calling /\ at \notin Quiet
  <2>1. at \in Calling => AsksFor(method)
    BY ServedCall
  <2>2. at \notin Quiet
    BY ServedItems DEF HarnessInv, PipeInv
  <2> QED
    BY <2>1, <2>2 DEF AsksFor, Calling
<1>6. CoverInv'
  BY <1>1, <1>3, <1>9 DEF CoverInv, PressIsCovered, clientVars, Leased, Shooting, Calling, Quiet
<1>7. NeutralInv'
  BY <1>1, <1>3 DEF NeutralInv, NeutralIsTrue, NoPress
<1>8. HoldInv'
  BY <1>1, <1>9 DEF HoldInv, clientVars, Quiet, Calling
<1> QED
  BY <1>4, <1>5, <1>6, <1>7, <1>8 DEF HarnessInv

LEMMA ServeReleasesKeep ==
  ASSUME HarnessInv, ServeReleaseClaim \/ ServeReleaseAll
  PROVE  HarnessInv'
<1>1. "released" \in Results /\ "neutral" \in Results
  BY DEF Results
<1>2. CASE ServeReleaseClaim
  BY <1>1, <1>2, ReleaseKeeps DEF ServeReleaseClaim
<1>3. CASE ServeReleaseAll
  BY <1>1, <1>3, ReleaseKeeps DEF ServeReleaseAll
<1> QED
  BY <1>2, <1>3

\* An answer that grants nothing: a frame, or a refusal.
LEMMA AnswerKeeps ==
  ASSUME HarnessInv, NEW method, NEW answer \in Results,
         Serving(method), Reply(answer), UNCHANGED brokerVars,
         answer = None \/ (method = "capture" /\ answer \in Frames)
  PROVE  HarnessInv'
<1>1. UNCHANGED clientVars /\ UNCHANGED <<claim, button, presses, now>>
  BY DEF Serving, brokerVars
<1>3. \A i \in DOMAIN inbox' : inbox'[i].method # "button_down"
  BY ServedItems
<1>4. HarnessType' /\ LeaseInv'
  BY <1>1, ServedTypes DEF HarnessInv, HarnessType
<1>5. PipeInv'
  BY ServedPipes
<1>9. /\ at \notin Quiet
      /\ at \in Calling => inbox' = <<>> /\ \A i \in DOMAIN outbox' : outbox'[i].result = answer
      /\ at \in {"claiming", "renewing", "pressing", "releasing"} => answer = None
      /\ at = "framing" => answer = None \/ answer \in Frames
  <2>1. at \in Calling =>
          /\ AsksFor(method) /\ inbox' = <<>>
          /\ \A i \in DOMAIN outbox' : outbox'[i].result = answer
    BY ServedCall
  <2>2. at \notin Quiet
    BY ServedItems DEF HarnessInv, PipeInv
  <2> QED
    BY <2>1, <2>2 DEF AsksFor, Calling
<1>6. CoverInv'
  BY <1>1, <1>3, <1>9 DEF HarnessInv, CoverInv, PressIsCovered, Down, clientVars, Calling
<1>7. NeutralInv'
  <2>1. at \in {"neutralizing", "unclaiming"} =>
          \A i \in DOMAIN outbox' :
            outbox'[i].sequence = sequence /\ outbox'[i].result # None => button = None
    BY ServedCall DEF HarnessInv, NeutralInv, AsksFor
  <2> QED
    BY <1>1, <1>3, <2>1 DEF HarnessInv, NeutralInv, NeutralIsTrue, NoPress, Down, clientVars
<1>8. HoldInv'
  BY <1>1, <1>9 DEF HoldInv, clientVars, Quiet, Calling
<1> QED
  BY <1>4, <1>5, <1>6, <1>7, <1>8 DEF HarnessInv

LEMMA ServeAnswersKeep ==
  ASSUME HarnessInv, ServeCapture \/ Refuse
  PROVE  HarnessInv'
<1>1. CASE ServeCapture
  <2>1. PICK age \in {0, 1}, usable \in BOOLEAN : Reply([observed |-> now - age, usable |-> usable])
    BY <1>1 DEF ServeCapture
  <2>2. /\ [observed |-> now - age, usable |-> usable] \in Frames
        /\ [observed |-> now - age, usable |-> usable] \in Results
    BY DEF Results, Frames, HarnessInv, HarnessType
  <2> QED
    BY <1>1, <2>1, <2>2, AnswerKeeps DEF ServeCapture
<1>2. CASE Refuse
  <2>1. None \in Results
    BY DEF Results
  <2>2. PICK method \in Methods \cup {"button_down"} : Serving(method)
    BY <1>2 DEF Refuse, Methods
  <2>3. Reply(None) /\ UNCHANGED brokerVars
    BY <1>2 DEF Refuse
  <2> QED
    BY <2>1, <2>2, <2>3, AnswerKeeps
<1> QED
  BY <1>1, <1>2

\* The button goes down on a frame that is fresh, under a claim that outlasts
\* the deadline of the press.
LEMMA ServeDownKeeps == HarnessInv /\ ServeDown => HarnessInv'
<1> SUFFICES ASSUME HarnessInv, ServeDown PROVE HarnessInv'
  OBVIOUS
<1> DEFINE r == inbox[1]
           ack == [injected |-> now, deadline |-> r.deadline]
<1>0. /\ now \in Int /\ ack.injected = now /\ Head(inbox) = r
      /\ inbox \in Seq(Requests) /\ inbox # <<>> /\ r \in Requests /\ r.method = "button_down"
      /\ 1 \in DOMAIN inbox
  BY TailItems DEF HarnessInv, HarnessType, ServeDown, Serving
<1>1. /\ Serving("button_down") /\ claim # None /\ now <= r.latest
      /\ r.attempt \in Attempts /\ r.latest \in Int /\ r.deadline \in Int /\ r.observed \in Int
      /\ button' = [down |-> TRUE, attempt |-> r.attempt, injected |-> now,
                    deadline |-> r.deadline, observed |-> r.observed]
      /\ Reply(ack) /\ ack \in Results /\ UNCHANGED <<claim, presses, now>> /\ UNCHANGED clientVars
  BY <1>0 DEF ServeDown, Serving, Requests, Methods, Results
<1>2. /\ button' \in Buttons /\ button'.down /\ button'.attempt = r.attempt
      /\ button'.injected = now /\ button'.deadline = r.deadline /\ button'.observed = r.observed
  BY <1>0, <1>1 DEF Buttons
<1> HIDE DEF r, ack
<1>3. \A i \in DOMAIN inbox' : inbox'[i].method # "button_down"
  BY <1>1, ServedItems
<1>4. HarnessType' /\ LeaseInv'
  BY <1>1, <1>2, ServedTypes DEF HarnessInv, HarnessType
<1>5. PipeInv'
  BY <1>1, ServedPipes
<1>9. /\ at \notin {"claiming", "renewing", "releasing"} /\ at \notin Quiet
      /\ at \in Calling => /\ at = "pressing" /\ inbox' = <<>>
                           /\ \A i \in DOMAIN outbox' : outbox'[i].result = ack
  <2>1. at \in Calling => /\ AsksFor("button_down") /\ inbox' = <<>>
                          /\ \A i \in DOMAIN outbox' : outbox'[i].result = ack
    BY <1>1, ServedCall
  <2>2. at \notin Quiet
    BY <1>1, ServedItems DEF HarnessInv, PipeInv
  <2> QED
    BY <2>1, <2>2 DEF AsksFor, Calling
<1>6. CoverInv'
  <2>1. r.latest - r.observed <= Stale /\ r.deadline < claim
    BY <1>0, <1>1 DEF HarnessInv, CoverInv, r
  <2>2. PressIsCovered'
    BY <1>0, <1>1, <1>2, <2>1, HarnessAssumption DEF PressIsCovered
  <2> QED
    BY <1>1, <1>3, <1>9, <2>2 DEF HarnessInv, CoverInv, clientVars, Calling
<1>7. NeutralInv'
  <2>1. ~(at \in {"stopped", "unclaiming"} /\ neutral /\ cause # "cut short") /\ at # "claiming"
    <3>1. ~(\A i \in DOMAIN inbox : inbox[i].method # "button_down")
      BY <1>0
    <3> QED
      BY <1>9, <3>1 DEF HarnessInv, NeutralInv, NeutralIsTrue
  <2>2. at \in {"neutralizing", "unclaiming"} =>
          \A i \in DOMAIN outbox' :
            ~(outbox'[i].sequence = sequence /\ outbox'[i].result # None)
    <3>1. at \in {"neutralizing", "unclaiming"} =>
          \A i \in DOMAIN outbox' :
            outbox'[i].sequence = sequence => i \in DOMAIN outbox /\ outbox'[i] = outbox[i]
      BY <1>1, ServedCall DEF AsksFor
    <3>2. at \in {"neutralizing", "unclaiming"} =>
            \A i \in DOMAIN outbox : outbox[i].sequence < r.sequence /\ r.sequence <= sequence
      BY <1>0, <1>1 DEF HarnessInv, PipeInv, r
    <3>3. sequence \in Int /\ r.sequence \in Int /\ \A i \in DOMAIN outbox : outbox[i].sequence \in Int
      BY <1>0, ItemTypes DEF HarnessInv, HarnessType, r
    <3> QED
      BY <3>1, <3>2, <3>3
  <2> QED
    BY <1>1, <2>1, <2>2 DEF NeutralInv, NeutralIsTrue, NoPress, clientVars
<1>8. HoldInv'
  <2>1. at = "pressing" => r.attempt = shot.attempt /\ r.deadline = shot.deadline
    BY <1>0 DEF HarnessInv, HoldInv, r
  <2>2. Down' <=> button' # None
    BY <1>2 DEF Down
  <2> QED
    BY <1>0, <1>1, <1>2, <1>9, <2>1, <2>2 DEF HoldInv, clientVars, Quiet, Calling, IsHeld, InTime, ack
<1> QED
  BY <1>4, <1>5, <1>6, <1>7, <1>8 DEF HarnessInv

\* The button comes up: if nothing has lifted it before, that is one whole press.
LEMMA ServeUpKeeps == HarnessInv /\ ServeUp => HarnessInv'
<1> SUFFICES ASSUME HarnessInv, ServeUp PROVE HarnessInv'
  OBVIOUS
<1> DEFINE ack == [injected |-> now, deadline |-> button.deadline]
<1>1. /\ Serving("button_up") /\ claim # None /\ button # None /\ button' = None
      /\ Lift("button_up", now) /\ Reply(ack) /\ UNCHANGED <<claim, now>> /\ UNCHANGED clientVars
      /\ inbox # <<>> /\ now \in Int /\ ack.injected = now /\ ~Down'
  BY DEF ServeUp, Serving, HarnessInv, HarnessType, Down
<1>2. ack \in Results
  BY <1>1 DEF HarnessInv, HarnessType, Buttons, Results
<1> HIDE DEF ack
<1>3. \A i \in DOMAIN inbox' : inbox'[i].method # "button_down"
  BY <1>1, <1>2, ServedItems
<1>4. HarnessType' /\ LeaseInv'
  <2>1. presses' \in Seq(Felt)
    BY <1>1, Lifted DEF HarnessInv
  <2> QED
    BY <1>1, <1>2, <2>1, ServedTypes DEF HarnessInv, HarnessType
<1>5. PipeInv'
  BY <1>1, <1>2, ServedPipes
<1>9. /\ at \notin Quiet
      /\ at \in Calling => /\ at = "releasing" /\ inbox' = <<>>
                           /\ \A i \in DOMAIN outbox' : outbox'[i].result = ack
  <2>1. at \in Calling => /\ AsksFor("button_up") /\ inbox' = <<>>
                          /\ \A i \in DOMAIN outbox' : outbox'[i].result = ack
    BY <1>1, <1>2, ServedCall
  <2>2. at \notin Quiet
    BY <1>1, <1>2, ServedItems DEF HarnessInv, PipeInv
  <2> QED
    BY <2>1, <2>2 DEF AsksFor, Calling
<1>6. CoverInv'
  BY <1>1, <1>3, <1>9 DEF HarnessInv, CoverInv, PressIsCovered, clientVars, Calling
<1>7. NeutralInv'
  BY <1>1, <1>3 DEF NeutralInv, NeutralIsTrue, NoPress
<1>8. HoldInv'
  <2>1. ASSUME at = "releasing", InTime
        PROVE  IsFelt(now)'
    <3>1. IsHeld(shot.injected)
      BY <1>1, <2>1 DEF HarnessInv, HoldInv
    <3> DEFINE n == Len(presses) + 1
    <3>2. /\ n \in DOMAIN presses'
          /\ presses'[n] = [attempt |-> button.attempt, by |-> "button_up",
                            injected |-> button.injected, released |-> now]
      BY <1>1, <3>1, Lifted DEF HarnessInv, IsHeld
    <3>3. Matches(presses'[n], shot.attempt, shot.injected, now)
      BY <3>1, <3>2 DEF IsHeld, Matches
    <3> HIDE DEF n
    <3> QED
      BY <1>1, <3>2, <3>3 DEF IsFelt, Matches, clientVars
  <2> QED
    BY <1>1, <1>9, <2>1 DEF HoldInv, clientVars, Quiet, Calling, InTime, IsFelt
<1> QED
  BY <1>4, <1>5, <1>6, <1>7, <1>8 DEF HarnessInv

LEMMA DisconnectKeeps == HarnessInv /\ Disconnect => HarnessInv'
<1> SUFFICES ASSUME HarnessInv, Disconnect PROVE HarnessInv'
  OBVIOUS
<1>1. /\ link' = "gone" /\ inbox' = <<>> /\ outbox' = <<>> /\ claim' = None /\ button' = None
      /\ Lift("broker", now) /\ UNCHANGED now /\ UNCHANGED clientVars /\ ~Down'
  BY DEF Disconnect, BrokerEnds, Down
<1>2. HarnessType'
  <2>1. presses' \in Seq(Felt)
    BY <1>1, Lifted DEF HarnessInv, HarnessType
  <2> QED
    BY <1>1, <2>1 DEF HarnessInv, HarnessType, clientVars
<1>3. LeaseInv' /\ PipeInv'
  BY <1>1 DEF HarnessInv, LeaseInv, PipeInv, clientVars
<1>4. CoverInv' /\ NeutralInv'
  <2>1. CoverInv'
    BY <1>1 DEF CoverInv, PressIsCovered
  <2>2. NeutralInv'
    <3>1. NoPress' /\ ~Down' /\ button' = None
      BY <1>1 DEF NoPress
    <3> QED
      BY <3>1 DEF NeutralInv, NeutralIsTrue, NoPress
  <2> QED
    BY <2>1, <2>2
<1>5. HoldInv'
  BY <1>1 DEF HoldInv, clientVars
<1> QED
  BY <1>2, <1>3, <1>4, <1>5 DEF HarnessInv

\* Time only lets go of what its deadline or its claim no longer covers.
LEMMA TickKeeps == HarnessInv /\ Tick => HarnessInv'
<1> SUFFICES ASSUME HarnessInv, Tick PROVE HarnessInv'
  OBVIOUS
<1>1. /\ now' = now + 1 /\ now \in Int /\ UNCHANGED <<link, inbox, outbox>> /\ UNCHANGED clientVars
      /\ claim' = claim \/ claim' = None
      /\ claim' = None => claim = None \/ claim <= now'
  BY DEF Tick, HarnessInv, HarnessType
<1>2. \/ /\ Down /\ (button.deadline <= now' \/ claim' = None)
         /\ button' = [button EXCEPT !.down = FALSE] /\ Lift("broker", now')
      \/ /\ ~(Down /\ (button.deadline <= now' \/ claim' = None))
         /\ UNCHANGED <<button, presses>>
  BY DEF Tick
<1>3. /\ presses' \in Seq(Felt)
      /\ \A i \in DOMAIN presses : i \in DOMAIN presses' /\ presses'[i] = presses[i]
  <2>1. CASE Lift("broker", now')
    <3>1. now' \in Int /\ HarnessType
      BY <1>1 DEF HarnessInv
    <3> QED
      BY <2>1, <3>1, Lifted
  <2>2. CASE UNCHANGED presses
    BY <2>2 DEF HarnessInv, HarnessType
  <2> QED
    BY <1>2, <2>1, <2>2
<1>4. /\ button' \in Buttons \cup {None}
      /\ button = None => button' = None
      /\ Down' => UNCHANGED button /\ button.deadline > now' /\ claim' # None
  <2>1. CASE Down
    <3> DEFINE lifted == [button EXCEPT !.down = FALSE]
    <3>1. button \in Buttons /\ button # None
      BY <2>1 DEF HarnessInv, HarnessType, Down
    <3>4. lifted \in Buttons /\ lifted.down = FALSE /\ button.deadline \in Int
      BY <3>1, LetGo
    <3> HIDE DEF lifted
    <3>2. CASE button' = lifted
      BY <3>1, <3>2, <3>4 DEF Down
    <3>3. CASE UNCHANGED button /\ ~(button.deadline <= now' \/ claim' = None)
      <4>1. button.deadline > now' /\ claim' # None
        BY <1>1, <3>3, <3>4
      <4> QED
        BY <3>1, <3>3, <4>1
    <3> QED
      BY <1>2, <2>1, <3>2, <3>3 DEF lifted
  <2>2. CASE ~Down
    BY <1>2, <2>2 DEF HarnessInv, HarnessType, Down
  <2> QED
    BY <2>1, <2>2
<1>5. HarnessType' /\ LeaseInv'
  BY <1>1, <1>3, <1>4 DEF HarnessInv, HarnessType, LeaseInv, clientVars
<1>6. PipeInv'
  BY <1>1, <1>4 DEF HarnessInv, PipeInv, AsksFor, clientVars
<1>7. CoverInv'
  BY <1>1, <1>4 DEF HarnessInv, CoverInv, PressIsCovered, Down, clientVars
<1>8. NeutralInv'
  BY <1>1, <1>4 DEF HarnessInv, NeutralInv, NeutralIsTrue, NoPress, Down, clientVars
<1>9. HoldInv'
  <2>1. ASSUME at \in Leased, InTime' PROVE InTime
    <3>1. shot.deadline \in Int /\ lease \in Int
      BY <2>1 DEF HarnessInv, HarnessType, Shots, LeaseInv
    <3> QED
      BY <1>1, <2>1, <3>1 DEF InTime, clientVars
  <2>2. ASSUME NEW instant, at \in Leased, InTime', IsHeld(instant)
        PROVE  IsHeld(instant)'
    <3>1. /\ button.deadline = shot.deadline /\ shot.deadline \in Int /\ now' < shot.deadline
          /\ lease \in Int /\ now' < lease /\ now' \in Int
      BY <1>1, <2>2 DEF IsHeld, InTime, clientVars, HarnessInv, HarnessType, LeaseInv, Shots
    <3>2. claim # None /\ claim \in Int /\ lease <= claim
      BY <2>2 DEF IsHeld, HarnessInv, HarnessType, CoverInv, PressIsCovered
    <3>3. claim' # None /\ ~(button.deadline <= now')
      BY <1>1, <3>1, <3>2
    <3> QED
      BY <1>1, <1>2, <2>2, <3>3 DEF IsHeld, Down, clientVars
  <2>3. ASSUME NEW instant, IsFelt(instant)
        PROVE  IsFelt(instant)'
    BY <1>1, <1>3, <2>3 DEF IsFelt, clientVars
  <2> QED
    BY <1>1, <1>4, <2>1, <2>2, <2>3 DEF HarnessInv, HoldInv, clientVars, Leased, Shooting
<1> QED
  BY <1>5, <1>6, <1>7, <1>8, <1>9 DEF HarnessInv

-----------------------------------------------------------------------------
(* The harness. *)

\* An answer to the last request finds both pipes empty behind it.
LEMMA LastAnswer ==
  ASSUME HarnessInv, at \in Calling \cup {"neutralizing", "unclaiming"}, Answered
  PROVE  /\ inbox = <<>> /\ 1 \in DOMAIN outbox
         /\ outbox[1].sequence = sequence /\ Result = outbox[1].result /\ Result # None
         /\ outbox' = Tail(outbox) /\ at \in Calling => outbox' = <<>>
<1>1. /\ outbox \in Seq(Answers) /\ outbox # <<>> /\ Head(outbox) = outbox[1] /\ 1 \in DOMAIN outbox
      /\ outbox[1].sequence = sequence /\ Result = outbox[1].result /\ Result # None
  BY TailItems DEF HarnessInv, HarnessType, Answered, Result
<1>2. inbox = <<>>
  <2>1. \A j \in DOMAIN inbox : FALSE
    <3> SUFFICES ASSUME NEW j \in DOMAIN inbox PROVE FALSE
      OBVIOUS
    <3>1. at # "dead" /\ inbox[j].sequence \in Int /\ sequence \in Int
      BY ItemTypes DEF HarnessInv, HarnessType, Calling
    <3>2. inbox[j].sequence <= sequence /\ outbox[1].sequence < inbox[j].sequence
      BY <1>1, <3>1 DEF HarnessInv, PipeInv
    <3> QED
      BY <1>1, <3>1, <3>2
  <2>2. inbox # <<>> => 1 \in DOMAIN inbox
    BY TailItems DEF HarnessInv, HarnessType
  <2> QED
    BY <2>1, <2>2
<1>3. ASSUME outbox' = Tail(outbox), at \in Calling
      PROVE  outbox' = <<>>
  <2>1. /\ outbox' \in Seq(Answers)
        /\ \A i \in DOMAIN outbox' : i \in Nat \ {0} /\ i + 1 \in DOMAIN outbox
    BY <1>1, <1>3, TailItems
  <2>2. \A i \in DOMAIN outbox : i = 1
    BY <1>3 DEF HarnessInv, PipeInv
  <2>3. \A i \in DOMAIN outbox' : FALSE
    BY <2>1, <2>2
  <2>4. outbox' # <<>> => 1 \in DOMAIN outbox'
    BY <2>1
  <2> QED
    BY <2>3, <2>4
<1> QED
  BY <1>1, <1>2, <1>3

\* Answers are taken from the front of their pipe.
Reads == outbox' = outbox \/ (outbox # <<>> /\ outbox' = Tail(outbox))

LEMMA ReadItems ==
  ASSUME HarnessType, Reads
  PROVE  /\ outbox' \in Seq(Answers)
         /\ \A i \in DOMAIN outbox' : \E k \in DOMAIN outbox : outbox'[i] = outbox[k]
<1>1. CASE outbox' = outbox
  BY <1>1 DEF HarnessType
<1>2. CASE outbox # <<>> /\ outbox' = Tail(outbox)
  <2>1. /\ outbox' \in Seq(Answers)
        /\ \A i \in DOMAIN outbox' : i + 1 \in DOMAIN outbox /\ outbox'[i] = outbox[i + 1]
    BY <1>2, TailItems DEF HarnessType
  <2> QED
    BY <2>1
<1> QED
  BY <1>1, <1>2 DEF Reads

\* A new request takes the next number.
LEMMA SentPipes ==
  ASSUME HarnessInv, NEW r \in Requests, Send(r), Reads,
         at # "dead", at' # "dead", at' \notin Quiet,
         r.sequence = sequence + 1, AsksFor(r.method)', r.method # "claim",
         r.method = "button_down" => inbox = <<>>,
         \A i \in DOMAIN inbox : inbox[i].method # "claim",
         at' \in Calling => inbox = <<>> /\ outbox' = <<>>
  PROVE  PipeInv'
<1>1. /\ sequence' = sequence + 1 /\ sequence \in Int
      /\ \A i \in DOMAIN inbox' :
           /\ i \in Nat
           /\ \/ i \in DOMAIN inbox /\ inbox'[i] = inbox[i]
              \/ i = Len(inbox) + 1 /\ inbox'[i] = r
      /\ \A i \in DOMAIN inbox : i \in Nat /\ i <= Len(inbox) /\ inbox[i].sequence \in Int
      /\ Len(inbox) \in Nat
  BY SendItems, ItemTypes DEF HarnessInv, HarnessType
<1>2. /\ \A i \in DOMAIN inbox : inbox[i].sequence <= sequence
      /\ \A i, j \in DOMAIN inbox : i < j => inbox[i].sequence < inbox[j].sequence
  BY DEF HarnessInv, PipeInv
<1>3. /\ \A i \in DOMAIN inbox' :
           /\ inbox'[i].sequence <= sequence'
           /\ inbox'[i].sequence = sequence' => AsksFor(inbox[i].method)'
           /\ inbox'[i].method # "claim"
      /\ \A i, j \in DOMAIN inbox' : i < j => inbox'[i].sequence < inbox'[j].sequence
  <2>1. ASSUME NEW i \in DOMAIN inbox'
        PROVE  /\ inbox'[i].sequence <= sequence'
               /\ inbox'[i].sequence = sequence' => AsksFor(inbox[i].method)'
               /\ inbox'[i].method # "claim"
    <3>1. CASE i \in DOMAIN inbox /\ inbox'[i] = inbox[i]
      BY <1>1, <1>2, <3>1 DEF AsksFor
    <3>2. CASE inbox'[i] = r
      BY <1>1, <3>2 DEF AsksFor
    <3> QED
      BY <1>1, <3>1, <3>2
  <2>2. ASSUME NEW i \in DOMAIN inbox', NEW j \in DOMAIN inbox', i < j
        PROVE  inbox'[i].sequence < inbox'[j].sequence
    <3>1. i \in DOMAIN inbox /\ inbox'[i] = inbox[i]
      BY <1>1, <2>2
    <3>2. CASE j \in DOMAIN inbox /\ inbox'[j] = inbox[j]
      BY <1>2, <2>2, <3>1, <3>2
    <3>3. CASE inbox'[j] = r
      BY <1>1, <1>2, <3>1, <3>3
    <3> QED
      BY <1>1, <3>2, <3>3
  <2> QED
    BY <2>1, <2>2
<1>4. \A i \in DOMAIN outbox' :
        /\ outbox'[i].sequence <= sequence'
        /\ \A j \in DOMAIN inbox' : outbox'[i].sequence < inbox'[j].sequence
  <2> SUFFICES ASSUME NEW i \in DOMAIN outbox'
               PROVE  /\ outbox'[i].sequence <= sequence'
                      /\ \A j \in DOMAIN inbox' : outbox'[i].sequence < inbox'[j].sequence
    OBVIOUS
  <2>1. PICK k \in DOMAIN outbox : outbox'[i] = outbox[k]
    BY ReadItems DEF HarnessInv
  <2>2. /\ outbox[k].sequence <= sequence /\ outbox[k].sequence \in Int
        /\ \A j \in DOMAIN inbox : outbox[k].sequence < inbox[j].sequence
    BY ItemTypes DEF HarnessInv, PipeInv
  <2> QED
    BY <1>1, <2>1, <2>2
<1>5. \A i \in DOMAIN inbox' : inbox'[i].method = "button_down" => i = 1
  <2>1. inbox = <<>> => Len(inbox) = 0
    OBVIOUS
  <2> QED
    BY <1>1, <2>1 DEF HarnessInv, PipeInv
<1>6. ASSUME at' \in Calling
      PROVE  /\ \A i \in DOMAIN inbox' : i = 1 /\ inbox'[i].sequence = sequence'
             /\ \A i \in DOMAIN outbox' : i = 1 /\ outbox'[i].sequence = sequence'
  <2>1. inbox = <<>> /\ outbox' = <<>> /\ Len(inbox) = 0
    BY <1>6
  <2>2. \A i \in DOMAIN inbox' : i = 1 /\ inbox'[i] = r
    BY <1>1, <2>1
  <2> QED
    BY <1>1, <2>1, <2>2
<1> QED
  BY <1>3, <1>4, <1>5, <1>6 DEF PipeInv, AsksFor

-----------------------------------------------------------------------------
(* The steps of the harness. *)

Beyond == UNCHANGED <<now, link, claim, button, presses>>

LEMMA Forgotten ==
  ASSUME Forget
  PROVE  shot' \in Shots /\ buffer' \in Seq(Frames)
BY DEF Forget, NoShot, Shots

\* Every failure ends in the cleanup, and the cleanup forgets the shot.
LEMMA CleanUpKeeps ==
  ASSUME HarnessInv, NEW why, CleanUp(why), Reads, Beyond, UNCHANGED lease,
         at \in Leased \cup {"claiming"}, neutral' \in BOOLEAN
  PROVE  HarnessInv'
<1>1. CASE at = "claiming"
  <2>1. /\ lease = None /\ at' = "stopped" /\ UNCHANGED <<inbox, sequence>> /\ Forget
    BY <1>1 DEF HarnessInv, LeaseInv, CleanUp
  <2>2. HarnessType'
    BY <2>1, Forgotten, ReadItems DEF HarnessInv, HarnessType, Beyond
  <2>3. LeaseInv'
    BY <1>1, <2>1, ReadItems DEF HarnessInv, LeaseInv, Beyond, Leased, Shooting, Reads
  <2>4. PipeInv'
    <3>1. \A i \in DOMAIN outbox' :
            /\ outbox'[i].sequence <= sequence
            /\ \A j \in DOMAIN inbox : outbox'[i].sequence < inbox[j].sequence
      BY <1>1, ReadItems DEF HarnessInv, PipeInv
    <3> QED
      BY <1>1, <2>1, <3>1 DEF HarnessInv, PipeInv, AsksFor, Beyond, Calling, Quiet
  <2>5. CoverInv'
    BY <1>1, <2>1 DEF HarnessInv, CoverInv, PressIsCovered, Down, Beyond, Leased, Shooting
  <2>6. NeutralInv' /\ HoldInv'
    BY <1>1, <2>1 DEF HarnessInv, NeutralInv, NeutralIsTrue, NoPress, Down, HoldInv, Beyond
  <2> QED
    BY <2>2, <2>3, <2>4, <2>5, <2>6 DEF HarnessInv
<1>2. CASE at \in Leased
  <2> DEFINE r == Request("release_all")
  <2>1. /\ lease \in Int /\ lease # None /\ at' = "neutralizing" /\ Send(r) /\ Forget
        /\ at \notin {"claiming", "stopped", "abandoned", "dead"}
    BY <1>2, HarnessAssumption DEF HarnessInv, LeaseInv, CleanUp, Leased, Shooting
  <2>2. /\ r \in Requests /\ r.method = "release_all" /\ r.sequence = sequence + 1
    BY PlainRequest DEF HarnessInv, HarnessType, Methods
  <2> HIDE DEF r
  <2>3. /\ sequence' = sequence + 1 /\ inbox' \in Seq(Requests) /\ sequence \in Int
        /\ link # "open" => inbox' = inbox
        /\ \A i \in DOMAIN inbox' :
             (i \in DOMAIN inbox /\ inbox'[i] = inbox[i]) \/ inbox'[i].method = "release_all"
    BY <2>1, <2>2, SendItems DEF HarnessInv, HarnessType
  <2>4. HarnessType'
    BY <2>1, <2>3, Forgotten, ReadItems DEF HarnessInv, HarnessType, Beyond
  <2>5. LeaseInv'
    BY <2>1, <2>3 DEF HarnessInv, LeaseInv, Beyond, Leased, Shooting, Reads
  <2>6. PipeInv'
    <3>1. \A i \in DOMAIN inbox : inbox[i].method # "claim"
      BY <2>1 DEF HarnessInv, PipeInv
    <3> QED
      BY <2>1, <2>2, <3>1, SentPipes DEF Quiet, Calling, AsksFor
  <2>7. CoverInv'
    BY <2>1, <2>3 DEF HarnessInv, CoverInv, PressIsCovered, Down, Beyond, Leased, Shooting
  <2>8. NeutralInv'
    <3>1. \A i \in DOMAIN outbox' : outbox'[i].sequence # sequence'
      <4> SUFFICES ASSUME NEW i \in DOMAIN outbox' PROVE outbox'[i].sequence # sequence'
        OBVIOUS
      <4>1. PICK k \in DOMAIN outbox : outbox'[i] = outbox[k]
        BY ReadItems DEF HarnessInv
      <4>2. outbox[k].sequence <= sequence /\ outbox[k].sequence \in Int
        BY <2>1, ItemTypes DEF HarnessInv, PipeInv
      <4> QED
        BY <2>3, <4>1, <4>2
    <3> QED
      BY <2>1, <3>1 DEF NeutralInv, NeutralIsTrue
  <2>9. HoldInv'
    BY <2>1 DEF HoldInv
  <2> QED
    BY <2>4, <2>5, <2>6, <2>7, <2>8, <2>9 DEF HarnessInv
<1> QED
  BY <1>1, <1>2

\* A request of the harness in a quiet moment: nothing else is in the pipes.
LEMMA AskedPipes ==
  ASSUME HarnessInv, NEW r \in Requests, Send(r), inbox = <<>>, Reads,
         outbox' = <<>>, at # "dead", at' \in Calling,
         r.sequence = sequence + 1, AsksFor(r.method)', r.method # "claim"
  PROVE  /\ PipeInv' /\ inbox' \in Seq(Requests) /\ outbox' \in Seq(Answers) /\ sequence' \in Int
         /\ \A i \in DOMAIN inbox' : inbox'[i] = r
         /\ link # "open" => inbox' = <<>>
<1>1. PipeInv'
  BY SentPipes DEF Calling, Quiet
<1>2. /\ inbox' \in Seq(Requests) /\ \A i \in DOMAIN inbox' : inbox'[i] = r
      /\ link # "open" => inbox' = <<>>
  BY SendItems DEF HarnessInv, HarnessType
<1>3. outbox' \in Seq(Answers) /\ sequence' \in Int
  BY DEF HarnessInv, HarnessType, Send
<1> QED
  BY <1>1, <1>2, <1>3

\* The claim is granted: the first frame is asked for.
LEMMA ClaimReturnsKeeps ==
  ASSUME HarnessInv, ClaimReturns, Beyond
  PROVE  HarnessInv'
<1>1. /\ at = "claiming" /\ Answered /\ outbox' = Tail(outbox) /\ outbox # <<>> /\ UNCHANGED neutral
      /\ \/ /\ now < Result /\ lease' = Result /\ Keep
            /\ at' = "framing" /\ Send(Request("capture"))
         \/ CleanUp("error") /\ UNCHANGED lease
  BY DEF ClaimReturns, Returns, Answered, Waits, Goes
<1>2. CASE CleanUp("error") /\ UNCHANGED lease
  BY <1>1, <1>2, CleanUpKeeps DEF Reads, HarnessInv, HarnessType
<1>3. CASE lease' = Result /\ Keep /\ at' = "framing" /\ Send(Request("capture"))
  <2>1. /\ inbox = <<>> /\ outbox' = <<>> /\ Result = outbox[1].result /\ 1 \in DOMAIN outbox
        /\ Result # None
    BY <1>1, LastAnswer DEF Calling
  <2>2. Result \in Int /\ (claim # None => Result <= claim)
    BY <1>1, <2>1 DEF HarnessInv, CoverInv
  <2>3. /\ Request("capture") \in Requests /\ Request("capture").method = "capture"
        /\ Request("capture").sequence = sequence + 1
    BY PlainRequest DEF HarnessInv, HarnessType, Methods
  <2>4. /\ PipeInv' /\ inbox' \in Seq(Requests) /\ outbox' \in Seq(Answers) /\ sequence' \in Int
        /\ \A i \in DOMAIN inbox' : inbox'[i].method = "capture"
        /\ link # "open" => inbox' = <<>>
    BY <1>1, <1>3, <2>1, <2>3, AskedPipes DEF Reads, AsksFor, Calling
  <2>5. HarnessType'
    BY <1>1, <1>3, <2>2, <2>4 DEF HarnessInv, HarnessType, Keep, Beyond
  <2>6. LeaseInv'
    BY <1>3, <2>1, <2>2, <2>4 DEF HarnessInv, LeaseInv, Leased, Shooting, Beyond
  <2>7. CoverInv'
    BY <1>3, <2>1, <2>2, <2>4 DEF HarnessInv, CoverInv, PressIsCovered, Down, Beyond
  <2>8. NeutralInv' /\ HoldInv'
    BY <1>3 DEF NeutralInv, NeutralIsTrue, HoldInv
  <2> QED
    BY <2>4, <2>5, <2>6, <2>7, <2>8 DEF HarnessInv
<1> QED
  BY <1>1, <1>2, <1>3

\* A frame is asked for in a quiet moment, or the lease is over.
LEMMA CaptureKeeps ==
  ASSUME HarnessInv, Capture
  PROVE  HarnessInv'
<1>1. /\ at = "ready" /\ Beyond /\ UNCHANGED <<outbox, lease, neutral>>
      /\ \/ at' = "framing" /\ Send(Request("capture")) /\ Keep
         \/ CleanUp("error")
  BY DEF Capture, Waits, Goes, Beyond, brokerVars
<1>2. CASE CleanUp("error")
  BY <1>1, <1>2, CleanUpKeeps DEF Reads, HarnessInv, HarnessType, Leased
<1>3. CASE Keep /\ at' = "framing" /\ Send(Request("capture"))
  <2>1. inbox = <<>> /\ outbox' = <<>>
    BY <1>1 DEF HarnessInv, PipeInv, Quiet
  <2>3. /\ Request("capture") \in Requests /\ Request("capture").method = "capture"
        /\ Request("capture").sequence = sequence + 1
    BY PlainRequest DEF HarnessInv, HarnessType, Methods
  <2>4. /\ PipeInv' /\ inbox' \in Seq(Requests) /\ outbox' \in Seq(Answers) /\ sequence' \in Int
        /\ \A i \in DOMAIN inbox' : inbox'[i].method = "capture"
        /\ link # "open" => inbox' = <<>>
    BY <1>1, <1>3, <2>1, <2>3, AskedPipes DEF Reads, AsksFor, Calling
  <2>5. HarnessType'
    BY <1>1, <1>3, <2>4 DEF HarnessInv, HarnessType, Keep, Beyond
  <2>6. LeaseInv'
    BY <1>1, <1>3, <2>1, <2>4 DEF HarnessInv, LeaseInv, Leased, Shooting, Beyond
  <2>7. CoverInv'
    BY <1>1, <1>3, <2>1, <2>4 DEF HarnessInv, CoverInv, PressIsCovered, Down, Beyond, Leased
  <2>8. NeutralInv' /\ HoldInv'
    BY <1>3 DEF NeutralInv, NeutralIsTrue, HoldInv
  <2> QED
    BY <2>4, <2>5, <2>6, <2>7, <2>8 DEF HarnessInv
<1> QED
  BY <1>1, <1>2, <1>3

\* The frame buffer is never empty once a frame has come.
LEMMA CaptureReturnsKeeps ==
  ASSUME HarnessInv, CaptureReturns, Beyond
  PROVE  HarnessInv'
<1>1. /\ at = "framing" /\ Answered /\ outbox' = Tail(outbox) /\ outbox # <<>>
      /\ UNCHANGED <<lease, neutral>>
  BY DEF CaptureReturns, Returns, Answered
<1>2. CASE CleanUp("error")
  BY <1>1, <1>2, CleanUpKeeps DEF Reads, HarnessInv, HarnessType, Leased
<1>3. CASE ~CleanUp("error")
  <2> DEFINE longer == Append(buffer, Result)
  <2>1. /\ at' = "ready" /\ UNCHANGED <<inbox, sequence, shot>>
        /\ buffer' = IF Len(longer) > Capacity THEN Tail(longer) ELSE longer
    BY <1>3 DEF CaptureReturns, GoesOn, Goes
  <2>2. /\ inbox = <<>> /\ outbox' = <<>> /\ Result = outbox[1].result /\ 1 \in DOMAIN outbox
        /\ Result # None
    BY <1>1, LastAnswer DEF Calling
  <2>3. Result \in Frames /\ buffer \in Seq(Frames)
    BY <1>1, <2>2 DEF HarnessInv, HarnessType, CoverInv
  <2>4. longer \in Seq(Frames) /\ Len(longer) = Len(buffer) + 1
    BY <2>3, AppendItems
  <2> HIDE DEF longer
  <2>5. buffer' \in Seq(Frames) /\ buffer' # <<>>
    <3>1. CASE Len(longer) > Capacity
      <4>1. Len(longer) > 1 /\ longer # <<>> /\ buffer' = Tail(longer)
        <5>1. Capacity \in Nat /\ Capacity > 0 /\ Len(buffer) \in Nat
          BY <2>3, HarnessAssumption
        <5>2. Len(longer) > 1
          BY <2>4, <3>1, <5>1
        <5> QED
          BY <2>1, <2>4, <3>1, <5>2
      <4>2. Tail(longer) \in Seq(Frames) /\ Len(Tail(longer)) = Len(longer) - 1
        BY <2>4, <4>1, TailItems
      <4>3. Len(buffer') > 0
        BY <2>4, <4>1, <4>2
      <4>4. buffer' # <<>>
        BY <4>3
      <4> QED
        BY <4>1, <4>2, <4>4
    <3>2. CASE ~(Len(longer) > Capacity)
      <4>1. buffer' = longer /\ Len(buffer') > 0
        BY <2>1, <2>3, <2>4, <3>2
      <4> QED
        BY <2>4, <4>1
    <3> QED
      BY <3>1, <3>2
  <2>6. HarnessType'
    BY <1>1, <2>1, <2>2, <2>5 DEF HarnessInv, HarnessType, Beyond
  <2>7. LeaseInv' /\ PipeInv'
    BY <1>1, <2>1, <2>2, <2>5 DEF HarnessInv, LeaseInv, PipeInv, Leased, Shooting, Calling, Beyond
  <2>8. CoverInv'
    BY <1>1, <2>1, <2>2 DEF HarnessInv, CoverInv, PressIsCovered, Down, Beyond, Leased
  <2>9. NeutralInv' /\ HoldInv'
    BY <2>1 DEF NeutralInv, NeutralIsTrue, HoldInv
  <2> QED
    BY <2>6, <2>7, <2>8, <2>9 DEF HarnessInv
<1> QED
  BY <1>2, <1>3

\* A shot is begun, under the lease that is held or after one more renewal.
LEMMA FireKeeps ==
  ASSUME HarnessInv, NEW attempt \in Attempts, Fire(attempt)
  PROVE  /\ HarnessInv' /\ at = "ready" /\ Beyond
         /\ \/ at' \in {"armed", "renewing"} /\ shot'.attempt = attempt
            \/ at' = "neutralizing"
         /\ \A i \in DOMAIN inbox' : inbox'[i].method # "button_down"
<1>1. /\ at = "ready" /\ Beyond /\ UNCHANGED <<outbox, lease, neutral>>
      /\ \/ /\ at' = "renewing" /\ Send(Request("renew")) /\ UNCHANGED buffer
            /\ shot' = [NoShot EXCEPT !.attempt = attempt]
         \/ /\ at' = "armed" /\ UNCHANGED <<inbox, sequence>> /\ UNCHANGED buffer
            /\ shot' = [NoShot EXCEPT !.attempt = attempt]
         \/ CleanUp("error")
  BY DEF Fire, Waits, Goes, GoesOn, Beyond, brokerVars
<1>2. /\ inbox = <<>> /\ outbox' = <<>> /\ outbox = <<>>
      /\ lease \in Int /\ buffer # <<>>
  BY <1>1 DEF HarnessInv, PipeInv, Quiet, LeaseInv, Leased
<1>3. CASE CleanUp("error")
  <2>1. HarnessInv'
    BY <1>1, <1>3, CleanUpKeeps DEF Reads, HarnessInv, HarnessType, Leased
  <2>2. at' = "neutralizing" /\ Send(Request("release_all"))
    BY <1>2, <1>3, HarnessAssumption DEF CleanUp
  <2>3. /\ Request("release_all") \in Requests /\ Request("release_all").method = "release_all"
    BY PlainRequest DEF HarnessInv, HarnessType, Methods
  <2>4. \A i \in DOMAIN inbox' : inbox'[i] = Request("release_all")
    BY <1>2, <2>2, <2>3, SendItems DEF HarnessInv, HarnessType
  <2> QED
    BY <1>1, <2>1, <2>2, <2>3, <2>4
<1>4. CASE shot' = [NoShot EXCEPT !.attempt = attempt] /\ UNCHANGED buffer
           /\ (at' = "armed" \/ (at' = "renewing" /\ Send(Request("renew"))))
           /\ (at' = "armed" => UNCHANGED <<inbox, sequence>>)
  <2>1. NoShot \in Shots /\ [NoShot EXCEPT !.attempt = attempt].attempt = attempt
    BY DEF NoShot, Shots
  <2>2. shot' \in Shots /\ shot'.attempt = attempt
    BY <1>4, <2>1 DEF Shots, Attempts
  <2>3. /\ PipeInv' /\ inbox' \in Seq(Requests) /\ sequence' \in Int
        /\ \A i \in DOMAIN inbox' : inbox'[i].method # "button_down"
        /\ link = "gone" => inbox' = <<>>
    <3>1. CASE at' = "armed"
      BY <1>2, <1>4, <3>1 DEF HarnessInv, HarnessType, PipeInv, Calling
    <3>2. CASE at' = "renewing"
      <4>1. /\ Request("renew") \in Requests /\ Request("renew").method = "renew"
            /\ Request("renew").sequence = sequence + 1
        BY PlainRequest DEF HarnessInv, HarnessType, Methods
      <4> QED
        BY <1>1, <1>2, <1>4, <3>2, <4>1, AskedPipes DEF Reads, AsksFor, Calling
    <3> QED
      BY <1>4, <3>1, <3>2
  <2>5. HarnessType'
    BY <1>1, <1>2, <1>4, <2>2, <2>3 DEF HarnessInv, HarnessType, Beyond
  <2>6. LeaseInv'
    BY <1>1, <1>2, <1>4, <2>2, <2>3 DEF HarnessInv, LeaseInv, Leased, Shooting, Beyond
  <2>7. CoverInv'
    BY <1>1, <1>2, <1>4, <2>3 DEF HarnessInv, CoverInv, PressIsCovered, Down, Beyond, Leased, Shooting
  <2>8. NeutralInv' /\ HoldInv'
    BY <1>4 DEF NeutralInv, NeutralIsTrue, HoldInv
  <2> QED
    BY <1>1, <1>4, <2>2, <2>3, <2>5, <2>6, <2>7, <2>8 DEF HarnessInv
<1> QED
  BY <1>1, <1>3, <1>4

\* The lease grows with the renewal, and the claim has grown before it.
LEMMA RenewReturnsKeeps ==
  ASSUME HarnessInv, RenewReturns, Beyond
  PROVE  HarnessInv'
<1>1. /\ at = "renewing" /\ Answered /\ outbox' = Tail(outbox) /\ outbox # <<>> /\ UNCHANGED neutral
      /\ \/ /\ Result > lease /\ lease' = Result /\ Keep
            /\ at' = "armed" /\ UNCHANGED <<inbox, sequence>>
         \/ CleanUp("error") /\ UNCHANGED lease
  BY DEF RenewReturns, Returns, Answered, GoesOn, Goes
<1>2. CASE CleanUp("error") /\ UNCHANGED lease
  BY <1>1, <1>2, CleanUpKeeps DEF Reads, HarnessInv, HarnessType, Leased, Shooting
<1>3. CASE lease' = Result /\ Keep /\ at' = "armed" /\ UNCHANGED <<inbox, sequence>>
  <2>1. /\ inbox = <<>> /\ outbox' = <<>> /\ Result = outbox[1].result /\ 1 \in DOMAIN outbox
        /\ Result # None
    BY <1>1, LastAnswer DEF Calling
  <2>2. Result \in Int /\ (claim # None => Result <= claim)
    BY <1>1, <2>1 DEF HarnessInv, CoverInv
  <2>3. HarnessType'
    BY <1>1, <1>3, <2>1, <2>2 DEF HarnessInv, HarnessType, Keep, Beyond
  <2>4. LeaseInv' /\ PipeInv'
    BY <1>1, <1>3, <2>1, <2>2 DEF HarnessInv, LeaseInv, PipeInv, Leased, Shooting, Calling, Keep, Beyond
  <2>5. CoverInv'
    BY <1>3, <2>1, <2>2 DEF HarnessInv, CoverInv, PressIsCovered, Down, Beyond
  <2>6. NeutralInv' /\ HoldInv'
    BY <1>3 DEF NeutralInv, NeutralIsTrue, HoldInv
  <2> QED
    BY <2>3, <2>4, <2>5, <2>6 DEF HarnessInv
<1> QED
  BY <1>1, <1>2, <1>3

\* The frame bounds the injection, and the lease the release.
LEMMA LatestIs ==
  ASSUME NEW observed \in Int, observed = Last(buffer).observed, now \in Int
  PROVE  LatestInjection \in Int /\ LatestInjection - observed <= Stale
<1>1. Stale \in Int /\ Margin \in Int
  BY HarnessAssumption
<1> QED
  BY <1>1 DEF LatestInjection

\* The button is asked down, in a pipe that holds nothing else.
LEMMA SendDownKeeps ==
  ASSUME HarnessInv, SendDown, Beyond
  PROVE  /\ HarnessInv'
         /\ \A i \in DOMAIN inbox' : inbox'[i].method = "button_down" =>
              at = "armed" /\ inbox'[i].attempt = shot.attempt
<1>1. /\ at = "armed" /\ UNCHANGED <<outbox, lease, neutral>>
      /\ inbox = <<>> /\ outbox' = <<>> /\ lease \in Int /\ shot.attempt \in Attempts
      /\ buffer \in Seq(Frames) /\ buffer # <<>> /\ shot \in Shots /\ now \in Int /\ sequence \in Int
  BY DEF SendDown, HarnessInv, HarnessType, PipeInv, Quiet, LeaseInv, Leased, Shooting
<1>2. CASE CleanUp("error")
  <2>1. HarnessInv'
    BY <1>1, <1>2, CleanUpKeeps DEF Reads, HarnessInv, HarnessType, Leased, Shooting
  <2>2. Send(Request("release_all"))
    BY <1>1, <1>2, HarnessAssumption DEF CleanUp
  <2>3. /\ Request("release_all") \in Requests /\ Request("release_all").method = "release_all"
    BY <1>1, PlainRequest DEF Methods
  <2>4. \A i \in DOMAIN inbox' : inbox'[i] = Request("release_all")
    BY <1>1, <2>2, <2>3, SendItems DEF HarnessInv, HarnessType
  <2> QED
    BY <2>1, <2>3, <2>4
<1>3. CASE ~CleanUp("error")
  <2> DEFINE latest == LatestInjection
             r == [method |-> "button_down", sequence |-> sequence + 1,
                   attempt |-> shot.attempt, latest |-> latest,
                   deadline |-> Deadline(latest), observed |-> Last(buffer).observed]
  <2>1. Last(buffer).observed \in Int
    <3>1. Last(buffer) \in Frames
      BY <1>1, LastItem
    <3> QED
      BY <3>1 DEF Frames
  <2>2. latest \in Int /\ latest - Last(buffer).observed <= Stale /\ Deadline(latest) \in Int
    <3>1. latest \in Int /\ latest - Last(buffer).observed <= Stale
      BY <1>1, <2>1, LatestIs
    <3>2. Press \in Int /\ Margin \in Int
      BY HarnessAssumption
    <3> QED
      BY <3>1, <3>2 DEF Deadline
  <2>4. /\ at' = "pressing" /\ Send(r) /\ Deadline(latest) < lease /\ UNCHANGED buffer
        /\ shot' = [shot EXCEPT !.latest = latest, !.deadline = Deadline(latest)]
    BY <1>3 DEF SendDown, Waits, Goes
  <2> HIDE DEF latest
  <2>3. /\ r \in Requests /\ r.method = "button_down" /\ r.sequence = sequence + 1
        /\ r.attempt = shot.attempt /\ r.latest = latest /\ r.deadline = Deadline(latest)
        /\ r.observed = Last(buffer).observed
    BY <1>1, <2>1, <2>2 DEF Requests
  <2>5. shot' \in Shots /\ shot'.attempt = shot.attempt /\ shot'.deadline = Deadline(latest)
    BY <1>1, <2>2, <2>4 DEF Shots
  <2> HIDE DEF r
  <2>6. /\ PipeInv' /\ inbox' \in Seq(Requests) /\ outbox' \in Seq(Answers) /\ sequence' \in Int
        /\ \A i \in DOMAIN inbox' : inbox'[i] = r
        /\ link # "open" => inbox' = <<>>
    BY <1>1, <2>3, <2>4, AskedPipes DEF Reads, AsksFor, Calling
  <2>7. HarnessType'
    BY <1>1, <2>4, <2>5, <2>6 DEF HarnessInv, HarnessType, Beyond
  <2>8. LeaseInv'
    BY <1>1, <2>4, <2>5, <2>6 DEF HarnessInv, LeaseInv, Leased, Shooting, Beyond
  <2>9. CoverInv'
    <3>1. claim # None => lease <= claim /\ claim \in Int
      BY <1>1 DEF HarnessInv, HarnessType, CoverInv, Leased, Shooting
    <3>2. /\ r.latest - r.observed <= Stale
          /\ claim # None => r.deadline < claim
      BY <1>1, <2>2, <2>3, <2>4, <3>1
    <3> QED
      BY <1>1, <2>4, <2>6, <3>1, <3>2 DEF HarnessInv, CoverInv, PressIsCovered, Down, Beyond
  <2>10. NeutralInv' /\ HoldInv'
    BY <1>1, <2>3, <2>4, <2>5, <2>6 DEF NeutralInv, NeutralIsTrue, HoldInv
  <2> QED
    BY <1>1, <2>3, <2>6, <2>7, <2>8, <2>9, <2>10 DEF HarnessInv
<1> QED
  BY <1>2, <1>3

\* The button is down, and as long as deadline and lease last it is this shot's.
LEMMA DownReturnsKeeps ==
  ASSUME HarnessInv, DownReturns, Beyond
  PROVE  HarnessInv'
<1>1. /\ at = "pressing" /\ Answered /\ outbox' = Tail(outbox) /\ outbox # <<>>
      /\ neutral' = FALSE /\ UNCHANGED lease
      /\ \/ /\ shot' = [shot EXCEPT !.injected = Result.injected]
            /\ at' = "holding" /\ UNCHANGED <<inbox, sequence>> /\ UNCHANGED buffer
         \/ CleanUp("error")
  BY DEF DownReturns, Returns, Answered, GoesOn, Goes
<1>2. CASE CleanUp("error")
  BY <1>1, <1>2, CleanUpKeeps DEF Reads, HarnessInv, HarnessType, Leased, Shooting
<1>3. CASE /\ shot' = [shot EXCEPT !.injected = Result.injected]
           /\ at' = "holding" /\ UNCHANGED <<inbox, sequence>> /\ UNCHANGED buffer
  <2>1. /\ inbox = <<>> /\ outbox' = <<>> /\ Result = outbox[1].result /\ 1 \in DOMAIN outbox
        /\ Result # None
    BY <1>1, LastAnswer DEF Calling
  <2>2. Result.injected \in Int /\ (InTime /\ button # None => IsHeld(Result.injected))
    BY <1>1, <2>1 DEF HarnessInv, HoldInv
  <2>3. shot' \in Shots /\ shot'.attempt = shot.attempt /\ shot'.deadline = shot.deadline
        /\ shot'.injected = Result.injected
    BY <1>3, <2>2 DEF HarnessInv, HarnessType, Shots
  <2>4. HarnessType'
    <3>1. UNCHANGED <<now, link, claim, button, presses, inbox, sequence, lease, buffer>>
      BY <1>1, <1>3 DEF Beyond
    <3>2. outbox' \in Seq(Answers) /\ shot' \in Shots
      BY <2>1, <2>3
    <3>3. neutral' \in BOOLEAN
      BY <1>1
    <3>4. HarnessType
      BY DEF HarnessInv
    <3> QED
      BY <3>1, <3>2, <3>3, <3>4 DEF HarnessType
  <2>5a. LeaseInv'
    BY <1>1, <1>3, <2>1, <2>3 DEF HarnessInv, LeaseInv, Leased, Shooting, Beyond
  <2>5. PipeInv'
    <3>1. DOMAIN inbox' = {} /\ DOMAIN outbox' = {}
      BY <1>3, <2>1
    <3>2. inbox' = <<>> /\ outbox' = <<>> /\ at' = "holding"
      BY <1>3, <2>1
    <3> QED BY <3>1, <3>2 DEF PipeInv, Calling
  <2>6. CoverInv'
    BY <1>1, <1>3, <2>1 DEF HarnessInv, CoverInv, PressIsCovered, Down, Beyond, Leased, Shooting
  <2>7. NeutralInv'
    BY <1>3 DEF NeutralInv, NeutralIsTrue
  <2>8. HoldInv'
    BY <1>1, <1>3, <2>2, <2>3 DEF HoldInv, InTime, IsHeld, Down, Beyond
  <2> QED
    BY <2>4, <2>5a, <2>5, <2>6, <2>7, <2>8 DEF HarnessInv
<1> QED
  BY <1>1, <1>2, <1>3

LEMMA SendUpKeeps ==
  ASSUME HarnessInv, SendUp, Beyond
  PROVE  HarnessInv'
<1>1. /\ at = "holding" /\ UNCHANGED <<outbox, lease, neutral>>
      /\ inbox = <<>> /\ outbox' = <<>>
      /\ \/ at' = "releasing" /\ Send(Request("button_up")) /\ Keep
         \/ CleanUp("error")
  BY DEF SendUp, Waits, Goes, HarnessInv, PipeInv, Quiet
<1>2. CASE CleanUp("error")
  BY <1>1, <1>2, CleanUpKeeps DEF Reads, HarnessInv, HarnessType, Leased, Shooting
<1>3. CASE Keep /\ at' = "releasing" /\ Send(Request("button_up"))
  <2>1. /\ Request("button_up") \in Requests /\ Request("button_up").method = "button_up"
        /\ Request("button_up").sequence = sequence + 1
    BY PlainRequest DEF HarnessInv, HarnessType, Methods
  <2>2. /\ PipeInv' /\ inbox' \in Seq(Requests) /\ outbox' \in Seq(Answers) /\ sequence' \in Int
        /\ \A i \in DOMAIN inbox' : inbox'[i].method = "button_up"
        /\ link # "open" => inbox' = <<>>
    BY <1>1, <1>3, <2>1, AskedPipes DEF Reads, AsksFor, Calling
  <2>3. HarnessType'
    BY <1>1, <1>3, <2>2 DEF HarnessInv, HarnessType, Keep, Beyond
  <2>4. LeaseInv'
    BY <1>1, <1>3, <2>2 DEF HarnessInv, LeaseInv, Leased, Shooting, Beyond, Keep
  <2>5. CoverInv'
    BY <1>1, <1>3, <2>2 DEF HarnessInv, CoverInv, PressIsCovered, Down, Beyond, Leased, Shooting
  <2>6. NeutralInv'
    BY <1>3 DEF NeutralInv, NeutralIsTrue
  <2>7. HoldInv'
    BY <1>1, <1>3 DEF HarnessInv, HoldInv, InTime, IsHeld, Down, Beyond, Keep
  <2> QED
    BY <2>2, <2>3, <2>4, <2>5, <2>6, <2>7 DEF HarnessInv
<1> QED
  BY <1>1, <1>2, <1>3

\* A shot that returns was felt from its down to its up, as long as it was measured.
LEMMA UpReturnsKeeps ==
  ASSUME HarnessInv, UpReturns, Beyond
  PROVE  /\ HarnessInv'
         /\ at' \in {"ready", "neutralizing"}
         /\ at' = "ready" =>
              /\ shot'.attempt = shot.attempt
              /\ IsFelt(shot.released)' /\ Measured(shot'.released)
              /\ shot'.injected = shot.injected /\ shot.injected \in Int /\ shot'.released \in Int
<1>1. /\ at = "releasing" /\ Answered /\ outbox' = Tail(outbox) /\ outbox # <<>> /\ UNCHANGED lease
      /\ \/ /\ now < shot.deadline /\ now < lease /\ Measured(Result.injected)
            /\ shot' = [shot EXCEPT !.released = Result.injected] /\ neutral' = TRUE
            /\ at' = "ready" /\ UNCHANGED <<inbox, sequence>> /\ UNCHANGED buffer
         \/ CleanUp("error") /\ UNCHANGED neutral
  BY DEF UpReturns, Returns, Answered, GoesOn, Goes
<1>2. CASE CleanUp("error") /\ UNCHANGED neutral
  <2>1. HarnessInv'
    BY <1>1, <1>2, CleanUpKeeps DEF Reads, HarnessInv, HarnessType, Leased, Shooting
  <2>2. at' = "neutralizing"
    BY <1>1, <1>2, HarnessAssumption DEF CleanUp, HarnessInv, LeaseInv, Leased, Shooting
  <2> QED
    BY <2>1, <2>2
<1>3. CASE /\ now < shot.deadline /\ now < lease /\ Measured(Result.injected)
           /\ shot' = [shot EXCEPT !.released = Result.injected] /\ neutral' = TRUE
           /\ at' = "ready" /\ UNCHANGED <<inbox, sequence>> /\ UNCHANGED buffer
  <2>1. /\ inbox = <<>> /\ outbox' = <<>> /\ Result = outbox[1].result /\ 1 \in DOMAIN outbox
        /\ Result # None
    BY <1>1, LastAnswer DEF Calling
  <2>2. Result.injected \in Int /\ IsFelt(Result.injected)
    BY <1>1, <1>3, <2>1 DEF HarnessInv, HoldInv, InTime
  <2>3. /\ shot' \in Shots /\ shot'.attempt = shot.attempt /\ shot'.released = Result.injected
        /\ shot'.injected = shot.injected /\ shot.injected \in Int
    BY <1>3, <2>2 DEF HarnessInv, HarnessType, Shots
  <2>4. HarnessType'
    BY <1>1, <1>3, <2>1, <2>3 DEF HarnessInv, HarnessType, Beyond
  <2>5. LeaseInv' /\ PipeInv'
    BY <1>1, <1>3, <2>1, <2>3 DEF HarnessInv, LeaseInv, PipeInv, Leased, Shooting, Calling, Beyond
  <2>6. CoverInv'
    BY <1>1, <1>3, <2>1 DEF HarnessInv, CoverInv, PressIsCovered, Down, Beyond, Leased, Shooting
  <2>7. NeutralInv' /\ HoldInv'
    BY <1>3 DEF NeutralInv, NeutralIsTrue, HoldInv
  <2>8. IsFelt(shot.released)'
    BY <2>2, <2>3 DEF IsFelt, Matches, Beyond
  <2> QED
    BY <1>3, <2>2, <2>3, <2>4, <2>5, <2>6, <2>7, <2>8 DEF HarnessInv
<1> QED
  BY <1>1, <1>2, <1>3

LEMMA CallRaisesKeeps ==
  ASSUME HarnessInv, CallRaises, Beyond
  PROVE  HarnessInv'
BY CleanUpKeeps DEF CallRaises, Raises, Reads, HarnessInv, HarnessType, Leased, Shooting

\* Neutral is what the broker has said in answer to the last request, and then
\* nothing is left before it in the pipe.
LEMMA ReleaseAllReturnsKeeps ==
  ASSUME HarnessInv, ReleaseAllReturns, Beyond
  PROVE  HarnessInv'
<1> DEFINE r == Request("release_claim")
<1>1. /\ at = "neutralizing" /\ at' = "unclaiming" /\ Send(r)
      /\ UNCHANGED lease /\ Keep /\ neutral' \in BOOLEAN /\ lease \in Int
      /\ \/ Answered /\ neutral' = TRUE
         \/ neutral' = FALSE
      /\ Reads
  BY DEF ReleaseAllReturns, Returns, Raises, Answered, Reads, HarnessInv, LeaseInv
<1>2. /\ r \in Requests /\ r.method = "release_claim" /\ r.sequence = sequence + 1
  BY PlainRequest DEF HarnessInv, HarnessType, Methods
<1> HIDE DEF r
<1>3. /\ sequence' = sequence + 1 /\ inbox' \in Seq(Requests) /\ sequence \in Int
      /\ link # "open" => inbox' = inbox
      /\ \A i \in DOMAIN inbox' :
           (i \in DOMAIN inbox /\ inbox'[i] = inbox[i]) \/ inbox'[i].method = "release_claim"
  BY <1>1, <1>2, SendItems DEF HarnessInv, HarnessType
<1>4. HarnessType'
  BY <1>1, <1>3, ReadItems DEF HarnessInv, HarnessType, Beyond, Keep
<1>5. LeaseInv'
  BY <1>1, <1>3 DEF HarnessInv, LeaseInv, Beyond, Leased, Shooting, Reads
<1>6. PipeInv'
  <2>1. \A i \in DOMAIN inbox : inbox[i].method # "claim"
    BY <1>1 DEF HarnessInv, PipeInv
  <2> QED
    BY <1>1, <1>2, <2>1, SentPipes DEF Quiet, Calling, AsksFor
<1>7. CoverInv'
  BY <1>1, <1>3 DEF HarnessInv, CoverInv, PressIsCovered, Down, Beyond, Leased, Shooting
<1>8. NeutralInv'
  <2>1. \A i \in DOMAIN outbox' : outbox'[i].sequence # sequence'
    <3> SUFFICES ASSUME NEW i \in DOMAIN outbox' PROVE outbox'[i].sequence # sequence'
      OBVIOUS
    <3>1. PICK k \in DOMAIN outbox : outbox'[i] = outbox[k]
      BY <1>1, ReadItems DEF HarnessInv
    <3>2. outbox[k].sequence <= sequence /\ outbox[k].sequence \in Int
      BY <1>1, ItemTypes DEF HarnessInv, PipeInv
    <3> QED
      BY <1>3, <3>1, <3>2
  <2>2. ASSUME neutral'
        PROVE  ~Down' /\ \A i \in DOMAIN inbox' : inbox'[i].method # "button_down"
    <3>1. inbox = <<>> /\ outbox[1].sequence = sequence /\ outbox[1].result # None /\ 1 \in DOMAIN outbox
      BY <1>1, <2>2, LastAnswer
    <3>2. button = None
      BY <1>1, <3>1 DEF HarnessInv, NeutralInv
    <3> QED
      BY <1>3, <3>1, <3>2 DEF Down, Beyond
  <2> QED
    BY <1>1, <2>1, <2>2 DEF NeutralInv, NeutralIsTrue
<1>9. HoldInv'
  BY <1>1 DEF HoldInv
<1> QED
  BY <1>4, <1>5, <1>6, <1>7, <1>8, <1>9 DEF HarnessInv

LEMMA ReleaseClaimReturnsKeeps ==
  ASSUME HarnessInv, ReleaseClaimReturns, Beyond
  PROVE  HarnessInv'
<1>1. /\ at = "unclaiming" /\ at' = "stopped" /\ UNCHANGED <<inbox, sequence>>
      /\ lease' = None /\ Keep /\ neutral' \in BOOLEAN
      /\ \/ Answered /\ neutral' = TRUE
         \/ UNCHANGED neutral
      /\ Reads /\ UNCHANGED cause
  BY DEF ReleaseClaimReturns, Returns, Raises, Answered, Reads, HarnessInv, HarnessType
<1>2. HarnessType'
  BY <1>1, ReadItems DEF HarnessInv, HarnessType, Beyond, Keep
<1>3. LeaseInv'
  BY <1>1 DEF HarnessInv, LeaseInv, Beyond, Leased, Shooting, Reads
<1>4. PipeInv'
  <2>1. \A i \in DOMAIN outbox' :
          /\ outbox'[i].sequence <= sequence
          /\ \A j \in DOMAIN inbox : outbox'[i].sequence < inbox[j].sequence
    BY <1>1, ReadItems DEF HarnessInv, PipeInv
  <2> QED
    BY <1>1, <2>1 DEF HarnessInv, PipeInv, AsksFor, Beyond, Calling, Quiet
<1>5. CoverInv'
  BY <1>1 DEF HarnessInv, CoverInv, PressIsCovered, Down, Beyond, Leased, Shooting
<1>6. NeutralInv'
  <2>1. ASSUME neutral', cause # "cut short"
        PROVE  ~Down' /\ \A i \in DOMAIN inbox' : inbox'[i].method # "button_down"
    <3>1. CASE Answered
      <4>1. /\ inbox = <<>> /\ outbox[1].sequence = sequence /\ outbox[1].result # None
            /\ 1 \in DOMAIN outbox
        BY <1>1, <3>1, LastAnswer
      <4>2. button = None
        BY <1>1, <4>1 DEF HarnessInv, NeutralInv
      <4> QED
        BY <1>1, <4>1, <4>2 DEF Down, Beyond
    <3>2. CASE UNCHANGED neutral
      BY <1>1, <2>1, <3>2 DEF HarnessInv, NeutralInv, Down, Beyond
    <3> QED
      BY <1>1, <3>1, <3>2
  <2> QED
    BY <1>1, <2>1 DEF NeutralInv, NeutralIsTrue
<1>7. HoldInv'
  BY <1>1 DEF HoldInv
<1> QED
  BY <1>2, <1>3, <1>4, <1>5, <1>6, <1>7 DEF HarnessInv

-----------------------------------------------------------------------------
(* The harness as a whole, and what the runner does to it. *)

LEMMA HarnessStepKeeps ==
  ASSUME HarnessInv, HarnessStep
  PROVE  HarnessInv'
<1>1. Beyond
  BY DEF HarnessStep, Beyond, brokerVars
<1> QED
  BY <1>1, ClaimReturnsKeeps, CaptureReturnsKeeps, RenewReturnsKeeps, SendDownKeeps,
     DownReturnsKeeps, SendUpKeeps, UpReturnsKeeps, CallRaisesKeeps,
     ReleaseAllReturnsKeeps, ReleaseClaimReturnsKeeps
     DEF HarnessStep

LEMMA BrokerStepKeeps ==
  ASSUME HarnessInv, BrokerStep
  PROVE  HarnessInv'
BY ServeClaimKeeps, ServeRenewKeeps, ServeReleasesKeep, ServeAnswersKeep, ServeDownKeeps,
   ServeUpKeeps, DisconnectKeeps
   DEF BrokerStep

LEMMA OpenKeeps ==
  ASSUME HarnessInv, at = "off", Open
  PROVE  HarnessInv'
<1>1. /\ claim = None /\ button = None /\ UNCHANGED <<now, claim, button, presses>>
      /\ at' = "claiming" /\ lease' = None /\ neutral' = TRUE /\ Forget
      /\ link' = "open" /\ outbox' = <<>> /\ sequence' = 1
      /\ inbox' = <<[method |-> "claim", sequence |-> 1]>>
  BY DEF Open, HarnessInv, LeaseInv, brokerVars
<1>2. [method |-> "claim", sequence |-> 1] \in Requests
  BY DEF Requests, Methods
<1>3. /\ inbox' \in Seq(Requests) /\ Len(inbox') = 1
      /\ \A i \in DOMAIN inbox' :
           i = 1 /\ inbox'[i].method = "claim" /\ inbox'[i].sequence = 1
      /\ DOMAIN outbox' = {}
  BY <1>1, <1>2
<1>4. HarnessType'
  <2>1. neutral' \in BOOLEAN
    BY <1>1
  <2>2. HarnessType
    BY DEF HarnessInv
  <2> QED
    BY <1>1, <1>3, <2>1, <2>2, Forgotten DEF HarnessType
<1>5. LeaseInv'
  BY <1>1 DEF LeaseInv, Leased, Shooting
<1>6. PipeInv'
  BY <1>1, <1>3 DEF PipeInv, AsksFor, Quiet, Calling
<1>7. CoverInv'
  BY <1>1, <1>3 DEF CoverInv, PressIsCovered, Down, Leased, Shooting
<1>8. NeutralInv' /\ HoldInv'
  BY <1>1, <1>3 DEF NeutralInv, NeutralIsTrue, NoPress, HoldInv
<1> QED
  BY <1>4, <1>5, <1>6, <1>7, <1>8 DEF HarnessInv

\* Left without a cleanup: nothing is read any more.
LEMMA AbandonKeeps ==
  ASSUME HarnessInv, Beyond, at' = "abandoned", at # "dead", Forget,
         UNCHANGED <<inbox, outbox, sequence, lease, neutral>>,
         at \in {"claiming", "framing", "ready"}
  PROVE  HarnessInv'
<1>1. HarnessType'
  <2>1. HarnessType
    BY DEF HarnessInv
  <2> QED
    BY <2>1, Forgotten DEF HarnessType, Beyond
<1>2. LeaseInv'
  BY DEF HarnessInv, LeaseInv, Leased, Shooting, Beyond
<1>3. PipeInv'
  <2>1. /\ \A i \in DOMAIN inbox : inbox[i].sequence <= sequence
        /\ \A i, j \in DOMAIN inbox : i < j => inbox[i].sequence < inbox[j].sequence
        /\ \A i \in DOMAIN outbox :
             /\ outbox[i].sequence <= sequence
             /\ \A j \in DOMAIN inbox : outbox[i].sequence < inbox[j].sequence
    BY DEF HarnessInv, PipeInv
  <2>2. \A i \in DOMAIN inbox :
          /\ inbox[i].method = "button_down" => i = 1
          /\ inbox[i].method = "claim" => Len(inbox) = 1 /\ button = None /\ claim = None
    BY DEF HarnessInv, PipeInv
  <2> QED
    BY <2>1, <2>2 DEF PipeInv, AsksFor, Quiet, Calling, Beyond
<1>4. CoverInv'
  BY DEF HarnessInv, CoverInv, PressIsCovered, Down, Leased, Shooting, Beyond
<1>5. NeutralInv' /\ HoldInv'
  BY DEF NeutralInv, NeutralIsTrue, HoldInv
<1> QED
  BY <1>1, <1>2, <1>3, <1>4, <1>5 DEF HarnessInv

LEMMA CloseProviderKeeps ==
  ASSUME HarnessInv, CloseProvider
  PROVE  HarnessInv'
<1>1. /\ link' = "gone" /\ inbox' = <<>> /\ outbox' = <<>> /\ claim' = None /\ button' = None
      /\ Lift("broker", now) /\ UNCHANGED now /\ ~Down'
      /\ at' = "off" /\ sequence' = 0 /\ lease' = None /\ neutral' = TRUE /\ Forget
  BY DEF CloseProvider, BrokerEnds, ClientEnds, Down
<1>2. HarnessType'
  <2>1. HarnessType
    BY DEF HarnessInv
  <2>2. presses' \in Seq(Felt)
    BY <1>1, <2>1, Lifted DEF HarnessType
  <2>3. neutral' \in BOOLEAN
    BY <1>1
  <2> QED
    BY <1>1, <2>1, <2>2, <2>3, Forgotten DEF HarnessType
<1>3. LeaseInv' /\ PipeInv'
  BY <1>1 DEF LeaseInv, PipeInv, AsksFor, Quiet, Calling, Leased, Shooting
<1>4. CoverInv' /\ NeutralInv' /\ HoldInv'
  BY <1>1 DEF CoverInv, PressIsCovered, NeutralInv, NeutralIsTrue, HoldInv, Leased, Shooting
<1> QED
  BY <1>2, <1>3, <1>4 DEF HarnessInv

\* The broker still reads what the dead client has sent.
LEMMA CrashKeeps ==
  ASSUME HarnessInv, Crash
  PROVE  HarnessInv'
<1>1. /\ UNCHANGED <<now, inbox, claim, button, presses>>
      /\ outbox' = <<>> /\ link' \in {"closed", link}
      /\ link' = "gone" => link = "gone"
      /\ at' = "dead" /\ sequence' = 0 /\ lease' = None /\ neutral' = TRUE /\ Forget
  BY DEF Crash, ClientEnds, brokerVars, HarnessInv, HarnessType
<1>2. HarnessType'
  <2>1. HarnessType
    BY DEF HarnessInv
  <2>2. neutral' \in BOOLEAN
    BY <1>1
  <2> QED
    BY <1>1, <2>1, <2>2, Forgotten DEF HarnessType
<1>3. LeaseInv'
  BY <1>1 DEF HarnessInv, LeaseInv, Leased, Shooting
<1>4. PipeInv'
  BY <1>1 DEF HarnessInv, PipeInv, AsksFor, Quiet, Calling
<1>5. CoverInv' /\ NeutralInv' /\ HoldInv'
  BY <1>1 DEF HarnessInv, CoverInv, PressIsCovered, Down, NeutralInv, NeutralIsTrue, HoldInv,
              Leased, Shooting
<1> QED
  BY <1>2, <1>3, <1>4, <1>5 DEF HarnessInv

\* A cleanup out of a moment in which no call is under way.
LEMMA CleanUpFrom ==
  ASSUME HarnessInv, NEW why, CleanUp(why), Beyond, UNCHANGED <<outbox, lease, neutral>>,
         at \in Leased
  PROVE  HarnessInv' /\ at' = "neutralizing"
<1>1. HarnessInv'
  <2>1. neutral' \in BOOLEAN
    BY DEF HarnessInv, HarnessType
  <2> QED
    BY <2>1, CleanUpKeeps DEF Reads
<1>2. at' = "neutralizing"
  BY HarnessAssumption DEF HarnessInv, LeaseInv, CleanUp, Leased, Shooting
<1> QED
  BY <1>1, <1>2

\* Where the steps of the harness lead, and what they ask of the button.
NoNewDown ==
  \A i \in DOMAIN inbox' : inbox'[i].method = "button_down" =>
    i \in DOMAIN inbox /\ inbox'[i] = inbox[i]

LEMMA PlainSend ==
  ASSUME HarnessInv, NEW method \in Methods, Send(Request(method))
  PROVE  NoNewDown
<1>1. /\ Request(method) \in Requests /\ Request(method).method # "button_down"
  BY PlainRequest DEF HarnessInv, HarnessType, Methods
<1>2. \A i \in DOMAIN inbox' :
        (i \in DOMAIN inbox /\ inbox'[i] = inbox[i]) \/ inbox'[i] = Request(method)
  BY <1>1, SendItems DEF HarnessInv, HarnessType
<1> QED
  BY <1>1, <1>2 DEF NoNewDown

\* Cut short, the cleanup goes on without the answer it waited for.
LEMMA CleanUpInterruptedKeeps ==
  ASSUME HarnessInv, CleanUpInterrupted, Beyond, UNCHANGED <<outbox, neutral>>
  PROVE  HarnessInv' /\ NoNewDown /\ at' \in {"unclaiming", "stopped"}
<1>1. CASE at = "neutralizing"
  <2> DEFINE r == Request("release_claim")
  <2>1. /\ at' = "unclaiming" /\ cause' = "cut short" /\ Send(r) /\ UNCHANGED lease /\ Keep
        /\ lease \in Int /\ neutral' \in BOOLEAN /\ Reads
    BY <1>1 DEF CleanUpInterrupted, Reads, HarnessInv, HarnessType, LeaseInv
  <2>2. /\ r \in Requests /\ r.method = "release_claim" /\ r.sequence = sequence + 1
        /\ "release_claim" \in Methods
    BY PlainRequest DEF HarnessInv, HarnessType, Methods
  <2>3. NoNewDown
    BY <2>1, <2>2, PlainSend
  <2> HIDE DEF r
  <2>4. /\ sequence' = sequence + 1 /\ inbox' \in Seq(Requests) /\ sequence \in Int
        /\ link # "open" => inbox' = inbox
        /\ \A i \in DOMAIN inbox' :
             (i \in DOMAIN inbox /\ inbox'[i] = inbox[i]) \/ inbox'[i].method = "release_claim"
    BY <2>1, <2>2, SendItems DEF HarnessInv, HarnessType
  <2>5. HarnessType'
    <3>1. sequence' \in Int
      BY <2>4
    <3> QED
      BY <2>1, <2>4, <3>1 DEF HarnessInv, HarnessType, Beyond, Keep
  <2>6. LeaseInv'
    BY <2>1, <2>4 DEF HarnessInv, LeaseInv, Beyond, Leased, Shooting
  <2>7. PipeInv'
    <3>1. \A i \in DOMAIN inbox : inbox[i].method # "claim"
      BY <1>1 DEF HarnessInv, PipeInv
    <3> QED
      BY <1>1, <2>1, <2>2, <3>1, SentPipes DEF Quiet, Calling, AsksFor
  <2>8. CoverInv'
    BY <1>1, <2>1, <2>4 DEF HarnessInv, CoverInv, PressIsCovered, Down, Beyond, Leased, Shooting
  <2>9. NeutralInv'
    <3>1. \A i \in DOMAIN outbox' : outbox'[i].sequence # sequence'
      <4>1. \A i \in DOMAIN outbox : outbox[i].sequence <= sequence /\ outbox[i].sequence \in Int
        BY <1>1, ItemTypes DEF HarnessInv, PipeInv
      <4> QED
        BY <2>4, <4>1
    <3> QED
      BY <2>1, <3>1 DEF NeutralInv, NeutralIsTrue
  <2>10. HoldInv'
    BY <2>1 DEF HoldInv
  <2> QED
    BY <2>1, <2>3, <2>5, <2>6, <2>7, <2>8, <2>9, <2>10 DEF HarnessInv
<1>2. CASE at = "unclaiming"
  <2>1. /\ at' = "stopped" /\ UNCHANGED <<inbox, sequence, cause>> /\ lease' = None /\ Keep
    BY <1>2 DEF CleanUpInterrupted
  <2>2. HarnessType'
    BY <2>1 DEF HarnessInv, HarnessType, Beyond, Keep
  <2>3. LeaseInv'
    BY <1>2, <2>1 DEF HarnessInv, LeaseInv, Beyond, Leased, Shooting
  <2>4. PipeInv'
    BY <1>2, <2>1 DEF HarnessInv, PipeInv, AsksFor, Beyond, Calling, Quiet
  <2>5. CoverInv'
    BY <1>2, <2>1 DEF HarnessInv, CoverInv, PressIsCovered, Down, Beyond, Leased, Shooting
  <2>6. NeutralInv'
    BY <1>2, <2>1 DEF HarnessInv, NeutralInv, NeutralIsTrue, Down, Beyond
  <2>7. HoldInv'
    BY <2>1 DEF HoldInv
  <2> QED
    BY <2>1, <2>2, <2>3, <2>4, <2>5, <2>6, <2>7 DEF HarnessInv, NoNewDown
<1> QED
  BY <1>1, <1>2 DEF CleanUpInterrupted

LEMMA CleanUpSends ==
  ASSUME HarnessInv, NEW why, CleanUp(why)
  PROVE  NoNewDown /\ at' \in {"neutralizing", "stopped"}
<1>1. "release_all" \in Methods
  BY DEF Methods
<1>2. CASE inbox' = inbox
  BY <1>2 DEF CleanUp, NoNewDown
<1>3. CASE Send(Request("release_all"))
  BY <1>1, <1>3, PlainSend DEF CleanUp
<1> QED
  BY <1>2, <1>3 DEF CleanUp

Leads ==
  \/ at' \in Cleaning
  \/ at = "claiming" /\ at' = "framing"
  \/ at = "framing" /\ at' = "ready" /\ shot' = shot
  \/ /\ at \in Shooting /\ at' \in Shooting \cup {"ready"} /\ shot'.attempt = shot.attempt
     /\ at' = "ready" => at = "releasing"
     /\ at' = "armed" => at = "renewing"
     /\ at' # "renewing"

LEMMA HarnessMoves ==
  ASSUME HarnessInv, HarnessStep
  PROVE  /\ Leads
         /\ at \in Calling \cup {"armed", "holding", "neutralizing", "unclaiming"}
         /\ NoNewDown \/ (at = "armed" /\ at' = "pressing")
<1>0. \A method \in {"claim", "renew", "capture", "button_up", "release_all", "release_claim"} :
        method \in Methods
  BY DEF Methods
<1>a. inbox' = inbox => NoNewDown
  BY DEF NoNewDown
<1>b. ASSUME NEW why, CleanUp(why)
      PROVE  Leads /\ NoNewDown
  BY <1>b, CleanUpSends DEF Leads, Cleaning
<1>1. CASE ReleaseAllReturns
  BY <1>0, <1>1, PlainSend DEF ReleaseAllReturns, Leads, Cleaning
<1>2. CASE ReleaseClaimReturns
  BY <1>a, <1>2 DEF ReleaseClaimReturns, Leads, Cleaning
<1>3. CASE ClaimReturns
  <2>1. at = "claiming"
    BY <1>3 DEF ClaimReturns
  <2>2. CASE at' = "framing" /\ Send(Request("capture"))
    BY <1>0, <2>1, <2>2, PlainSend DEF Leads, Calling
  <2> QED
    BY <1>3, <1>b, <2>1, <2>2 DEF ClaimReturns, Waits, Goes, Calling
<1>4. CASE CaptureReturns
  BY <1>a, <1>b, <1>4 DEF CaptureReturns, GoesOn, Goes, Leads, Calling
<1>5. CASE RenewReturns
  BY <1>a, <1>b, <1>5 DEF RenewReturns, GoesOn, Goes, Keep, Leads, Calling, Shooting
<1>6. CASE SendDown
  <2>1. at = "armed"
    BY <1>6 DEF SendDown
  <2>2. \A latest, deadline : [shot EXCEPT !.latest = latest, !.deadline = deadline].attempt = shot.attempt
    BY DEF HarnessInv, HarnessType, Shots
  <2>3. CASE ~CleanUp("error")
    <3>1. /\ at' = "pressing"
          /\ \E latest, deadline : shot' = [shot EXCEPT !.latest = latest, !.deadline = deadline]
      BY <1>6, <2>3 DEF SendDown, Waits, Goes
    <3> QED
      BY <2>1, <2>2, <3>1 DEF Leads, Shooting
  <2> QED
    BY <1>b, <2>1, <2>3
<1>7. CASE DownReturns
  <2>1. at = "pressing"
    BY <1>7 DEF DownReturns
  <2>2. \A instant : [shot EXCEPT !.injected = instant].attempt = shot.attempt
    BY DEF HarnessInv, HarnessType, Shots
  <2>3. CASE ~CleanUp("error")
    BY <1>7, <1>a, <2>1, <2>2, <2>3 DEF DownReturns, GoesOn, Goes, Leads, Shooting, Calling
  <2> QED
    BY <1>b, <2>1, <2>3 DEF Calling
<1>8. CASE SendUp
  <2>1. at = "holding"
    BY <1>8 DEF SendUp
  <2>2. CASE at' = "releasing" /\ Send(Request("button_up")) /\ Keep
    BY <1>0, <2>1, <2>2, PlainSend DEF Leads, Shooting, Keep
  <2> QED
    BY <1>8, <1>b, <2>1, <2>2 DEF SendUp, Waits, Goes
<1>9. CASE UpReturns
  <2>1. at = "releasing"
    BY <1>9 DEF UpReturns
  <2>2. \A instant : [shot EXCEPT !.released = instant].attempt = shot.attempt
    BY DEF HarnessInv, HarnessType, Shots
  <2>3. CASE ~CleanUp("error")
    <3>1. /\ at' = "ready" /\ inbox' = inbox
          /\ \E instant : shot' = [shot EXCEPT !.released = instant]
      BY <1>9, <2>3 DEF UpReturns, GoesOn, Goes
    <3> QED
      BY <1>a, <2>1, <2>2, <3>1 DEF Leads, Shooting, Calling
  <2> QED
    BY <1>b, <2>1, <2>3 DEF Calling
<1>10. CASE CallRaises
  BY <1>b, <1>10 DEF CallRaises, Calling
<1> QED
  BY <1>1, <1>2, <1>3, <1>4, <1>5, <1>6, <1>7, <1>8, <1>9, <1>10 DEF HarnessStep

-----------------------------------------------------------------------------
(* What is used stays used once, and what was felt stays felt. *)

Grows == \A i \in DOMAIN presses : i \in DOMAIN presses' /\ presses'[i] = presses[i]
NoNewUse == \A a \in Attempts : Used(a)' => Used(a)

LEMMA UseStays ==
  ASSUME NoNewDown, UNCHANGED <<button, presses>>
  PROVE  NoNewUse /\ (OnceInv => OnceInv') /\ Grows
<1>1. \A a \in Attempts : Asked(a)' => Asked(a)
  BY DEF NoNewDown, Asked
<1>2. \A a \in Attempts : (Feels(a)' <=> Feels(a)) /\ (HasFelt(a)' <=> HasFelt(a))
  BY DEF Feels, HasFelt, Down
<1>3. OnceInv => OnceInv'
  BY <1>1, <1>2 DEF OnceInv
<1> QED
  BY <1>1, <1>2, <1>3 DEF NoNewUse, Used, Grows

\* What the injector lets go of was in its hand before.
LEMMA LiftMoves ==
  ASSUME HarnessType, OnceInv, NEW by \in {"broker", "button_up"}, NEW instant \in Int,
         Lift(by, instant), ~Down', \A a \in Attempts : Asked(a)' => Asked(a)
  PROVE  NoNewUse /\ OnceInv' /\ Grows
<1> DEFINE press == [attempt |-> button.attempt, by |-> by,
                     injected |-> button.injected, released |-> instant]
<1>1. press.attempt = button.attempt
  OBVIOUS
<1> HIDE DEF press
<1>2. /\ Grows
      /\ \A i \in DOMAIN presses' :
           \/ i \in DOMAIN presses /\ presses'[i] = presses[i]
           \/ Down /\ i = Len(presses) + 1 /\ presses'[i] = press
  BY Lifted DEF Grows, press
<1>3. \A a \in Attempts : HasFelt(a)' => HasFelt(a) \/ Feels(a)
  BY <1>1, <1>2 DEF HasFelt, Feels
<1>4. \A a \in Attempts : ~Feels(a)'
  BY DEF Feels
<1>5. NoNewUse
  BY <1>3, <1>4 DEF NoNewUse, Used
<1>6. \A i \in DOMAIN presses : Down => presses[i].attempt # button.attempt
  <2>1. Down => button.attempt \in Attempts
    BY DEF HarnessType, Down, Buttons
  <2> QED
    BY <2>1 DEF OnceInv, Feels, HasFelt
<1>7. ASSUME NEW i \in DOMAIN presses', NEW j \in DOMAIN presses',
             presses'[i].attempt = presses'[j].attempt
      PROVE  i = j
  BY <1>1, <1>2, <1>6, <1>7 DEF OnceInv
<1>8. OnceInv'
  BY <1>3, <1>4, <1>7 DEF OnceInv
<1> QED
  BY <1>2, <1>5, <1>8

LEMMA ServedAsks ==
  ASSUME HarnessInv, NEW method, Serving(method)
  PROVE  \A a \in Attempts : ~Asked(a)'
<1>1. /\ inbox \in Seq(Requests) /\ inbox # <<>> /\ inbox' = Tail(inbox)
      /\ \A i \in DOMAIN inbox : inbox[i].method = "button_down" => i = 1
  BY DEF Serving, HarnessInv, HarnessType, PipeInv
<1>2. \A i \in DOMAIN inbox' :
        i \in Nat \ {0} /\ i + 1 \in DOMAIN inbox /\ inbox'[i] = inbox[i + 1]
  BY <1>1, TailItems
<1>3. \A i \in DOMAIN inbox' : i + 1 # 1
  BY <1>2
<1> QED
  BY <1>1, <1>2, <1>3 DEF Asked

LEMMA BrokerMoves ==
  ASSUME HarnessInv, OnceInv, BrokerStep \/ Tick
  PROVE  NoNewUse /\ OnceInv' /\ Grows /\ UNCHANGED <<at, shot, buffer>>
<1>1. HarnessType /\ now \in Int
  BY DEF HarnessInv, HarnessType
<1>2. CASE ServeClaim \/ ServeRenew \/ ServeCapture \/ Refuse
  <2>1. UNCHANGED <<button, presses>> /\ \E method : Serving(method)
    BY <1>2 DEF ServeClaim, ServeRenew, ServeCapture, Refuse, brokerVars
  <2>2. \A a \in Attempts : ~Asked(a)'
    BY <2>1, ServedAsks
  <2>3. \A a \in Attempts : (Feels(a)' <=> Feels(a)) /\ (HasFelt(a)' <=> HasFelt(a))
    BY <2>1 DEF Feels, HasFelt, Down
  <2>4. OnceInv'
    BY <2>1, <2>2, <2>3 DEF OnceInv
  <2> QED
    BY <2>1, <2>2, <2>3, <2>4 DEF NoNewUse, Used, Grows, Serving, clientVars
<1>3. CASE ServeDown
  <2>1. /\ Serving("button_down") /\ UNCHANGED presses /\ button'.attempt = Head(inbox).attempt
    BY <1>3 DEF ServeDown
  <2>2. /\ 1 \in DOMAIN inbox /\ Head(inbox) = inbox[1] /\ inbox[1].method = "button_down"
        /\ inbox[1].attempt \in Attempts
    <3>1. inbox \in Seq(Requests) /\ inbox # <<>> /\ Head(inbox).method = "button_down"
      BY <1>1, <2>1 DEF Serving, HarnessType
    <3> QED
      BY <3>1, TailItems DEF Requests, Methods
  <2>3. \A a \in Attempts : ~Asked(a)'
    BY <2>1, ServedAsks
  <2>4. \A a \in Attempts : /\ Feels(a)' => Asked(a)
                            /\ HasFelt(a)' <=> HasFelt(a)
    BY <2>1, <2>2 DEF Feels, Asked, HasFelt
  <2>5. OnceInv'
    BY <2>1, <2>3, <2>4 DEF OnceInv
  <2> QED
    BY <2>1, <2>3, <2>4, <2>5 DEF NoNewUse, Used, Grows, Serving, clientVars
<1>4. CASE ServeUp \/ ServeReleaseClaim \/ ServeReleaseAll
  <2>1. /\ \E method : Serving(method)
        /\ button' = None /\ \E by \in {"broker", "button_up"} : Lift(by, now)
    BY <1>4 DEF ServeUp, ServeReleaseClaim, ServeReleaseAll
  <2>2. \A a \in Attempts : ~Asked(a)'
    BY <2>1, ServedAsks
  <2>3. ~Down'
    BY <2>1 DEF Down
  <2>4. NoNewUse /\ OnceInv' /\ Grows
    BY <1>1, <2>1, <2>2, <2>3, LiftMoves
  <2> QED
    BY <2>1, <2>4 DEF Serving, clientVars
<1>5. CASE Disconnect
  <2>1. /\ inbox' = <<>> /\ button' = None /\ Lift("broker", now) /\ ~Down'
    BY <1>5 DEF Disconnect, BrokerEnds, Down
  <2>2. \A a \in Attempts : ~Asked(a)'
    BY <2>1 DEF Asked
  <2>3. NoNewUse /\ OnceInv' /\ Grows
    BY <1>1, <2>1, <2>2, LiftMoves
  <2> QED
    BY <1>5, <2>3 DEF Disconnect, clientVars
<1>6. CASE Tick
  <2>1. UNCHANGED <<inbox, at, shot, buffer>> /\ now' \in Int
    BY <1>1, <1>6 DEF Tick, clientVars
  <2>2. NoNewDown
    BY <2>1 DEF NoNewDown
  <2>3. CASE UNCHANGED <<button, presses>>
    BY <2>1, <2>2, <2>3, UseStays
  <2>4. CASE Down /\ button' = [button EXCEPT !.down = FALSE] /\ Lift("broker", now')
    <3>1. button \in Buttons
      BY <1>1, <2>4 DEF HarnessType, Down
    <3>2. button'.down = FALSE
      BY <2>4, <3>1, LetGo
    <3>3. ~Down'
      BY <3>2 DEF Down
    <3>4. \A a \in Attempts : Asked(a)' => Asked(a)
      BY <2>1 DEF Asked
    <3> QED
      BY <1>1, <2>1, <2>4, <3>3, <3>4, LiftMoves
  <2> QED
    BY <1>6, <2>3, <2>4 DEF Tick
<1> QED
  BY <1>2, <1>3, <1>4, <1>5, <1>6 DEF BrokerStep

-----------------------------------------------------------------------------
(* The runner: what stays when the writer rests, and what a line adds. *)

LEMMA SampledStays ==
  ASSUME Grows
  PROVE  /\ \A a, seen : Sampled(a, seen) => Sampled(a, seen)'
         /\ UNCHANGED shot => (IsFelt(shot.released) => IsFelt(shot.released)')
<1>1. \A a, seen : Sampled(a, seen) => Sampled(a, seen)'
  BY DEF Grows, Sampled
<1>2. ASSUME UNCHANGED shot, IsFelt(shot.released)
      PROVE  IsFelt(shot.released)'
  BY <1>2 DEF Grows, IsFelt, Matches
<1> QED
  BY <1>1, <1>2

LEMMA RestKeeps ==
  ASSUME HarnessInv, HarnessRests
  PROVE  HarnessInv' /\ NoNewUse /\ (OnceInv => OnceInv') /\ Grows
<1>1. /\ UNCHANGED <<now, link, inbox, outbox, claim, button, presses>>
      /\ UNCHANGED <<sequence, at, cause, lease, buffer, shot, neutral, lastClick>>
  BY DEF HarnessRests, harnessVars, brokerVars, clientVars
<1>2. HarnessType' /\ LeaseInv'
  BY <1>1 DEF HarnessInv, HarnessType, LeaseInv
<1>3. PipeInv'
  BY <1>1 DEF HarnessInv, PipeInv, AsksFor
<1>4. CoverInv' /\ NeutralInv'
  BY <1>1 DEF HarnessInv, CoverInv, PressIsCovered, NeutralInv, NeutralIsTrue, NoPress, Down
<1>5. HoldInv'
  BY <1>1 DEF HarnessInv, HoldInv, InTime, IsHeld, IsFelt, Down
<1>6. NoNewDown
  BY <1>1 DEF NoNewDown
<1> QED
  BY <1>1, <1>2, <1>3, <1>4, <1>5, <1>6, UseStays DEF HarnessInv

Early == phase \in {"looking", "looked"} \/ at \in {"renewing", "armed"}

LEMMA RecordStays ==
  ASSUME OnRecord, NoNewUse, Range(journal) \subseteq Range(journal)', UNCHANGED attempted,
         pending => pending', phase' # "dead" => phase # "dead", Early' => Early
  PROVE  OnRecord'
<1> SUFFICES ASSUME NEW a \in Attempts, Used(a)'
             PROVE  /\ Intent(a) \in Range(journal)'
                    /\ phase' # "dead" => (a <= attempted' \/ (a = attempted' + 1 /\ pending' /\ ~Early'))
  BY DEF OnRecord, Early, Intent
<1>1. Used(a)
  BY DEF NoNewUse
<1> QED
  BY <1>1 DEF OnRecord, Early

LEMMA LinesStay ==
  ASSUME LinesInv, Grows, NEW line,
         IsSample(line) => line.seen \in Int /\ Sampled(line.attempt, line.seen),
         \A n \in DOMAIN journal' :
           \/ n \in DOMAIN journal /\ journal'[n] = journal[n]
           \/ journal'[n] \in {Torn, line}
  PROVE  LinesInv'
<1> SUFFICES ASSUME NEW n \in DOMAIN journal', IsSample(journal'[n])
             PROVE  journal'[n].seen \in Int /\ Sampled(journal[n].attempt, journal[n].seen)'
  BY DEF LinesInv, IsSample
<1>1. ~IsSample(Torn)
  BY DEF IsSample, Torn
<1>2. journal'[n].seen \in Int /\ Sampled(journal'[n].attempt, journal'[n].seen)
  BY <1>1 DEF LinesInv
<1>3. \A a, seen : Sampled(a, seen) => Sampled(a, seen)'
  BY SampledStays
<1> QED
  BY <1>2, <1>3 DEF Sampled

LEMMA RunStays ==
  ASSUME RunInv, HarnessInv', ControlInv', NoNewUse, OnceInv', Grows,
         WriterRests, UNCHANGED verdict, effect' \in Int \cup {None},
         phase' # "dead" => phase # "dead", Early' => Early, FeltInv', EffectInv',
         verdict # None => phase' \in {"idle", "dead"}
  PROVE  RunInv'
<1>1. UNCHANGED <<journal, pending, attempted>>
  BY DEF WriterRests, writerVars
<1>2. RunnerType'
  BY <1>1 DEF RunInv, RunnerType
<1>3. OnRecord'
  BY <1>1, RecordStays DEF RunInv, RecordInv, Range
<1>4. LinesInv'
  <2>1. ~IsSample(Torn)
    BY DEF IsSample, Torn
  <2>2. LinesInv /\ \A n \in DOMAIN journal' : n \in DOMAIN journal /\ journal'[n] = journal[n]
    BY <1>1 DEF RunInv, SampleInv
  <2> QED
    BY <2>1, <2>2, LinesStay
<1>5. VerdictInv'
  BY <1>1 DEF RunInv, SampleInv, VerdictInv, Complete, Intent
<1> QED
  BY <1>2, <1>3, <1>4, <1>5 DEF RunInv, RecordInv, SampleInv

\* What a write may leave in the file.
LEMMA JournalGrows ==
  ASSUME journal \in Seq(Lines), NEW line \in Lines,
         journal' = Append(journal, line) \/ WriteFails(line)
  PROVE  /\ journal' \in Seq(Lines) /\ Range(journal) \subseteq Range(journal)'
         /\ \A n \in DOMAIN journal' :
              \/ n \in DOMAIN journal /\ journal'[n] = journal[n]
              \/ journal'[n] \in {Torn, line}
         /\ journal' = Append(journal, line) => line \in Range(journal)'
<1>1. Torn \in Lines
  BY DEF Lines
<1>2. journal' = journal \/ \E x \in {Torn, line} : journal' = Append(journal, x)
  <2>1. CASE WriteFails(line)
    BY <1>1, <2>1 DEF WriteFails
  <2> QED
    BY <2>1
<1>3. CASE journal' = journal
  <2>1. journal' # Append(journal, line)
    <3>1. Len(Append(journal, line)) = Len(journal) + 1 /\ Len(journal) \in Nat
      OBVIOUS
    <3> QED
      BY <1>3, <3>1
  <2> QED
    BY <1>3, <2>1 DEF Range
<1>4. ASSUME NEW x \in {Torn, line}, journal' = Append(journal, x)
      PROVE  /\ journal' \in Seq(Lines) /\ Range(journal) \subseteq Range(journal)'
             /\ \A n \in DOMAIN journal' :
                  \/ n \in DOMAIN journal /\ journal'[n] = journal[n]
                  \/ journal'[n] = x
             /\ x \in Range(journal)' /\ x = journal'[Len(journal) + 1]
  <2>1. x \in Lines
    BY <1>1, <1>4
  <2>2. /\ journal' \in Seq(Lines) /\ DOMAIN journal' = DOMAIN journal \cup {Len(journal) + 1}
        /\ \A n \in DOMAIN journal : journal'[n] = journal[n]
        /\ journal'[Len(journal) + 1] = x
    BY <1>4, <2>1, AppendItems
  <2> QED
    BY <2>2 DEF Range
<1>5. journal' = Append(journal, line) => journal'[Len(journal) + 1] = line
  BY AppendItems
<1> QED
  BY <1>2, <1>3, <1>4, <1>5

-----------------------------------------------------------------------------
(* The steps of the runner. *)

LEMMA NextCellIs ==
  ASSUME RunnerType, NextCell # None \/ attempted < Cells
  PROVE  /\ NextCell = attempted + 1 /\ NextCell \in Attempts /\ attempted < Cells
         /\ attempted \in Int
<1>1. Cells \in Nat
  BY CalibrationAssumption
<1>2. attempted \in Nat
  BY <1>1 DEF RunnerType
<1>3. attempted < Cells /\ NextCell = attempted + 1
  BY DEF NextCell
<1> QED
  BY <1>1, <1>2, <1>3 DEF Attempts

LEMMA ControlStays ==
  ASSUME RunInv, WriterRests
  PROVE  /\ UNCHANGED <<journal, pending, attempted>>
         /\ (pending => attempted < Cells /\ Intent(attempted + 1) \in Range(journal))'
BY DEF RunInv, ControlInv, WriterRests, writerVars, Range, Intent

LEMMA StartRunKeeps ==
  ASSUME RunInv, StartRun
  PROVE  RunInv'
<1>1. /\ phase = "idle" /\ at = "off" /\ phase' = "opening" /\ Open /\ WriterRests
      /\ UNCHANGED <<effect, verdict>> /\ verdict = None /\ HarnessInv
  BY DEF StartRun, Reach, RunInv, ControlInv, WriterRests
<1>2. HarnessInv'
  BY <1>1, OpenKeeps
<1>3. NoNewDown /\ UNCHANGED <<button, presses>> /\ at' = "claiming"
  BY <1>1 DEF Open, NoNewDown, brokerVars
<1>4. NoNewUse /\ OnceInv' /\ Grows
  BY <1>3, UseStays DEF RunInv, RecordInv
<1>5. ControlInv'
  BY <1>1, <1>3, ControlStays DEF ControlInv, Shooting
<1>6. FeltInv' /\ EffectInv' /\ ~Early'
  BY <1>1, <1>3 DEF FeltInv, EffectInv, Early
<1> QED
  BY <1>1, <1>2, <1>4, <1>5, <1>6, RunStays DEF RunInv, RunnerType

LEMMA OpenedKeeps ==
  ASSUME RunInv, Opened
  PROVE  RunInv'
<1>1. /\ phase = "opening" /\ at = "ready" /\ WriterRests
      /\ UNCHANGED <<effect, verdict>> /\ verdict = None /\ HarnessInv
  BY DEF Opened, RunInv, WriterRests, SampleInv, VerdictInv
<1>2. /\ phase' \in {"between", "exiting"} /\ at' \in {"ready", "neutralizing"}
      /\ phase' = "between" => at' = "ready"
      /\ HarnessInv' /\ NoNewUse /\ OnceInv' /\ Grows
  <2>1. CASE HarnessRests /\ phase' = "between"
    <3>1. at' = "ready"
      BY <1>1, <2>1 DEF HarnessRests, harnessVars, clientVars
    <3> QED
      BY <1>1, <2>1, <3>1, RestKeeps DEF RunInv, RecordInv
  <2>2. CASE /\ CleanUp("error") /\ Steady /\ UNCHANGED <<outbox, lease, neutral>>
             /\ phase' = "exiting"
    <3>1. Beyond
      BY <2>2 DEF Steady, Beyond, brokerVars
    <3>2. HarnessInv' /\ at' = "neutralizing"
      BY <1>1, <2>2, <3>1, CleanUpFrom DEF Leased
    <3>3. NoNewDown
      BY <1>1, <2>2, CleanUpSends
    <3> QED
      BY <1>1, <2>2, <3>1, <3>2, <3>3, UseStays DEF Beyond, RunInv, RecordInv
  <2> QED
    BY <2>1, <2>2 DEF Opened, Reach
<1>3. ControlInv'
  BY <1>1, <1>2, ControlStays DEF ControlInv, Shooting, Cleaning
<1>4. FeltInv' /\ EffectInv' /\ ~Early'
  BY <1>1, <1>2 DEF FeltInv, EffectInv, Early
<1> QED
  BY <1>1, <1>2, <1>3, <1>4, RunStays DEF RunInv, RunnerType

LEMMA LeaveLoopKeeps ==
  ASSUME RunInv, LeaveLoop
  PROVE  RunInv'
<1>1. /\ phase = "between" /\ at = "ready" /\ phase' = "exiting" /\ WriterRests /\ HarnessRests
      /\ UNCHANGED <<effect, verdict>> /\ verdict = None /\ at' = "ready"
  BY DEF LeaveLoop, Reach, RunInv, WriterRests, SampleInv, VerdictInv,
         HarnessRests, harnessVars, clientVars
<1>2. HarnessInv' /\ NoNewUse /\ OnceInv' /\ Grows
  BY <1>1, RestKeeps DEF RunInv, RecordInv
<1>3. ControlInv'
  BY <1>1, ControlStays DEF ControlInv, Shooting
<1>4. FeltInv' /\ EffectInv' /\ ~Early'
  BY <1>1 DEF FeltInv, EffectInv, Early
<1> QED
  BY <1>1, <1>2, <1>3, <1>4, RunStays DEF RunInv, RunnerType

LEMMA CaptureFrameKeeps ==
  ASSUME RunInv, CaptureFrame
  PROVE  RunInv'
<1>1. /\ phase \in {"looking", "observing"} /\ at = "ready" /\ Capture /\ WriterRests
      /\ phase' = IF phase = "looking" THEN "looked" ELSE phase
      /\ UNCHANGED <<effect, verdict>> /\ verdict = None /\ pending
  BY DEF CaptureFrame, Capture, Reach, RunInv, ControlInv, SampleInv, VerdictInv
<1>2. /\ HarnessInv' /\ UNCHANGED <<button, presses>> /\ NoNewDown
      /\ (at' = "framing" /\ UNCHANGED shot) \/ at' = "neutralizing"
  <2>1. HarnessInv' /\ Beyond /\ UNCHANGED <<outbox, lease, neutral>> /\ "capture" \in Methods
    BY <1>1, CaptureKeeps DEF RunInv, Capture, Beyond, brokerVars, Methods
  <2>2. CASE at' = "framing" /\ Send(Request("capture")) /\ Keep
    BY <2>1, <2>2, PlainSend DEF RunInv, Beyond, Keep
  <2>3. CASE CleanUp("error")
    BY <1>1, <2>1, <2>3, CleanUpFrom, CleanUpSends DEF RunInv, Leased, Beyond
  <2> QED
    BY <1>1, <2>2, <2>3 DEF Capture, Waits, Goes
<1>3. NoNewUse /\ OnceInv' /\ Grows
  BY <1>2, UseStays DEF RunInv, RecordInv
<1>4. ControlInv'
  BY <1>1, <1>2, ControlStays DEF ControlInv, Shooting, Cleaning, Leased
<1>5. FeltInv'
  BY <1>1, <1>2, <1>3, SampledStays, ControlStays DEF RunInv, SampleInv, FeltInv
<1>6. EffectInv' /\ (Early' => Early)
  BY <1>1, <1>2 DEF EffectInv, Early
<1> QED
  BY <1>1, <1>2, <1>3, <1>4, <1>5, <1>6, RunStays DEF RunInv, RunnerType

LEMMA FireShotKeeps ==
  ASSUME RunInv, FireShot
  PROVE  RunInv'
<1>1. /\ phase = "looked" /\ at = "ready" /\ Fire(NextCell) /\ WriterRests /\ phase' = "observing"
      /\ UNCHANGED <<effect, verdict>> /\ verdict = None /\ pending
      /\ NextCell = attempted + 1 /\ NextCell \in Attempts
  BY NextCellIs DEF FireShot, Reach, RunInv, ControlInv, SampleInv, VerdictInv
<1>2. /\ HarnessInv' /\ UNCHANGED <<button, presses>> /\ NoNewDown
      /\ (at' \in {"armed", "renewing"} /\ shot'.attempt = attempted + 1) \/ at' = "neutralizing"
  BY <1>1, FireKeeps DEF RunInv, Beyond, NoNewDown
<1>3. NoNewUse /\ OnceInv' /\ Grows
  BY <1>2, UseStays DEF RunInv, RecordInv
<1>4. ControlInv'
  BY <1>1, <1>2, ControlStays DEF ControlInv, Shooting, Cleaning, Leased
<1>5. FeltInv' /\ EffectInv' /\ Early
  BY <1>1, <1>2 DEF FeltInv, EffectInv, Early
<1> QED
  BY <1>1, <1>2, <1>3, <1>4, <1>5, RunStays DEF RunInv, RunnerType

\* The effect was seen in a frame after the release, so the sample has a whole press.
LEMMA RecordEffectKeeps ==
  ASSUME RunInv, RecordEffect
  PROVE  RunInv'
<1>1. /\ phase = "observing" /\ at = "ready" /\ WriterRests /\ verdict = None /\ UNCHANGED verdict
      /\ Beyond /\ UNCHANGED <<outbox, lease, neutral>> /\ pending
  BY DEF RecordEffect, RunInv, ControlInv, SampleInv, VerdictInv, Steady, Beyond, brokerVars
<1>2. CASE CleanUp("error") /\ UNCHANGED <<effect, phase>>
  <2>1. HarnessInv' /\ at' = "neutralizing" /\ NoNewDown
    BY <1>1, <1>2, CleanUpFrom, CleanUpSends DEF RunInv, Leased
  <2>2. NoNewUse /\ OnceInv' /\ Grows
    BY <1>1, <2>1, UseStays DEF RunInv, RecordInv, Beyond
  <2>3. ControlInv'
    BY <1>1, <1>2, <2>1, ControlStays DEF ControlInv, Shooting, Cleaning
  <2>4. FeltInv' /\ EffectInv' /\ ~Early'
    BY <1>1, <1>2, <2>1 DEF FeltInv, EffectInv, Early
  <2> QED
    <3>1. effect' \in Int \cup {None} /\ phase' # "dead" /\ phase # "dead"
      BY <1>1, <1>2 DEF RunInv, RunnerType
    <3> QED
      BY <1>1, <2>1, <2>2, <2>3, <2>4, <3>1, RunStays
<1>3. CASE ~(CleanUp("error") /\ UNCHANGED <<effect, phase>>)
  <2>1. PICK frame \in Range(buffer) :
          /\ frame.observed >= shot.released /\ effect' = frame.observed /\ phase' = "recording"
          /\ GoesOn(at) /\ Keep
    BY <1>3 DEF RecordEffect, Reach
  <2>2. frame \in Frames /\ frame.observed \in Int
    <3>1. buffer \in Seq(Frames)
      BY DEF RunInv, HarnessInv, HarnessType
    <3>2. \E k \in DOMAIN buffer : frame = buffer[k]
      BY <2>1 DEF Range
    <3>3. frame \in Frames
      BY <3>1, <3>2
    <3>4. \A f \in Frames : f.observed \in Int
      BY DEF Frames
    <3> QED
      BY <3>3, <3>4
  <2>3. HarnessRests /\ at' = "ready"
    BY <1>1, <2>1
       DEF GoesOn, Goes, Keep, Beyond, HarnessRests, harnessVars, brokerVars, clientVars
  <2>4. HarnessInv' /\ NoNewUse /\ OnceInv' /\ Grows
    BY <2>3, RestKeeps DEF RunInv, RecordInv
  <2>5. ControlInv'
    BY <1>1, <2>1, <2>3, ControlStays DEF ControlInv, Shooting
  <2>6. Sampled(attempted + 1, frame.observed)
    <3>1. /\ shot.attempt = attempted + 1 /\ IsFelt(shot.released)
          /\ LongEnough(shot.injected, shot.released)
      BY <1>1 DEF RunInv, SampleInv, FeltInv
    <3>2. PICK i \in DOMAIN presses : Matches(presses[i], shot.attempt, shot.injected, shot.released)
      BY <3>1 DEF IsFelt
    <3> QED
      BY <2>1, <3>1, <3>2 DEF Matches, Sampled
  <2>7. EffectInv'
    <3>1. UNCHANGED <<presses, attempted>>
      BY <1>1, <2>3 DEF WriterRests, writerVars, HarnessRests, harnessVars, brokerVars
    <3> QED
      BY <2>1, <2>2, <2>6, <3>1 DEF EffectInv, Sampled
  <2>8. FeltInv' /\ ~Early'
    BY <2>1, <2>3 DEF FeltInv, Early
  <2> QED
    BY <1>1, <2>1, <2>2, <2>4, <2>5, <2>7, <2>8, RunStays
<1> QED
  BY <1>2, <1>3

LEMMA InterruptKeeps ==
  ASSUME RunInv, Interrupt
  PROVE  RunInv'
<1>1. /\ phase \notin {"idle", "over", "dead"} /\ HarnessInterrupted
      /\ Beyond /\ UNCHANGED <<outbox, neutral>> /\ WriterRests /\ UNCHANGED verdict
      /\ phase' = "exiting" /\ effect' = None /\ verdict = None
  BY DEF Interrupt, Reach, Steady, Beyond, brokerVars, RunInv, SampleInv, VerdictInv
<1>2. HarnessInv' /\ NoNewDown /\ at' \in {"abandoned"} \cup Cleaning
  <2>1. CASE at \notin Cleaning \cup {"abandoned"} /\ phase \in {"opening", "exiting"}
    <3>1. at \in {"claiming", "framing", "ready"}
      BY <2>1 DEF RunInv, ControlInv
    <3>2. /\ at' = "abandoned" /\ Forget /\ UNCHANGED <<inbox, sequence, lease>>
      BY <1>1, <2>1 DEF HarnessInterrupted, CleanUpInterrupted, Cleaning, GoesOn, Goes
    <3> QED
      BY <1>1, <3>1, <3>2, AbandonKeeps DEF RunInv, NoNewDown
  <2>2. CASE at \notin Cleaning \cup {"abandoned"} /\ phase \notin {"opening", "exiting"}
    <3>1. at \in Leased
      BY <1>1, <2>2 DEF RunInv, ControlInv, Leased
    <3>2. CleanUp("interrupt") /\ UNCHANGED lease
      BY <1>1, <2>2 DEF HarnessInterrupted, CleanUpInterrupted, Cleaning
    <3> QED
      BY <1>1, <3>1, <3>2, CleanUpFrom, CleanUpSends DEF RunInv, Cleaning
  <2>3. CASE CleanUpInterrupted
    BY <1>1, <2>3, CleanUpInterruptedKeeps DEF RunInv, Cleaning
  <2>4. CASE at \in {"stopped", "abandoned"} /\ UNCHANGED <<inbox, clientVars>>
    <3>1. HarnessRests
      BY <1>1, <2>4 DEF HarnessRests, harnessVars, Beyond, brokerVars
    <3>2. at' = at
      BY <2>4 DEF clientVars
    <3> QED
      BY <2>4, <3>1, <3>2, RestKeeps DEF RunInv, Cleaning, NoNewDown
  <2> QED
    BY <1>1, <2>1, <2>2, <2>3, <2>4 DEF HarnessInterrupted
<1>3. NoNewUse /\ OnceInv' /\ Grows
  BY <1>1, <1>2, UseStays DEF RunInv, RecordInv, Beyond
<1>4. ControlInv'
  BY <1>1, <1>2, ControlStays DEF ControlInv, Shooting, Cleaning
<1>5. FeltInv' /\ EffectInv' /\ ~Early'
  BY <1>1, <1>2 DEF FeltInv, EffectInv, Early, Cleaning
<1> QED
  BY <1>1, <1>2, <1>3, <1>4, <1>5, RunStays

LEMMA CloseHarnessKeeps ==
  ASSUME RunInv, CloseHarness
  PROVE  RunInv'
<1>1. /\ phase = "exiting" /\ at = "ready" /\ CleanUp("closed") /\ Beyond
      /\ UNCHANGED <<outbox, lease, neutral>> /\ WriterRests /\ UNCHANGED <<phase, effect, verdict>>
      /\ verdict = None
  BY DEF CloseHarness, Steady, Beyond, brokerVars, runnerVars, writerVars, WriterRests,
         RunInv, SampleInv, VerdictInv
<1>2. HarnessInv' /\ NoNewDown /\ at' = "neutralizing"
  BY <1>1, CleanUpFrom, CleanUpSends DEF RunInv, Leased
<1>3. NoNewUse /\ OnceInv' /\ Grows
  BY <1>1, <1>2, UseStays DEF RunInv, RecordInv, Beyond
<1>4. ControlInv'
  BY <1>1, <1>2, ControlStays DEF ControlInv, Shooting, Cleaning
<1>5. FeltInv' /\ EffectInv' /\ ~Early'
  BY <1>1, <1>2 DEF FeltInv, EffectInv, Early
<1> QED
  BY <1>1, <1>2, <1>3, <1>4, <1>5, RunStays DEF RunInv, RunnerType

LEMMA LeaveRunKeeps ==
  ASSUME RunInv, LeaveRun
  PROVE  RunInv'
<1>1. /\ at \in {"stopped", "abandoned"} /\ phase \in {"opening", "exiting"} /\ phase' = "over"
      /\ HarnessRests /\ WriterRests /\ UNCHANGED <<effect, verdict>> /\ verdict = None
      /\ at' = at
  BY DEF LeaveRun, Reach, RunInv, SampleInv, VerdictInv, HarnessRests, harnessVars, clientVars
<1>2. HarnessInv' /\ NoNewUse /\ OnceInv' /\ Grows
  BY <1>1, RestKeeps DEF RunInv, RecordInv
<1>3. ControlInv'
  BY <1>1, ControlStays DEF ControlInv, Shooting
<1>4. FeltInv' /\ EffectInv' /\ ~Early'
  BY <1>1 DEF FeltInv, EffectInv, Early
<1> QED
  BY <1>1, <1>2, <1>3, <1>4, RunStays DEF RunInv, RunnerType

LEMMA CloseProviderOfRunKeeps ==
  ASSUME RunInv, CloseProvider
  PROVE  RunInv'
<1>1. /\ phase = "over" /\ phase' = "idle" /\ at' = "off" /\ inbox' = <<>> /\ button' = None
      /\ Lift("broker", now) /\ WriterRests /\ UNCHANGED <<effect, verdict>>
  BY DEF CloseProvider, Reach, BrokerEnds, ClientEnds
<1>2. HarnessInv' /\ HarnessType /\ now \in Int
  BY CloseProviderKeeps DEF RunInv, HarnessInv, HarnessType
<1>3. ~Down' /\ \A a \in Attempts : ~Asked(a)'
  BY <1>1 DEF Down, Asked
<1>4. NoNewUse /\ OnceInv' /\ Grows
  BY <1>1, <1>2, <1>3, LiftMoves DEF RunInv, RecordInv
<1>5. ControlInv'
  BY <1>1, ControlStays DEF ControlInv, Shooting
<1>6. FeltInv' /\ EffectInv' /\ ~Early'
  BY <1>1 DEF FeltInv, EffectInv, Early
<1> QED
  BY <1>1, <1>2, <1>4, <1>5, <1>6, RunStays DEF RunInv, RunnerType

LEMMA CrashOfRunKeeps ==
  ASSUME RunInv, Crash
  PROVE  RunInv'
<1>1. /\ phase # "idle" /\ phase' = "dead" /\ at' = "dead" /\ UNCHANGED <<inbox, button, presses>>
      /\ UNCHANGED <<journal, verdict>> /\ pending' = FALSE /\ attempted' = 0 /\ effect' = None
      /\ phase # "dead"
  BY DEF Crash, Reach, ClientEnds, brokerVars
<1>2. HarnessInv'
  BY CrashKeeps DEF RunInv
<1>3. NoNewUse /\ OnceInv' /\ Grows
  <2>1. NoNewDown
    BY <1>1 DEF NoNewDown
  <2> QED
    BY <1>1, <2>1, UseStays DEF RunInv, RecordInv
<1>4. RunnerType'
  <2>1. 0 \in 0 .. Cells
    BY CalibrationAssumption
  <2>2. pending' \in BOOLEAN
    BY <1>1
  <2> QED
    BY <1>1, <2>1, <2>2 DEF RunInv, RunnerType
<1>5. ControlInv'
  BY <1>1 DEF ControlInv, Shooting
<1>6. OnRecord'
  BY <1>1, <1>3 DEF RunInv, RecordInv, OnRecord, NoNewUse, Range, Intent
<1>7. LinesInv'
  <2>1. ~IsSample(Torn)
    BY DEF IsSample, Torn
  <2> QED
    BY <1>1, <1>3, <2>1, LinesStay DEF RunInv, SampleInv
<1>8. FeltInv' /\ EffectInv' /\ VerdictInv'
  BY <1>1 DEF FeltInv, EffectInv, VerdictInv, Complete, Intent, RunInv, SampleInv
<1> QED
  BY <1>2, <1>3, <1>4, <1>5, <1>6, <1>7, <1>8 DEF RunInv, RecordInv, SampleInv

LEMMA QualifyKeeps ==
  ASSUME RunInv, Qualify
  PROVE  RunInv'
<1>1. /\ phase \in {"idle", "dead"} /\ verdict' = IF Complete(journal) THEN "complete" ELSE "refused"
      /\ HarnessRests /\ UNCHANGED <<journal, pending, attempted, phase, effect>>
      /\ UNCHANGED <<at, shot, inbox, button, presses>>
  BY DEF Qualify, WriterRests, writerVars, HarnessRests, harnessVars, clientVars, brokerVars
<1>2. HarnessInv' /\ NoNewUse /\ OnceInv' /\ Grows
  BY <1>1, RestKeeps DEF RunInv, RecordInv
<1>3. RunnerType' /\ ControlInv'
  BY <1>1 DEF RunInv, RunnerType, ControlInv, Range, Intent
<1>4. OnRecord'
  BY <1>1, <1>2, RecordStays DEF RunInv, RecordInv, Range, Early
<1>5. LinesInv'
  <2>1. ~IsSample(Torn)
    BY DEF IsSample, Torn
  <2> QED
    BY <1>1, <1>2, <2>1, LinesStay DEF RunInv, SampleInv
<1>6. FeltInv' /\ EffectInv'
  BY <1>1 DEF FeltInv, EffectInv
<1>7. VerdictInv'
  BY <1>1 DEF VerdictInv, Complete, Intent
<1> QED
  BY <1>2, <1>3, <1>4, <1>5, <1>6, <1>7 DEF RunInv, RecordInv, SampleInv

\* The intent is written while no attempt is pending, so nothing of its cell is used.
LEMMA BeginAttemptKeeps ==
  ASSUME RunInv, BeginAttempt
  PROVE  RunInv'
<1> DEFINE line == Intent(NextCell)
<1>1. /\ phase = "between" /\ at = "ready" /\ ~pending /\ HarnessRests /\ verdict = None
      /\ UNCHANGED <<attempted, effect, verdict>> /\ NextCell = attempted + 1
      /\ NextCell \in Attempts /\ attempted < Cells /\ attempted \in Int
      /\ UNCHANGED <<at, shot>>
      /\ \/ journal' = Append(journal, line) /\ pending' = TRUE /\ phase' = "looking"
         \/ WriteFails(line) /\ UNCHANGED pending /\ phase' = "exiting"
  BY NextCellIs DEF BeginAttempt, Reach, RunInv, SampleInv, VerdictInv,
                    HarnessRests, harnessVars, clientVars
<1>2. line \in Lines /\ ~IsSample(line) /\ line = Intent(attempted + 1)
  BY <1>1 DEF Intent, Lines, IsSample
<1> HIDE DEF line
<1>3. /\ journal' \in Seq(Lines) /\ Range(journal) \subseteq Range(journal)'
      /\ \A n \in DOMAIN journal' :
           \/ n \in DOMAIN journal /\ journal'[n] = journal[n]
           \/ journal'[n] \in {Torn, line}
      /\ journal' = Append(journal, line) => line \in Range(journal)'
  BY <1>1, <1>2, JournalGrows DEF RunInv, RunnerType
<1>4. HarnessInv' /\ NoNewUse /\ OnceInv' /\ Grows
  BY <1>1, RestKeeps DEF RunInv, RecordInv
<1>5. RunnerType'
  <2>1. pending' \in BOOLEAN
    BY <1>1 DEF RunInv, RunnerType
  <2> QED
    BY <1>1, <1>3, <2>1 DEF RunInv, RunnerType
<1>6. ControlInv'
  BY <1>1, <1>2, <1>3 DEF ControlInv, Shooting, Intent
<1>7. OnRecord'
  <2> SUFFICES ASSUME NEW a \in Attempts, Used(a)'
               PROVE  Intent(a) \in Range(journal)' /\ a <= attempted'
    BY DEF OnRecord, Intent
  <2>1. Used(a)
    BY <1>4 DEF NoNewUse
  <2> QED
    BY <1>1, <1>3, <2>1 DEF RunInv, RecordInv, OnRecord
<1>8. LinesInv'
  BY <1>2, <1>3, <1>4, LinesStay DEF RunInv, SampleInv
<1>9. FeltInv' /\ EffectInv' /\ VerdictInv'
  BY <1>1, CalibrationAssumption DEF FeltInv, EffectInv, VerdictInv
<1> QED
  BY <1>3, <1>4, <1>5, <1>6, <1>7, <1>8, <1>9 DEF RunInv, RecordInv, SampleInv

\* Terminal outcomes: the cell is done with, or its attempt stays the last one.
Ended(line) ==
  \/ /\ journal' = Append(journal, line) /\ pending' = FALSE
     /\ attempted' = attempted + 1
     /\ phase' = "exiting" \/ (phase' = "between" /\ at = "ready")
  \/ WriteFails(line) /\ UNCHANGED <<pending, attempted>> /\ phase' = "exiting"

LEMMA OutcomeKeeps ==
  ASSUME RunInv, pending, NEW line \in Lines, HarnessRests, UNCHANGED verdict, effect' = None,
         Ended(line),
         at \in {"ready", "stopped"}, verdict = None, phase # "dead",
         IsSample(line) => line.seen \in Int /\ Sampled(line.attempt, line.seen)
  PROVE  RunInv'
<1>a. /\ attempted' \in {attempted, attempted + 1}
      /\ pending' => attempted' = attempted
      /\ pending' \/ attempted' = attempted + 1
  BY DEF Ended
<1>b. phase' \in {"exiting", "between"} /\ (phase' = "between" => at = "ready")
  BY DEF Ended
<1>c. OnRecord /\ pending /\ phase # "dead"
  BY DEF RunInv, RecordInv
<1>1. /\ attempted < Cells /\ attempted \in Nat /\ Cells \in Nat /\ UNCHANGED <<at, shot>>
  BY CalibrationAssumption
     DEF RunInv, ControlInv, RunnerType, HarnessRests, harnessVars, clientVars
<1>2. /\ journal' \in Seq(Lines) /\ Range(journal) \subseteq Range(journal)'
      /\ \A n \in DOMAIN journal' :
           \/ n \in DOMAIN journal /\ journal'[n] = journal[n]
           \/ journal'[n] \in {Torn, line}
  BY JournalGrows DEF RunInv, RunnerType, Ended
<1>3. HarnessInv' /\ NoNewUse /\ OnceInv' /\ Grows
  BY RestKeeps DEF RunInv, RecordInv
<1>4. RunnerType'
  <2>1. pending' \in BOOLEAN
    BY DEF RunInv, RunnerType, Ended
  <2>2. attempted' \in 0 .. Cells
    BY <1>a, <1>1 DEF RunInv
  <2> QED
    BY <1>2, <2>1, <2>2 DEF RunnerType
<1>5. ControlInv'
  <2>1. pending' => attempted' < Cells /\ Intent(attempted' + 1) \in Range(journal)'
    BY <1>a, <1>1, <1>2 DEF RunInv, ControlInv
  <2> QED
    BY <1>b, <1>1, <2>1 DEF ControlInv, Shooting, Intent, Cleaning
<1>6. OnRecord'
  <2> SUFFICES ASSUME NEW a \in Attempts, Used(a)'
               PROVE  /\ Intent(a) \in Range(journal)'
                      /\ a <= attempted' \/ (a = attempted' + 1 /\ pending' /\ ~Early')
    BY DEF OnRecord, Intent, Early
  <2>1. Used(a)
    BY <1>3 DEF NoNewUse
  <2>2. /\ Intent(a) \in Range(journal)
        /\ a <= attempted \/ (a = attempted + 1 /\ pending)
    BY <1>c, <2>1 DEF OnRecord
  <2>3. ~Early' /\ a \in Int
    BY <1>b, <1>1 DEF Early, Attempts
  <2> QED
    BY <1>a, <1>1, <1>2, <2>2, <2>3
<1>7. LinesInv'
  BY <1>2, <1>3, LinesStay DEF RunInv, SampleInv
<1>8. FeltInv' /\ EffectInv' /\ VerdictInv'
  BY <1>b, CalibrationAssumption DEF FeltInv, EffectInv, VerdictInv
<1> QED
  BY <1>3, <1>4, <1>5, <1>6, <1>7, <1>8 DEF RunInv, RecordInv, SampleInv

LEMMA CompleteAttemptKeeps ==
  ASSUME RunInv, CompleteAttempt
  PROVE  RunInv'
<1> DEFINE line == Outcome(NextCell, "completed", effect)
<1>1. /\ phase = "recording" /\ at = "ready" /\ pending /\ HarnessRests /\ verdict = None
      /\ UNCHANGED verdict /\ effect' = None
      /\ \/ /\ journal' = Append(journal, line) /\ pending' = FALSE
            /\ attempted' = attempted + 1 /\ phase' = "between"
         \/ WriteFails(line) /\ UNCHANGED <<pending, attempted>> /\ phase' = "exiting"
  BY DEF CompleteAttempt, Reach, RunInv, ControlInv, SampleInv, VerdictInv
<1>2. NextCell = attempted + 1 /\ NextCell \in Attempts
  BY <1>1, NextCellIs DEF RunInv, ControlInv
<1>3. effect \in Int /\ Sampled(attempted + 1, effect)
  BY <1>1 DEF RunInv, SampleInv, EffectInv
<1>4. line \in Lines /\ line.seen = effect /\ line.attempt = attempted + 1
  BY <1>2, <1>3 DEF Outcome, Lines
<1> HIDE DEF line
<1> QED
  BY <1>1, <1>3, <1>4, OutcomeKeeps DEF Ended

LEMMA RecordFailureKeeps ==
  ASSUME RunInv, RecordFailure
  PROVE  RunInv'
<1> DEFINE line == Outcome(NextCell, "failed", None)
<1>1. /\ HarnessRests /\ UNCHANGED verdict /\ effect' = None /\ phase' = "exiting"
      /\ phase \in {"looking", "looked", "observing", "recording"} /\ at \in {"ready", "stopped"}
      /\ \/ /\ journal' = Append(journal, line) /\ pending' = FALSE
            /\ attempted' = attempted + 1
         \/ WriteFails(line) /\ UNCHANGED <<pending, attempted>>
  BY DEF RecordFailure, Reach, StepFails, HarnessFailed
<1>2. pending /\ verdict = None /\ NextCell \in Attempts
  BY <1>1, NextCellIs DEF RunInv, ControlInv, SampleInv, VerdictInv
<1>3. line \in Lines /\ ~IsSample(line)
  BY <1>2 DEF Outcome, Lines, IsSample
<1> HIDE DEF line
<1> QED
  BY <1>1, <1>2, <1>3, OutcomeKeeps DEF Ended

LEMMA ReturnsReady ==
  ASSUME HarnessInv, HarnessStep, at = "releasing", at' = "ready"
  PROVE  UpReturns /\ Beyond
<1>1. \A why : ~CleanUp(why)
  BY CleanUpSends
<1> QED
  BY <1>1 DEF HarnessStep, ReleaseAllReturns, ReleaseClaimReturns, ClaimReturns, CaptureReturns,
     RenewReturns, SendDown, DownReturns, SendUp, CallRaises, Beyond, brokerVars

\* Only the button down of a cell whose intent is written adds to what is used.
LEMMA HarnessStepOfRunKeeps ==
  ASSUME RunInv, HarnessStep, UNCHANGED runnerVars
  PROVE  RunInv'
<1>1. /\ WriterRests /\ UNCHANGED <<journal, pending, attempted, phase, effect, verdict>>
      /\ UNCHANGED <<button, presses>> /\ HarnessInv /\ Beyond
  BY DEF HarnessStep, Beyond, brokerVars, runnerVars, writerVars, WriterRests, RunInv
<1>2. /\ HarnessInv' /\ Leads
      /\ at \in Calling \cup {"armed", "holding", "neutralizing", "unclaiming"}
      /\ NoNewDown \/ (at = "armed" /\ at' = "pressing")
  BY <1>1, HarnessStepKeeps, HarnessMoves
<1>3. Grows
  BY <1>1 DEF Grows
<1>4. ControlInv'
  <2>1. \/ phase = "opening" /\ at \in {"claiming", "framing"} \cup Cleaning
        \/ phase = "looked" /\ at \in {"framing"} \cup Cleaning
        \/ phase = "observing" /\ at \in Leased \cup Cleaning
        \/ phase = "exiting" /\ at \in Cleaning
    BY <1>2 DEF RunInv, ControlInv, Calling, Cleaning, Leased
  <2>2. \/ phase = "opening" /\ at' \in {"framing", "ready"} \cup Cleaning
        \/ phase = "looked" /\ at' \in {"ready"} \cup Cleaning
        \/ phase = "observing" /\ at' \in Leased \cup Cleaning
        \/ phase = "exiting" /\ at' \in Cleaning
    BY <1>2, <2>1 DEF Leads, Cleaning, Leased, Shooting
  <2>3. at' \in Shooting => shot'.attempt = attempted + 1
    BY <1>2 DEF Leads, Cleaning, Shooting, RunInv, ControlInv
  <2> QED
    BY <1>1, <2>2, <2>3, ControlStays DEF ControlInv, RunInv
<1>5. FeltInv'
  <2> SUFFICES ASSUME phase' = "observing", at' \in {"ready", "framing"}
               PROVE  /\ shot'.attempt = attempted' + 1
                      /\ IsFelt(shot.released)' /\ LongEnough(shot'.injected, shot'.released)
    BY DEF FeltInv, LongEnough
  <2>1. at # "claiming"
    BY <1>1 DEF RunInv, ControlInv, Leased, Shooting, Cleaning
  <2>2. CASE at = "framing" /\ at' = "ready" /\ shot' = shot
    BY <1>1, <1>3, <2>2, SampledStays DEF RunInv, SampleInv, FeltInv
  <2>3. CASE at = "releasing" /\ at' = "ready"
    <3>1. /\ shot'.attempt = shot.attempt /\ IsFelt(shot.released)'
          /\ Measured(shot'.released) /\ shot'.injected = shot.injected
          /\ shot.injected \in Int /\ shot'.released \in Int
      BY <1>1, <2>3, ReturnsReady, UpReturnsKeeps
    <3>2. Press \in Int /\ Error \in Int
      BY HarnessAssumption
    <3>3. LongEnough(shot'.injected, shot'.released)
      BY <3>1, <3>2 DEF Measured, LongEnough
    <3>4. shot.attempt = attempted + 1
      BY <2>3 DEF RunInv, ControlInv, Shooting
    <3> QED
      BY <1>1, <3>1, <3>3, <3>4
  <2> QED
    BY <1>2, <2>1, <2>2, <2>3 DEF Leads, Cleaning, Shooting
<1>6. EffectInv'
  BY <1>1, <1>2 DEF RunInv, ControlInv, EffectInv, Calling
<1>7. CASE NoNewDown
  <2>1. NoNewUse /\ OnceInv'
    BY <1>1, <1>7, UseStays DEF RunInv, RecordInv
  <2>2. Early' => Early
    BY <1>1, <1>2 DEF Early, Leads, Cleaning, Shooting
  <2> QED
    BY <1>1, <1>2, <1>3, <1>4, <1>5, <1>6, <2>1, <2>2, RunStays
       DEF RunInv, RunnerType, SampleInv, VerdictInv
<1>8. CASE at = "armed" /\ at' = "pressing"
  <2>1. phase = "observing" /\ pending /\ shot.attempt = attempted + 1
    BY <1>8 DEF RunInv, ControlInv, Cleaning, Shooting
  <2>2. SendDown
    BY <1>8 DEF HarnessStep, ReleaseAllReturns, ReleaseClaimReturns, ClaimReturns, CaptureReturns,
       RenewReturns, DownReturns, SendUp, UpReturns, CallRaises
  <2>3. \A a \in Attempts : Asked(a)' => a = attempted + 1
    BY <1>1, <2>1, <2>2, SendDownKeeps DEF Asked
  <2>4. \A a \in Attempts : (Feels(a)' <=> Feels(a)) /\ (HasFelt(a)' <=> HasFelt(a))
    BY <1>1 DEF Feels, HasFelt, Down
  <2>5. \A a \in Attempts : Used(a) => a <= attempted
    BY <1>8, <2>1 DEF RunInv, RecordInv, OnRecord
  <2>6. attempted \in Int
    BY DEF RunInv, RunnerType
  <2>7. OnceInv'
    <3>1. \A a \in Attempts : Asked(a)' => ~Used(a)
      BY <2>3, <2>5, <2>6 DEF Attempts
    <3> QED
      BY <1>1, <2>4, <3>1 DEF RunInv, RecordInv, OnceInv, Used
  <2>8. OnRecord'
    <3> SUFFICES ASSUME NEW a \in Attempts, Used(a)'
                 PROVE  /\ Intent(a) \in Range(journal)'
                        /\ a <= attempted' \/ (a = attempted' + 1 /\ pending' /\ ~Early')
      BY DEF OnRecord, Early, Intent
    <3>1. CASE Used(a)
      BY <1>1, <2>5, <3>1 DEF RunInv, RecordInv, OnRecord, Range
    <3>2. CASE a = attempted + 1
      BY <1>1, <1>8, <2>1, <3>2 DEF RunInv, ControlInv, Early, Range
    <3> QED
      BY <2>3, <2>4, <3>1, <3>2 DEF Used
  <2>9. LinesInv'
    <3>1. ~IsSample(Torn)
      BY DEF IsSample, Torn
    <3> QED
      BY <1>1, <1>3, <3>1, LinesStay DEF RunInv, SampleInv
  <2>10. RunnerType' /\ VerdictInv'
    BY <1>1 DEF RunInv, RunnerType, SampleInv, VerdictInv, Complete, Intent
  <2> QED
    BY <1>2, <1>4, <1>5, <1>6, <2>7, <2>8, <2>9, <2>10 DEF RunInv, RecordInv, SampleInv
<1> QED
  BY <1>2, <1>7, <1>8

LEMMA BrokerStepOfRunKeeps ==
  ASSUME RunInv, BrokerStep \/ Tick, UNCHANGED runnerVars
  PROVE  RunInv'
<1>1. /\ WriterRests /\ UNCHANGED <<journal, pending, attempted, phase, effect, verdict>>
      /\ HarnessInv
  BY DEF runnerVars, writerVars, WriterRests, RunInv
<1>2. HarnessInv'
  BY <1>1, BrokerStepKeeps, TickKeeps
<1>3. NoNewUse /\ OnceInv' /\ Grows /\ UNCHANGED <<at, shot>>
  BY <1>1, BrokerMoves DEF RunInv, RecordInv
<1>4. ControlInv' /\ (Early' => Early)
  BY <1>1, <1>3 DEF RunInv, ControlInv, Early, Range, Intent
<1>5. FeltInv'
  BY <1>1, <1>3, SampledStays DEF RunInv, SampleInv, FeltInv
<1>6. EffectInv'
  <2>1. \A a, seen : Sampled(a, seen) => Sampled(a, seen)'
    BY <1>3, SampledStays
  <2> SUFFICES ASSUME phase' = "recording"
               PROVE  effect' \in Int /\ Sampled(attempted + 1, effect)'
    BY DEF EffectInv
  <2>2. effect \in Int /\ Sampled(attempted + 1, effect)
    BY <1>1 DEF RunInv, SampleInv, EffectInv
  <2> QED
    BY <1>1, <2>1, <2>2 DEF Sampled
<1> QED
  BY <1>1, <1>2, <1>3, <1>4, <1>5, <1>6, RunStays
     DEF RunInv, RunnerType, SampleInv, VerdictInv

LEMMA StutterKeeps == RunInv /\ UNCHANGED vars => RunInv'
<1> SUFFICES ASSUME RunInv, UNCHANGED vars PROVE RunInv'
  OBVIOUS
<1>1. /\ HarnessRests /\ WriterRests /\ UNCHANGED <<at, shot, button, presses>>
      /\ UNCHANGED <<journal, pending, attempted, phase, effect, verdict>>
  BY DEF vars, HarnessRests, WriterRests, harnessVars, brokerVars, clientVars, runnerVars, writerVars
<1>2. HarnessInv' /\ NoNewUse /\ OnceInv' /\ Grows
  BY <1>1, RestKeeps DEF RunInv, RecordInv
<1>3. ControlInv' /\ (Early' => Early)
  BY <1>1 DEF RunInv, ControlInv, Early, Range, Intent
<1>4. FeltInv'
  BY <1>1, <1>2, SampledStays DEF RunInv, SampleInv, FeltInv
<1>5. EffectInv'
  BY <1>1 DEF RunInv, SampleInv, EffectInv, Sampled
<1> QED
  BY <1>1, <1>2, <1>3, <1>4, <1>5, RunStays DEF RunInv, RunnerType, SampleInv, VerdictInv

LEMMA InitialRun == CalibrationInit => RunInv
<1> SUFFICES ASSUME CalibrationInit PROVE RunInv
  OBVIOUS
<1>1. /\ now = 0 /\ link = "gone" /\ inbox = <<>> /\ outbox = <<>>
      /\ claim = None /\ button = None /\ presses = <<>>
      /\ sequence = 0 /\ at = "off" /\ lease = None
      /\ buffer = <<>> /\ shot = NoShot
  BY DEF CalibrationInit, HarnessInit
<1>2. neutral = TRUE /\ pending = FALSE
  BY DEF CalibrationInit, HarnessInit
<1>3. /\ phase = "idle" /\ journal = <<>> /\ attempted = 0 /\ effect = None /\ verdict = None
  BY DEF CalibrationInit
<1>4. neutral \in BOOLEAN /\ pending \in BOOLEAN
  BY <1>2
<1>5. DOMAIN inbox = {} /\ DOMAIN outbox = {} /\ DOMAIN presses = {} /\ DOMAIN journal = {}
  BY <1>1, <1>3
<1>6. HarnessType /\ LeaseInv
  BY <1>1, <1>4 DEF HarnessType, LeaseInv, NoShot, Shots, Leased, Shooting
<1>7. PipeInv /\ CoverInv /\ NeutralInv /\ HoldInv
  BY <1>1, <1>5
     DEF PipeInv, AsksFor, CoverInv, PressIsCovered, NeutralInv, NeutralIsTrue, NoPress, HoldInv, Down,
         Quiet, Calling, Leased, Shooting
<1>8. 0 \in 0 .. Cells
  BY CalibrationAssumption
<1>9. RunnerType /\ ControlInv
  BY <1>1, <1>2, <1>3, <1>4, <1>8 DEF RunnerType, ControlInv, Shooting
<1>10. OnceInv /\ OnRecord
  BY <1>1, <1>5 DEF OnceInv, OnRecord, Used, Asked, Feels, HasFelt, Down
<1>11. SampleInv
  <2>1. FeltInv /\ EffectInv /\ LinesInv
    BY <1>3, <1>5 DEF FeltInv, EffectInv, LinesInv
  <2>2. VerdictInv
    BY <1>3, CalibrationAssumption DEF VerdictInv
  <2> QED
    BY <2>1, <2>2 DEF SampleInv
<1> QED
  BY <1>6, <1>7, <1>9, <1>10, <1>11 DEF RunInv, HarnessInv, RecordInv

LEMMA RunStepKeeps == RunInv /\ [CalibrationNext]_vars => RunInv'
BY StutterKeeps, StartRunKeeps, OpenedKeeps, BeginAttemptKeeps, LeaveLoopKeeps, CaptureFrameKeeps,
   FireShotKeeps, RecordEffectKeeps, CompleteAttemptKeeps, RecordFailureKeeps, InterruptKeeps,
   CloseHarnessKeeps, LeaveRunKeeps, CloseProviderOfRunKeeps, CrashOfRunKeeps, QualifyKeeps,
   HarnessStepOfRunKeeps, BrokerStepOfRunKeeps
   DEF CalibrationNext, RunnerStep

\* The pipes, the claims, the presses and the journal fit together in every
\* reachable state (harness.py, live_provider.py, calibration_runner.py).
THEOREM RunInvariant == CalibrationSpec => []RunInv
<1>1. CalibrationInit => RunInv
  BY InitialRun
<1>2. RunInv /\ [CalibrationNext]_vars => RunInv'
  BY RunStepKeeps
<1> QED
  BY <1>1, <1>2, PTL DEF CalibrationSpec

-----------------------------------------------------------------------------
(* What the four properties are worth. *)

LEMMA StartedItems ==
  ASSUME HarnessType
  PROVE  /\ \A i \in DOMAIN Started :
              \/ i \in DOMAIN presses /\ Started[i] = presses[i]
              \/ Down /\ i = Len(presses) + 1 /\ Started[i] = button
         /\ \A i \in DOMAIN Started : Started[i].attempt \in Attempts
<1>1. presses \in Seq(Felt) /\ (Down => button \in Buttons)
  BY DEF HarnessType, Down
<1>2. \A i \in DOMAIN Started :
        \/ i \in DOMAIN presses /\ Started[i] = presses[i]
        \/ Down /\ i = Len(presses) + 1 /\ Started[i] = button
  <2>1. CASE Down
    <3>1. Started = presses \o <<button>>
      BY <2>1 DEF Started
    <3> QED
      BY <1>1, <2>1, <3>1
  <2>2. CASE ~Down
    <3>1. Started = presses \o <<>>
      BY <2>2 DEF Started
    <3> QED
      BY <1>1, <3>1
  <2> QED
    BY <2>1, <2>2
<1>3. \A i \in DOMAIN presses : presses[i] \in Felt
  BY <1>1
<1>4. (\A p \in Felt : p.attempt \in Attempts) /\ (\A b \in Buttons : b.attempt \in Attempts)
  BY DEF Felt, Buttons
<1> QED
  BY <1>1, <1>2, <1>3, <1>4

LEMMA StartedOnce ==
  ASSUME RunInv
  PROVE  /\ \A i \in DOMAIN Started : Used(Started[i].attempt)
         /\ \A i, j \in DOMAIN Started : Started[i].attempt = Started[j].attempt => i = j
<1>1. /\ \A i \in DOMAIN Started :
           /\ Started[i].attempt \in Attempts
           /\ \/ i \in DOMAIN presses /\ Started[i] = presses[i]
              \/ Down /\ i = Len(presses) + 1 /\ Started[i] = button
      /\ OnceInv
  BY StartedItems DEF RunInv, HarnessInv, RecordInv
<1>2. \A i \in DOMAIN Started : Used(Started[i].attempt)
  BY <1>1 DEF Used, HasFelt, Feels
<1>3. ASSUME NEW i \in DOMAIN Started, NEW j \in DOMAIN Started,
             Started[i].attempt = Started[j].attempt, i \in DOMAIN presses
      PROVE  i = j
  BY <1>1, <1>3 DEF OnceInv, Feels, HasFelt
<1> QED
  BY <1>1, <1>2, <1>3

\* A press is never off the record, and no attempt is pressed twice, whatever
\* failed, was interrupted, died or was run again
\* (calibration_runner.py:412-424, calibration.py:1579-1587).
THEOREM PressesAreOnRecord == CalibrationSpec => []PressIsOnRecord
<1>1. RunInv => PressIsOnRecord
  BY StartedItems, StartedOnce DEF PressIsOnRecord, RunInv, HarnessInv, RecordInv, OnRecord
<1> QED
  BY <1>1, RunInvariant, PTL

\* A button that is down went down on a fresh frame and is let go of, by the
\* broker alone if need be, before its claim expires (harness.py:1372-1402).
THEOREM PressesAreCovered == CalibrationSpec => []PressIsCovered
<1>1. RunInv => PressIsCovered
  BY DEF RunInv, HarnessInv, CoverInv
<1> QED
  BY <1>1, RunInvariant, PTL

\* A stopped harness that reports neutral buttons is right, unless the keyboard has
\* interrupted its release-all: nothing is held and no press still waits in the pipe
\* (harness.py:1643-1678, live_provider.py:257-316).
THEOREM NeutralIsRight == CalibrationSpec => []NeutralIsTrue
<1>1. RunInv => NeutralIsTrue
  BY DEF RunInv, HarnessInv, NeutralInv
<1> QED
  BY <1>1, RunInvariant, PTL

\* In a journal that qualifies, each sample is one whole press of its cell, as
\* long as it was measured to be, and its effect was seen after it
\* (calibration.py:1247-1413, harness.py:1408-1490).
THEOREM SamplesAreWholePresses == CalibrationSpec => []SampleIsOnePress
<1>1. ASSUME RunInv, verdict = "complete", NEW k \in 1 .. Cells
      PROVE  \E i \in DOMAIN presses :
               /\ presses[i].attempt = k /\ presses[i].by = "button_up"
               /\ presses[i].released - presses[i].injected \in Press - Error .. Press + Error
               /\ presses[i].released <= journal[2 * k].seen
               /\ \A j \in DOMAIN Started : Started[j].attempt = k => i = j
  <2>1. Complete(journal) /\ journal \in Seq(Lines)
    BY <1>1 DEF RunInv, SampleInv, VerdictInv, RunnerType
  <2>2. IsSample(journal[2 * k]) /\ journal[2 * k].attempt = k
    BY <2>1 DEF Complete, IsSample
  <2>3. 2 * k \in DOMAIN journal
    <3>1. Len(journal) = 2 * Cells /\ Cells \in Nat
      BY <2>1, CalibrationAssumption DEF Complete
    <3> QED
      BY <2>1, <3>1
  <2>4. Sampled(k, journal[2 * k].seen)
    BY <1>1, <2>2, <2>3 DEF RunInv, SampleInv, LinesInv
  <2>5. PICK i \in DOMAIN presses :
          /\ presses[i].attempt = k /\ presses[i].by = "button_up"
          /\ LongEnough(presses[i].injected, presses[i].released)
          /\ presses[i].released <= journal[2 * k].seen
    BY <2>4 DEF Sampled
  <2>6. ASSUME NEW j \in DOMAIN Started, Started[j].attempt = k
        PROVE  i = j
    <3>1. k \in Attempts /\ OnceInv /\ HarnessType
      BY <1>1 DEF RunInv, RecordInv, HarnessInv, Attempts
    <3>2. CASE j \in DOMAIN presses /\ Started[j] = presses[j]
      BY <2>5, <2>6, <3>1, <3>2 DEF OnceInv
    <3>3. CASE Down /\ Started[j] = button
      BY <2>5, <2>6, <3>1, <3>3 DEF OnceInv, Feels, HasFelt
    <3> QED
      BY <2>6, <3>1, <3>2, <3>3, StartedItems
  <2> QED
    BY <2>5, <2>6 DEF LongEnough
<1>2. RunInv => SampleIsOnePress
  BY <1>1 DEF SampleIsOnePress
<1> QED
  BY <1>2, RunInvariant, PTL
=============================================================================
