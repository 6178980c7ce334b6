--------------------------- MODULE OriginalHarness ---------------------------
(***************************************************************************)
(* The harness of the original game (original_game/harness.py) over its    *)
(* live provider (live_provider.py): one window claimed under a lease,     *)
(* captured, and clicked by a button down and a button up that carry       *)
(* deadlines, with a cleanup that every failure goes through.  The broker  *)
(* that routes the input is a process of its own behind two pipes; it is   *)
(* not in the repository and is modelled from what the provider sends it   *)
(* and expects of it.                                                      *)
(*                                                                         *)
(* Calls that only look (session safety, cursor, runtime guard) answer or  *)
(* raise at once; every other call is two steps, its request and its       *)
(* return, and the clock may move between any two steps.                   *)
(***************************************************************************)
EXTENDS Integers, Sequences, SequencesExt

CONSTANTS None,
          LeaseTime,      \* lease_seconds
          Stale,          \* stale_after_ns
          Press,          \* press_duration_ns
          Margin,         \* lease_cleanup_margin_ns
          Error,          \* max_press_duration_error_ns
          ClickInterval,  \* min_click_interval_ns
          Capacity,       \* frame_buffer_capacity
          Horizon         \* bound: the last instant

ASSUME HarnessAssumption ==
  /\ {LeaseTime, Stale, Press, Margin, Error, ClickInterval, Capacity} \subseteq Nat \ {0}
  /\ Horizon \in Nat
  /\ None \notin Int

VARIABLES now,        \* the monotonic clock both processes read
          link,       \* "open", "closed" by the client's end, "gone" with the broker
          inbox,      \* requests the broker has not read
          outbox,     \* answers the client has not read
          claim,      \* broker: expiry of the claim it grants, or None
          button,     \* broker: the last accepted press, or None
          presses,    \* every press the target has seen from down to up
          sequence,   \* transport: number of the last request
          at,         \* what the harness is doing
          cause,      \* what stopped it, or "cut short" by an interrupt of release-all
          lease,      \* _lease: expiry of the claim it believes in, or None
          buffer,     \* the frame buffer
          shot,       \* locals of _fire
          neutral,    \* _buttons_neutral
          lastClick   \* _last_click_ns

clientVars == <<sequence, at, cause, lease, buffer, shot, neutral, lastClick>>
brokerVars == <<claim, button, presses>>
harnessVars == <<now, link, inbox, outbox, brokerVars, clientVars>>

Cleaning == {"neutralizing", "unclaiming", "stopped"}
NoShot == [attempt |-> None, latest |-> 0, deadline |-> 0, injected |-> 0, released |-> 0]

HarnessInit ==
  /\ now = 0 /\ link = "gone" /\ inbox = <<>> /\ outbox = <<>>
  /\ claim = None /\ button = None /\ presses = <<>>
  /\ sequence = 0 /\ at = "off" /\ cause = None /\ lease = None
  /\ buffer = <<>> /\ shot = NoShot /\ neutral = TRUE /\ lastClick = None

-----------------------------------------------------------------------------
(* The broker. *)

Down == button # None /\ button.down

\* The injector lets go of the button, if it is down.
Lift(by, instant) ==
  presses' = IF Down
             THEN Append(presses, [attempt |-> button.attempt, by |-> by,
                                   injected |-> button.injected, released |-> instant])
             ELSE presses

\* Deadlines and expiries are the broker's: they pass without any client.
Tick ==
  /\ now < Horizon
  /\ now' = now + 1
  /\ claim' = IF claim # None /\ claim <= now' THEN None ELSE claim
  /\ IF Down /\ (button.deadline <= now' \/ claim' = None)
     THEN button' = [button EXCEPT !.down = FALSE] /\ Lift("broker", now')
     ELSE UNCHANGED <<button, presses>>
  /\ UNCHANGED <<link, inbox, outbox, clientVars>>

Serving(method) ==
  /\ link # "gone" /\ inbox # <<>> /\ Head(inbox).method = method
  /\ inbox' = Tail(inbox)
  /\ UNCHANGED <<now, link, clientVars>>

Reply(result) ==
  outbox' = IF link = "open"
            THEN Append(outbox, [sequence |-> Head(inbox).sequence, result |-> result])
            ELSE outbox

ServeClaim ==
  /\ Serving("claim") /\ claim = None
  /\ claim' = now + LeaseTime /\ Reply(claim')
  /\ UNCHANGED <<button, presses>>

ServeRenew ==
  /\ Serving("renew") /\ claim # None /\ now + LeaseTime > claim
  /\ claim' = now + LeaseTime /\ Reply(claim')
  /\ UNCHANGED <<button, presses>>

\* Idempotent: an expired claim is released too.
ServeReleaseClaim ==
  /\ Serving("release_claim")
  /\ claim' = None /\ button' = None /\ Lift("broker", now) /\ Reply("released")

\* A frame was presented now or a moment ago; it may not show gameplay.
ServeCapture ==
  /\ Serving("capture") /\ claim # None
  /\ \E age \in {0, 1}, usable \in BOOLEAN :
       now >= age /\ Reply([observed |-> now - age, usable |-> usable])
  /\ UNCHANGED brokerVars

\* Not after the freshness deadline, and with the release already scheduled.
ServeDown ==
  LET r == Head(inbox) IN
  /\ Serving("button_down") /\ claim # None /\ now <= r.latest
  /\ button' = [down |-> TRUE, attempt |-> r.attempt, injected |-> now,
                deadline |-> r.deadline, observed |-> r.observed]
  /\ Reply([injected |-> now, deadline |-> r.deadline])
  /\ UNCHANGED <<claim, presses>>

\* Bound to the deadline of its down, even if that has released the button already.
ServeUp ==
  /\ Serving("button_up") /\ claim # None /\ button # None
  /\ button' = None /\ Lift("button_up", now)
  /\ Reply([injected |-> now, deadline |-> button.deadline])
  /\ UNCHANGED claim

ServeReleaseAll ==
  /\ Serving("release_all") /\ claim # None
  /\ button' = None /\ Lift("broker", now) /\ Reply("neutral")
  /\ UNCHANGED claim

\* No claim, too late, or a session that is no longer safe.
Refuse ==
  /\ \E method \in {"claim", "renew", "capture", "button_down", "button_up", "release_all"} :
       Serving(method)
  /\ Reply(None)
  /\ UNCHANGED brokerVars

\* The pipes close: whatever was granted ends and whatever is held is let go.
BrokerEnds ==
  /\ link' = "gone" /\ inbox' = <<>> /\ outbox' = <<>> /\ claim' = None
  /\ button' = None /\ Lift("broker", now)

\* The broker dies under its client, or finds that its client is no more.
Disconnect ==
  /\ link # "gone"
  /\ BrokerEnds
  /\ UNCHANGED <<now, clientVars>>

BrokerStep ==
  \/ ServeClaim \/ ServeRenew \/ ServeReleaseClaim \/ ServeCapture
  \/ ServeDown \/ ServeUp \/ ServeReleaseAll \/ Refuse \/ Disconnect

-----------------------------------------------------------------------------
(* The transport: requests are numbered, and an answer counts for its number only. *)

Send(request) ==
  /\ sequence' = sequence + 1
  /\ inbox' = IF link = "open" THEN Append(inbox, request) ELSE inbox

Request(method) == [method |-> method, sequence |-> sequence + 1]

Result == Head(outbox).result

Answered == outbox # <<>> /\ Head(outbox).sequence = sequence /\ Result # None
Returns == Answered /\ outbox' = Tail(outbox)

\* The broker refuses, answers an earlier call, or says nothing in time.
Raises ==
  \/ outbox # <<>> /\ ~Answered /\ outbox' = Tail(outbox)
  \/ outbox = <<>> /\ UNCHANGED outbox

-----------------------------------------------------------------------------
(* The harness. *)

Keep == UNCHANGED <<buffer, shot, lastClick>>
Forget == buffer' = <<>> /\ shot' = NoShot /\ lastClick' = None

\* _abort and close(): _cleanup stops the harness and asks for both releases;
\* nothing reads its frames and its shot any more.
CleanUp(why) ==
  /\ cause' = why /\ Forget
  /\ IF lease = None
     THEN at' = "stopped" /\ UNCHANGED <<inbox, sequence>>
     ELSE at' = "neutralizing" /\ Send(Request("release_all"))

ReleaseAllReturns ==
  /\ at = "neutralizing"
  /\ \/ Returns /\ neutral' = TRUE
     \/ Raises /\ neutral' = FALSE
  /\ at' = "unclaiming" /\ Send(Request("release_claim"))
  /\ UNCHANGED <<cause, lease>> /\ Keep

\* Mutant: asking for the release is taken for the release.
ReleaseClaimAnyhow ==
  /\ at = "unclaiming"
  /\ (Returns \/ Raises) /\ neutral' = TRUE
  /\ lease' = None /\ at' = "stopped"
  /\ UNCHANGED <<inbox, sequence, cause>> /\ Keep

\* Released or not, the harness has no lease any more.
ReleaseClaimReturns ==
  /\ at = "unclaiming"
  /\ \/ Returns /\ neutral' = TRUE
     \/ Raises /\ UNCHANGED neutral
  /\ lease' = None /\ at' = "stopped"
  /\ UNCHANGED <<inbox, sequence, cause>> /\ Keep

\* _open of a harness over a broker just started.
Open ==
  /\ at' = "claiming" /\ cause' = None /\ lease' = None /\ neutral' = TRUE /\ Forget
  /\ link' = "open" /\ outbox' = <<>>
  /\ sequence' = 1 /\ inbox' = <<[method |-> "claim", sequence |-> 1]>>
  /\ UNCHANGED <<now, brokerVars>>

\* A KeyboardInterrupt is no Exception: the release of the claim still follows the
\* release-all it strikes, and the flag keeps whatever it was; the one that strikes
\* the release of the claim only takes the lease with it.
CleanUpInterrupted ==
  /\ \/ /\ at = "neutralizing" /\ at' = "unclaiming" /\ cause' = "cut short"
        /\ Send(Request("release_claim")) /\ UNCHANGED lease
     \/ /\ at = "unclaiming" /\ at' = "stopped" /\ lease' = None
        /\ UNCHANGED <<cause, inbox, sequence>>
  /\ Keep

Goes(next) == at' = next /\ UNCHANGED cause
Waits(next, request) == Goes(next) /\ Send(request)
GoesOn(next) == Goes(next) /\ UNCHANGED <<inbox, sequence>>

ClaimReturns ==
  /\ at = "claiming" /\ Returns
  /\ IF now < Result
     THEN lease' = Result /\ Waits("framing", Request("capture")) /\ Keep
     ELSE CleanUp("error") /\ UNCHANGED lease
  /\ UNCHANGED neutral

Capture ==
  /\ at = "ready"
  /\ IF now < lease THEN Waits("framing", Request("capture")) /\ Keep ELSE CleanUp("error")
  /\ UNCHANGED <<now, link, outbox, brokerVars, lease, neutral>>

\* In order, fresh, and under a lease that is still live.
Acceptable(frame) ==
  /\ now < lease
  /\ now - frame.observed <= Stale
  /\ buffer # <<>> => frame.observed > Last(buffer).observed

CaptureReturns ==
  /\ at = "framing" /\ Returns
  /\ \/ /\ Acceptable(Result)
        /\ buffer' = LET longer == Append(buffer, Result)
                     IN  IF Len(longer) > Capacity THEN Tail(longer) ELSE longer
        /\ GoesOn("ready") /\ UNCHANGED <<shot, lastClick>>
     \/ CleanUp("error")
  /\ UNCHANGED <<lease, neutral>>

Required == Press + 2 * Margin

\* _validate_action and the first checks of _fire, then _lease_for_button_down.
Fire(attempt) ==
  LET frame == Last(buffer) IN
  /\ at = "ready"
  /\ IF /\ lastClick # None => now - lastClick >= ClickInterval
        /\ frame.usable /\ now - frame.observed <= Stale
        /\ now < lease
     THEN /\ IF lease - now > Required THEN GoesOn("armed")
             ELSE Waits("renewing", Request("renew"))
          /\ shot' = [NoShot EXCEPT !.attempt = attempt]
          /\ UNCHANGED <<buffer, lastClick>>
     ELSE CleanUp("error")
  /\ UNCHANGED <<now, link, outbox, brokerVars, lease, neutral>>

RenewReturns ==
  /\ at = "renewing" /\ Returns
  /\ IF Result > lease /\ Result - now > Required
     THEN lease' = Result /\ GoesOn("armed") /\ Keep
     ELSE CleanUp("error") /\ UNCHANGED lease
  /\ UNCHANGED neutral

\* Mutant: the age of the frame does not bound the injection.
LatestWhateverTheFrame == now + Margin

LatestInjection ==
  LET stale == Last(buffer).observed + Stale
  IN  IF stale < now + Margin THEN stale ELSE now + Margin

Deadline(latest) == latest + Press + Margin

\* The session and the runtime are looked at once more, and may be unsafe.
SendDown ==
  LET latest == LatestInjection
      deadline == Deadline(latest)
  IN
  /\ at = "armed"
  /\ \/ /\ now < latest /\ deadline < lease
        /\ Waits("pressing", [method |-> "button_down", sequence |-> sequence + 1,
                              attempt |-> shot.attempt, latest |-> latest,
                              deadline |-> deadline, observed |-> Last(buffer).observed])
        /\ shot' = [shot EXCEPT !.latest = latest, !.deadline = deadline]
        /\ UNCHANGED <<buffer, lastClick>>
     \/ CleanUp("error")
  /\ UNCHANGED <<outbox, lease, neutral>>

\* The flag falls with the acknowledgement, before the checks on its time.
DownReturns ==
  /\ at = "pressing" /\ Returns
  /\ neutral' = FALSE
  /\ IF now < shot.deadline /\ now < lease /\ lease - Result.injected > Press + Margin
     THEN /\ shot' = [shot EXCEPT !.injected = Result.injected]
          /\ GoesOn("holding") /\ UNCHANGED <<buffer, lastClick>>
     ELSE CleanUp("error")
  /\ UNCHANGED lease

\* After a sleep to the measured end of the press, or past it.
SendUp ==
  /\ at = "holding" /\ now >= shot.injected + Press
  /\ IF now < shot.deadline
     THEN Waits("releasing", Request("button_up")) /\ Keep ELSE CleanUp("error")
  /\ UNCHANGED <<outbox, lease, neutral>>

Measured(released) == (released - shot.injected) - Press \in -Error .. Error

\* Mutant: an up acknowledged after the automatic release still counts.
UpReturnsLate ==
  /\ at = "releasing" /\ Returns
  /\ \/ /\ now < lease /\ Measured(Result.injected)
        /\ shot' = [shot EXCEPT !.released = Result.injected]
        /\ neutral' = TRUE /\ lastClick' = Result.injected
        /\ GoesOn("ready") /\ UNCHANGED buffer
     \/ CleanUp("error") /\ UNCHANGED neutral
  /\ UNCHANGED lease

\* The runtime is looked at again, and may have changed.
UpReturns ==
  /\ at = "releasing" /\ Returns
  /\ \/ /\ now < shot.deadline /\ now < lease
        /\ Measured(Result.injected)
        /\ shot' = [shot EXCEPT !.released = Result.injected]
        /\ neutral' = TRUE /\ lastClick' = Result.injected
        /\ GoesOn("ready") /\ UNCHANGED buffer
     \/ CleanUp("error") /\ UNCHANGED neutral
  /\ UNCHANGED lease

\* A call of the provider raises: every one of them leads to _cleanup.
CallRaises ==
  /\ at \in {"claiming", "framing", "renewing", "pressing", "releasing"}
  /\ Raises /\ CleanUp("error")
  /\ UNCHANGED <<lease, neutral>>

HarnessStep ==
  /\ \/ ReleaseAllReturns \/ ReleaseClaimReturns \/ ClaimReturns \/ CaptureReturns
     \/ RenewReturns \/ SendDown \/ DownReturns \/ SendUp \/ UpReturns \/ CallRaises
  /\ UNCHANGED <<now, link, brokerVars>>
=============================================================================
