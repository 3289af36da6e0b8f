------------------------------- MODULE RetrySec -------------------------------
(***************************************************************************)
(* testkit_v2/util/tools.go, RetrySec(sec, f): the loop every wait of the  *)
(* toolkit is built on.  It calls f until f returns nil or, after a failed *)
(* call, more than sec whole seconds have passed; between calls it sleeps. *)
(* The condition f polls comes true at some moment and stays true; f may   *)
(* also fail although it is true (the API server did not answer).          *)
(***************************************************************************)
EXTENDS Integers

CONSTANTS Secs,      \* the timeouts RetrySec is called with, in seconds
          CallMax,   \* the longest call of f, in ticks
          Horizon    \* the latest moment the condition may come true, in ticks

Tick == 2            \* ticks of the clock per second

ASSUME SecsAssumption == Secs \subseteq Nat
ASSUME CallMaxAssumption == CallMax \in Nat
ASSUME HorizonAssumption == Horizon \in Nat

VARIABLES sec,       \* the timeout of this call
          readyAt,   \* when the condition f polls comes true
          now,       \* ticks since start
          began,     \* when the latest call of f began
          pc,        \* "call", "check", "sleep", "ok" or "error"
          flaked     \* f failed although the condition held all along

vars == <<sec, readyAt, now, began, pc, flaked>>

Init ==
  /\ sec \in Secs
  /\ readyAt \in 0..Horizon
  /\ now = 0
  /\ began = 0
  /\ pc = "call"
  /\ flaked = FALSE

\* (sec + 15) / 7 seconds, 15 at most: short waits poll more often.
Latency ==
  LET l == (sec + 15) \div 7 IN IF l > 15 THEN 15 ELSE l

\* f returns: nil only if the condition was true at some moment of the call,
\* an error for any reason.
CallReturns ==
  /\ pc = "call"
  /\ \E d \in 0..CallMax :
       /\ now' = now + d
       /\ \/ /\ readyAt <= now + d
             /\ pc' = "ok"
             /\ UNCHANGED flaked
          \/ /\ pc' = "check"
             /\ flaked' = (flaked \/ readyAt <= now)
  /\ UNCHANGED <<sec, readyAt, began>>

\* A regression: stop when the next call would start too late.
TimeIsUpEarly == now + Latency * Tick > sec * Tick

\* int(time.Since(start).Seconds()) > sec: the fraction is cut off.
TimeIsUp == now \div Tick > sec

GiveUp ==
  /\ pc = "check" /\ TimeIsUp
  /\ pc' = "error"
  /\ UNCHANGED <<sec, readyAt, now, began, flaked>>

GoToSleep ==
  /\ pc = "check" /\ ~TimeIsUp
  /\ pc' = "sleep"
  /\ UNCHANGED <<sec, readyAt, now, began, flaked>>

\* A regression: the latency grows with the time already waited.
NapBackoff == Latency * Tick + now

\* A regression: no sleep at all when the timeout is close.
NapNone == IF now + Latency * Tick > sec * Tick THEN 0 ELSE Latency * Tick

Nap == Latency * Tick

WakeUp ==
  /\ pc = "sleep"
  /\ now' = now + Nap
  /\ began' = now + Nap
  /\ pc' = "call"
  /\ UNCHANGED <<sec, readyAt, flaked>>

\* RetrySec has returned.
Returned == pc \in {"ok", "error"} /\ UNCHANGED vars

Next == CallReturns \/ GiveUp \/ GoToSleep \/ WakeUp \/ Returned

\* f returns and the goroutine is scheduled: nothing else is needed.
Fairness == WF_vars(CallReturns \/ GiveUp \/ GoToSleep \/ WakeUp)

Spec == Init /\ [][Next]_vars
FairSpec == Spec /\ Fairness

-----------------------------------------------------------------------------
TypeOK ==
  /\ sec \in Secs
  /\ readyAt \in Nat
  /\ now \in Nat
  /\ began \in 0..now
  /\ pc \in {"call", "check", "sleep", "ok", "error"}
  /\ flaked \in BOOLEAN

\* The clock never runs further than one nap and one call past the last
\* failed check, which found at most sec whole seconds.
PaceInv ==
  /\ pc = "call" => now = began
  /\ pc = "check" => now <= began + CallMax
  /\ pc = "sleep" => now <= sec * Tick + Tick - 1
  /\ began <= sec * Tick + Tick - 1 + Latency * Tick

\* While f has only ever failed for want of the condition, the latest failed
\* call began before the condition came true.
FailureInv == pc \in {"check", "sleep", "error"} /\ ~flaked => began < readyAt

\* RetrySec returns no later than one nap and one call after the timeout.
OverrunBounded ==
  now <= (sec + 1 + Latency) * Tick + CallMax

RetryInv ==
  /\ TypeOK /\ PaceInv /\ FailureInv
  /\ pc = "error" => now <= began + CallMax /\ now > sec * Tick + Tick - 1
  /\ OverrunBounded

\* A condition that comes true early enough for one whole call to see it
\* before the timeout is never reported as an error, however the naps fall,
\* unless f itself failed without a reason.
ReadyInTimeSucceeds ==
  pc = "error" /\ ~flaked => readyAt > (sec + 1) * Tick - CallMax

\* The loop ends, with the condition or with the timeout.
RetryEnds == <>(pc \in {"ok", "error"})
==============================================================================
