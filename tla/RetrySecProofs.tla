---------------------------- MODULE RetrySecProofs ----------------------------
(***************************************************************************)
(* RetrySec for every timeout, every length of f's calls and every moment  *)
(* at which the polled condition comes true.                               *)
(***************************************************************************)
EXTENDS RetrySec, TLAPS

(* Between two calls the loop sleeps 2 to 15 seconds.                        *)
LEMMA LatencyRange == ASSUME sec \in Nat PROVE Latency \in 2..15
BY DEF Latency

(* The seconds int() leaves exceed sec exactly when a whole second more has  *)
(* passed.                                                                   *)
LEMMA TimeIsUpTicks ==
  ASSUME sec \in Nat, now \in Nat
  PROVE  TimeIsUp <=> now >= (sec + 1) * Tick
BY DEF TimeIsUp, Tick

(* RetryInv holds when the loop is entered. *)
LEMMA InitRetryInv == Init => RetryInv
<1> SUFFICES ASSUME Init PROVE RetryInv
  OBVIOUS
<1>1. sec \in Nat /\ readyAt \in Nat
  BY SecsAssumption, HorizonAssumption DEF Init
<1>2. Latency \in 2..15
  BY <1>1, LatencyRange
<1>3. TypeOK
  <2>1. flaked \in BOOLEAN
    BY Zenon DEF Init
  <2> QED
    BY <1>1, <2>1 DEF Init, TypeOK
<1>4. PaceInv /\ OverrunBounded
  BY <1>1, <1>2, CallMaxAssumption DEF Init, PaceInv, OverrunBounded, Tick
<1> QED
  BY <1>3, <1>4 DEF Init, RetryInv, FailureInv

(* Each step of the loop preserves RetryInv. *)
LEMMA NextRetryInv == RetryInv /\ [Next]_vars => RetryInv'
<1> SUFFICES ASSUME RetryInv, [Next]_vars PROVE RetryInv'
  OBVIOUS
<1>s. sec \in Nat /\ sec' = sec /\ readyAt' = readyAt
  BY SecsAssumption
  DEF RetryInv, TypeOK, Next, vars, CallReturns, GiveUp, GoToSleep, WakeUp, Returned
<1>l. Latency \in 2..15 /\ Latency' = Latency
  BY <1>s, LatencyRange DEF Latency
<1> USE CallMaxAssumption
    DEF RetryInv, TypeOK, PaceInv, FailureInv, OverrunBounded, Tick
<1>1. CASE CallReturns
  <2>1. PICK d \in 0..CallMax :
          /\ now' = now + d
          /\ \/ readyAt <= now + d /\ pc' = "ok" /\ flaked' = flaked
             \/ pc' = "check" /\ flaked' = (flaked \/ readyAt <= now)
    BY <1>1 DEF CallReturns
  <2>2. pc = "call" /\ now = began /\ began' = began
    BY <1>1 DEF CallReturns
  <2>3. TypeOK'
    <3>1. flaked' \in BOOLEAN
      BY <2>1
    <3> QED
      BY <3>1, <2>1, <2>2, <1>s
  <2>4. PaceInv' /\ OverrunBounded'
    BY <2>1, <2>2, <1>s, <1>l
  <2>5. FailureInv'
    <3>1. pc' \in {"check", "sleep", "error"} /\ ~flaked' => ~(readyAt <= now)
      <4>1. pc' = "ok" => pc' \notin {"check", "sleep", "error"}
        OBVIOUS
      <4> QED
        BY <2>1, <4>1, Zenon
    <3> QED
      BY <3>1, <2>2, <1>s
  <2> QED
    BY <2>1, <2>3, <2>4, <2>5
<1>2. CASE GiveUp
  <2>1. now >= (sec + 1) * Tick
    BY <1>2, <1>s, TimeIsUpTicks DEF GiveUp
  <2> QED
    BY <1>2, <2>1, <1>s, <1>l DEF GiveUp
<1>3. CASE GoToSleep
  <2>1. now < (sec + 1) * Tick
    BY <1>3, <1>s, TimeIsUpTicks DEF GoToSleep
  <2> QED
    BY <1>3, <2>1, <1>s, <1>l DEF GoToSleep
<1>4. CASE WakeUp
  BY <1>4, <1>s, <1>l DEF WakeUp, Nap
<1>5. CASE UNCHANGED vars
  BY <1>5, <1>l DEF vars
<1> QED
  BY <1>1, <1>2, <1>3, <1>4, <1>5 DEF Next, Returned

(* RetrySec returns within one nap and one call of its timeout, and its      *)
(* pacing invariant holds at every step.                                     *)
THEOREM RetryInvariance == Spec => []RetryInv
BY InitRetryInv, NextRetryInv, PTL DEF Spec

(* A condition that comes true in time for a whole call is never missed.     *)
THEOREM ReadyInTimeAlways == Spec => []ReadyInTimeSucceeds
<1>1. RetryInv => ReadyInTimeSucceeds
  BY SecsAssumption, CallMaxAssumption
  DEF RetryInv, TypeOK, PaceInv, FailureInv, ReadyInTimeSucceeds, Tick
<1> QED
  BY <1>1, RetryInvariance, PTL

-----------------------------------------------------------------------------
(* RetryEnds is a liveness property.  What the fairness has to be added to:  *)
(* every step of the loop leaves fewer steps to take.                        *)

\* The moment at which the latest call of f has returned.
Latest == (sec + 1 + Latency) * Tick + CallMax

\* The naps, of two seconds at least, use up the time; there are three steps
\* for each.
StepsLeft ==
  3 * (Latest - now) + [call |-> 3, check |-> 2, sleep |-> 1, ok |-> 0, error |-> 0][pc]

(* That moment is a number of ticks.                                         *)
LEMMA LatestIsNat ==
  ASSUME NEW s \in Nat, NEW l \in 2..15
  PROVE  (s + 1 + l) * Tick + CallMax \in Nat
BY CallMaxAssumption DEF Tick

(* RetrySec takes only so many steps, whatever the calls of f last and       *)
(* return: no wait of the toolkit that is built on it goes on for ever.      *)
THEOREM LoopIsBounded == Spec => [][StepsLeft' \in Nat /\ StepsLeft' < StepsLeft]_vars
<1>1. RetryInv /\ [Next]_vars => [StepsLeft' \in Nat /\ StepsLeft' < StepsLeft]_vars
  <2> SUFFICES ASSUME RetryInv, Next, ~UNCHANGED vars
               PROVE  StepsLeft' \in Nat /\ StepsLeft' < StepsLeft
    OBVIOUS
  <2> DEFINE Left == Latest - now
  <2>1. sec \in Nat /\ sec' = sec /\ now \in Nat
    BY SecsAssumption
    DEF RetryInv, TypeOK, Next, vars, CallReturns, GiveUp, GoToSleep, WakeUp, Returned
  <2>2. Latency \in 2..15 /\ Latency' = Latency
    BY <2>1, LatencyRange DEF Latency
  <2>3. Latest \in Nat /\ Latest' = Latest
    BY <2>1, <2>2, LatestIsNat DEF Latest
  <2>x. Left' \in Nat /\ Left \in Nat
    <3>1. RetryInv'
      BY NextRetryInv
    <3>2. /\ now \in Nat /\ now <= Latest
          /\ now' \in Nat /\ now' <= Latest
      BY <2>1, <2>2, <3>1 DEF RetryInv, TypeOK, OverrunBounded, Latest
    <3>3. \A b, n \in Nat : n <= b => b - n \in Nat
      OBVIOUS
    <3>4. Latest - now \in Nat /\ Latest - now' \in Nat
      BY <2>3, <3>2, <3>3, Zenon
    <3> QED
      BY <2>3, <3>4
  <2>4. CASE CallReturns
    <3>1. /\ pc = "call" /\ pc' \in {"check", "ok"}
          /\ \E d \in 0..CallMax : now' = now + d
      BY <2>4 DEF CallReturns
    <3>2. Left' <= Left
      BY <2>1, <2>3, <3>1, CallMaxAssumption
    <3> QED
      BY <2>3, <2>x, <3>1, <3>2 DEF StepsLeft
  <2>5. CASE GiveUp \/ GoToSleep
    <3>1. /\ pc = "check" /\ pc' \in {"sleep", "error"} /\ now' = now
      BY <2>5 DEF GiveUp, GoToSleep
    <3>2. Left' = Left
      BY <2>3, <3>1
    <3> QED
      BY <2>3, <2>x, <3>1, <3>2 DEF StepsLeft
  <2>6. CASE WakeUp
    <3>1. pc = "sleep" /\ pc' = "call" /\ now' = now + Latency * Tick
      BY <2>6 DEF WakeUp, Nap
    <3>2. Left' <= Left - 4
      <4>1. Latency * Tick >= 4 /\ Latency * Tick \in Nat
        BY <2>2 DEF Tick
      <4> QED
        BY <2>1, <2>3, <3>1, <4>1
    <3> QED
      BY <2>3, <2>x, <3>1, <3>2 DEF StepsLeft
  <2> QED
    BY <2>4, <2>5, <2>6 DEF Next, Returned
<1> QED
  BY <1>1, RetryInvariance, PTL DEF Spec
==============================================================================
