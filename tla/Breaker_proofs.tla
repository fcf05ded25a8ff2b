---------------------------- MODULE Breaker_proofs ----------------------------
(***************************************************************************)
(* Theorems about Breaker for every number of calls, every threshold and   *)
(* every open time.                                                        *)
(***************************************************************************)
EXTENDS Breaker, TLAPS

(***************************************************************************)
(* The inductive invariant: the circuit is closed exactly below the        *)
(* threshold, and the flag belongs to a probe in flight of a half-open     *)
(* circuit.                                                                *)
(***************************************************************************)
Inv == TypeOK /\ CircuitAgrees /\ ProbeFlagOwned

LEMMA Zero == 0 \in 0 .. OpenTime /\ 0 \in 0 .. MaxReloads /\ 0 < Threshold
  BY ThresholdAssumption, OpenTimeAssumption, ReloadsAssumption

LEMMA InvInit == Init => Inv
<1> SUFFICES ASSUME Init PROVE Inv
  OBVIOUS
<1>1. TypeOK
  BY Zero DEF Init, TypeOK
<1>2. CircuitAgrees
  BY Zero DEF Init, CircuitAgrees
<1>3. ProbeFlagOwned
  BY DEF Init, ProbeFlagOwned
<1> QED
  BY <1>1, <1>2, <1>3 DEF Inv

LEMMA InvStep == Inv /\ [Next]_vars => Inv'
<1> SUFFICES ASSUME Inv, [Next]_vars PROVE Inv'
  OBVIOUS
<1> USE Zero, ThresholdAssumption, OpenTimeAssumption, ReloadsAssumption
    DEF Inv, TypeOK, CircuitAgrees, ProbeFlagOwned, Probes
<1>1. CASE UNCHANGED vars
  BY <1>1 DEF vars
<1>2. ASSUME NEW c \in Calls, StartClosed(c) PROVE Inv'
  BY <1>2 DEF StartClosed
<1>3. ASSUME NEW c \in Calls, StartProbe(c) PROVE Inv'
  <2>1. state # "closed"
    BY <1>3 DEF StartProbe, StateNow, Due
  <2>2. call' \in [Calls -> {"idle", "flying", "probe"}] /\ c \in Probes'
    BY <1>3 DEF StartProbe
  <2> QED
    BY <1>3, <2>1, <2>2 DEF StartProbe
<1>4. ASSUME NEW c \in Calls, Success(c) PROVE Inv'
  BY <1>4 DEF Success, Land
<1>5. ASSUME NEW c \in Calls, FailureHalfOpen(c) PROVE Inv'
  BY <1>5 DEF FailureHalfOpen, Land
<1>6. ASSUME NEW c \in Calls, FailureCounted(c) PROVE Inv'
  <2>1. /\ call' \in [Calls -> {"idle", "flying", "probe"}] /\ reloads' = reloads
        /\ probeInFlight' = FALSE
        /\ failures' \in Nat /\ failures' = failures + 1
    BY <1>6 DEF FailureCounted, Land
  <2>2. state \in {"closed", "open"} /\ (state = "closed" <=> failures < Threshold)
        /\ failures \in Nat /\ openAge \in 0 .. OpenTime
    BY <1>6 DEF FailureCounted
  <2>3. CASE failures + 1 >= Threshold
    <3>1. state' = "open" /\ openAge' = 0
      BY <1>6, <2>3 DEF FailureCounted, Opens
    <3>2. ~(failures' < Threshold)
      BY <2>1, <2>2, <2>3, ThresholdAssumption
    <3> QED
      BY <2>1, <3>1, <3>2
  <2>4. CASE ~(failures + 1 >= Threshold)
    <3>1. state' = state /\ openAge' = openAge
      BY <1>6, <2>4 DEF FailureCounted, Opens
    <3>2. failures' < Threshold /\ failures < Threshold
      BY <2>1, <2>2, <2>4, ThresholdAssumption
    <3> QED
      BY <2>1, <2>2, <3>1, <3>2
  <2> QED
    BY <2>3, <2>4
<1>7. CASE Observe
  BY <1>7 DEF Observe, Transition, StateNow, ProbeNow, Due
<1>8. CASE Reload
  <2>1. reloads' \in 0 .. MaxReloads
    BY <1>8 DEF Reload
  <2> QED
    BY <1>8, <2>1 DEF Reload
<1>9. CASE Tick
  BY <1>9 DEF Tick
<1> QED
  BY <1>1, <1>2, <1>3, <1>4, <1>5, <1>6, <1>7, <1>8, <1>9 DEF Next, End

\* Every reachable state is well typed.
THEOREM TypeCorrect == Spec => []TypeOK
<1>1. Inv => TypeOK
  BY DEF Inv
<1> QED
  BY <1>1, InvInit, InvStep, PTL DEF Spec

\* The state and the failure count never disagree, and the probe flag never
\* outlives the calls admitted as probes: no order of late outcomes, reloads
\* and readers can leave the breaker refusing every call with no probe out.
THEOREM BreakerConsistent == Spec => []BreakerAgrees
<1>1. Inv => BreakerAgrees
  BY DEF Inv, BreakerAgrees
<1> QED
  BY <1>1, InvInit, InvStep, PTL DEF Spec

\* Rounding up leaves nothing of the remaining time.
LEMMA CeilCovers ==
  ASSUME NEW n \in Nat, NEW d \in Nat, d > 0
  PROVE  Ceil(n, d) \in Nat /\ Ceil(n, d) * d >= n
  BY DEF Ceil

\* Waiting Retry-After seconds is always enough to see the circuit due.
THEOREM RetryAfterIsEnough == Spec => []RetryAfterSuffices
<1>1. TypeOK => RetryAfterSuffices
  <2> SUFFICES ASSUME TypeOK, StateNow = "open"
               PROVE  openAge + RetryAfter * PerSecond >= OpenTime
    BY DEF RetryAfterSuffices
  <2>1. /\ openAge \in Nat /\ OpenTime \in Nat /\ openAge <= OpenTime
        /\ PerSecond \in Nat /\ PerSecond > 0 /\ OpenTime - openAge \in Nat
    BY OpenTimeAssumption, PerSecondAssumption DEF TypeOK
  <2> DEFINE s == Ceil(OpenTime - openAge, PerSecond)
  <2>2. s \in Nat /\ s * PerSecond >= OpenTime - openAge
    BY <2>1, CeilCovers
  <2>3. RetryAfter = IF s > 1 THEN s ELSE 1
    BY DEF RetryAfter
  <2> HIDE DEF s
  <2>4. RetryAfter * PerSecond >= s * PerSecond
    <3>1. CASE s > 1
      BY <3>1, <2>1, <2>2, <2>3
    <3>2. CASE s = 1
      BY <3>2, <2>1, <2>3
    <3>3. CASE s = 0
      BY <3>3, <2>1, <2>3
    <3> QED
      BY <2>2, <3>1, <3>2, <3>3
  <2>5. RetryAfter \in Nat
    BY <2>2, <2>3
  <2>6. RetryAfter * PerSecond \in Nat /\ s * PerSecond \in Nat
    BY <2>1, <2>2, <2>5
  <2> QED
    BY <2>1, <2>2, <2>4, <2>6
<1> QED
  BY <1>1, TypeCorrect, PTL
=============================================================================
