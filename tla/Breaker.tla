------------------------------- MODULE Breaker -------------------------------
(***************************************************************************)
(* The upstream circuit breaker of the MCP gateway (breaker.js), with the  *)
(* tool calls that are in flight while it changes.                         *)
(*                                                                         *)
(* executeToolCall asks allow() before it awaits the upstream and records  *)
(* the outcome after it, on whatever breaker the gateway has then.  Node   *)
(* runs each of the two parts without interruption; between them other     *)
(* calls start and end, time passes, and a reload puts a new breaker in.   *)
(* The absolute times openedAt and now() are kept as the time since the    *)
(* circuit opened, up to OpenTime, which is all the code compares.         *)
(***************************************************************************)
EXTENDS Integers, FiniteSets

CONSTANTS
  Calls,        \* the tool calls that can be in flight together
  Threshold,    \* failureThreshold
  OpenTime,     \* openMs, in ticks
  PerSecond,    \* ticks in the second that Retry-After counts in
  MaxReloads    \* bound: policy reloads

ASSUME CallsAssumption == IsFiniteSet(Calls)
ASSUME ThresholdAssumption == Threshold \in Nat /\ Threshold > 0
ASSUME OpenTimeAssumption == OpenTime \in Nat /\ OpenTime > 0
ASSUME PerSecondAssumption == PerSecond \in Nat /\ PerSecond > 0
ASSUME ReloadsAssumption == MaxReloads \in Nat

VARIABLES
  state,          \* "closed", "open" or "half_open"
  failures,       \* consecutive failures
  openAge,        \* now() - openedAt while open
  probeInFlight,
  call,           \* "idle", "flying", or "probe" when half_open admitted it
  reloads

vars == <<state, failures, openAge, probeInFlight, call, reloads>>

Init ==
  /\ state = "closed" /\ failures = 0 /\ openAge = 0 /\ probeInFlight = FALSE
  /\ call = [c \in Calls |-> "idle"]
  /\ reloads = 0

(***************************************************************************)
(* transitionToHalfOpenIfDue, which every reader of the state runs first.  *)
(***************************************************************************)
Due == state = "open" /\ openAge >= OpenTime
StateNow == IF Due THEN "half_open" ELSE state
ProbeNow == ~Due /\ probeInFlight
\* Mutant: a reader of the state does not move it.
Transition_ReadOnly == UNCHANGED <<state, probeInFlight>>
Transition == state' = StateNow /\ probeInFlight' = ProbeNow

(***************************************************************************)
(* allow().                                                                *)
(***************************************************************************)
StartClosed(c) ==
  /\ call[c] = "idle" /\ state = "closed"
  /\ call' = [call EXCEPT ![c] = "flying"]
  /\ UNCHANGED <<state, failures, openAge, probeInFlight, reloads>>

StartProbe(c) ==
  /\ call[c] = "idle" /\ StateNow = "half_open" /\ ~ProbeNow
  /\ state' = "half_open" /\ probeInFlight' = TRUE
  /\ call' = [call EXCEPT ![c] = "probe"]
  /\ UNCHANGED <<failures, openAge, reloads>>

\* allow() that answers false (503 circuit_open), GET /health, GET /ready and
\* retryAfterSeconds: only the transition.
Observe ==
  /\ Transition
  /\ UNCHANGED <<failures, openAge, call, reloads>>

(***************************************************************************)
(* The end of a call: recordSuccess, recordFailure.                        *)
(***************************************************************************)
Land(c) == call[c] # "idle" /\ call' = [call EXCEPT ![c] = "idle"] /\ UNCHANGED reloads

\* Mutant: a success leaves the probe flag.
Success_KeepsFlag(c) ==
  /\ Land(c)
  /\ state' = "closed" /\ failures' = 0 /\ openAge' = 0
  /\ UNCHANGED probeInFlight
Success(c) ==
  /\ Land(c)
  /\ state' = "closed" /\ failures' = 0 /\ openAge' = 0 /\ probeInFlight' = FALSE

FailureHalfOpen(c) ==
  /\ Land(c) /\ state = "half_open"
  /\ state' = "open" /\ openAge' = 0 /\ probeInFlight' = FALSE
  /\ UNCHANGED failures

Opens(n) == n >= Threshold

FailureCounted(c) ==
  /\ Land(c) /\ state # "half_open"
  /\ failures' = failures + 1
  /\ IF Opens(failures + 1) THEN state' = "open" /\ openAge' = 0
                            ELSE UNCHANGED <<state, openAge>>
  /\ probeInFlight' = FALSE

(***************************************************************************)
(* connectUpstream on a reload: a new breaker, the calls stay in flight.   *)
(***************************************************************************)
Reload ==
  /\ reloads < MaxReloads
  /\ reloads' = reloads + 1
  /\ state' = "closed" /\ failures' = 0 /\ openAge' = 0 /\ probeInFlight' = FALSE
  /\ UNCHANGED call

Tick ==
  /\ state = "open" /\ openAge < OpenTime
  /\ openAge' = openAge + 1
  /\ UNCHANGED <<state, failures, probeInFlight, call, reloads>>

End(c) == Success(c) \/ FailureHalfOpen(c) \/ FailureCounted(c)

Next == (\E c \in Calls : StartClosed(c) \/ StartProbe(c) \/ End(c))
        \/ Observe \/ Reload \/ Tick

Spec == Init /\ [][Next]_vars

\* Time passes, upstream.timeoutMs ends every call, and the readiness probe of
\* the deployment keeps reading the state.  No client has to call.
FairSpec == /\ Spec
            /\ WF_vars(Tick) /\ WF_vars(Observe)
            /\ \A c \in Calls : WF_vars(End(c))

(***************************************************************************)
(* retryAfterSeconds.                                                      *)
(***************************************************************************)
Ceil(n, d) == (n + d - 1) \div d
RetryAfter ==
  LET s == Ceil(OpenTime - openAge, PerSecond)
  IN IF StateNow = "open" /\ s > 1 THEN s ELSE 1

-----------------------------------------------------------------------------
(***************************************************************************)
(* Properties.                                                             *)
(***************************************************************************)
\* The type invariant.
TypeOK ==
  /\ state \in {"closed", "open", "half_open"}
  /\ failures \in Nat
  /\ openAge \in 0 .. OpenTime
  /\ probeInFlight \in BOOLEAN
  /\ call \in [Calls -> {"idle", "flying", "probe"}]
  /\ reloads \in 0 .. MaxReloads

Probes == {c \in Calls : call[c] = "probe"}

\* The circuit is closed exactly while fewer than failureThreshold failures are
\* counted: late outcomes of calls from another era never separate the two.
CircuitAgrees == state = "closed" <=> failures < Threshold

\* The probe flag is never left behind: while it refuses every other call, the
\* circuit is half open and a call admitted as a probe is still in flight.
ProbeFlagOwned == probeInFlight => state = "half_open" /\ Probes # {}

\* What the breaker counts, what it shows and whom it lets through fit together,
\* whatever the order of outcomes, readers and reloads.
BreakerAgrees == CircuitAgrees /\ ProbeFlagOwned

\* A client that gets 503 circuit_open and waits Retry-After seconds finds the
\* circuit no longer in the same opening.
RetryAfterSuffices ==
  StateNow = "open" => openAge + RetryAfter * PerSecond >= OpenTime

\* Neither state that refuses calls lasts: an open circuit is left, as the
\* readiness probe reads it, and a probe's flag falls, whoever lands meanwhile.
Reprobes ==
  /\ (state = "open") ~> (state # "open")
  /\ probeInFlight ~> ~probeInFlight

\* breaker.js:49 "half_open: exactly one probe".
ExactlyOneProbe == Cardinality(Probes) <= 1
=============================================================================
