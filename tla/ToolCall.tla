------------------------------- MODULE ToolCall -------------------------------
(***************************************************************************)
(* A tool call through the MCP gateway: executeToolCall of server.js with  *)
(* what it asks in turn - policy, rate window, breaker, upstream, audit -  *)
(* and what moves under it: reloads, the drain after SIGTERM, time.        *)
(*                                                                         *)
(* A request finds its tenant, then awaits its body; what follows runs     *)
(* without interruption up to the await of the upstream, and the rest      *)
(* after that.  The tenant that was found stays the object of the policy   *)
(* that was in force then, while a reload puts another policy in.          *)
(* Of the breaker this module takes the actions, each joined with what the *)
(* gateway does beside it.  Times are ages in ticks.                       *)
(***************************************************************************)
EXTENDS Breaker, Sequences

CONSTANTS
  Tenants,
  Own,        \* those that override the lists and the limit of the policy
  Limit,      \* rateLimitPerMinute of each version of the policy
  Denied,     \* the tools each version denies
  Window,     \* the 60 s of the rate window, in ticks
  MaxCalls,   \* bound: requests
  MaxFaults   \* bound: audit lines that cannot be appended

Versions == 0 .. MaxReloads
Tools == {"proxied", "builtin"}

ASSUME TenantsAssumption == Own \subseteq Tenants
ASSUME PolicyAssumption == Limit \in [Versions -> Nat] /\ Denied \in [Versions -> SUBSET Tools]
ASSUME WindowAssumption == Window \in Nat /\ MaxCalls \in Nat /\ MaxFaults \in Nat

VARIABLES
  reading,  \* tenant and version of a request whose body is awaited, or <<>>
  hits,     \* RateLimiter.hits of each tenant, as ages, oldest first
  limit,    \* RateLimiter.limit, -1 when the tenant has no limiter
  linked,   \* the upstream's tools are known
  drains,   \* state.shuttingDown
  faults,   \* appends to the audit file that failed
  reply,    \* the tenant whose call was answered 429 in the last step, or <<>>
  arrived,  \* history: requests
  used,     \* history: ages of a tenant's admissions in the window, by the
            \*   version in force at the time; no reload forgets them
  mixed     \* history: tenant and version where a limiter was replaced

gate == <<reading, hits, limit, used, mixed>>
toolVars == <<vars, gate, linked, drains, faults, reply, arrived>>

ToolInit ==
  /\ Init
  /\ reading = [c \in Calls |-> <<>>]
  /\ hits = [t \in Tenants |-> <<>>] /\ limit = [t \in Tenants |-> -1]
  /\ linked = TRUE /\ drains = FALSE
  /\ faults = 0 /\ reply = <<>> /\ arrived = 0
  /\ used = [t \in Tenants |-> [v \in Versions |-> <<>>]] /\ mixed = {}

(***************************************************************************)
(* A request up to executeToolCall.                                        *)
(***************************************************************************)
\* resolveTenant, before the body is awaited.
Arrive(c, t) ==
  /\ call[c] = "idle" /\ reading[c] = <<>> /\ arrived < MaxCalls
  /\ reading' = [reading EXCEPT ![c] = <<t, reloads>>]
  /\ arrived' = arrived + 1
  /\ reply' = <<>>
  /\ UNCHANGED <<vars, hits, limit, used, mixed, linked, drains, faults>>

Tenant(c) == reading[c][1]

\* effectivePolicy: a tenant with lists of its own keeps those it was found with.
Version(c) == IF Tenant(c) \in Own THEN reading[c][2] ELSE reloads

Leaves(c) == reading[c] # <<>> /\ reading' = [reading EXCEPT ![c] = <<>>]

\* 413, 400: nothing is asked.
BadBody(c) ==
  /\ Leaves(c) /\ reply' = <<>>
  /\ UNCHANGED <<vars, hits, limit, used, mixed, linked, drains, faults, arrived>>

(***************************************************************************)
(* appendAudit: the ring, then the file; the append may throw, and the     *)
(* request is then answered 500.                                           *)
(***************************************************************************)
Recorded == faults' = faults
Unrecorded == faults < MaxFaults /\ faults' = faults + 1

(***************************************************************************)
(* TenantRateLimiters.get and RateLimiter.check.                           *)
(***************************************************************************)
\* The hits that are at most w old: oldest first, they are the last of s.
Within(s, w) == SubSeq(s, Len(s) - Cardinality({i \in DOMAIN s : s[i] <= w}) + 1, Len(s))

\* The filter keeps those at most a window old (t >= windowStart).
\* Mutant: a whole window is dropped a tick too soon.
Kept_Short(s) == Within(s, Window - 1)
Kept(s) == Within(s, Window)

\* A limiter with another limit is replaced.
HitsOf(c) == IF limit[Tenant(c)] = Limit[Version(c)] THEN hits[Tenant(c)] ELSE <<>>

Replaces(c) == limit[Tenant(c)] \notin {-1, Limit[Version(c)]}

Limits(c) ==
  /\ limit' = [limit EXCEPT ![Tenant(c)] = Limit[Version(c)]]
  /\ mixed' = IF Replaces(c) THEN mixed \cup {<<Tenant(c), reloads>>} ELSE mixed

\* 429.
Limited(c, tool) ==
  /\ Leaves(c) /\ tool \notin Denied[Version(c)]
  /\ Len(HitsOf(c)) >= Limit[Version(c)]
  /\ Limits(c)
  /\ hits' = [hits EXCEPT ![Tenant(c)] = HitsOf(c)]
  /\ Recorded \/ Unrecorded
  /\ reply' = <<Tenant(c)>>
  /\ UNCHANGED <<vars, used, linked, drains, arrived>>

Admitted(c, tool) ==
  /\ Leaves(c) /\ tool \notin Denied[Version(c)]
  /\ Len(HitsOf(c)) < Limit[Version(c)]
  /\ Limits(c)
  /\ hits' = [hits EXCEPT ![Tenant(c)] = Append(HitsOf(c), 0)]
  /\ used' = [used EXCEPT ![Tenant(c)][reloads] = Append(@, 0)]

(***************************************************************************)
(* The answers of executeToolCall before an upstream is asked.             *)
(***************************************************************************)
\* 403.
Refused(c, tool) ==
  /\ Leaves(c) /\ tool \in Denied[Version(c)]
  /\ Recorded \/ Unrecorded
  /\ reply' = <<>>
  /\ UNCHANGED <<vars, hits, limit, used, mixed, linked, drains, arrived>>

\* shouldProxyToUpstream: without known tools the built-in ones answer.
Proxied(tool) == tool = "proxied" /\ linked

\* callBuiltin, which waits for nothing.
Builtin(c, tool) ==
  /\ Admitted(c, tool) /\ ~Proxied(tool)
  /\ Recorded \/ Unrecorded
  /\ reply' = <<>>
  /\ UNCHANGED <<vars, linked, drains, arrived>>

\* 503 shutting_down: no line and no metric.
Draining(c, tool) ==
  /\ Admitted(c, tool) /\ Proxied(tool) /\ drains
  /\ reply' = <<>>
  /\ UNCHANGED <<vars, linked, drains, faults, arrived>>

\* 503 circuit_open.
Blocked(c, tool) ==
  /\ Admitted(c, tool) /\ Proxied(tool) /\ ~drains
  /\ StateNow = "open" \/ (StateNow = "half_open" /\ ProbeNow)
  /\ Observe
  /\ Recorded \/ Unrecorded
  /\ reply' = <<>>
  /\ UNCHANGED <<linked, drains, arrived>>

Sent(c, tool) ==
  /\ Admitted(c, tool) /\ Proxied(tool) /\ ~drains
  /\ StartClosed(c) \/ StartProbe(c)
  /\ reply' = <<>>
  /\ UNCHANGED <<linked, drains, faults, arrived>>

(***************************************************************************)
(* The upstream's answer.                                                  *)
(***************************************************************************)
Failure(c) == FailureHalfOpen(c) \/ FailureCounted(c)

\* An answer, 5xx, or a timeout: all leave a line, if it can be appended.
Told(c) ==
  /\ Success(c) \/ Failure(c)
  /\ Recorded \/ Unrecorded
  /\ reply' = <<>>
  /\ UNCHANGED <<gate, linked, drains, arrived>>

\* Any other error is thrown on: no line and no metric, and the breaker counts
\* it whether or not the upstream is down (a JSON-RPC error does too).
Thrown(c) ==
  /\ Failure(c)
  /\ reply' = <<>>
  /\ UNCHANGED <<gate, linked, drains, faults, arrived>>

(***************************************************************************)
(* What moves under the calls.                                             *)
(***************************************************************************)
\* reloadPolicy clears the limiters; connectUpstream makes a new breaker and
\* forgets the tools until the new client lists them, if it does.
\* Mutant: the limiters of the old policy stay.
PolicyReload_KeepsLimiters ==
  /\ Reload
  /\ linked' = FALSE
  /\ reply' = <<>>
  /\ UNCHANGED <<gate, drains, faults, arrived>>
PolicyReload ==
  /\ Reload
  /\ hits' = [t \in Tenants |-> <<>>] /\ limit' = [t \in Tenants |-> -1]
  /\ linked' = FALSE
  /\ reply' = <<>>
  /\ UNCHANGED <<reading, used, mixed, drains, faults, arrived>>

Listed ==
  /\ ~linked /\ linked' = TRUE
  /\ reply' = <<>>
  /\ UNCHANGED <<vars, gate, drains, faults, arrived>>

\* beginShutdown.
Drain ==
  /\ ~drains /\ drains' = TRUE
  /\ reply' = <<>>
  /\ UNCHANGED <<vars, gate, linked, faults, arrived>>

\* GET /health, GET /ready.
Read ==
  /\ Observe /\ reply' = <<>>
  /\ UNCHANGED <<gate, linked, drains, faults, arrived>>

Older(s) == [i \in DOMAIN s |-> s[i] + 1]

Pass ==
  /\ Tick \/ (~(state = "open" /\ openAge < OpenTime) /\ UNCHANGED vars)
  /\ \/ state = "open" /\ openAge < OpenTime
     \/ \E t \in Tenants, v \in Versions : used[t][v] # <<>>
  /\ hits' = [t \in Tenants |-> Kept(Older(hits[t]))]
  /\ used' = [t \in Tenants |-> [v \in Versions |-> Within(Older(used[t][v]), Window)]]
  /\ reply' = <<>>
  /\ UNCHANGED <<reading, limit, mixed, linked, drains, faults, arrived>>

Execute(c, tool) ==
  \/ Refused(c, tool) \/ Limited(c, tool) \/ Builtin(c, tool)
  \/ Draining(c, tool) \/ Blocked(c, tool) \/ Sent(c, tool)

ToolNext ==
  \/ \E c \in Calls :
       \/ \E t \in Tenants : Arrive(c, t)
       \/ \E tool \in Tools : Execute(c, tool)
       \/ BadBody(c) \/ Told(c) \/ Thrown(c)
  \/ PolicyReload \/ Listed \/ Drain \/ Read \/ Pass

ToolSpec == ToolInit /\ [][ToolNext]_toolVars

\* As for the breaker: time passes, every call ends, /ready is read.
ToolFairness ==
  /\ WF_toolVars(Pass) /\ WF_toolVars(Read)
  /\ \A c \in Calls : WF_toolVars(Told(c) \/ Thrown(c))

-----------------------------------------------------------------------------
(***************************************************************************)
(* Properties; those of Breaker are checked of this module too.            *)
(***************************************************************************)
\* The type invariant.
ToolTypeOK ==
  /\ TypeOK
  /\ \A c \in Calls : reading[c] \in {<<>>} \cup (Tenants \X Versions)
  /\ hits \in [Tenants -> Seq(0 .. Window)] /\ limit \in [Tenants -> Int]
  /\ linked \in BOOLEAN /\ drains \in BOOLEAN
  /\ faults \in 0 .. MaxFaults /\ reply \in {<<>>} \cup {<<t>> : t \in Tenants}
  /\ arrived \in 0 .. MaxCalls
  /\ used \in [Tenants -> [Versions -> Seq(0 .. Window)]]
  /\ mixed \subseteq Tenants \X Versions

\* The versions whose limit a call of t can be held to while e is in force: a
\* request of a tenant with lists of its own brings the one it was found with.
Judging(t, e) == IF t \in Own THEN 0 .. e ELSE {e}

\* Of the calls that a tenant gets through in a window, those made under one
\* policy are within a limit of one version, whatever reloads and requests in
\* flight do - unless a request of an older version had its limiter replaced.
\* Across a reload the limits add up: reloadPolicy drops the limiters
\* (server.js:404), and the tenant starts the new policy with an empty window.
WindowBound ==
  \A t \in Tenants, e \in 0 .. reloads :
    <<t, e>> \notin mixed => \E v \in Judging(t, e) : Len(used[t][e]) <= Limit[v]

\* Nobody is limited for what another tenant did, for refused calls or for
\* calls before a reload: 429 means that a limit of admissions of the tenant
\* itself, made under the policy in force, is in the window.
LimitedByOwnUse ==
  [][\A t \in Tenants :
       reply' = <<t>> => Len(used[t][reloads]) >= limit'[t]]_toolVars
=============================================================================
