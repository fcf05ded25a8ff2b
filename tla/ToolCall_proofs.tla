---------------------------- MODULE ToolCall_proofs ----------------------------
(***************************************************************************)
(* Theorems about ToolCall for every number of tenants and calls, every    *)
(* policy and every sequence of reloads.                                   *)
(***************************************************************************)
EXTENDS ToolCall, Breaker_proofs, FiniteSetTheorems, SequenceTheorems

(***************************************************************************)
(* Each step of the gateway is a step of the breaker or leaves it alone,   *)
(* so what is proved of Breaker holds here.                                *)
(***************************************************************************)
\* What executeToolCall does up to the await of the upstream.
LEMMA ExecuteRefines ==
  ASSUME NEW c \in Calls, NEW tool, Execute(c, tool)
  PROVE  [Next]_vars
<1>1. CASE Refused(c, tool)
  BY <1>1 DEF Refused
<1>2. CASE Limited(c, tool)
  BY <1>2 DEF Limited
<1>3. CASE Builtin(c, tool)
  BY <1>3 DEF Builtin
<1>4. CASE Draining(c, tool)
  BY <1>4 DEF Draining
<1>5. CASE Blocked(c, tool)
  BY <1>5 DEF Blocked, Next
<1>6. CASE Sent(c, tool)
  BY <1>6 DEF Sent, Next
<1> QED
  BY <1>1, <1>2, <1>3, <1>4, <1>5, <1>6 DEF Execute

LEMMA StepRefines == [ToolNext]_toolVars => [Next]_vars
<1> SUFFICES ASSUME [ToolNext]_toolVars PROVE [Next]_vars
  OBVIOUS
<1>1. CASE UNCHANGED toolVars
  BY <1>1 DEF toolVars
<1>2. ASSUME NEW c \in Calls, NEW t \in Tenants, Arrive(c, t) PROVE [Next]_vars
  BY <1>2 DEF Arrive
<1>3. ASSUME NEW c \in Calls, NEW tool \in Tools, Execute(c, tool) PROVE [Next]_vars
  BY <1>3, ExecuteRefines
<1>4. ASSUME NEW c \in Calls, BadBody(c) PROVE [Next]_vars
  BY <1>4 DEF BadBody
<1>5. ASSUME NEW c \in Calls, Told(c) \/ Thrown(c) PROVE [Next]_vars
  BY <1>5 DEF Told, Thrown, Failure, Next, End
<1>6. CASE PolicyReload
  BY <1>6 DEF PolicyReload, Next
<1>7. CASE Listed \/ Drain
  BY <1>7 DEF Listed, Drain
<1>8. CASE Read
  BY <1>8 DEF Read, Next
<1>9. CASE Pass
  BY <1>9 DEF Pass, Next
<1> QED
  BY <1>1, <1>2, <1>3, <1>4, <1>5, <1>6, <1>7, <1>8, <1>9 DEF ToolNext

\* Seen from the breaker, the gateway with its reloads and drain is module Breaker.
LEMMA CallsKeepBreaker == ToolSpec => Spec
<1>1. ToolInit => Init
  BY DEF ToolInit
<1> QED
  BY <1>1, StepRefines, PTL DEF ToolSpec, Spec

\* The counts, the state and the probe flag of the breaker fit together for every
\* number of tool calls, tenants and reloads.
THEOREM CallsKeepAgreement == ToolSpec => []BreakerAgrees
  BY CallsKeepBreaker, BreakerConsistent, PTL

(***************************************************************************)
(* The rate windows.  The inductive invariant: what a limiter holds are    *)
(* the last of the tenant's admissions, all of them unless it was          *)
(* replaced, and an admission found room under the limit.  What was        *)
(* admitted under earlier versions was bounded when those went.            *)
(***************************************************************************)
Last(s, u) ==
  /\ Len(s) <= Len(u)
  /\ \A i \in 1 .. Len(s) : s[i] = u[i + Len(u) - Len(s)]

\* What was admitted under the policy in force, and whose limiter was replaced
\* under it.
Recent == [t \in Tenants |-> used[t][reloads]]
Replaced == {t \in Tenants : <<t, reloads>> \in mixed}

Windows ==
  /\ hits \in [Tenants -> Seq(Int)] /\ Recent \in [Tenants -> Seq(Int)]
  /\ limit \in [Tenants -> Nat \cup {-1}]
  /\ \A t \in Tenants :
       /\ Last(hits[t], Recent[t])
       /\ limit[t] = -1 => Recent[t] = <<>> /\ t \notin Replaced
       /\ t \notin Replaced => hits[t] = Recent[t]
       /\ limit[t] # -1 => Len(hits[t]) <= limit[t]

\* A limiter has the limit of a version that may judge the tenant now; what was
\* admitted earlier was bounded when it was; nothing is noted of the future.
JudgedLimits ==
  \A t \in Tenants :
    limit[t] # -1 => \E v \in Judging(t, reloads) : limit[t] = Limit[v]

Past ==
  \A t \in Tenants : \A e \in 0 .. MaxReloads :
    e < reloads /\ <<t, e>> \notin mixed =>
      \E v \in Judging(t, e) : Len(used[t][e]) <= Limit[v]

Future ==
  /\ used \in [Tenants -> [Versions -> Seq(Int)]]
  /\ mixed \subseteq Tenants \X Versions
  /\ \A t \in Tenants : \A e \in Versions :
       e > reloads => used[t][e] = <<>> /\ <<t, e>> \notin mixed

Requests ==
  /\ reloads \in Versions
  /\ reading \in [Calls -> {<<>>} \cup (Tenants \X Versions)]
  /\ \A c \in Calls : reading[c] # <<>> => reading[c][2] <= reloads

\* How many of a sequence are young.
Young(s, w) == {i \in DOMAIN s : s[i] <= w}

LEMMA YoungCount ==
  ASSUME NEW s \in Seq(Int), NEW w
  PROVE  /\ IsFiniteSet(Young(s, w))
         /\ Cardinality(Young(s, w)) \in 0 .. Len(s)
<1>1. Len(s) \in Nat /\ 1 \in Int /\ Len(s) \in Int
  OBVIOUS
<1>2. IsFiniteSet(1 .. Len(s)) /\ Cardinality(1 .. Len(s)) = Len(s)
  <2>1. IsFiniteSet(1 .. Len(s))
    BY <1>1, FS_Interval
  <2>2. Cardinality(1 .. Len(s)) = IF 1 > Len(s) THEN 0 ELSE Len(s) - 1 + 1
    BY <1>1, FS_Interval
  <2> QED
    BY <1>1, <2>1, <2>2
<1>3. Young(s, w) \subseteq 1 .. Len(s)
  BY DEF Young
<1>4. /\ IsFiniteSet(Young(s, w))
      /\ Cardinality(Young(s, w)) <= Cardinality(1 .. Len(s))
  BY <1>2, <1>3, FS_Subset
<1>5. Cardinality(Young(s, w)) \in Nat
  BY <1>4, FS_CardinalityType
<1> QED
  BY <1>1, <1>2, <1>4, <1>5

\* What Within returns: the last elements of s, as many as are young.
LEMMA WithinLast ==
  ASSUME NEW s \in Seq(Int), NEW w
  PROVE  /\ Within(s, w) \in Seq(Int)
         /\ Len(Within(s, w)) = Cardinality(Young(s, w))
         /\ Len(Within(s, w)) \in 0 .. Len(s)
         /\ \A i \in 1 .. Len(Within(s, w)) :
              Within(s, w)[i] = s[i + Len(s) - Len(Within(s, w))]
<1> DEFINE n == Cardinality(Young(s, w))
<1>1. n \in 0 .. Len(s) /\ n \in Int /\ Len(s) \in Nat
  BY YoungCount
<1>2. Within(s, w) = SubSeq(s, Len(s) - n + 1, Len(s))
  BY DEF Within, Young
<1> HIDE DEF n
<1>3. /\ SubSeq(s, Len(s) - n + 1, Len(s)) \in Seq(Int)
      /\ Len(SubSeq(s, Len(s) - n + 1, Len(s))) = n
  BY <1>1
<1>4. ASSUME NEW i \in 1 .. n PROVE SubSeq(s, Len(s) - n + 1, Len(s))[i] = s[i + Len(s) - n]
  <2> DEFINE a == Len(s) - n + 1
  <2>1. a \in Int /\ a + i - 1 = i + Len(s) - n /\ i \in 1 .. Len(s) - a + 1
    BY <1>1
  <2> HIDE DEF a
  <2>2. SubSeq(s, a, Len(s))[i] = s[a + i - 1]
    BY <1>1, <2>1
  <2> QED
    BY <2>1, <2>2 DEF a
<1> QED
  BY <1>1, <1>2, <1>3, <1>4 DEF n

\* The last of u that are young are the last of s that are, and more.
LEMMA WithinKeepsLast ==
  ASSUME NEW s \in Seq(Int), NEW u \in Seq(Int), NEW w, Last(s, u)
  PROVE  Last(Within(s, w), Within(u, w))
<1> DEFINE d == Len(u) - Len(s)
           shift == [i \in Young(s, w) |-> i + d]
<1>1. d \in Nat /\ Len(s) \in Nat /\ Len(u) \in Nat
  BY DEF Last
<1>2. ASSUME NEW i \in Young(s, w) PROVE i + d \in Young(u, w)
  <2>1. i \in 1 .. Len(s) /\ s[i] <= w
    BY DEF Young
  <2>2. i + d \in 1 .. Len(u) /\ u[i + d] = s[i]
    BY <1>1, <2>1 DEF Last
  <2> QED
    BY <2>1, <2>2 DEF Young
<1>3. shift \in Injection(Young(s, w), Young(u, w))
  <2>1. \A i, j \in Young(s, w) : i + d = j + d => i = j
    BY <1>1 DEF Young
  <2> QED
    BY <1>2, <2>1 DEF Injection, IsInjective
<1>4. Cardinality(Young(s, w)) <= Cardinality(Young(u, w))
  BY <1>3, YoungCount, FS_Injection
<1> DEFINE a == Within(s, w)
           b == Within(u, w)
<1>5. /\ Len(a) \in 0 .. Len(s) /\ Len(b) \in 0 .. Len(u) /\ Len(a) <= Len(b)
      /\ \A i \in 1 .. Len(a) : a[i] = s[i + Len(s) - Len(a)]
      /\ \A i \in 1 .. Len(b) : b[i] = u[i + Len(u) - Len(b)]
  BY <1>4, WithinLast
<1> HIDE DEF a, b
<1>6. ASSUME NEW i \in 1 .. Len(a) PROVE a[i] = b[i + Len(b) - Len(a)]
  <2>1. i + Len(s) - Len(a) \in 1 .. Len(s)
    BY <1>1, <1>5
  <2>2. a[i] = u[i + Len(s) - Len(a) + Len(u) - Len(s)]
    BY <2>1, <1>5 DEF Last
  <2>3. i + Len(b) - Len(a) \in 1 .. Len(b)
    BY <1>1, <1>5
  <2>4. b[i + Len(b) - Len(a)] = u[i + Len(b) - Len(a) + Len(u) - Len(b)]
    BY <2>3, <1>5
  <2>5. i + Len(s) - Len(a) + Len(u) - Len(s) = i + Len(b) - Len(a) + Len(u) - Len(b)
    BY <1>1, <1>5
  <2> QED
    BY <2>2, <2>4, <2>5
<1>7. Last(a, b)
  BY <1>5, <1>6 DEF Last
<1> QED
  BY <1>7 DEF a, b

LEMMA OlderKeepsLast ==
  ASSUME NEW s \in Seq(Int), NEW u \in Seq(Int), Last(s, u)
  PROVE  /\ Older(s) \in Seq(Int) /\ Older(u) \in Seq(Int)
         /\ Len(Older(s)) = Len(s)
         /\ Last(Older(s), Older(u))
<1>1. ASSUME NEW x \in Seq(Int)
      PROVE  /\ Older(x) \in Seq(Int) /\ Len(Older(x)) = Len(x)
             /\ \A i \in 1 .. Len(x) : Older(x)[i] = x[i] + 1
  <2>1. Len(x) \in Nat /\ DOMAIN x = 1 .. Len(x) /\ \A i \in 1 .. Len(x) : x[i] \in Int
    OBVIOUS
  <2>2. Older(x) \in [1 .. Len(x) -> Int] /\ \A i \in 1 .. Len(x) : Older(x)[i] = x[i] + 1
    BY <2>1 DEF Older
  <2>3. Older(x) \in Seq(Int)
    BY <2>1, <2>2, SeqDef
  <2>4. DOMAIN Older(x) = 1 .. Len(x) /\ DOMAIN Older(x) = 1 .. Len(Older(x))
        /\ Len(Older(x)) \in Nat
    BY <2>2, <2>3, LenProperties
  <2> QED
    BY <2>1, <2>2, <2>3, <2>4
<1>2. /\ Older(s) \in Seq(Int) /\ Len(Older(s)) = Len(s)
      /\ Older(u) \in Seq(Int) /\ Len(Older(u)) = Len(u)
  BY <1>1
<1>3. ASSUME NEW i \in 1 .. Len(s)
      PROVE  Older(s)[i] = Older(u)[i + Len(u) - Len(s)]
  <2>1. i + Len(u) - Len(s) \in 1 .. Len(u) /\ s[i] = u[i + Len(u) - Len(s)]
    BY DEF Last
  <2>2. Older(s)[i] = s[i] + 1
    BY <1>1
  <2>3. \A j \in 1 .. Len(u) : Older(u)[j] = u[j] + 1
    BY <1>1
  <2> QED
    BY <2>1, <2>2, <2>3
<1> QED
  BY <1>2, <1>3 DEF Last

LEMMA EmptyLast ==
  ASSUME NEW u \in Seq(Int)
  PROVE  Last(<<>>, u) /\ Within(Older(<<>>), Window) = <<>>
<1>1. Last(<<>>, u)
  BY DEF Last
<1>2. <<>> \in Seq(Int) /\ Len(<<>>) = 0 /\ Last(<<>>, <<>>)
  BY DEF Last
<1>4. Older(<<>>) \in Seq(Int) /\ Len(Older(<<>>)) = 0
  BY <1>2, OlderKeepsLast
<1>3. Within(Older(<<>>), Window) \in Seq(Int) /\ Len(Within(Older(<<>>), Window)) = 0
  <2> DEFINE e == Older(<<>>)
  <2>1. e \in Seq(Int) /\ Len(e) = 0
    BY <1>4
  <2> HIDE DEF e
  <2>2. Within(e, Window) \in Seq(Int) /\ Len(Within(e, Window)) = 0
    <3>1. Within(e, Window) \in Seq(Int) /\ Len(Within(e, Window)) \in 0 .. Len(e)
      BY <2>1, WithinLast
    <3> QED
      BY <2>1, <3>1
  <2> QED
    BY <2>2 DEF e
<1> QED
  BY <1>1, <1>3, EmptySeq

LEMMA AppendKeepsLast ==
  ASSUME NEW s \in Seq(Int), NEW u \in Seq(Int), Last(s, u)
  PROVE  Last(Append(s, 0), Append(u, 0))
<1> DEFINE a == Append(s, 0)
           b == Append(u, 0)
<1>1. /\ Len(s) \in Nat /\ Len(u) \in Nat /\ Len(s) <= Len(u)
      /\ \A i \in 1 .. Len(s) : s[i] = u[i + Len(u) - Len(s)]
  BY DEF Last
<1>2. /\ Len(a) = Len(s) + 1 /\ a[Len(s) + 1] = 0 /\ \A i \in 1 .. Len(s) : a[i] = s[i]
      /\ Len(b) = Len(u) + 1 /\ b[Len(u) + 1] = 0 /\ \A i \in 1 .. Len(u) : b[i] = u[i]
  BY AppendProperties
<1> HIDE DEF a, b
<1>3. ASSUME NEW i \in 1 .. Len(a) PROVE a[i] = b[i + Len(b) - Len(a)]
  <2>1. CASE i = Len(s) + 1
    <3>1. i + Len(b) - Len(a) = Len(u) + 1
      BY <2>1, <1>1, <1>2
    <3> QED
      BY <2>1, <3>1, <1>2
  <2>2. CASE i \in 1 .. Len(s)
    <3>1. i + Len(b) - Len(a) = i + Len(u) - Len(s) /\ i + Len(u) - Len(s) \in 1 .. Len(u)
      BY <2>2, <1>1, <1>2
    <3> QED
      BY <2>2, <3>1, <1>1, <1>2
  <2> QED
    BY <2>1, <2>2, <1>1, <1>2
<1>4. Last(a, b)
  BY <1>1, <1>2, <1>3 DEF Last
<1> QED
  BY <1>4 DEF a, b

LEMMA WindowsInit == ToolInit => Windows /\ Requests /\ JudgedLimits /\ Past /\ Future
<1> SUFFICES ASSUME ToolInit PROVE Windows /\ Requests /\ JudgedLimits /\ Past /\ Future
  OBVIOUS
<1>1. <<>> \in Seq(Int) /\ Last(<<>>, <<>>)
  BY DEF Last
<1>2. /\ reloads = 0 /\ 0 \in Versions /\ mixed = {}
      /\ used = [t \in Tenants |-> [v \in Versions |-> <<>>]]
  BY Zero DEF ToolInit, Init, Versions
<1>3. Recent = [t \in Tenants |-> <<>>] /\ Replaced = {}
  BY <1>2 DEF Recent, Replaced
<1>4. Windows
  BY <1>1, <1>3 DEF ToolInit, Windows
<1>5. Requests
  BY Zero DEF ToolInit, Init, Requests, Versions
<1>6. JudgedLimits
  BY DEF ToolInit, JudgedLimits
<1>7. Past
  BY <1>2, ReloadsAssumption DEF Past
<1>8. Future
  BY <1>1, <1>2 DEF Future
<1> QED
  BY <1>4, <1>5, <1>6, <1>7, <1>8

LEMMA RequestsStep == Requests /\ [ToolNext]_toolVars => Requests'
<1> SUFFICES ASSUME Requests, [ToolNext]_toolVars PROVE Requests'
  OBVIOUS
<1> USE DEF Requests, Versions, gate, vars
<1>1. CASE UNCHANGED toolVars
  BY <1>1 DEF toolVars
<1>2. ASSUME NEW c \in Calls, NEW t \in Tenants, Arrive(c, t) PROVE Requests'
  BY <1>2 DEF Arrive
<1>3. ASSUME NEW c \in Calls, NEW tool \in Tools, Execute(c, tool) PROVE Requests'
  <2>1. Leaves(c)
    BY <1>3 DEF Execute, Refused, Limited, Builtin, Draining, Blocked, Sent, Admitted
  <2>2. UNCHANGED reloads
    BY <1>3 DEF Execute, Refused, Limited, Builtin, Draining, Blocked, Sent, Observe,
                StartClosed, StartProbe
  <2> QED
    BY <2>1, <2>2 DEF Leaves
<1>4. ASSUME NEW c \in Calls, BadBody(c) PROVE Requests'
  BY <1>4 DEF BadBody, Leaves
<1>5. ASSUME NEW c \in Calls, Told(c) \/ Thrown(c) PROVE Requests'
  BY <1>5 DEF Told, Thrown, Failure, Success, FailureHalfOpen, FailureCounted, Land
<1>6. CASE PolicyReload
  BY <1>6, ReloadsAssumption DEF PolicyReload, Reload
<1>7. CASE Listed \/ Drain
  BY <1>7 DEF Listed, Drain
<1>8. CASE Read
  BY <1>8 DEF Read, Observe
<1>9. CASE Pass
  BY <1>9 DEF Pass, Tick
<1> QED
  BY <1>1, <1>2, <1>3, <1>4, <1>5, <1>6, <1>7, <1>8, <1>9 DEF ToolNext

\* The tenant of a request and the version it is judged by.
LEMMA JudgedBy ==
  ASSUME Requests, NEW c \in Calls, Leaves(c)
  PROVE  /\ Tenant(c) \in Tenants /\ Limit[Version(c)] \in Nat
         /\ Version(c) \in Judging(Tenant(c), reloads)
<1>1. reading[c] \in Tenants \X Versions /\ reading[c][2] <= reloads
  BY DEF Requests, Leaves
<1>2. Version(c) \in Versions /\ Tenant(c) \in Tenants
  BY <1>1 DEF Requests, Tenant, Version
<1>3. Version(c) \in Judging(Tenant(c), reloads)
  BY <1>1 DEF Requests, Versions, Version, Judging
<1> QED
  BY <1>2, <1>3, PolicyAssumption

\* What a call that is judged notes is noted of the policy in force.
LEMMA LimitsNoted ==
  ASSUME Future, Requests, NEW c \in Calls, Leaves(c), Limits(c), reloads' = reloads
  PROVE  /\ Replaced' = IF Replaces(c) THEN Replaced \cup {Tenant(c)} ELSE Replaced
         /\ mixed' \subseteq Tenants \X Versions
         /\ \A t \in Tenants, e \in Versions :
              e # reloads => (<<t, e>> \in mixed' <=> <<t, e>> \in mixed)
<1>1. Tenant(c) \in Tenants /\ reloads \in Versions
  BY JudgedBy DEF Requests
<1>2. mixed' = IF Replaces(c) THEN mixed \cup {<<Tenant(c), reloads>>} ELSE mixed
  BY DEF Limits
<1> HIDE DEF Replaces
<1> QED
  BY <1>1, <1>2 DEF Replaced, Future

LEMMA AdmittedNoted ==
  ASSUME Future, Requests, NEW c \in Calls, NEW tool, Admitted(c, tool), reloads' = reloads
  PROVE  /\ used' \in [Tenants -> [Versions -> Seq(Int)]]
         /\ Recent' = [Recent EXCEPT ![Tenant(c)] = Append(Recent[Tenant(c)], 0)]
         /\ \A t \in Tenants, e \in Versions : e # reloads => used'[t][e] = used[t][e]
<1> DEFINE t == Tenant(c)
           u == Append(used[t][reloads], 0)
<1>1. Leaves(c) /\ used' = [used EXCEPT ![t][reloads] = u]
  BY DEF Admitted
<1>2. t \in Tenants /\ reloads \in Versions /\ used \in [Tenants -> [Versions -> Seq(Int)]]
  BY <1>1, JudgedBy DEF Requests, Future
<1>3. u \in Seq(Int)
  BY <1>2
<1>4. Recent[t] = used[t][reloads]
  BY <1>2 DEF Recent
<1> HIDE DEF u, t
<1>5. used' = [used EXCEPT ![t] = [used[t] EXCEPT ![reloads] = u]]
  BY <1>1
<1>6. used' \in [Tenants -> [Versions -> Seq(Int)]]
  BY <1>2, <1>3, <1>5
<1>7. used'[t] = [used[t] EXCEPT ![reloads] = u] /\ \A s \in Tenants \ {t} : used'[s] = used[s]
  BY <1>2, <1>5
<1>8. \A s \in Tenants, e \in Versions : e # reloads => used'[s][e] = used[s][e]
  BY <1>2, <1>7
<1>9. used'[t][reloads] = u
  BY <1>2, <1>7
<1>10. Recent' = [Recent EXCEPT ![t] = u]
  BY <1>2, <1>7, <1>9 DEF Recent
<1> QED
  BY <1>4, <1>6, <1>8, <1>10 DEF u, t

\* What the limiter of a request holds when it is asked.
LEMMA AskedLimiter ==
  ASSUME Windows, Requests, NEW c \in Calls, Leaves(c)
  PROVE  /\ HitsOf(c) \in Seq(Int)
         /\ Last(HitsOf(c), Recent[Tenant(c)])
         /\ Tenant(c) \notin Replaced /\ ~Replaces(c) => HitsOf(c) = Recent[Tenant(c)]
         /\ limit[Tenant(c)] = Limit[Version(c)] => Len(HitsOf(c)) <= Limit[Version(c)]
         /\ limit[Tenant(c)] # Limit[Version(c)] => HitsOf(c) = <<>>
<1>1. Tenant(c) \in Tenants /\ Limit[Version(c)] \in Nat
  BY JudgedBy
<1>2. Recent[Tenant(c)] \in Seq(Int) /\ hits[Tenant(c)] \in Seq(Int) /\ <<>> \in Seq(Int)
  BY <1>1 DEF Windows
<1>3. Last(<<>>, Recent[Tenant(c)])
  BY <1>2, EmptyLast
<1>4. CASE limit[Tenant(c)] = Limit[Version(c)]
  BY <1>1, <1>2, <1>4 DEF Windows, HitsOf
<1>5. CASE limit[Tenant(c)] # Limit[Version(c)]
  BY <1>1, <1>2, <1>3, <1>5 DEF Windows, HitsOf, Replaces
<1> QED
  BY <1>4, <1>5

LEMMA LimitedKeeps ==
  ASSUME Windows, Requests, Future, NEW c \in Calls, NEW tool, Limited(c, tool)
  PROVE  Windows'
<1>1. Leaves(c) /\ Limits(c) /\ hits' = [hits EXCEPT ![Tenant(c)] = HitsOf(c)]
      /\ Recent' = Recent /\ reloads' = reloads
  BY DEF Limited, vars, Recent
<1>2. Tenant(c) \in Tenants /\ Limit[Version(c)] \in Nat
  BY <1>1, JudgedBy
<1>3. /\ HitsOf(c) \in Seq(Int)
      /\ Last(HitsOf(c), Recent[Tenant(c)])
      /\ Tenant(c) \notin Replaced /\ ~Replaces(c) => HitsOf(c) = Recent[Tenant(c)]
      /\ Len(HitsOf(c)) <= Limit[Version(c)]
  BY <1>1, <1>2, AskedLimiter
<1>4. /\ limit' = [limit EXCEPT ![Tenant(c)] = Limit[Version(c)]]
      /\ Replaced' = IF Replaces(c) THEN Replaced \cup {Tenant(c)} ELSE Replaced
  BY <1>1, LimitsNoted DEF Limits
<1> HIDE DEF Replaces, HitsOf, Version
<1> QED
  BY <1>1, <1>2, <1>3, <1>4 DEF Windows

LEMMA AdmittedKeeps ==
  ASSUME Windows, Requests, Future, NEW c \in Calls, NEW tool, Admitted(c, tool),
         reloads' = reloads
  PROVE  Windows'
<1> DEFINE t == Tenant(c)
           h == Append(HitsOf(c), 0)
           u == Append(Recent[t], 0)
<1>1. /\ Leaves(c) /\ Limits(c) /\ Len(HitsOf(c)) < Limit[Version(c)]
      /\ hits' = [hits EXCEPT ![t] = h] /\ Recent' = [Recent EXCEPT ![t] = u]
  BY AdmittedNoted DEF Admitted
<1>2. t \in Tenants /\ Limit[Version(c)] \in Nat /\ Recent[t] \in Seq(Int)
  BY <1>1, JudgedBy DEF Windows
<1>3. /\ HitsOf(c) \in Seq(Int) /\ Last(HitsOf(c), Recent[t])
      /\ t \notin Replaced /\ ~Replaces(c) => HitsOf(c) = Recent[t]
  BY <1>1, <1>2, AskedLimiter
<1>4. /\ h \in Seq(Int) /\ u \in Seq(Int) /\ Len(h) = Len(HitsOf(c)) + 1
      /\ Len(HitsOf(c)) \in Nat /\ u # <<>>
  BY <1>2, <1>3, AppendProperties
<1>5. Last(h, u)
  BY <1>2, <1>3, AppendKeepsLast
<1>6. t \notin Replaced /\ ~Replaces(c) => h = u
  BY <1>3
<1>7. Len(h) <= Limit[Version(c)]
  BY <1>1, <1>2, <1>4
<1>8. /\ limit' = [limit EXCEPT ![t] = Limit[Version(c)]]
      /\ Replaced' = IF Replaces(c) THEN Replaced \cup {t} ELSE Replaced
  BY <1>1, LimitsNoted DEF Limits
<1> HIDE DEF Replaces, HitsOf, Version, h, u, t
<1>9. /\ hits' \in [Tenants -> Seq(Int)] /\ Recent' \in [Tenants -> Seq(Int)]
      /\ \A s \in Tenants \ {t} : hits'[s] = hits[s] /\ Recent'[s] = Recent[s]
      /\ hits'[t] = h /\ Recent'[t] = u
  BY <1>1, <1>2, <1>4 DEF Windows
<1>10. /\ limit' \in [Tenants -> Nat \cup {-1}] 
       /\ limit'[t] = Limit[Version(c)]
       /\ t \notin Replaced' => t \notin Replaced /\ ~Replaces(c)
       /\ \A s \in Tenants \ {t} :
            limit'[s] = limit[s] /\ (s \in Replaced' <=> s \in Replaced)
  BY <1>2, <1>8 DEF Windows
<1>11. ASSUME NEW s \in Tenants
       PROVE  /\ Last(hits'[s], Recent'[s])
              /\ limit'[s] = -1 => Recent'[s] = <<>> /\ s \notin Replaced'
              /\ s \notin Replaced' => hits'[s] = Recent'[s]
              /\ limit'[s] # -1 => Len(hits'[s]) <= limit'[s]
  <2>1. CASE s = t
    BY <1>2, <1>5, <1>6, <1>7, <1>9, <1>10, <2>1
  <2>2. CASE s # t
    BY <1>9, <1>10, <1>11, <2>2 DEF Windows
  <2> QED
    BY <2>1, <2>2
<1> QED
  BY <1>9, <1>10, <1>11 DEF Windows

LEMMA PassNoted ==
  ASSUME Requests, Future, Pass
  PROVE  /\ Recent' = [t \in Tenants |-> Kept(Older(Recent[t]))]
         /\ Replaced' = Replaced /\ reloads' = reloads
<1>1. /\ used' = [t \in Tenants |-> [v \in Versions |-> Kept(Older(used[t][v]))]]
      /\ mixed' = mixed
  BY DEF Pass, Kept
<1>2. reloads' = reloads /\ reloads \in Versions
  BY DEF Pass, Tick, vars, Requests
<1>3. ASSUME NEW t \in Tenants PROVE used'[t][reloads'] = Kept(Older(used[t][reloads]))
  BY <1>1, <1>2
<1>4. \A t \in Tenants : used'[t][reloads'] = Kept(Older(Recent[t]))
  BY <1>3 DEF Recent
<1>5. Recent' = [t \in Tenants |-> Kept(Older(Recent[t]))]
  BY <1>4 DEF Recent
<1> QED
  BY <1>1, <1>2, <1>5 DEF Replaced

LEMMA PassKeeps ==
  ASSUME Windows, Requests, Future, Pass
  PROVE  Windows'
<1>1. /\ hits' = [t \in Tenants |-> Kept(Older(hits[t]))]
      /\ Recent' = [t \in Tenants |-> Kept(Older(Recent[t]))]
      /\ UNCHANGED <<limit, Replaced>>
  BY PassNoted DEF Pass, Kept
<1>2. ASSUME NEW t \in Tenants
      PROVE  /\ Kept(Older(hits[t])) \in Seq(Int) /\ Kept(Older(Recent[t])) \in Seq(Int)
             /\ Last(Kept(Older(hits[t])), Kept(Older(Recent[t])))
             /\ limit[t] # -1 => Len(Kept(Older(hits[t]))) <= limit[t]
             /\ Recent[t] = <<>> => Kept(Older(Recent[t])) = <<>>
  <2>1. hits[t] \in Seq(Int) /\ Recent[t] \in Seq(Int) /\ Last(hits[t], Recent[t])
    BY DEF Windows
  <2>2. /\ Older(hits[t]) \in Seq(Int) /\ Older(Recent[t]) \in Seq(Int)
        /\ Len(Older(hits[t])) = Len(hits[t])
        /\ Last(Older(hits[t]), Older(Recent[t]))
    BY <2>1, OlderKeepsLast
  <2>3. /\ Kept(Older(hits[t])) \in Seq(Int) /\ Kept(Older(Recent[t])) \in Seq(Int)
        /\ Len(Kept(Older(hits[t]))) \in 0 .. Len(Older(hits[t]))
    BY <2>2, WithinLast DEF Kept
  <2>4. Last(Kept(Older(hits[t])), Kept(Older(Recent[t])))
    BY <2>2, WithinKeepsLast DEF Kept
  <2>5. limit[t] # -1 => Len(hits[t]) <= limit[t] /\ limit[t] \in Nat
    BY DEF Windows
  <2>6. limit[t] # -1 => Len(Kept(Older(hits[t]))) <= limit[t]
    BY <2>1, <2>2, <2>3, <2>5
  <2>7. <<>> \in Seq(Int)
    OBVIOUS
  <2>8. Recent[t] = <<>> => Kept(Older(Recent[t])) = <<>>
    BY <2>7, EmptyLast DEF Kept
  <2> QED
    BY <2>3, <2>4, <2>6, <2>8
<1> QED
  BY <1>1, <1>2 DEF Windows

LEMMA ReloadNoted ==
  ASSUME Requests, Future, PolicyReload
  PROVE  /\ Recent' = [t \in Tenants |-> <<>>] /\ Replaced' = {}
         /\ reloads' = reloads + 1 /\ reloads' \in Versions
<1>1. reloads' = reloads + 1 /\ reloads' \in Versions /\ reloads' > reloads
  BY ReloadsAssumption DEF PolicyReload, Reload, Requests, Versions
<1>2. used' = used /\ mixed' = mixed
  BY DEF PolicyReload
<1>3. \A t \in Tenants : used[t][reloads'] = <<>> /\ <<t, reloads'>> \notin mixed
  BY <1>1 DEF Future
<1> QED
  BY <1>1, <1>2, <1>3 DEF Recent, Replaced

\* The steps that touch the limiters or the version.
LEMMA Moves ==
  ASSUME [ToolNext]_toolVars
  PROVE  \/ UNCHANGED <<hits, limit, used, mixed, reloads>>
         \/ \E c \in Calls, tool \in Tools : Limited(c, tool) /\ reloads' = reloads
         \/ \E c \in Calls, tool \in Tools : Admitted(c, tool) /\ reloads' = reloads
         \/ PolicyReload \/ Pass
<1> DEFINE Still == UNCHANGED <<hits, limit, used, mixed, reloads>>
<1>1. CASE UNCHANGED toolVars
  BY <1>1 DEF toolVars, gate, vars
<1>2. ASSUME NEW c \in Calls, NEW t \in Tenants, Arrive(c, t) PROVE Still
  BY <1>2 DEF Arrive, vars
<1>3. ASSUME NEW c \in Calls, NEW tool \in Tools, Execute(c, tool)
      PROVE  \/ Still
             \/ Limited(c, tool) /\ reloads' = reloads
             \/ Admitted(c, tool) /\ reloads' = reloads
  BY <1>3 DEF Execute, Refused, Limited, Builtin, Draining, Blocked, Sent, vars, Observe,
              StartClosed, StartProbe
<1>4. ASSUME NEW c \in Calls, BadBody(c) PROVE Still
  BY <1>4 DEF BadBody, vars
<1>5. ASSUME NEW c \in Calls, Told(c) \/ Thrown(c) PROVE Still
  BY <1>5 DEF Told, Thrown, gate, Failure, Success, FailureHalfOpen, FailureCounted, Land
<1>6. CASE Listed \/ Drain \/ Read
  BY <1>6 DEF Listed, Drain, Read, gate, vars, Observe
<1> HIDE DEF Still
<1>7. \/ Still
      \/ \E c \in Calls, tool \in Tools : Limited(c, tool) /\ reloads' = reloads
      \/ \E c \in Calls, tool \in Tools : Admitted(c, tool) /\ reloads' = reloads
      \/ PolicyReload \/ Pass
  BY <1>1, <1>2, <1>3, <1>4, <1>5, <1>6 DEF ToolNext, Still
<1> QED
  BY <1>7 DEF Still

LEMMA WindowsStep == Windows /\ Requests /\ Future /\ [ToolNext]_toolVars => Windows'
<1> SUFFICES ASSUME Windows, Requests, Future, [ToolNext]_toolVars PROVE Windows'
  OBVIOUS
<1>1. CASE UNCHANGED <<hits, limit, used, mixed, reloads>>
  <2>1. Recent' = Recent /\ Replaced' = Replaced
    BY <1>1 DEF Recent, Replaced
  <2> QED
    BY <1>1, <2>1 DEF Windows
<1>2. ASSUME NEW c \in Calls, NEW tool \in Tools, Limited(c, tool) PROVE Windows'
  BY <1>2, LimitedKeeps
<1>3. ASSUME NEW c \in Calls, NEW tool \in Tools, Admitted(c, tool), reloads' = reloads
      PROVE  Windows'
  BY <1>3, AdmittedKeeps
<1>4. CASE PolicyReload
  <2>1. <<>> \in Seq(Int) /\ Last(<<>>, <<>>)
    BY DEF Last
  <2>2. hits' = [t \in Tenants |-> <<>>] /\ limit' = [t \in Tenants |-> -1]
        /\ Recent' = [t \in Tenants |-> <<>>] /\ Replaced' = {}
    BY <1>4, ReloadNoted DEF PolicyReload
  <2> QED
    BY <2>1, <2>2 DEF Windows
<1>5. CASE Pass
  BY <1>5, PassKeeps
<1> QED
  BY <1>1, <1>2, <1>3, <1>4, <1>5, Moves

LEMMA JudgedStep ==
  JudgedLimits /\ Windows /\ Requests /\ [ToolNext]_toolVars => JudgedLimits'
<1> SUFFICES ASSUME JudgedLimits, Windows, Requests, [ToolNext]_toolVars PROVE JudgedLimits'
  OBVIOUS
<1>1. CASE UNCHANGED <<limit, reloads>>
  BY <1>1 DEF JudgedLimits, Judging
<1>2. ASSUME NEW c \in Calls, Leaves(c), Limits(c), reloads' = reloads PROVE JudgedLimits'
  <2>1. limit' = [limit EXCEPT ![Tenant(c)] = Limit[Version(c)]] /\ limit \in [Tenants -> Nat \cup {-1}]
    BY <1>2 DEF Limits, Windows
  <2>2. Tenant(c) \in Tenants /\ Version(c) \in Judging(Tenant(c), reloads)
    BY <1>2, JudgedBy
  <2> HIDE DEF Tenant, Version, Judging
  <2>3. \A t \in Tenants : limit'[t] = limit[t]
          \/ (t = Tenant(c) /\ limit'[t] = Limit[Version(c)])
    BY <2>1, <2>2
  <2>4. \A t \in Tenants : limit'[t] # -1 => \E v \in Judging(t, reloads) : limit'[t] = Limit[v]
    BY <2>2, <2>3 DEF JudgedLimits
  <2>5. \A t \in Tenants : limit'[t] # -1 => \E v \in Judging(t, reloads') : limit'[t] = Limit[v]
    BY <1>2, <2>4
  <2> QED
    BY <2>5 DEF JudgedLimits, Judging
<1>3. CASE PolicyReload
  BY <1>3 DEF PolicyReload, JudgedLimits
<1>4. CASE Pass
  BY <1>1, <1>4 DEF Pass, Tick, vars
<1> QED
  BY <1>1, <1>2, <1>3, <1>4, Moves DEF Limited, Admitted

LEMMA FutureStep == Future /\ Requests /\ [ToolNext]_toolVars => Future'
<1> SUFFICES ASSUME Future, Requests, [ToolNext]_toolVars PROVE Future'
  OBVIOUS
<1>1. CASE UNCHANGED <<hits, limit, used, mixed, reloads>>
  BY <1>1 DEF Future
<1>2. ASSUME NEW c \in Calls, NEW tool \in Tools, Limited(c, tool), reloads' = reloads
      PROVE  Future'
  <2>1. Leaves(c) /\ Limits(c) /\ used' = used
    BY <1>2 DEF Limited
  <2>2. /\ mixed' \subseteq Tenants \X Versions
        /\ \A t \in Tenants, e \in Versions :
             e # reloads => (<<t, e>> \in mixed' <=> <<t, e>> \in mixed)
    BY <1>2, <2>1, LimitsNoted
  <2> QED
    BY <1>2, <2>1, <2>2 DEF Future, Requests, Versions
<1>3. ASSUME NEW c \in Calls, NEW tool \in Tools, Admitted(c, tool), reloads' = reloads
      PROVE  Future'
  <2>1. Leaves(c) /\ Limits(c)
    BY <1>3 DEF Admitted
  <2>2. /\ mixed' \subseteq Tenants \X Versions
        /\ \A t \in Tenants, e \in Versions :
             e # reloads => (<<t, e>> \in mixed' <=> <<t, e>> \in mixed)
    BY <1>3, <2>1, LimitsNoted
  <2>3. /\ used' \in [Tenants -> [Versions -> Seq(Int)]]
        /\ \A t \in Tenants, e \in Versions : e # reloads => used'[t][e] = used[t][e]
    BY <1>3, AdmittedNoted
  <2>4. \A t \in Tenants, e \in Versions :
          e > reloads => e # reloads /\ used[t][e] = <<>> /\ <<t, e>> \notin mixed
    BY DEF Future, Requests, Versions
  <2> QED
    BY <1>3, <2>2, <2>3, <2>4 DEF Future
<1>4. CASE PolicyReload
  <2>1. used' = used /\ mixed' = mixed /\ reloads' = reloads + 1
    BY <1>4 DEF PolicyReload, Reload
  <2>2. \A e \in Versions : e > reloads + 1 => e > reloads
    BY DEF Requests, Versions
  <2> QED
    BY <2>1, <2>2 DEF Future
<1>5. CASE Pass
  <2>1. /\ used' = [t \in Tenants |-> [v \in Versions |-> Within(Older(used[t][v]), Window)]]
        /\ mixed' = mixed /\ reloads' = reloads
    BY <1>5 DEF Pass, Tick, vars
  <2>2. ASSUME NEW t \in Tenants, NEW e \in Versions
        PROVE  /\ Within(Older(used[t][e]), Window) \in Seq(Int)
               /\ used[t][e] = <<>> => Within(Older(used[t][e]), Window) = <<>>
    <3>1. used[t][e] \in Seq(Int) /\ Last(used[t][e], used[t][e]) /\ <<>> \in Seq(Int)
      BY DEF Future, Last
    <3>2. Within(Older(used[t][e]), Window) \in Seq(Int)
      BY <3>1, OlderKeepsLast, WithinLast
    <3> QED
      BY <3>1, <3>2, EmptyLast
  <2>3. used' \in [Tenants -> [Versions -> Seq(Int)]]
    BY <2>1, <2>2
  <2>4. \A t \in Tenants, e \in Versions : used'[t][e] = Within(Older(used[t][e]), Window)
    BY <2>1
  <2> QED
    BY <2>1, <2>2, <2>3, <2>4 DEF Future
<1> QED
  BY <1>1, <1>2, <1>3, <1>4, <1>5, Moves

\* What stands in the window of the policy in force is within one limit.
LEMMA NowBounded ==
  ASSUME JudgedLimits, Windows, Requests, NEW t \in Tenants, <<t, reloads>> \notin mixed
  PROVE  \E v \in Judging(t, reloads) : Len(used[t][reloads]) <= Limit[v]
<1>1. t \notin Replaced /\ Recent[t] = used[t][reloads]
  BY DEF Replaced, Recent
<1>2. CASE limit[t] = -1
  <2>1. Len(used[t][reloads]) = 0
    BY <1>1, <1>2 DEF Windows
  <2>2. reloads \in Judging(t, reloads) /\ Limit[reloads] \in Nat
    BY PolicyAssumption DEF Judging, Requests, Versions
  <2>3. Len(used[t][reloads]) <= Limit[reloads]
    BY <2>1, <2>2
  <2> QED
    BY <2>2, <2>3
<1>3. CASE limit[t] # -1
  <2>1. Len(used[t][reloads]) <= limit[t]
    BY <1>1, <1>3 DEF Windows
  <2>2. PICK v \in Judging(t, reloads) : limit[t] = Limit[v]
    BY <1>3 DEF JudgedLimits
  <2> QED
    BY <2>1, <2>2
<1> QED
  BY <1>2, <1>3

\* What was admitted under an earlier version was bounded when the version went,
\* and only leaves the window since.
LEMMA PastStep ==
  Past /\ JudgedLimits /\ Windows /\ Requests /\ Future /\ [ToolNext]_toolVars => Past'
<1> SUFFICES ASSUME Past, JudgedLimits, Windows, Requests, Future, [ToolNext]_toolVars
             PROVE  Past'
  OBVIOUS
<1> DEFINE Bounded(t, e, u) == \E v \in Judging(t, e) : Len(u) <= Limit[v]
<1>1. \A t \in Tenants, e \in Versions :
        e < reloads /\ <<t, e>> \notin mixed => Bounded(t, e, used[t][e])
  BY DEF Past, Versions
<1>2. ASSUME \A t \in Tenants, e \in Versions :
               e < reloads' /\ <<t, e>> \notin mixed' => Bounded(t, e, used'[t][e])
      PROVE  Past'
  BY <1>2 DEF Past, Versions, Judging
<1> HIDE DEF Bounded
<1>3. CASE UNCHANGED <<hits, limit, used, mixed, reloads>>
  BY <1>1, <1>2, <1>3
<1>4. ASSUME NEW c \in Calls, NEW tool \in Tools, Limited(c, tool), reloads' = reloads
      PROVE  Past'
  <2>1. Leaves(c) /\ Limits(c) /\ used' = used
    BY <1>4 DEF Limited
  <2>2. \A t \in Tenants, e \in Versions :
          e # reloads => (<<t, e>> \in mixed' <=> <<t, e>> \in mixed)
    BY <1>4, <2>1, LimitsNoted
  <2>3. \A e \in Versions : e < reloads => e # reloads
    BY DEF Requests, Versions
  <2> QED
    BY <1>1, <1>2, <1>4, <2>1, <2>2, <2>3
<1>5. ASSUME NEW c \in Calls, NEW tool \in Tools, Admitted(c, tool), reloads' = reloads
      PROVE  Past'
  <2>1. Leaves(c) /\ Limits(c)
    BY <1>5 DEF Admitted
  <2>2. \A t \in Tenants, e \in Versions :
          e # reloads => (<<t, e>> \in mixed' <=> <<t, e>> \in mixed)
    BY <1>5, <2>1, LimitsNoted
  <2>3. \A t \in Tenants, e \in Versions : e # reloads => used'[t][e] = used[t][e]
    BY <1>5, AdmittedNoted
  <2>4. \A e \in Versions : e < reloads => e # reloads
    BY DEF Requests, Versions
  <2> QED
    BY <1>1, <1>2, <1>5, <2>2, <2>3, <2>4
<1>6. CASE PolicyReload
  <2>1. used' = used /\ mixed' = mixed /\ reloads' = reloads + 1
    BY <1>6 DEF PolicyReload, Reload
  <2>2. \A e \in Versions : e < reloads + 1 => e < reloads \/ e = reloads
    BY DEF Requests, Versions
  <2>3. ASSUME NEW t \in Tenants, <<t, reloads>> \notin mixed
        PROVE  Bounded(t, reloads, used[t][reloads])
    BY <2>3, NowBounded DEF Bounded
  <2> QED
    BY <1>1, <1>2, <2>1, <2>2, <2>3
<1>7. CASE Pass
  <2>1. /\ used' = [t \in Tenants |-> [v \in Versions |-> Within(Older(used[t][v]), Window)]]
        /\ mixed' = mixed /\ reloads' = reloads
    BY <1>7 DEF Pass, Tick, vars
  <2>2. ASSUME NEW t \in Tenants, NEW e \in Versions, Bounded(t, e, used[t][e])
        PROVE  Bounded(t, e, used'[t][e])
    <3>1. used'[t][e] = Within(Older(used[t][e]), Window)
      BY <2>1
    <3>2. used[t][e] \in Seq(Int) /\ Last(used[t][e], used[t][e])
      BY DEF Future, Last
    <3>3. Older(used[t][e]) \in Seq(Int) /\ Len(Older(used[t][e])) = Len(used[t][e])
      BY <3>2, OlderKeepsLast
    <3>4. Len(Within(Older(used[t][e]), Window)) \in 0 .. Len(Older(used[t][e]))
      BY <3>3, WithinLast
    <3>5. Len(used'[t][e]) \in Nat /\ Len(used'[t][e]) <= Len(used[t][e]) /\ Len(used[t][e]) \in Nat
      BY <3>1, <3>2, <3>3, <3>4
    <3>6. PICK v \in Judging(t, e) : Len(used[t][e]) <= Limit[v]
      BY <2>2 DEF Bounded
    <3>7. Limit[v] \in Nat
      <4>1. e \in 0 .. MaxReloads /\ v \in Judging(t, e)
        BY <3>6 DEF Versions
      <4>2. v \in 0 .. MaxReloads
        BY <4>1, ReloadsAssumption DEF Judging
      <4> QED
        BY <4>2, PolicyAssumption DEF Versions
    <3>8. Len(used'[t][e]) <= Limit[v]
      BY <3>5, <3>6, <3>7
    <3> QED
      BY <3>6, <3>8 DEF Bounded
  <2> QED
    BY <1>1, <1>2, <2>1, <2>2
<1> QED
  BY <1>3, <1>4, <1>5, <1>6, <1>7, Moves

LEMMA WindowsHold == ToolSpec => [](Windows /\ Requests /\ JudgedLimits /\ Past /\ Future)
  BY WindowsInit, WindowsStep, RequestsStep, JudgedStep, PastStep, FutureStep,
     PTL DEF ToolSpec

\* Of the calls a tenant gets through in a window, those made under one policy
\* are within a limit, for every limit, window, reload and request that straddles
\* them - those whose limiter was replaced under them excepted.
THEOREM WindowsBound == ToolSpec => []WindowBound
<1>1. ASSUME Windows, Requests, JudgedLimits, Past PROVE WindowBound
  <2> SUFFICES ASSUME NEW t \in Tenants, NEW e \in 0 .. reloads, <<t, e>> \notin mixed
               PROVE  \E v \in Judging(t, e) : Len(used[t][e]) <= Limit[v]
    BY DEF WindowBound
  <2>1. CASE e = reloads
    BY <1>1, <2>1, NowBounded
  <2>2. CASE e < reloads
    BY <1>1, <2>2, ReloadsAssumption DEF Past, Requests, Versions
  <2> QED
    BY <1>1, <2>1, <2>2 DEF Requests, Versions
<1> QED
  BY <1>1, WindowsHold, PTL

\* A call is limited only where a limit of the tenant's own admissions stands in
\* the window, replaced limiters included.
THEOREM LimitedByOwn == ToolSpec => LimitedByOwnUse
<1>1. ASSUME Windows, Requests, [ToolNext]_toolVars
      PROVE  [\A t \in Tenants : reply' = <<t>> => Len(used[t][reloads]) >= limit'[t]]_toolVars
  <2> SUFFICES ASSUME ToolNext, NEW t \in Tenants, reply' = <<t>>
               PROVE  Len(Recent[t]) >= limit'[t]
    BY <1>1 DEF Recent
  <2>1. PICK c \in Calls, tool \in Tools : Limited(c, tool)
    BY DEF ToolNext, Arrive, Execute, Refused, Builtin, Draining, Blocked, Sent, BadBody,
           Told, Thrown, PolicyReload, Listed, Drain, Read, Pass
  <2>2. Leaves(c) /\ t = Tenant(c) /\ Limits(c) /\ Len(HitsOf(c)) >= Limit[Version(c)]
    BY <2>1 DEF Limited
  <2>3. Limit[Version(c)] \in Nat /\ limit'[t] = Limit[Version(c)]
    BY <1>1, <2>2, JudgedBy DEF Limits, Windows
  <2>4. HitsOf(c) \in Seq(Int) /\ Recent[t] \in Seq(Int) /\ Len(HitsOf(c)) <= Len(Recent[t])
    BY <1>1, <2>2, AskedLimiter DEF Last, Windows
  <2> QED
    BY <2>2, <2>3, <2>4
<1> QED
  BY <1>1, WindowsHold, PTL DEF ToolSpec, LimitedByOwnUse

(***************************************************************************)
(* The ages.  RateLimiter.check filters what it holds; Kept takes the end  *)
(* of it.  That is the same because ages stand oldest first, which is an   *)
(* invariant of the admissions, and so of the hits, which are the last of  *)
(* them.                                                                   *)
(***************************************************************************)
OldestFirst(s) == \A i \in 1 .. Len(s) : \A j \in 1 .. Len(s) : i <= j => s[i] >= s[j]

InWindow(s) == \A i \in 1 .. Len(s) : s[i] \in 0 .. Window

Ages ==
  \A t \in Tenants, v \in Versions : OldestFirst(used[t][v]) /\ InWindow(used[t][v])

\* An end of the positions of a sequence, and how many it has.
LEMMA EndCount ==
  ASSUME NEW n \in Nat, NEW k \in 1 .. n + 1
  PROVE  IsFiniteSet(k .. n) /\ Cardinality(k .. n) = n - k + 1
<1>1. k \in Int /\ n \in Int
  OBVIOUS
<1>2. IsFiniteSet(k .. n) /\ Cardinality(k .. n) = IF k > n THEN 0 ELSE n - k + 1
  BY <1>1, FS_Interval
<1> QED
  BY <1>1, <1>2

\* Of a sequence that stands oldest first, Within keeps those that are at most
\* w old and drops all others: it is the filter of the code.
LEMMA WithinIsTheFilter ==
  ASSUME NEW s \in Seq(Int), NEW w \in Int, OldestFirst(s)
  PROVE  \A i \in 1 .. Len(s) : s[i] <= w <=> i > Len(s) - Len(Within(s, w))
<1> DEFINE n == Cardinality(Young(s, w))
           m == Len(s)
<1>1. /\ n = Len(Within(s, w)) /\ n \in 0 .. m /\ m \in Nat /\ IsFiniteSet(Young(s, w))
      /\ DOMAIN s = 1 .. m
  BY WithinLast, YoungCount
<1>2. Young(s, w) \subseteq 1 .. m /\ \A i \in Young(s, w) : s[i] <= w
  BY <1>1 DEF Young
<1>3. \A i \in 1 .. m : s[i] <= w => i \in Young(s, w)
  BY <1>1 DEF Young
<1>4. \A i \in 1 .. m : s[i] \in Int
  OBVIOUS
<1>5. \A i, j \in 1 .. m : i <= j => s[i] >= s[j]
  BY DEF OldestFirst
<1>6. ASSUME NEW S, NEW T, IsFiniteSet(T), S \subseteq T
      PROVE  Cardinality(S) <= Cardinality(T)
  BY <1>6, FS_Subset
<1> HIDE DEF n, m
<1>7. ASSUME NEW i \in 1 .. m, s[i] <= w PROVE i > m - n
  <2>1. i .. m \subseteq Young(s, w)
    <3> SUFFICES ASSUME NEW j \in i .. m PROVE j \in Young(s, w)
      OBVIOUS
    <3>1. j \in 1 .. m /\ i <= j
      BY <1>1
    <3>2. s[i] >= s[j] /\ s[j] \in Int /\ s[i] \in Int
      BY <1>4, <1>5, <3>1
    <3> QED
      BY <1>3, <1>7, <3>1, <3>2
  <2>2. i \in 1 .. m + 1
    BY <1>1
  <2>3. Cardinality(i .. m) = m - i + 1
    BY <1>1, <2>2, EndCount
  <2>4. Cardinality(i .. m) <= n
    BY <1>1, <1>6, <2>1 DEF n
  <2> QED
    BY <1>1, <2>3, <2>4
<1>8. ASSUME NEW i \in 1 .. m, i > m - n PROVE s[i] <= w
  <2> SUFFICES ASSUME ~(s[i] <= w) PROVE FALSE
    OBVIOUS
  <2>1. Young(s, w) \subseteq i + 1 .. m
    <3> SUFFICES ASSUME NEW j \in Young(s, w) PROVE j \in i + 1 .. m
      OBVIOUS
    <3>1. j \in 1 .. m /\ s[j] <= w
      BY <1>2
    <3>2. ~(j <= i)
      BY <1>4, <1>5, <3>1
    <3> QED
      BY <1>1, <3>1, <3>2
  <2>2. i + 1 \in 1 .. m + 1
    BY <1>1
  <2>3. IsFiniteSet(i + 1 .. m) /\ Cardinality(i + 1 .. m) = m - (i + 1) + 1
    BY <1>1, <2>2, EndCount
  <2>4. n <= Cardinality(i + 1 .. m)
    BY <1>6, <2>1, <2>3 DEF n
  <2> QED
    BY <1>1, <1>8, <2>3, <2>4
<1> QED
  BY <1>1, <1>7, <1>8 DEF m

\* A tick later, what is left of a window stands oldest first and is within it.
LEMMA OlderKeepsAges ==
  ASSUME NEW s \in Seq(Int), OldestFirst(s), InWindow(s)
  PROVE  OldestFirst(Within(Older(s), Window)) /\ InWindow(Within(Older(s), Window))
<1> DEFINE o == Older(s)
           k == Within(o, Window)
<1>1. Last(s, s)
  BY DEF Last
<1>2. o \in Seq(Int) /\ Len(o) = Len(s)
  BY <1>1, OlderKeepsLast
<1>3. /\ DOMAIN s = 1 .. Len(s) /\ Len(s) \in Nat
      /\ \A i \in 1 .. Len(s) : o[i] = s[i] + 1 /\ s[i] \in 0 .. Window
  BY DEF Older, InWindow
<1> HIDE DEF o
<1>4. OldestFirst(o)
  BY <1>2, <1>3 DEF OldestFirst
<1>5. /\ Len(k) \in 0 .. Len(o)
      /\ \A i \in 1 .. Len(k) : k[i] = o[i + Len(o) - Len(k)]
  BY <1>2, WithinLast
<1>6. \A i \in 1 .. Len(o) : o[i] <= Window <=> i > Len(o) - Len(k)
  <2>1. Window \in Int /\ o \in Seq(Int)
    BY <1>2, WindowAssumption
  <2> QED
    BY <1>4, <2>1, WithinIsTheFilter
<1> HIDE DEF k
<1>7. ASSUME NEW i \in 1 .. Len(k)
      PROVE  i + Len(o) - Len(k) \in 1 .. Len(o) /\ i + Len(o) - Len(k) > Len(o) - Len(k)
  BY <1>2, <1>3, <1>5
<1>8. InWindow(k)
  <2> SUFFICES ASSUME NEW i \in 1 .. Len(k) PROVE k[i] \in 0 .. Window
    BY DEF InWindow
  <2> DEFINE h == i + Len(o) - Len(k)
  <2>1. h \in 1 .. Len(o) /\ h > Len(o) - Len(k) /\ k[i] = o[h]
    BY <1>5, <1>7
  <2> HIDE DEF h
  <2>2. o[h] <= Window /\ o[h] = s[h] + 1 /\ s[h] \in 0 .. Window
    BY <1>2, <1>3, <1>6, <2>1
  <2> QED
    BY <2>1, <2>2, WindowAssumption
<1>9. OldestFirst(k)
  <2> SUFFICES ASSUME NEW i \in 1 .. Len(k), NEW j \in 1 .. Len(k), i <= j
               PROVE  k[i] >= k[j]
    BY DEF OldestFirst
  <2> DEFINE g == i + Len(o) - Len(k)
             h == j + Len(o) - Len(k)
  <2>1. g \in 1 .. Len(o) /\ h \in 1 .. Len(o) /\ k[i] = o[g] /\ k[j] = o[h]
    BY <1>5, <1>7
  <2>2. g <= h
    BY <1>2, <1>3, <1>5
  <2> HIDE DEF g, h
  <2> QED
    BY <1>4, <2>1, <2>2 DEF OldestFirst
<1> QED
  BY <1>8, <1>9 DEF k, o

LEMMA AppendKeepsAges ==
  ASSUME NEW s \in Seq(Int), OldestFirst(s), InWindow(s)
  PROVE  OldestFirst(Append(s, 0)) /\ InWindow(Append(s, 0))
<1> DEFINE a == Append(s, 0)
<1>1. /\ Len(a) = Len(s) + 1 /\ Len(s) \in Nat /\ a[Len(s) + 1] = 0
      /\ \A i \in 1 .. Len(s) : a[i] = s[i]
  BY AppendProperties
<1> HIDE DEF a
<1>2. \A i \in 1 .. Len(a) : i \in 1 .. Len(s) \/ (i = Len(s) + 1 /\ a[i] = 0)
  BY <1>1
<1>3. \A i \in 1 .. Len(s) : s[i] \in 0 .. Window
  BY DEF InWindow
<1>4. InWindow(a)
  BY <1>1, <1>2, <1>3, WindowAssumption DEF InWindow
<1>5. OldestFirst(a)
  BY <1>1, <1>2, <1>3, WindowAssumption DEF OldestFirst
<1> QED
  BY <1>4, <1>5 DEF a

LEMMA AgesInit == ToolInit => Ages
<1> SUFFICES ASSUME ToolInit PROVE Ages
  OBVIOUS
<1>1. \A t \in Tenants, v \in Versions : used[t][v] = <<>>
  BY DEF ToolInit
<1> QED
  BY <1>1 DEF Ages, OldestFirst, InWindow

\* An admission is the youngest of its era.
LEMMA AdmittedAges ==
  ASSUME Future, Requests, Ages, NEW c \in Calls, NEW tool, Admitted(c, tool),
         reloads' = reloads
  PROVE  Ages'
<1> DEFINE t == Tenant(c)
           u == Append(Recent[t], 0)
<1>1. Leaves(c) /\ Recent' = [Recent EXCEPT ![t] = u]
  BY AdmittedNoted DEF Admitted
<1>2. t \in Tenants /\ reloads \in Versions /\ used[t][reloads] \in Seq(Int)
  BY <1>1, JudgedBy DEF Future, Requests
<1>3. Recent[t] = used[t][reloads]
  BY <1>2 DEF Recent
<1>4. OldestFirst(u) /\ InWindow(u)
  BY <1>2, <1>3, AppendKeepsAges DEF Ages
<1>5. \A s \in Tenants : Recent'[s] = used'[s][reloads] /\ Recent[s] = used[s][reloads]
  BY DEF Recent
<1>6. \A s \in Tenants, v \in Versions : v # reloads => used'[s][v] = used[s][v]
  BY AdmittedNoted
<1> HIDE DEF t, u
<1>7. Recent'[t] = u /\ \A s \in Tenants \ {t} : Recent'[s] = Recent[s]
  BY <1>1, <1>2 DEF Recent
<1>8. ASSUME NEW s \in Tenants, NEW v \in Versions
      PROVE  OldestFirst(used'[s][v]) /\ InWindow(used'[s][v])
  <2>1. CASE s = t /\ v = reloads
    BY <1>4, <1>5, <1>7, <2>1
  <2>2. CASE ~(s = t /\ v = reloads)
    <3>1. used'[s][v] = used[s][v] /\ OldestFirst(used[s][v]) /\ InWindow(used[s][v])
      BY <1>5, <1>6, <1>7, <2>2 DEF Ages
    <3> QED
      BY <3>1
  <2> QED
    BY <2>1, <2>2
<1> QED
  BY <1>8 DEF Ages, OldestFirst, InWindow

LEMMA AgesStep == Future /\ Requests /\ Ages /\ [ToolNext]_toolVars => Ages'
<1> SUFFICES ASSUME Future, Requests, Ages, [ToolNext]_toolVars PROVE Ages'
  OBVIOUS
<1>1. CASE UNCHANGED used
  BY <1>1 DEF Ages, OldestFirst, InWindow
<1>2. ASSUME NEW c \in Calls, NEW tool \in Tools, Admitted(c, tool), reloads' = reloads
      PROVE  Ages'
  BY <1>2, AdmittedAges
<1>3. CASE Pass
  <2>1. used' = [t \in Tenants |-> [v \in Versions |-> Within(Older(used[t][v]), Window)]]
    BY <1>3 DEF Pass
  <2>2. ASSUME NEW t \in Tenants, NEW v \in Versions
        PROVE  OldestFirst(used'[t][v]) /\ InWindow(used'[t][v])
    <3>1. used[t][v] \in Seq(Int) /\ OldestFirst(used[t][v]) /\ InWindow(used[t][v])
      BY DEF Future, Ages
    <3>2. used'[t][v] = Within(Older(used[t][v]), Window)
      BY <2>1
    <3> QED
      BY <3>1, <3>2, OlderKeepsAges
  <2> QED
    BY <2>2 DEF Ages, OldestFirst, InWindow
<1> QED
  BY <1>1, <1>2, <1>3, Moves DEF Limited, PolicyReload

\* The hits of a limiter are the last of its tenant's admissions, so their ages
\* are those of some of them.
LEMMA HitsAges ==
  ASSUME Windows, Requests, Ages, NEW t \in Tenants
  PROVE  OldestFirst(hits[t]) /\ InWindow(hits[t])
<1> DEFINE h == hits[t]
           u == Recent[t]
           d == Len(u) - Len(h)
<1>1. h \in Seq(Int) /\ u \in Seq(Int) /\ OldestFirst(u) /\ InWindow(u)
  BY DEF Windows, Ages, Recent, Requests
<1>2. Len(h) <= Len(u) /\ \A i \in 1 .. Len(h) : h[i] = u[i + Len(u) - Len(h)]
  BY DEF Windows, Last
<1> HIDE DEF h, u
<1>3. Len(h) \in Nat /\ Len(u) \in Nat /\ d \in Nat
  BY <1>1, <1>2
<1>4. \A i \in 1 .. Len(h) : i + d \in 1 .. Len(u) /\ h[i] = u[i + d]
  BY <1>2, <1>3
<1>5. \A i, j \in 1 .. Len(h) : i <= j => i + d <= j + d
  BY <1>3
<1> HIDE DEF d
<1>6. InWindow(h)
  BY <1>1, <1>4 DEF InWindow
<1>7. OldestFirst(h)
  BY <1>1, <1>4, <1>5 DEF OldestFirst
<1> QED
  BY <1>6, <1>7 DEF h

\* When a tick has passed, a limiter drops a hit exactly if it is older than
\* the window: the end that Kept takes is the filter of RateLimiter.check.
LimiterFilters ==
  \A t \in Tenants :
    LET o == Older(hits[t])
    IN \A i \in 1 .. Len(o) : o[i] <= Window <=> i > Len(o) - Len(Kept(o))

\* In every reachable state, for every window and any number of tenants: no hit
\* leaves a limiter while it is in the window, and none stays after it.
THEOREM LimitersFilter == ToolSpec => []LimiterFilters
<1>1. ASSUME Windows, Requests, Ages PROVE LimiterFilters
  <2> SUFFICES ASSUME NEW t \in Tenants
               PROVE  LET o == Older(hits[t])
                      IN \A i \in 1 .. Len(o) : o[i] <= Window <=> i > Len(o) - Len(Kept(o))
    BY DEF LimiterFilters
  <2> DEFINE s == hits[t]
             o == Older(hits[t])
  <2>1. s \in Seq(Int) /\ OldestFirst(s)
    BY <1>1, HitsAges DEF Windows
  <2>2. Last(s, s)
    BY <2>1 DEF Last
  <2>3. o \in Seq(Int) /\ Len(o) = Len(s)
    BY <2>1, <2>2, OlderKeepsLast
  <2>4. Len(s) \in Nat /\ \A i \in 1 .. Len(s) : o[i] = s[i] + 1 /\ s[i] \in Int
    BY <2>1 DEF Older
  <2> HIDE DEF o, s
  <2>5. OldestFirst(o)
    BY <2>1, <2>3, <2>4 DEF OldestFirst
  <2>6. Window \in Int
    BY WindowAssumption
  <2>7. \A i \in 1 .. Len(o) : o[i] <= Window <=> i > Len(o) - Len(Within(o, Window))
    BY <2>3, <2>5, <2>6, WithinIsTheFilter
  <2> QED
    BY <2>7 DEF Kept, o
<1> QED
  BY <1>1, AgesInit, WindowsHold, AgesStep, PTL DEF ToolSpec

(***************************************************************************)
(* The type invariant: the ages are in the window.                         *)
(***************************************************************************)
Marks ==
  /\ linked \in BOOLEAN /\ drains \in BOOLEAN
  /\ faults \in 0 .. MaxFaults /\ reply \in {<<>>} \cup {<<t>> : t \in Tenants}
  /\ arrived \in 0 .. MaxCalls

LEMMA MarksInit == ToolInit => Marks
<1>1. 0 \in 0 .. MaxFaults /\ 0 \in 0 .. MaxCalls
  BY WindowAssumption
<1>2. ASSUME ToolInit
      PROVE  /\ linked = TRUE /\ drains = FALSE /\ faults = 0 /\ arrived = 0
             /\ reply = <<>>
  BY <1>2 DEF ToolInit
<1>3. ToolInit => reply \in {<<>>} \cup {<<t>> : t \in Tenants}
  BY <1>2, Zenon
<1> QED
  BY <1>1, <1>2, <1>3 DEF Marks

LEMMA ExecuteMarks ==
  ASSUME Marks, Requests, NEW c \in Calls, NEW tool, Execute(c, tool)
  PROVE  Marks'
<1>1. Leaves(c) /\ UNCHANGED <<linked, drains, arrived>>
  BY DEF Execute, Refused, Limited, Builtin, Draining, Blocked, Sent, Admitted
<1>2. Tenant(c) \in Tenants
  BY <1>1, JudgedBy
<1>3. reply' \in {<<>>} \cup {<<t>> : t \in Tenants}
  BY <1>2 DEF Execute, Refused, Limited, Builtin, Draining, Blocked, Sent
<1>4. Recorded \/ Unrecorded
  BY DEF Execute, Refused, Limited, Builtin, Draining, Blocked, Sent, Recorded
<1>5. faults' \in 0 .. MaxFaults
  BY <1>4, WindowAssumption DEF Recorded, Unrecorded, Marks
<1> QED
  BY <1>1, <1>3, <1>5 DEF Marks

LEMMA MarksStep == Marks /\ Requests /\ [ToolNext]_toolVars => Marks'
<1> SUFFICES ASSUME Marks, Requests, [ToolNext]_toolVars PROVE Marks'
  OBVIOUS
<1> USE DEF gate
<1>1. CASE UNCHANGED toolVars
  BY <1>1 DEF toolVars, Marks
<1>2. ASSUME NEW c \in Calls, NEW t \in Tenants, Arrive(c, t) PROVE Marks'
  <2>1. arrived' \in 0 .. MaxCalls
    BY <1>2, WindowAssumption DEF Arrive, Marks
  <2> QED
    BY <1>2, <2>1 DEF Arrive, Marks
<1>3. ASSUME NEW c \in Calls, NEW tool \in Tools, Execute(c, tool) PROVE Marks'
  BY <1>3, ExecuteMarks
<1>4. ASSUME NEW c \in Calls, BadBody(c) PROVE Marks'
  BY <1>4 DEF BadBody, Marks
<1>5. ASSUME NEW c \in Calls, Told(c) \/ Thrown(c) PROVE Marks'
  <2>1. faults' \in 0 .. MaxFaults
    BY <1>5, WindowAssumption DEF Told, Thrown, Recorded, Unrecorded, Marks
  <2> QED
    BY <1>5, <2>1 DEF Told, Thrown, Marks
<1>6. CASE PolicyReload
  BY <1>6 DEF PolicyReload, Marks
<1>7. CASE Listed \/ Drain
  BY <1>7 DEF Listed, Drain, Marks
<1>8. CASE Read \/ Pass
  BY <1>8 DEF Read, Pass, Marks
<1> QED
  BY <1>1, <1>2, <1>3, <1>4, <1>5, <1>6, <1>7, <1>8 DEF ToolNext

\* For every number of tenants and calls, every policy and window: the state
\* has its type; no age passes the window, and no book is ever below zero.
THEOREM ToolTypes == ToolSpec => []ToolTypeOK
<1>1. ASSUME TypeOK, Windows, Requests, Future, Ages, Marks PROVE ToolTypeOK
  <2>1. ASSUME NEW s \in Seq(Int), InWindow(s) PROVE s \in Seq(0 .. Window)
    <3>1. Len(s) \in Nat /\ s \in [1 .. Len(s) -> Int]
      OBVIOUS
    <3>2. s \in [1 .. Len(s) -> 0 .. Window]
      BY <2>1, <3>1 DEF InWindow
    <3>3. \A S : Seq(S) = UNION {[1 .. n -> S] : n \in Nat}
      BY SeqDef
    <3>4. Seq(0 .. Window) = UNION {[1 .. n -> 0 .. Window] : n \in Nat}
      BY <3>3
    <3> QED
      BY <3>1, <3>2, <3>4, Zenon
  <2>2. hits \in [Tenants -> Seq(0 .. Window)]
    BY <1>1, <2>1, HitsAges DEF Windows
  <2>3. used \in [Tenants -> [Versions -> Seq(0 .. Window)]]
    <3>1. ASSUME NEW t \in Tenants, NEW v \in Versions PROVE used[t][v] \in Seq(0 .. Window)
      <4>1. used[t][v] \in Seq(Int) /\ InWindow(used[t][v])
        BY <1>1 DEF Future, Ages
      <4> QED
        BY <2>1, <4>1
    <3> QED
      BY <1>1, <3>1 DEF Future
  <2>4. limit \in [Tenants -> Int] /\ mixed \subseteq Tenants \X Versions
    BY <1>1 DEF Windows, Future
  <2> QED
    BY <1>1, <2>2, <2>3, <2>4 DEF ToolTypeOK, Requests, Marks
<1>2. ToolSpec => []TypeOK
  BY CallsKeepBreaker, TypeCorrect, PTL
<1>3. ToolSpec => []Ages
  BY AgesInit, WindowsHold, AgesStep, PTL DEF ToolSpec
<1>4. ToolSpec => []Marks
  BY MarksInit, WindowsHold, MarksStep, PTL DEF ToolSpec
<1> QED
  BY <1>1, <1>2, <1>3, <1>4, WindowsHold, PTL

=============================================================================
