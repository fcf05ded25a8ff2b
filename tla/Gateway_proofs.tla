---------------------------- MODULE Gateway_proofs ----------------------------
(***************************************************************************)
(* Theorems about Gateway, for every number of reloads and list requests   *)
(* that overlap and every bound on writes, rotations and reloads.          *)
(***************************************************************************)
EXTENDS Gateway, FiniteSetTheorems, TLAPS

\* A poll creates a client only for a write that no poll has seen, so there is
\* a number for every client.
ClientsCounted ==
  /\ made <= 1 + forced + seen
  /\ connecting[Watch] = 0 => seen <= last

\* The keys in the file and in memory are not older than the last one saved.
KeysOrdered ==
  /\ saved <= policy.key /\ saved <= file.key /\ saved <= keys
  /\ policy.key <= keys /\ file.key <= keys

\* The clients that were created; the one in use is the newest of them, is open
\* and belongs to the policy in memory.
LinkAgrees ==
  /\ open \subseteq 1 .. made
  /\ UpstreamOfPolicy

Inv == PolicyTypeOK /\ ClientsCounted /\ KeysOrdered /\ LinkAgrees /\ DisconnectedByFailure

\* The arithmetic of numbering clients, on integers of their own.
LEMMA NumberFits ==
  ASSUME NEW m \in Nat, NEW r \in Nat, NEW s \in Nat, NEW w \in Nat, NEW R \in Nat, NEW W \in Nat,
         m + 1 <= 1 + r + s, r <= R, s <= w, w <= W
  PROVE  m + 1 \in 1 .. 1 + R + W /\ m <= 1 + r + s
<1> QED
  OBVIOUS

LEMMA InitInv == PolicyInit => Inv
<1> SUFFICES ASSUME PolicyInit PROVE Inv
  OBVIOUS
<1>1. 1 \in Clients /\ Boot \in Tasks /\ Watch \in Tasks /\ Watch # Boot
  BY BoundsAssumption, TasksAssumption DEF Clients, Tasks
<1>2. file \in Policies /\ policy \in Policies
  BY DEF PolicyInit, Policies, Kinds
<1>3. connecting \in [Tasks -> {0} \cup Clients] /\ open \subseteq Clients
  BY <1>1 DEF PolicyInit
<1>4. upstream \in {0} \cup Clients /\ listed \in {0} \cup Clients /\ made \in Clients
  BY <1>1 DEF PolicyInit
<1>5. of \in [Clients -> Nat] /\ listing \in [Lists -> {0} \cup Clients]
  BY DEF PolicyInit
<1>6. /\ mtime \in 0 .. MaxWrites /\ edits \in Nat /\ keys \in 0 .. MaxKeys
      /\ last \in 0 .. mtime /\ seen \in 0 .. mtime /\ forced \in 0 .. MaxForced
      /\ saved \in Nat /\ fails \in Nat /\ failedAt \in Nat
  BY BoundsAssumption DEF PolicyInit
<1>7. PolicyTypeOK
  BY <1>2, <1>3, <1>4, <1>5, <1>6 DEF PolicyInit, PolicyTypeOK
<1> QED
  BY <1>1, <1>7 DEF PolicyInit, Inv, ClientsCounted, KeysOrdered, LinkAgrees, UpstreamOfPolicy,
                    DisconnectedByFailure

\* A reload that read the file: the poll's, or a forced one.
LEMMA ReadInv ==
  ASSUME Inv, NEW t \in Tasks, ReadPolicy(t),
         \/ forced < MaxForced /\ forced' = forced + 1 /\ t # Watch /\ UNCHANGED <<last, seen>>
         \/ /\ t = Watch /\ mtime > last /\ seen' = mtime /\ UNCHANGED forced
            /\ last' = IF file.kind = "upstream" THEN last ELSE mtime
  PROVE  Inv'
<1>1. /\ made \in Nat /\ made >= 1 /\ forced \in Nat /\ seen \in Nat /\ mtime \in Nat /\ last \in Nat
      /\ seen <= mtime /\ last <= mtime /\ mtime <= MaxWrites /\ forced <= MaxForced
  BY BoundsAssumption DEF Inv, PolicyTypeOK, Clients
<1>2. /\ forced' \in Nat /\ forced' <= MaxForced
      /\ seen' \in Nat /\ seen' <= mtime /\ last' \in Nat /\ last' <= mtime
  BY <1>1, BoundsAssumption
<1>3. /\ mtime' = mtime /\ policy' = file /\ t \in Tasks /\ connecting[t] = 0 /\ Watch \in Tasks
      /\ UNCHANGED <<disk, keys, listing, process, saved, fails, failedAt>>
  BY DEF ReadPolicy, disk, Tasks
\* The number of the client a reload would create.
<1>4. made + 1 <= 1 + forced' + seen'
  BY <1>1, <1>3 DEF Inv, ClientsCounted
<1>5. made + 1 \in Clients
  BY <1>1, <1>2, <1>4, NumberFits, BoundsAssumption DEF Clients
<1>6. CASE file.kind = "upstream"
  <2>1. /\ made' = made + 1 /\ upstream' = made + 1 /\ listed' = 0
        /\ open' = (open \ {upstream}) \cup {made + 1}
        /\ of' = [of EXCEPT ![made + 1] = file.ver]
        /\ connecting' = [connecting EXCEPT ![t] = made + 1]
    BY <1>6 DEF ReadPolicy, Connect
  <2>2. PolicyTypeOK'
    BY <1>1, <1>2, <1>5, <2>1 DEF Inv, PolicyTypeOK, ReadPolicy, disk, process, Policies
  <2>3. ClientsCounted'
    <3>1. t = Watch => connecting'[Watch] # 0
      BY <1>1, <1>3, <2>1 DEF Inv, PolicyTypeOK
    <3>2. t # Watch => connecting'[Watch] = connecting[Watch] /\ seen' = seen /\ last' = last
      BY <1>3, <2>1 DEF Inv, PolicyTypeOK
    <3>3. connecting'[Watch] = 0 => seen' <= last'
      BY <3>1, <3>2 DEF Inv, ClientsCounted
    <3> QED
      BY <1>4, <2>1, <3>3 DEF ClientsCounted
  <2>4. LinkAgrees'
    <3>1. of'[made + 1] = file.ver
      BY <1>5, <2>1 DEF Inv, PolicyTypeOK
    <3>2. open' \subseteq 1 .. made'
      <4>1. open \subseteq 1 .. made
        BY DEF Inv, LinkAgrees
      <4>2. \A c : c \in open' => c \in 1 .. made \/ c = made + 1
        BY <2>1, <4>1
      <4>3. 1 .. made \subseteq 1 .. made + 1 /\ made + 1 \in 1 .. made + 1
        BY <1>1
      <4> QED
        BY <2>1, <4>2, <4>3
    <3> QED
      BY <1>3, <2>1, <3>1, <3>2 DEF LinkAgrees, UpstreamOfPolicy
  <2>5. KeysOrdered' /\ DisconnectedByFailure'
    BY <1>1, <1>3, <2>1 DEF Inv, PolicyTypeOK, Policies, KeysOrdered, DisconnectedByFailure, disk
  <2> QED
    BY <2>2, <2>3, <2>4, <2>5 DEF Inv
<1>7. CASE file.kind # "upstream"
  <2>1. /\ upstream' = 0 /\ listed' = 0 /\ open' = open \ {upstream}
        /\ UNCHANGED <<made, of, connecting>>
    BY <1>7 DEF ReadPolicy, Connect
  <2>2. PolicyTypeOK'
    BY <1>1, <1>2, <2>1 DEF Inv, PolicyTypeOK, ReadPolicy, disk, process
  <2>3. ClientsCounted'
    <3>1. connecting'[Watch] = 0 => seen' <= last'
      BY <1>1, <1>3, <1>7, <2>1 DEF Inv, ClientsCounted
    <3>2. made' <= 1 + forced' + seen'
      BY <1>1, <1>2, <1>4, <2>1, NumberFits, BoundsAssumption
    <3> QED
      BY <3>1, <3>2 DEF ClientsCounted
  <2>4. KeysOrdered' /\ LinkAgrees' /\ DisconnectedByFailure'
    BY <1>3, <1>7, <2>1 DEF Inv, KeysOrdered, LinkAgrees, UpstreamOfPolicy, DisconnectedByFailure, disk
  <2> QED
    BY <2>2, <2>3, <2>4 DEF Inv
<1> QED
  BY <1>6, <1>7

\* The end of a reload, whether its listTools answered or failed.
LEMMA EndInv ==
  ASSUME Inv, NEW t \in Tasks, ConnectEnd(t)
  PROVE  Inv'
<1>1. Watch \in Tasks /\ connecting[t] \in Clients /\ connecting[t] # 0
  BY DEF Inv, PolicyTypeOK, ConnectEnd, Connected, ConnectFailed, Tasks
<1>2. /\ connecting' = [connecting EXCEPT ![t] = 0]
      /\ last' = IF t = Watch THEN seen ELSE last
      /\ UNCHANGED <<disk, policy, keys, made, open, of, listing, process, seen, forced, saved>>
  BY DEF ConnectEnd, Connected, ConnectFailed, Done
<1>3. PolicyTypeOK'
  <2>1. connecting' \in [Tasks -> {0} \cup Clients] /\ last' \in 0 .. mtime
    <3>1. /\ connecting \in [Tasks -> {0} \cup Clients]
          /\ last \in 0 .. mtime /\ seen \in 0 .. mtime
      BY DEF Inv, PolicyTypeOK
    <3> QED
      BY <1>2, <3>1
  <2>2. upstream' \in {0} \cup Clients /\ listed' \in {0} \cup Clients
    <3>1. CASE Connected(t)
      BY <1>1, <3>1 DEF Inv, PolicyTypeOK, Connected
    <3>2. CASE ConnectFailed(t)
      BY <3>2 DEF ConnectFailed
    <3> QED
      BY <3>1, <3>2 DEF ConnectEnd
  <2>3. fails' \in Nat /\ failedAt' \in Nat
    <3>1. made \in Nat /\ fails \in Nat /\ failedAt \in Nat
      BY DEF Inv, PolicyTypeOK, Clients
    <3> QED
      BY <3>1 DEF ConnectEnd, Connected, ConnectFailed
  <2>4. /\ UNCHANGED <<file, mtime, edits, policy, keys, made, open, of, listing>>
        /\ UNCHANGED <<listens, draining, polls, seen, forced, saved>>
    BY <1>2 DEF disk, process
  <2> QED
    BY <2>1, <2>2, <2>3, <2>4 DEF Inv, PolicyTypeOK
<1>4. ClientsCounted'
  BY <1>1, <1>2 DEF Inv, PolicyTypeOK, ClientsCounted
<1>5. KeysOrdered' /\ LinkAgrees' /\ DisconnectedByFailure'
  BY <1>2 DEF Inv, KeysOrdered, LinkAgrees, UpstreamOfPolicy, DisconnectedByFailure, ConnectEnd,
              Connected, ConnectFailed, disk
<1> QED
  BY <1>3, <1>4, <1>5 DEF Inv

LEMMA StepInv == Inv /\ [PolicyNext]_policyVars => Inv'
<1> SUFFICES ASSUME Inv, [PolicyNext]_policyVars PROVE Inv'
  OBVIOUS
<1> USE DEF Inv
<1>1. ASSUME NEW kind \in Kinds, Edit(kind) PROVE Inv'
  <2>0. file' = [ver |-> edits + 1, kind |-> kind, key |-> file.key] /\ file.key \in Nat /\ edits \in Nat
    BY <1>1 DEF Edit, PolicyTypeOK, Policies
  <2>1. /\ file' \in Policies /\ file'.key = file.key
        /\ mtime' \in 0 .. MaxWrites /\ edits' \in Nat
    <3>1. file' \in Policies /\ file'.key = file.key
      BY <2>0 DEF Policies
    <3> QED
      BY <1>1, <2>0, <3>1, BoundsAssumption DEF Edit, PolicyTypeOK
  <2>2. last \in 0 .. mtime' /\ seen \in 0 .. mtime'
    BY <1>1, BoundsAssumption DEF Edit, PolicyTypeOK
  <2>3. PolicyTypeOK'
    BY <1>1, <2>1, <2>2 DEF Edit, PolicyTypeOK, link, process, history
  <2> QED
    BY <1>1, <2>1, <2>3 DEF Edit, ClientsCounted, KeysOrdered, LinkAgrees, UpstreamOfPolicy,
                            DisconnectedByFailure, link, process, history
<1>2. CASE Rotate
  <2>1. /\ Rotated \in Policies /\ Rotated.key = keys + 1
        /\ Rotated.ver = policy.ver /\ Rotated.kind = policy.kind
    BY DEF Rotated, PolicyTypeOK, Policies
  <2>2. file' \in {file, Rotated, [file EXCEPT !.kind = "broken"]} /\ saved' \in {saved, keys + 1}
    BY <1>2 DEF Rotate
  <2>3. /\ [file EXCEPT !.kind = "broken"] \in Policies
        /\ [file EXCEPT !.kind = "broken"].key = file.key
    BY DEF PolicyTypeOK, Policies, Kinds
  <2>4. file' \in Policies /\ file'.key \in {file.key, keys + 1} /\ saved' \in Nat
        /\ (saved' = keys + 1 => file'.key = keys + 1)
    <3>1. \/ saved' = saved /\ file' \in {file, [file EXCEPT !.kind = "broken"]}
          \/ saved' = keys + 1 /\ file' = Rotated
      BY <1>2 DEF Rotate
    <3>2. saved \in Nat /\ keys \in Nat /\ saved <= keys /\ file \in Policies
      BY DEF PolicyTypeOK, KeysOrdered
    <3>3. CASE saved' = saved /\ file' = file
      BY <3>2, <3>3
    <3>4. CASE saved' = saved /\ file' = [file EXCEPT !.kind = "broken"]
      BY <2>3, <3>2, <3>4
    <3>5. CASE saved' = keys + 1 /\ file' = Rotated
      BY <2>1, <3>2, <3>5
    <3> QED
      BY <3>1, <3>3, <3>4, <3>5
  <2>5. /\ mtime' \in 0 .. MaxWrites /\ last \in 0 .. mtime' /\ seen \in 0 .. mtime'
        /\ keys' \in 0 .. MaxKeys
    BY <1>2, BoundsAssumption DEF Rotate, PolicyTypeOK
  <2>6. PolicyTypeOK'
    BY <1>2, <2>1, <2>4, <2>5 DEF Rotate, PolicyTypeOK, link, process
  <2>7. KeysOrdered'
    BY <1>2, <2>1, <2>2, <2>3, <2>4 DEF Rotate, PolicyTypeOK, Policies, KeysOrdered
  <2> QED
    BY <1>2, <2>1, <2>6, <2>7 DEF Rotate, PolicyTypeOK, Policies, ClientsCounted, LinkAgrees,
                            UpstreamOfPolicy, DisconnectedByFailure, link, process
<1>3. ASSUME NEW t \in Tasks, ForcedReload(t) PROVE Inv'
  <2>1. t # Watch
    BY <1>3, TasksAssumption DEF ForcedReload
  <2> QED
    BY <1>3, <2>1, ReadInv DEF ForcedReload
<1>4. CASE Poll
  BY <1>4, ReadInv DEF Poll, Tasks
<1>5. ASSUME NEW t \in Tasks, ConnectEnd(t) PROVE Inv'
  BY <1>5, EndInv
<1>6. CASE Listen
  BY <1>6 DEF Listen, PolicyTypeOK, ClientsCounted, KeysOrdered, LinkAgrees, UpstreamOfPolicy,
              DisconnectedByFailure, disk, link, history
<1>7. CASE BeginDrain
  BY <1>7 DEF BeginDrain, PolicyTypeOK, ClientsCounted, KeysOrdered, LinkAgrees, UpstreamOfPolicy,
              DisconnectedByFailure, disk, link, history
<1>8. ASSUME NEW l \in Lists, ListStart(l) PROVE Inv'
  BY <1>8 DEF ListStart, PolicyTypeOK, ClientsCounted, KeysOrdered, LinkAgrees, UpstreamOfPolicy,
              DisconnectedByFailure, disk, link, process, history
<1>9. ASSUME NEW l \in Lists, ListAnswered(l) \/ ListFailed(l) PROVE Inv'
  BY <1>9 DEF ListAnswered, ListFailed, PolicyTypeOK, ClientsCounted, KeysOrdered, LinkAgrees,
              UpstreamOfPolicy, DisconnectedByFailure, disk, link, process, history
<1>10. CASE UNCHANGED policyVars
  BY <1>10 DEF policyVars, PolicyTypeOK, ClientsCounted, KeysOrdered, LinkAgrees, UpstreamOfPolicy,
               DisconnectedByFailure, disk, link, process, history
<1> QED
  BY <1>1, <1>2, <1>3, <1>4, <1>5, <1>6, <1>7, <1>8, <1>9, <1>10 DEF PolicyNext

LEMMA Invariance == PolicySpec => []Inv
<1> QED
  BY InitInv, StepInv, PTL DEF PolicySpec

\* Every reachable state is well typed; there is a number for every client that
\* reloads and polls create.
THEOREM TypeCorrect == PolicySpec => []PolicyTypeOK
<1>1. Inv => PolicyTypeOK
  BY DEF Inv
<1> QED
  BY <1>1, Invariance, PTL

\* connectUpstream: whatever reloads overlap, state.upstream is the newest
\* client, is not closed and belongs to the policy in memory.
THEOREM UpstreamMatchesPolicy == PolicySpec => []UpstreamOfPolicy
<1>1. Inv => UpstreamOfPolicy
  BY DEF Inv, LinkAgrees
<1> QED
  BY <1>1, Invariance, PTL

\* Only a failed connection leaves a policy that has an upstream without one.
THEOREM OnlyFailuresDisconnect == PolicySpec => []DisconnectedByFailure
<1>1. Inv => DisconnectedByFailure
  BY DEF Inv
<1> QED
  BY <1>1, Invariance, PTL

\* No reload takes back a key that rotation has written to the file.
THEOREM KeysAreKept == PolicySpec => []KeyKept
<1>1. Inv => KeyKept
  BY DEF Inv, KeysOrdered, KeyKept, PolicyTypeOK, Policies
<1> QED
  BY <1>1, Invariance, PTL

\* Every step leaves the clients that are open and unused as they are, but for
\* the failed connection, which adds the one that it gives up.
LEMMA UnusedOnlyByFailure ==
  ASSUME Inv, [PolicyNext]_policyVars
  PROVE  \/ open' \ {upstream'} = open \ {upstream} /\ fails' = fails
         \/ open' \ {upstream'} \subseteq (open \ {upstream}) \cup {upstream} /\ fails' = fails + 1
<1>0. 0 \notin open /\ made + 1 \notin open /\ made \in Nat
  BY DEF Inv, PolicyTypeOK, LinkAgrees, Clients
<1>1. ASSUME NEW t \in Tasks, ReadPolicy(t) PROVE open' \ {upstream'} = open \ {upstream} /\ fails' = fails
  BY <1>0, <1>1 DEF ReadPolicy, Connect
<1>2. ASSUME NEW t \in Tasks, ConnectEnd(t)
      PROVE  \/ open' \ {upstream'} = open \ {upstream} /\ fails' = fails
             \/ open' \ {upstream'} \subseteq (open \ {upstream}) \cup {upstream} /\ fails' = fails + 1
  <2>1. CASE Connected(t)
    BY <2>1 DEF Connected, Done
  <2>2. CASE ConnectFailed(t)
    BY <2>2 DEF ConnectFailed, Done
  <2> QED
    BY <1>2, <2>1, <2>2 DEF ConnectEnd
<1>3. ASSUME NEW l \in Lists, ListStart(l) \/ ListAnswered(l) \/ ListFailed(l)
      PROVE  open' = open /\ upstream' = upstream /\ fails' = fails
  BY <1>3 DEF ListStart, ListAnswered, ListFailed, link, history
<1>4. ASSUME (\E kind \in Kinds : Edit(kind)) \/ Rotate \/ Listen \/ BeginDrain \/ UNCHANGED policyVars
      PROVE  open' = open /\ upstream' = upstream /\ fails' = fails
  BY <1>4 DEF Edit, Rotate, Listen, BeginDrain, policyVars, link, history
<1> QED
  BY <1>1, <1>2, <1>3, <1>4 DEF PolicyNext, ForcedReload, Poll, Tasks

\* No more clients are open and unused than connections have failed: a reload
\* that succeeds closes the client before it.
THEOREM FailuresAccountForOpen == PolicySpec => []OpenAccounted
<1>1. PolicyInit => OpenAccounted
  <2> SUFFICES ASSUME PolicyInit PROVE OpenAccounted
    OBVIOUS
  <2>1. open \ {upstream} = {}
    BY DEF PolicyInit
  <2> QED
    BY <2>1, FS_EmptySet DEF PolicyInit, OpenAccounted
<1>2. Inv /\ OpenAccounted /\ [PolicyNext]_policyVars => OpenAccounted'
  <2> SUFFICES ASSUME Inv, OpenAccounted, [PolicyNext]_policyVars PROVE OpenAccounted'
    OBVIOUS
  <2> DEFINE unused == open \ {upstream}
  <2>1. IsFiniteSet(unused) /\ Cardinality(unused) \in Nat /\ fails \in Nat
    <3>1. made \in Int /\ open \subseteq 1 .. made
      BY DEF Inv, PolicyTypeOK, LinkAgrees, Clients
    <3>2. IsFiniteSet(1 .. made)
      BY <3>1, FS_Interval
    <3>3. unused \in SUBSET (1 .. made)
      BY <3>1
    <3> HIDE DEF unused
    <3>4. IsFiniteSet(unused)
      BY <3>2, <3>3, FS_Subset
    <3>5. Cardinality(unused) \in Nat
      BY <3>4, FS_CardinalityType
    <3> QED
      BY <3>4, <3>5 DEF Inv, PolicyTypeOK
  <2>2. CASE open' \ {upstream'} = unused /\ fails' = fails
    BY <2>2 DEF OpenAccounted
  <2>3. CASE open' \ {upstream'} \subseteq unused \cup {upstream} /\ fails' = fails + 1
    <3> DEFINE more == unused \cup {upstream}
    <3>1. IsFiniteSet(more) /\ Cardinality(more) = Cardinality(unused) + 1
      BY <2>1, FS_AddElement
    <3>2. open' \ {upstream'} \in SUBSET more
      BY <2>3
    <3>3. Cardinality(open' \ {upstream'}) <= Cardinality(more)
      BY <3>1, <3>2, FS_Subset
    <3>4. IsFiniteSet(open' \ {upstream'})
      BY <3>1, <3>2, FS_Subset
    <3>5. Cardinality(open' \ {upstream'}) \in Nat
      BY <3>4, FS_CardinalityType
    <3>6. Cardinality(unused) <= fails
      BY DEF OpenAccounted
    <3> HIDE DEF unused, more
    <3> QED
      BY <2>1, <2>3, <3>1, <3>3, <3>5, <3>6 DEF OpenAccounted
  <2> QED
    BY <2>2, <2>3, UnusedOnlyByFailure
<1> QED
  BY <1>1, <1>2, Invariance, PTL DEF PolicySpec

(***************************************************************************)
(* The mtime poll.  What it has to preserve while its reload is busy: the  *)
(* version that was read is in memory unless the file is newer than the    *)
(* time that was seen, so that last catches up only with what was read.    *)
(***************************************************************************)
Pending == polls /\ mtime > last
NoEditSlips == [][Pending => Pending' \/ ~polls' \/ policy'.ver = file'.ver]_policyVars

PollReads ==
  /\ polls \/ connecting[Watch] # 0 => listens
  /\ polls /\ connecting[Watch] # 0 /\ seen = mtime => policy.ver = file.ver

LEMMA PollReadsInit == PolicyInit => PollReads
  BY TasksAssumption DEF PolicyInit, PollReads, Tasks

LEMMA PollStep ==
  ASSUME Inv, PollReads, [PolicyNext]_policyVars
  PROVE  PollReads' /\ (Pending => Pending' \/ ~polls' \/ policy'.ver = file'.ver)
<1> DEFINE Goal == PollReads' /\ (Pending => Pending' \/ ~polls' \/ policy'.ver = file'.ver)
<1>1. /\ Watch \in Tasks /\ mtime \in Nat /\ seen \in 0 .. mtime /\ last \in 0 .. mtime
      /\ connecting \in [Tasks -> {0} \cup Clients]
  BY BoundsAssumption DEF Inv, PolicyTypeOK, Tasks
<1>2. ASSUME NEW kind \in Kinds, Edit(kind) PROVE Goal
  BY <1>1, <1>2 DEF Edit, process, PollReads, Pending
<1>3. CASE Rotate
  <2>1. Rotated.ver = policy.ver
    BY DEF Rotated, Inv, PolicyTypeOK, Policies
  <2> QED
    BY <1>1, <1>3, <2>1 DEF Rotate, process, PollReads, Pending
<1>4. ASSUME NEW t \in Tasks, ForcedReload(t) PROVE Goal
  <2>1. t # Watch /\ policy' = file' /\ UNCHANGED <<listens, polls, mtime, last>>
    BY <1>4, TasksAssumption DEF ForcedReload, ReadPolicy, disk, process
  <2>2. connecting'[Watch] = connecting[Watch]
    BY <1>1, <1>4, <2>1 DEF ForcedReload, ReadPolicy, Connect
  <2> QED
    BY <2>1, <2>2 DEF PollReads, Pending
<1>5. CASE Poll
  <2>1. policy' = file' /\ UNCHANGED <<listens, polls>> /\ polls
    BY <1>5 DEF Poll, ReadPolicy, disk, process
  <2> QED
    BY <2>1 DEF PollReads
<1>6. ASSUME NEW t \in Tasks, ConnectEnd(t) PROVE Goal
  <2>1. /\ Done(t) /\ connecting[t] # 0
        /\ UNCHANGED <<file, mtime, policy, listens, polls, seen>>
        /\ connecting' = [connecting EXCEPT ![t] = 0]
        /\ last' = IF t = Watch THEN seen ELSE last
    BY <1>6 DEF ConnectEnd, Connected, ConnectFailed, Done, disk, process
  <2>2. CASE t = Watch
    BY <1>1, <2>1, <2>2 DEF PollReads, Pending
  <2>3. CASE t # Watch
    BY <1>1, <2>1, <2>3 DEF PollReads, Pending
  <2> QED
    BY <2>2, <2>3
<1>7. CASE Listen
  BY <1>7 DEF Listen, disk, PollReads, Pending
<1>8. CASE BeginDrain
  BY <1>8 DEF BeginDrain, PollReads
<1>9. CASE UNCHANGED <<file, mtime, policy, connecting, listens, polls, last, seen>>
  BY <1>9 DEF PollReads, Pending
<1>10. ASSUME NEW l \in Lists, ListStart(l) \/ ListAnswered(l) \/ ListFailed(l) PROVE Goal
  BY <1>9, <1>10 DEF ListStart, ListAnswered, ListFailed, disk, process
<1>11. CASE UNCHANGED policyVars
  BY <1>9, <1>11 DEF policyVars, disk, process
<1> QED
  BY <1>2, <1>3, <1>4, <1>5, <1>6, <1>7, <1>8, <1>10, <1>11 DEF PolicyNext

\* A write the poll has not read stays to be read by it, however the reloads
\* overlap, until memory holds the version of the file or SIGTERM ends the poll:
\* no edit slips past a busy reload.
THEOREM EditsStayPending == PolicySpec => NoEditSlips
<1>1. Inv /\ PollReads /\ [PolicyNext]_policyVars => [Pending => Pending' \/ ~polls' \/ policy'.ver = file'.ver]_policyVars
  BY PollStep
<1>2. Inv /\ PollReads /\ [PolicyNext]_policyVars => PollReads'
  BY PollStep
<1> QED
  BY <1>1, <1>2, PollReadsInit, Invariance, PTL DEF PolicySpec, NoEditSlips
=============================================================================
