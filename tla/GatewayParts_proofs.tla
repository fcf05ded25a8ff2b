--------------------------- MODULE GatewayParts_proofs ---------------------------
(***************************************************************************)
(* Theorems about the parts of the gateway beside its tool calls: the keys *)
(* that a tenant is known by, the sessions, the stdio upstream, and the    *)
(* record of the calls.                                                    *)
(***************************************************************************)
EXTENDS TenantKeys, Sessions, StdioLink, AuditLog, FiniteSetTheorems, TLAPS

-----------------------------------------------------------------------------
(***************************************************************************)
(* The keys of the tenants, for every grace, number of keys and time.      *)
(***************************************************************************)
KeyRecords == [key : 1 .. generated, before : 0 .. generated, until : Nat]
FileRecords == KeyRecords \cup {Unreadable}

KeyTypes ==
  /\ grace \in Nat /\ clock \in Nat
  /\ generated \in Nat /\ 1 <= generated /\ generated <= MaxGen /\ clock <= LastTick
  /\ grace \in Graces
  /\ tenant \in KeyRecords /\ onDisk \in FileRecords
  /\ promise \in [old : 0 .. generated, new : 1 .. generated, until : Nat]
  /\ lost \in BOOLEAN

(***************************************************************************)
(* The inductive invariant.  GraceHonoured alone says nothing of the file, *)
(* which a reload puts in: unless the last rotation was lost, the file and *)
(* the memory are one, the current key is the promised one, and a key in   *)
(* its grace is the promised old one until the promised time; without one, *)
(* that time is over.  Of the rotations before it nothing is kept, so no   *)
(* more than the last promise can be invariant.                            *)
(***************************************************************************)
Promised ==
  ~lost => /\ onDisk = tenant
           /\ tenant.key = promise.new
           /\ promise.old # promise.new
           /\ \/ tenant.before = promise.old /\ tenant.until = promise.until /\ promise.old # 0
              \/ tenant.before = 0 /\ promise.until <= clock

KeysInv == KeyTypes /\ Promised

LEMMA KeysInvInit == KeysInit => KeysInv
<1> SUFFICES ASSUME KeysInit PROVE KeysInv
  OBVIOUS
<1>1. /\ tenant = [key |-> 1, before |-> 0, until |-> 0] /\ onDisk = tenant
      /\ generated = 1 /\ clock = 0 /\ grace \in Graces
      /\ promise = [old |-> 0, new |-> 1, until |-> 0] /\ lost = FALSE
  BY DEF KeysInit, Tenant
<1>2. tenant \in KeyRecords /\ onDisk \in FileRecords
  BY <1>1 DEF KeyRecords, FileRecords
<1>3. KeyTypes
  <2>1. promise \in [old : 0 .. generated, new : 1 .. generated, until : Nat]
    BY <1>1
  <2>2. grace \in Nat /\ 1 <= MaxGen /\ 0 <= LastTick
    BY <1>1, GraceAssumption
  <2>3. lost \in BOOLEAN
    BY <1>1
  <2> QED
    BY <1>1, <1>2, <2>1, <2>2, <2>3 DEF KeyTypes
<1>4. Promised
  BY <1>1 DEF Promised
<1> QED
  BY <1>3, <1>4 DEF KeysInv

\* A rotation: the new key is none of the old ones.
LEMMA RotateKeeps ==
  ASSUME KeysInv, NEW written \in BOOLEAN, RotateKey(written)
  PROVE  KeysInv'
<1>1. generated' = generated + 1 /\ generated' <= MaxGen
  BY GraceAssumption DEF RotateKey, KeysInv, KeyTypes
<1>2. Successor \in [key : 1 .. generated + 1, before : 0 .. generated + 1, until : Nat]
  BY DEF Successor, Tenant, KeysInv, KeyTypes, KeyRecords
<1>3. KeyTypes'
  <2>1. Successor \in KeyRecords' /\ tenant' = Successor
    BY <1>1, <1>2 DEF RotateKey, KeyRecords
  <2>2. onDisk \in FileRecords'
    BY <1>1 DEF KeysInv, KeyTypes, KeyRecords, FileRecords
  <2>3. onDisk' \in FileRecords'
    BY <2>1, <2>2 DEF RotateKey, FileRecords
  <2>4. promise' \in [old : 0 .. generated', new : 1 .. generated', until : Nat]
    BY <1>1 DEF RotateKey, KeysInv, KeyTypes, KeyRecords
  <2> QED
    BY <1>1, <2>1, <2>3, <2>4 DEF RotateKey, KeysInv, KeyTypes
<1>4. Promised'
  <2> SUFFICES ASSUME written PROVE Promised'
    BY DEF RotateKey, Promised
  <2>1. tenant' = Successor /\ onDisk' = tenant' /\ clock' = clock
        /\ promise' = [old |-> tenant.key, new |-> generated + 1, until |-> clock + grace]
    BY DEF RotateKey
  <2>2. tenant.key \in 1 .. generated /\ generated \in Nat /\ grace \in Nat /\ clock \in Nat
    BY DEF KeysInv, KeyTypes, KeyRecords
  <2>3. CASE grace > 0
    <3>1. tenant' = [key |-> generated + 1, before |-> tenant.key, until |-> clock + grace]
      BY <2>1, <2>3 DEF Successor, Tenant
    <3> QED
      BY <2>1, <2>2, <3>1 DEF Promised
  <2>4. CASE ~(grace > 0)
    <3>1. tenant' = [key |-> generated + 1, before |-> 0, until |-> 0] /\ grace = 0
      BY <2>1, <2>2, <2>4 DEF Successor, Tenant
    <3> QED
      BY <2>1, <2>2, <3>1 DEF Promised
  <2> QED
    BY <2>3, <2>4
<1> QED
  BY <1>3, <1>4 DEF KeysInv

LEMMA KeysInvStep == KeysInv /\ [KeysNext]_keyVars => KeysInv'
<1> SUFFICES ASSUME KeysInv, [KeysNext]_keyVars PROVE KeysInv'
  OBVIOUS
<1>1. CASE UNCHANGED keyVars
  BY <1>1 DEF keyVars, KeysInv, KeyTypes, KeyRecords, FileRecords, Promised
<1>2. ASSUME NEW written \in BOOLEAN, RotateKey(written) PROVE KeysInv'
  BY <1>2, RotateKeeps
<1>3. CASE ReloadKeys
  BY <1>3 DEF ReloadKeys, KeysInv, KeyTypes, KeyRecords, FileRecords, Promised
<1>4. CASE EditKey
  <2>1. generated' = generated + 1 /\ generated' <= MaxGen /\ lost'
    BY <1>4, GraceAssumption DEF EditKey, KeysInv, KeyTypes
  <2>2. onDisk' \in FileRecords'
    BY <1>4, <2>1 DEF EditKey, Tenant, KeysInv, KeyTypes, KeyRecords, FileRecords
  <2> QED
    BY <1>4, <2>1, <2>2 DEF EditKey, KeysInv, KeyTypes, KeyRecords, Promised
<1>5. CASE KeyTick
  BY <1>5, GraceAssumption DEF KeyTick, KeysInv, KeyTypes, KeyRecords, FileRecords, Promised
<1> QED
  BY <1>1, <1>2, <1>3, <1>4, <1>5 DEF KeysNext

LEMMA KeysAlways == KeysSpec => []KeysInv
  BY KeysInvInit, KeysInvStep, PTL DEF KeysSpec

\* Every reachable state of a tenant's keys is well typed.
THEOREM KeysTypeCorrect == KeysSpec => []KeysTypeOK
<1>1. KeysInv => KeysTypeOK
  BY GraceAssumption DEF KeysInv, KeyTypes, KeyRecords, FileRecords, KeysTypeOK
<1> QED
  BY <1>1, KeysAlways, PTL

\* After any number of rotations, reloads and times, the new key of the last
\* rotation is taken, its old one exactly until the time announced, and after
\* that no other, as long as its write reached the file.
THEOREM GraceIsHonoured == KeysSpec => []GraceHonoured
<1>1. KeysInv => GraceHonoured
  BY DEF KeysInv, KeyTypes, KeyRecords, Promised, GraceHonoured, Accepted
<1> QED
  BY <1>1, KeysAlways, PTL

-----------------------------------------------------------------------------
(***************************************************************************)
(* The sessions, for every number of ids, TTL and cap.                     *)
(***************************************************************************)
\* The tombstone of an id stands at a place of the map with no more behind it
\* than were terminated since.
Buried(id) ==
  \E k \in 1 .. Len(deleted) :
    deleted[k] = id /\ (MaxIds > 0 => Len(deleted) - k <= endedAfter[id])

(***************************************************************************)
(* The inductive invariant: an id that was terminated, with fewer than     *)
(* MaxIds after it, has a tombstone.                                       *)
(***************************************************************************)
Tombs ==
  /\ deleted \in Seq(SessionIds)
  /\ endedAfter \in [SessionIds -> 0 .. MaxIds]
  /\ ended \subseteq SessionIds
  /\ \A id \in ended : MaxIds = 0 \/ endedAfter[id] < MaxIds => Buried(id)

LEMMA TombsInit == SessionsInit => Tombs
  BY CapAssumption DEF SessionsInit, Tombs

\* An id that is not in a map is not taken out of it.
LEMMA WithoutNothing ==
  ASSUME NEW s, NEW id, id \notin Members(s)
  PROVE  Without(s, id) = s
  BY DEF Without

\* dropOldestFrom keeps the newest MaxIds.
LEMMA NewestKeeps ==
  ASSUME NEW s \in Seq(SessionIds), NEW k \in 1 .. Len(s),
         MaxIds > 0 => Len(s) - k < MaxIds
  PROVE  /\ Newest(s) \in Seq(SessionIds)
         /\ \E j \in 1 .. Len(Newest(s)) :
              Newest(s)[j] = s[k] /\ Len(Newest(s)) - j = Len(s) - k
<1>1. CASE MaxIds = 0 \/ Len(s) <= MaxIds
  BY <1>1 DEF Newest
<1>2. CASE ~(MaxIds = 0 \/ Len(s) <= MaxIds)
  <2> DEFINE m == Len(s) - MaxIds + 1
  <2>1. m \in 1 .. Len(s) /\ Newest(s) = SubSeq(s, m, Len(s)) /\ MaxIds > 0
    BY <1>2, CapAssumption DEF Newest
  <2>2. /\ Len(Newest(s)) = MaxIds /\ Newest(s) \in Seq(SessionIds)
        /\ \A i \in 1 .. MaxIds : Newest(s)[i] = s[m + i - 1]
    BY <2>1, CapAssumption
  <2>3. k - m + 1 \in 1 .. MaxIds /\ m + (k - m + 1) - 1 = k
    BY <2>1, CapAssumption
  <2>4. Newest(s)[k - m + 1] = s[k] /\ Len(Newest(s)) - (k - m + 1) = Len(s) - k
    BY <2>1, <2>2, <2>3, CapAssumption
  <2> QED
    BY <2>2, <2>3, <2>4
<1> QED
  BY <1>1, <1>2

LEMMA DropKeeps ==
  ASSUME Tombs, NEW d \in SessionIds, DropSession(d)
  PROVE  Tombs'
<1> DEFINE s == Append(deleted, d)
<1>1. deleted' = Newest(s) /\ ended' = ended \cup {d}
  BY WithoutNothing DEF DropSession
<1>2. /\ s \in Seq(SessionIds) /\ Len(s) = Len(deleted) + 1 /\ s[Len(s)] = d
      /\ \A k \in 1 .. Len(deleted) : k \in 1 .. Len(s) /\ s[k] = deleted[k]
      /\ Len(s) \in 1 .. Len(s) /\ Len(deleted) \in Nat
  BY DEF Tombs
<1>3. endedAfter' = [i \in SessionIds |->
        IF i = d THEN 0
        ELSE IF i \in ended /\ endedAfter[i] < MaxIds THEN endedAfter[i] + 1 ELSE endedAfter[i]]
  BY DEF DropSession, EndedMore
<1>4. endedAfter' \in [SessionIds -> 0 .. MaxIds]
  BY <1>3, CapAssumption DEF Tombs
<1>5. \E j \in 1 .. Len(deleted') : deleted'[j] = d /\ Len(deleted') - j = 0
  <2>1. MaxIds > 0 => Len(s) - Len(s) < MaxIds
    BY <1>2
  <2>2. \E j \in 1 .. Len(Newest(s)) :
          Newest(s)[j] = s[Len(s)] /\ Len(Newest(s)) - j = Len(s) - Len(s)
    BY <1>2, <2>1, NewestKeeps
  <2> QED
    BY <1>1, <1>2, <2>2
<1>6. Buried(d)'
  BY <1>3, <1>5 DEF Buried
<1>7. ASSUME NEW id \in ended, id # d, MaxIds = 0 \/ endedAfter'[id] < MaxIds
      PROVE  Buried(id)'
  <2>1. id \in SessionIds /\ endedAfter[id] \in 0 .. MaxIds
    BY DEF Tombs
  <2>2. MaxIds = 0 \/ (endedAfter[id] < MaxIds /\ endedAfter'[id] = endedAfter[id] + 1)
    BY <1>3, <1>7, <2>1, CapAssumption
  <2>3. PICK k \in 1 .. Len(deleted) :
          deleted[k] = id /\ (MaxIds > 0 => Len(deleted) - k <= endedAfter[id])
    BY <2>2 DEF Tombs, Buried
  <2>4. k \in 1 .. Len(s) /\ s[k] = id
    BY <1>2, <2>3
  <2>5. MaxIds > 0 => Len(s) - k <= endedAfter'[id] /\ Len(s) - k < MaxIds
    BY <1>2, <1>7, <2>1, <2>2, <2>3, CapAssumption
  <2>6. \E j \in 1 .. Len(Newest(s)) :
          Newest(s)[j] = s[k] /\ Len(Newest(s)) - j = Len(s) - k
    BY <1>2, <2>4, <2>5, NewestKeeps
  <2> QED
    BY <1>1, <2>4, <2>5, <2>6 DEF Buried
<1>8. deleted' \in Seq(SessionIds)
  <2>1. MaxIds > 0 => Len(s) - Len(s) < MaxIds
    BY <1>2
  <2> QED
    BY <1>1, <1>2, <2>1, NewestKeeps
<1> QED
  BY <1>1, <1>4, <1>6, <1>7, <1>8 DEF Tombs

\* Steps that leave the tombstones alone.
LEMMA QuietKeepsTombs ==
  ASSUME Tombs, UNCHANGED <<deleted, ended, endedAfter>>
  PROVE  Tombs'
  BY DEF Tombs, Buried

LEMMA AcceptKeepsTombs ==
  ASSUME NEW id, AcceptSession(id)
  PROVE  UNCHANGED <<deleted, ended, endedAfter>>
  BY WithoutNothing DEF AcceptSession, TouchSession

LEMMA TombsStep == Tombs /\ [SessionsNext]_sessionsVars => Tombs'
<1> SUFFICES ASSUME Tombs, [SessionsNext]_sessionsVars PROVE Tombs'
  OBVIOUS
<1>1. CASE UNCHANGED sessionsVars
  BY <1>1, QuietKeepsTombs DEF sessionsVars
<1>2. ASSUME NEW id \in SessionIds, AcceptSession(id) PROVE Tombs'
  BY <1>2, AcceptKeepsTombs, QuietKeepsTombs
<1>3. ASSUME NEW id \in SessionIds, DropSession(id) PROVE Tombs'
  BY <1>3, DropKeeps
<1>4. ASSUME NEW id \in SessionIds,
             TellExpired(id) \/ RefuseSession(id) \/ DropExpired(id) \/ DropUnknown(id)
      PROVE  Tombs'
  BY <1>4, QuietKeepsTombs DEF TellExpired, RefuseSession, DropExpired, DropUnknown
<1>5. CASE ListSessions \/ SessionTick
  BY <1>5, QuietKeepsTombs DEF ListSessions, SessionTick
<1> QED
  BY <1>1, <1>2, <1>3, <1>4, <1>5 DEF SessionsNext

\* Only check() answers "ok", and only where no tombstone stands.
LEMMA OkMeansNoTomb ==
  ASSUME SessionsNext, NEW id, sessionReply' = <<id, "ok">>
  PROVE  id \notin Members(deleted)
<1>1. ASSUME NEW i \in SessionIds, AcceptSession(i) PROVE id \notin Members(deleted)
  BY <1>1 DEF AcceptSession
<1>2. ASSUME NEW i \in SessionIds,
             \/ TellExpired(i) \/ RefuseSession(i) \/ DropSession(i)
             \/ DropExpired(i) \/ DropUnknown(i)
      PROVE  FALSE
  BY <1>2 DEF TellExpired, RefuseSession, DropSession, DropExpired, DropUnknown
<1>3. CASE ListSessions \/ SessionTick
  BY <1>3 DEF ListSessions, SessionTick
<1> QED
  BY <1>1, <1>2, <1>3 DEF SessionsNext

\* For every cap and TTL and any number of ids: a terminated session is taken
\* again only after MaxIds others were terminated.
THEOREM EndedStayRefused == SessionsSpec => EndedRefused
<1> DEFINE Step == \A id \in ended :
                     sessionReply' = <<id, "ok">> => MaxIds > 0 /\ (endedAfter[id] >= MaxIds)
<1>1. Tombs /\ [SessionsNext]_sessionsVars => [Step]_sessionsVars
  <2> SUFFICES ASSUME Tombs, SessionsNext, NEW id \in ended, sessionReply' = <<id, "ok">>
               PROVE  MaxIds > 0 /\ endedAfter[id] >= MaxIds
    OBVIOUS
  <2>1. id \notin Members(deleted)
    BY OkMeansNoTomb
  <2>2. ~Buried(id)
    BY <2>1 DEF Buried, Members, Tombs
  <2>3. ~(MaxIds = 0 \/ endedAfter[id] < MaxIds)
    BY <2>2 DEF Tombs
  <2>4. id \in SessionIds /\ endedAfter[id] \in 0 .. MaxIds
    BY DEF Tombs
  <2> QED
    BY <2>3, <2>4, CapAssumption
<1> QED
  BY <1>1, TombsInit, TombsStep, PTL DEF SessionsSpec, EndedRefused

(***************************************************************************)
(* The map of tombstones stands as the sequence of its keys.  It is one: a *)
(* key is in it once, so that map.delete has one place to take it from;    *)
(* and dropOldestFrom, called where a key is set, keeps it to the cap.     *)
(***************************************************************************)
TombMap ==
  /\ \A k \in 1 .. Len(deleted) : \A l \in 1 .. Len(deleted) : deleted[k] = deleted[l] => k = l
  /\ MaxIds > 0 => Len(deleted) <= MaxIds

LEMMA DropKeepsMap ==
  ASSUME Tombs, TombMap, NEW d \in SessionIds, DropSession(d)
  PROVE  TombMap'
<1> DEFINE s == Append(deleted, d)
           m == Len(s) - MaxIds + 1
<1>1. deleted' = Newest(s) /\ d \notin Members(deleted)
  BY WithoutNothing DEF DropSession
<1>2. /\ deleted \in Seq(SessionIds) /\ s \in Seq(SessionIds) /\ Len(s) = Len(deleted) + 1
      /\ s[Len(s)] = d /\ \A k \in 1 .. Len(deleted) : s[k] = deleted[k] /\ deleted[k] # d
  BY <1>1 DEF Tombs, Members
<1> HIDE DEF s
<1>3. \A k \in 1 .. Len(s) : \A l \in 1 .. Len(s) : s[k] = s[l] => k = l
  <2>1. \A k \in 1 .. Len(s) : k = Len(s) \/ k \in 1 .. Len(deleted)
    BY <1>2
  <2> QED
    BY <1>2, <2>1 DEF TombMap
<1>4. CASE MaxIds = 0 \/ Len(s) <= MaxIds
  BY <1>1, <1>3, <1>4, CapAssumption DEF Newest, TombMap
<1>5. CASE ~(MaxIds = 0 \/ Len(s) <= MaxIds)
  <2>1. m \in 1 .. Len(s) /\ Newest(s) = SubSeq(s, m, Len(s)) /\ MaxIds \in Nat
    BY <1>2, <1>5, CapAssumption DEF Newest
  <2>2. /\ Len(Newest(s)) = MaxIds
        /\ \A i \in 1 .. MaxIds : Newest(s)[i] = s[m + i - 1] /\ m + i - 1 \in 1 .. Len(s)
    BY <1>2, <2>1, CapAssumption
  <2>3. \A i \in 1 .. MaxIds : \A j \in 1 .. MaxIds : m + i - 1 = m + j - 1 => i = j
    BY <2>1
  <2> HIDE DEF m
  <2>4. \A k \in 1 .. MaxIds : \A l \in 1 .. MaxIds :
          Newest(s)[k] = Newest(s)[l] => m + k - 1 = m + l - 1
    BY <1>3, <2>2
  <2>5. \A k \in 1 .. MaxIds : \A l \in 1 .. MaxIds : Newest(s)[k] = Newest(s)[l] => k = l
    BY <2>3, <2>4
  <2>6. Len(Newest(s)) = MaxIds /\ (MaxIds > 0 => Len(Newest(s)) <= MaxIds)
    BY <2>1, <2>2
  <2>7. Len(deleted') = MaxIds /\ (MaxIds > 0 => Len(deleted') <= MaxIds)
    BY <1>1, <2>6
  <2> QED
    BY <1>1, <2>5, <2>7 DEF TombMap
<1> QED
  BY <1>4, <1>5

LEMMA TombMapStep == Tombs /\ TombMap /\ [SessionsNext]_sessionsVars => TombMap'
<1> SUFFICES ASSUME Tombs, TombMap, [SessionsNext]_sessionsVars PROVE TombMap'
  OBVIOUS
<1>1. CASE UNCHANGED deleted
  BY <1>1 DEF TombMap
<1>2. ASSUME NEW id \in SessionIds, DropSession(id) PROVE TombMap'
  BY <1>2, DropKeepsMap
<1>3. ASSUME NEW id \in SessionIds, AcceptSession(id) PROVE UNCHANGED deleted
  BY <1>3, AcceptKeepsTombs
<1>4. ASSUME NEW id \in SessionIds,
             TellExpired(id) \/ RefuseSession(id) \/ DropExpired(id) \/ DropUnknown(id)
      PROVE  UNCHANGED deleted
  BY <1>4 DEF TellExpired, RefuseSession, DropExpired, DropUnknown
<1>5. CASE ListSessions \/ SessionTick \/ UNCHANGED sessionsVars
  BY <1>1, <1>5 DEF ListSessions, SessionTick, sessionsVars
<1> QED
  BY <1>1, <1>2, <1>3, <1>4, <1>5 DEF SessionsNext

\* For every cap and any number of ids, in any order of uses, expiries and
\* terminations: no more tombstones than the cap, and none twice.
THEOREM TombsCapped == SessionsSpec => []TombMap
<1>1. SessionsInit => TombMap
  BY CapAssumption DEF SessionsInit, TombMap
<1> QED
  BY <1>1, TombsInit, TombsStep, TombMapStep, PTL DEF SessionsSpec

(***************************************************************************)
(* The other way round: only what was terminated has a tombstone.          *)
(***************************************************************************)
Graves == deleted \in Seq(SessionIds) /\ Members(deleted) \subseteq ended

LEMMA NewestIsPart ==
  ASSUME NEW s \in Seq(SessionIds)
  PROVE  Newest(s) \in Seq(SessionIds) /\ Members(Newest(s)) \subseteq Members(s)
<1>1. CASE MaxIds = 0 \/ Len(s) <= MaxIds
  BY <1>1 DEF Newest
<1>2. CASE ~(MaxIds = 0 \/ Len(s) <= MaxIds)
  <2> DEFINE m == Len(s) - MaxIds + 1
  <2>1. m \in 1 .. Len(s) /\ Newest(s) = SubSeq(s, m, Len(s))
    BY <1>2, CapAssumption DEF Newest
  <2>2. /\ Newest(s) \in Seq(SessionIds) /\ Len(Newest(s)) = MaxIds
        /\ \A i \in 1 .. MaxIds : Newest(s)[i] = s[m + i - 1] /\ m + i - 1 \in 1 .. Len(s)
    BY <2>1, CapAssumption
  <2>3. DOMAIN Newest(s) = 1 .. MaxIds /\ DOMAIN s = 1 .. Len(s)
    BY <2>2
  <2>4. ASSUME NEW i \in 1 .. MaxIds PROVE Newest(s)[i] \in Members(s)
    <3>1. Newest(s)[i] = s[m + i - 1] /\ m + i - 1 \in DOMAIN s
      BY <2>2, <2>3, <2>4
    <3> QED
      BY <3>1 DEF Members
  <2>5. Members(Newest(s)) \subseteq Members(s)
    BY <2>3, <2>4 DEF Members
  <2> QED
    BY <2>2, <2>5
<1> QED
  BY <1>1, <1>2

LEMMA GravesStep == Graves /\ [SessionsNext]_sessionsVars => Graves'
<1> SUFFICES ASSUME Graves, [SessionsNext]_sessionsVars PROVE Graves'
  OBVIOUS
<1>1. CASE UNCHANGED <<deleted, ended>>
  BY <1>1 DEF Graves, Members
<1>2. ASSUME NEW id \in SessionIds, DropSession(id) PROVE Graves'
  <2> DEFINE s == Append(deleted, id)
  <2>1. deleted' = Newest(s) /\ ended' = ended \cup {id}
    BY <1>2, WithoutNothing DEF DropSession
  <2>2. s \in Seq(SessionIds) /\ Members(s) \subseteq Members(deleted) \cup {id}
    BY DEF Graves, Members
  <2> QED
    BY <2>1, <2>2, NewestIsPart DEF Graves, Members
<1>3. ASSUME NEW id \in SessionIds, AcceptSession(id) PROVE UNCHANGED <<deleted, ended>>
  BY <1>3, AcceptKeepsTombs
<1>4. ASSUME NEW id \in SessionIds,
             TellExpired(id) \/ RefuseSession(id) \/ DropExpired(id) \/ DropUnknown(id)
      PROVE  UNCHANGED <<deleted, ended>>
  BY <1>4 DEF TellExpired, RefuseSession, DropExpired, DropUnknown
<1>5. CASE ListSessions \/ SessionTick
  BY <1>1, <1>5 DEF ListSessions, SessionTick
<1>6. CASE UNCHANGED sessionsVars
  BY <1>1, <1>6 DEF sessionsVars
<1> QED
  BY <1>1, <1>2, <1>3, <1>4, <1>5, <1>6 DEF SessionsNext

\* For every cap and TTL: a session is refused or told that it is gone only
\* after it was terminated or was idle for the TTL, whatever other clients do.
THEOREM LiveOnesAreServed == SessionsSpec => ActiveServed
<1> DEFINE Gone(id) == id \in ended \/ (SessionTtl > 0 /\ idle[id] >= SessionTtl)
           Step == \A id \in SessionIds :
                     sessionReply' \in {<<id, "expired">>, <<id, "not_found">>} => Gone(id)
<1>1. SessionsInit => Graves
  BY DEF SessionsInit, Graves, Members
<1>2. Graves /\ [SessionsNext]_sessionsVars => [Step]_sessionsVars
  <2> SUFFICES ASSUME Graves, SessionsNext, NEW id \in SessionIds,
                      sessionReply' \in {<<id, "expired">>, <<id, "not_found">>}
               PROVE  Gone(id)
    OBVIOUS
  <2>1. ASSUME NEW i \in SessionIds, TellExpired(i) PROVE Gone(id)
    BY <2>1 DEF TellExpired, SessionExpired
  <2>2. ASSUME NEW i \in SessionIds, RefuseSession(i) PROVE Gone(id)
    BY <2>2 DEF RefuseSession, Graves
  <2>3. ASSUME NEW i \in SessionIds,
               AcceptSession(i) \/ DropSession(i) \/ DropExpired(i) \/ DropUnknown(i)
        PROVE  FALSE
    BY <2>3 DEF AcceptSession, DropSession, DropExpired, DropUnknown
  <2>4. CASE ListSessions \/ SessionTick
    BY <2>4 DEF ListSessions, SessionTick
  <2> QED
    BY <2>1, <2>2, <2>3, <2>4 DEF SessionsNext
<1> QED
  BY <1>1, <1>2, GravesStep, PTL DEF SessionsSpec, ActiveServed

-----------------------------------------------------------------------------
(***************************************************************************)
(* The child process, for any number of requests in flight.                *)
(***************************************************************************)
Outcomes == {"none", "waits", "answered", "timeout", "unsent", "exited", "not running"}

LinkTypes ==
  /\ nextId \in Nat /\ 1 <= nextId
  /\ idOf \in [Requests -> Nat] /\ \A q \in Requests : idOf[q] < nextId
  /\ outcome \in [Requests -> Outcomes] /\ answer \in [Requests -> Nat]
  /\ stdin \in Seq(Nat) /\ stdout \in Seq(RpcIds) /\ working \subseteq RpcIds
  /\ runs \in [RpcIds -> Nat]

\* An id is in the pipe once and was not taken up before.
Unread ==
  /\ \A k \in 1 .. Len(stdin) :
       stdin[k] < nextId /\ (stdin[k] \in RpcIds => runs[stdin[k]] = 0)
  /\ \A k, l \in 1 .. Len(stdin) : k # l => stdin[k] # stdin[l]

\* An id that is not used up has not run.
Unused == \A i \in RpcIds : i >= nextId => runs[i] = 0

\* What the server works at, or has answered, it took up once.
RanOnce ==
  /\ \A i \in working : runs[i] = 1
  /\ \A k \in 1 .. Len(stdout) : runs[stdout[k]] = 1

Answers ==
  \A q \in Requests :
    outcome[q] = "answered" => idOf[q] \in RpcIds /\ answer[q] = idOf[q] /\ runs[idOf[q]] = 1

Waiters == pending = {idOf[q] : q \in Waiting}

(***************************************************************************)
(* The inductive invariant: OwnAnswer, and how often what is in the pipes  *)
(* was taken up.                                                           *)
(***************************************************************************)
LinkInv == LinkTypes /\ Unread /\ Unused /\ RanOnce /\ Answers /\ Waiters

LEMMA IdsAreNumbers == \A i \in RpcIds : i \in Int
  BY DEF RpcIds

LEMMA LinkInvInit == LinkInit => LinkInv
<1> SUFFICES ASSUME LinkInit PROVE LinkInv
  OBVIOUS
<1>1. /\ nextId = 1 /\ idOf = [q \in Requests |-> 0] /\ pending = {}
      /\ outcome = [q \in Requests |-> "none"] /\ answer = [q \in Requests |-> 0]
      /\ stdin = <<>> /\ stdout = <<>> /\ working = {} /\ runs = [i \in RpcIds |-> 0]
  BY DEF LinkInit
<1>2. LinkTypes
  BY <1>1 DEF LinkTypes, Outcomes
<1>3. Unread /\ Unused /\ RanOnce
  BY <1>1 DEF Unread, Unused, RanOnce
<1>4. Answers /\ Waiters
  BY <1>1 DEF Answers, Waiters, Waiting
<1> QED
  BY <1>2, <1>3, <1>4 DEF LinkInv

\* Waiters that are given an outcome leave the map with their id.
LEMMA SettleKeepsWaiters ==
  ASSUME LinkInv, NEW i, NEW why \in Outcomes \ {"waits"},
         pending' = pending \ {i}, UNCHANGED idOf,
         outcome' = [q \in Requests |-> IF q \in Owner(i) THEN why ELSE outcome[q]]
  PROVE  Waiters' /\ outcome' \in [Requests -> Outcomes]
<1>1. Waiting' = {q \in Waiting : idOf[q] # i}
  BY DEF Waiting, Owner
<1>2. pending' = {idOf[q] : q \in {r \in Waiting : idOf[r] # i}}
  BY DEF LinkInv, Waiters
<1> QED
  BY <1>1, <1>2 DEF LinkInv, LinkTypes, Waiters

\* The timer and the callback of write.
LEMMA RejectKeeps ==
  ASSUME LinkInv, NEW i, NEW why \in {"timeout", "unsent"},
         i \in pending, pending' = pending \ {i}, Rejected(i, why),
         UNCHANGED <<nextId, idOf, stdin, working, stdout, runs>>
  PROVE  LinkInv'
<1>1. outcome' = [q \in Requests |-> IF q \in Owner(i) THEN why ELSE outcome[q]] /\ answer' = answer
  BY DEF Rejected
<1>2. Waiters' /\ outcome' \in [Requests -> Outcomes]
  BY <1>1, SettleKeepsWaiters DEF Outcomes
<1>3. Answers'
  BY <1>1 DEF LinkInv, Answers
<1> QED
  BY <1>1, <1>2, <1>3 DEF LinkInv, LinkTypes, Unread, Unused, RanOnce

LEMMA AskKeeps ==
  ASSUME LinkInv, NEW q \in Requests, Ask(q)
  PROVE  LinkInv'
<1>1. /\ idOf' = [idOf EXCEPT ![q] = nextId] /\ nextId' = nextId + 1
      /\ outcome' = [outcome EXCEPT ![q] = "waits"] /\ pending' = pending \cup {nextId}
      /\ outcome[q] = "none"
      /\ UNCHANGED <<answer, working, stdout, runs>>
  BY DEF Ask
<1>2. nextId \in Nat /\ stdin \in Seq(Nat)
  BY DEF LinkInv, LinkTypes
<1>3. stdin' = Append(stdin, nextId) \/ stdin' = stdin
  BY DEF Ask
<1>4. LinkTypes'
  <2>1. stdin' \in Seq(Nat)
    BY <1>2, <1>3
  <2>2. idOf' \in [Requests -> Nat] /\ \A r \in Requests : idOf'[r] < nextId'
    BY <1>1, <1>2 DEF LinkInv, LinkTypes
  <2>3. outcome' \in [Requests -> Outcomes]
    BY <1>1 DEF LinkInv, LinkTypes, Outcomes
  <2>4. nextId' \in Nat /\ 1 <= nextId'
    BY <1>1, <1>2
  <2>5. /\ answer' \in [Requests -> Nat] /\ stdout' \in Seq(RpcIds) /\ working' \subseteq RpcIds
        /\ runs' \in [RpcIds -> Nat]
    BY <1>1 DEF LinkInv, LinkTypes
  <2> QED
    BY <2>1, <2>2, <2>3, <2>4, <2>5 DEF LinkTypes
<1>5. Unread'
  <2>1. CASE stdin' = stdin
    BY <1>1, <1>2, <2>1 DEF LinkInv, Unread
  <2>2. CASE stdin' = Append(stdin, nextId)
    <3>1. /\ Len(stdin') = Len(stdin) + 1 /\ stdin'[Len(stdin) + 1] = nextId
          /\ \A k \in 1 .. Len(stdin) : stdin'[k] = stdin[k] /\ stdin[k] \in Nat
      BY <1>2, <2>2
    <3>2. nextId \in RpcIds => runs[nextId] = 0
      BY <1>2 DEF LinkInv, Unused
    <3>3. \A k \in 1 .. Len(stdin') : k \in 1 .. Len(stdin) \/ (k = Len(stdin) + 1 /\ stdin'[k] = nextId)
      BY <3>1, <1>2
    <3>4. \A k \in 1 .. Len(stdin) : stdin[k] # nextId
      BY <1>2, <3>1 DEF LinkInv, Unread
    <3>5. \A k \in 1 .. Len(stdin') :
            stdin'[k] < nextId' /\ (stdin'[k] \in RpcIds => runs'[stdin'[k]] = 0)
      BY <1>1, <1>2, <3>1, <3>2, <3>3 DEF LinkInv, Unread
    <3>6. \A k, l \in 1 .. Len(stdin') : k # l => stdin'[k] # stdin'[l]
      BY <3>1, <3>3, <3>4 DEF LinkInv, Unread
    <3> QED
      BY <3>5, <3>6 DEF Unread
  <2> QED
    BY <1>3, <2>1, <2>2
<1>6. Unused'
  BY <1>1, <1>2, IdsAreNumbers DEF LinkInv, Unused
<1>7. RanOnce'
  BY <1>1 DEF LinkInv, RanOnce
<1>8. Answers'
  BY <1>1 DEF LinkInv, LinkTypes, Answers
<1>9. Waiters'
  <2>1. Waiting' = Waiting \cup {q} /\ q \notin Waiting
    BY <1>1 DEF LinkInv, LinkTypes, Waiting
  <2>2. idOf'[q] = nextId /\ \A r \in Waiting : idOf'[r] = idOf[r]
    BY <1>1, <2>1 DEF LinkInv, LinkTypes, Waiting
  <2> QED
    BY <1>1, <2>1, <2>2 DEF LinkInv, Waiters
<1> QED
  BY <1>4, <1>5, <1>6, <1>7, <1>8, <1>9 DEF LinkInv

LEMMA AskNobodyKeeps ==
  ASSUME LinkInv, NEW q \in Requests, AskNobody(q)
  PROVE  LinkInv'
<1>1. outcome[q] = "none" /\ outcome' = [outcome EXCEPT ![q] = "not running"]
  BY DEF AskNobody
<1>2. nextId' = nextId + 1
  BY DEF AskNobody
<1>3. /\ idOf' = idOf /\ pending' = pending /\ answer' = answer /\ stdin' = stdin
      /\ working' = working /\ stdout' = stdout /\ runs' = runs
  BY DEF AskNobody
<1>4. nextId \in Nat /\ 1 <= nextId
  BY DEF LinkInv, LinkTypes
<1>5. nextId' \in Nat /\ 1 <= nextId' /\ \A n \in Int : (n < nextId => n < nextId') /\ (n >= nextId' => n >= nextId)
  BY <1>2, <1>4
<1>6. LinkTypes'
  <2>1. outcome' \in [Requests -> Outcomes]
    BY <1>1 DEF LinkInv, LinkTypes, Outcomes
  <2>2. \A r \in Requests : idOf'[r] < nextId'
    <3>1. \A r \in Requests : idOf[r] \in Int /\ idOf[r] < nextId
      BY DEF LinkInv, LinkTypes
    <3> QED
      BY <1>3, <1>5, <3>1
  <2> QED
    BY <1>3, <1>5, <2>1, <2>2 DEF LinkInv, LinkTypes
<1>7. Unread'
  <2>1. \A k \in 1 .. Len(stdin) : stdin[k] \in Int
    BY DEF LinkInv, LinkTypes
  <2> QED
    BY <1>3, <1>5, <2>1 DEF LinkInv, Unread
<1>8. Unused' /\ RanOnce'
  BY <1>3, <1>5, IdsAreNumbers DEF LinkInv, Unused, RanOnce
<1>9. Answers' /\ Waiters'
  <2>1. Waiting' = Waiting
    BY <1>1 DEF LinkInv, LinkTypes, Waiting
  <2> QED
    BY <1>1, <1>3, <2>1 DEF LinkInv, LinkTypes, Answers, Waiters
<1> QED
  BY <1>6, <1>7, <1>8, <1>9 DEF LinkInv

\* A line: the reply to a call given up changes nothing.
LEMMA LineKeeps ==
  ASSUME LinkInv, Line
  PROVE  LinkInv'
<1>1. /\ stdout # <<>> /\ stdout' = Tail(stdout) /\ stdout \in Seq(RpcIds)
      /\ UNCHANGED <<nextId, idOf, stdin, working, runs>>
  BY DEF Line, LinkInv, LinkTypes
<1>2. stdout' \in Seq(RpcIds) /\ Head(stdout) \in RpcIds /\ runs[Head(stdout)] = 1
      /\ \A k \in 1 .. Len(stdout') : runs[stdout'[k]] = 1
  BY <1>1 DEF LinkInv, RanOnce
<1>3. Unread' /\ Unused' /\ RanOnce'
  BY <1>1, <1>2 DEF LinkInv, Unread, Unused, RanOnce
<1>4. CASE Head(stdout) \notin pending
  BY <1>1, <1>2, <1>3, <1>4 DEF Line, LinkInv, LinkTypes, Answers, Waiters, Waiting
<1>5. CASE Head(stdout) \in pending
  <2> DEFINE i == Head(stdout)
  <2>1. /\ pending' = pending \ {i}
        /\ outcome' = [q \in Requests |-> IF q \in Owner(i) THEN "answered" ELSE outcome[q]]
        /\ answer' = [q \in Requests |-> IF q \in Owner(i) THEN i ELSE answer[q]]
    BY <1>5 DEF Line, Resolved
  <2>2. Waiters' /\ outcome' \in [Requests -> Outcomes]
    BY <1>1, <2>1, SettleKeepsWaiters DEF Outcomes
  <2>3. i \in Nat
    BY <1>5 DEF LinkInv, LinkTypes, Waiters, Waiting
  <2>4. answer' \in [Requests -> Nat]
    BY <2>1, <2>3 DEF LinkInv, LinkTypes
  <2>5. Answers'
    BY <1>1, <1>2, <2>1 DEF LinkInv, Answers, Owner
  <2> QED
    BY <1>1, <1>2, <1>3, <2>2, <2>4, <2>5 DEF LinkInv, LinkTypes
<1> QED
  BY <1>4, <1>5

LEMMA ExitedKeeps ==
  ASSUME LinkInv, Exited
  PROVE  LinkInv'
<1>1. /\ pending' = {}
      /\ outcome' = [q \in Requests |-> IF idOf[q] \in pending THEN "exited" ELSE outcome[q]]
      /\ UNCHANGED <<nextId, idOf, answer, stdin, working, stdout, runs>>
  BY DEF Exited
<1>2. Waiting' = {}
  BY <1>1 DEF LinkInv, Waiters, Waiting
<1> QED
  BY <1>1, <1>2 DEF LinkInv, LinkTypes, Outcomes, Unread, Unused, RanOnce, Answers, Waiters

\* The server takes up the head of the pipe, which has not run and is not in
\* the rest of it.
LEMMA TakeUpKeeps ==
  ASSUME LinkInv, NEW i \in RpcIds, TakeUp(i)
  PROVE  LinkInv'
<1>1. /\ stdin # <<>> /\ i = Head(stdin) /\ stdin' = Tail(stdin) /\ stdin \in Seq(Nat)
      /\ working' = working \cup {i} /\ runs' = [runs EXCEPT ![i] = @ + 1]
      /\ UNCHANGED <<nextId, idOf, pending, outcome, answer, stdout>>
  BY DEF TakeUp, LinkInv, LinkTypes
<1>2. /\ 1 \in 1 .. Len(stdin) /\ stdin[1] = i /\ stdin' \in Seq(Nat)
      /\ Len(stdin') = Len(stdin) - 1
      /\ \A k \in 1 .. Len(stdin') :
           k + 1 \in 1 .. Len(stdin) /\ k + 1 # 1 /\ stdin'[k] = stdin[k + 1]
  BY <1>1
<1>3. runs[i] = 0 /\ i < nextId
  BY <1>2 DEF LinkInv, Unread
<1>4. runs' \in [RpcIds -> Nat] /\ runs'[i] = 1 /\ \A j \in RpcIds \ {i} : runs'[j] = runs[j]
  BY <1>1, <1>3 DEF LinkInv, LinkTypes
<1>5. LinkTypes'
  BY <1>1, <1>2, <1>4 DEF LinkInv, LinkTypes
<1>6. Unread'
  <2>1. \A k \in 1 .. Len(stdin') : stdin'[k] # i
    BY <1>2 DEF LinkInv, Unread
  <2>2. \A k \in 1 .. Len(stdin') :
          stdin'[k] < nextId' /\ (stdin'[k] \in RpcIds => runs'[stdin'[k]] = 0)
    BY <1>1, <1>2, <1>4, <2>1 DEF LinkInv, Unread
  <2>4. ASSUME NEW k \in 1 .. Len(stdin'), NEW l \in 1 .. Len(stdin'), k # l
        PROVE  stdin'[k] # stdin'[l]
    <3>1. k + 1 # l + 1
      BY <2>4
    <3>2. k + 1 \in 1 .. Len(stdin) /\ l + 1 \in 1 .. Len(stdin)
          /\ stdin'[k] = stdin[k + 1] /\ stdin'[l] = stdin[l + 1]
      BY <1>2
    <3> QED
      BY <3>1, <3>2 DEF LinkInv, Unread
  <2> QED
    BY <2>2, <2>4 DEF Unread
<1>7. Unused'
  <2>1. \A j \in RpcIds : j >= nextId => j # i
    BY <1>3, IdsAreNumbers DEF LinkInv, LinkTypes
  <2> QED
    BY <1>1, <1>4, <2>1 DEF LinkInv, Unused
<1>8. RanOnce'
  <2>1. \A k \in 1 .. Len(stdout) : stdout[k] \in RpcIds
    BY DEF LinkInv, LinkTypes
  <2> QED
    BY <1>1, <1>3, <1>4, <2>1 DEF LinkInv, LinkTypes, RanOnce
<1>9. Answers' /\ Waiters'
  BY <1>1, <1>3, <1>4 DEF LinkInv, Answers, Waiters, Waiting
<1> QED
  BY <1>5, <1>6, <1>7, <1>8, <1>9 DEF LinkInv

LEMMA ReplyKeeps ==
  ASSUME LinkInv, NEW i \in RpcIds, Reply(i)
  PROVE  LinkInv'
<1>1. /\ i \in working /\ working' = working \ {i} /\ stdout' = Append(stdout, i)
      /\ stdout \in Seq(RpcIds) /\ runs[i] = 1
      /\ UNCHANGED <<nextId, idOf, pending, outcome, answer, stdin, runs>>
  BY DEF Reply, LinkInv, LinkTypes, RanOnce
<1>2. stdout' \in Seq(RpcIds)
      /\ \A k \in 1 .. Len(stdout') : stdout'[k] = i \/ (k \in 1 .. Len(stdout) /\ stdout'[k] = stdout[k])
  BY <1>1
<1>3. RanOnce'
  BY <1>1, <1>2 DEF LinkInv, RanOnce
<1>4. LinkTypes'
  BY <1>1, <1>2 DEF LinkInv, LinkTypes
<1>5. Unread' /\ Unused'
  BY <1>1 DEF LinkInv, Unread, Unused
<1>6. Answers' /\ Waiters'
  BY <1>1 DEF LinkInv, Answers, Waiters, Waiting
<1> QED
  BY <1>3, <1>4, <1>5, <1>6 DEF LinkInv

LEMMA LinkInvStep == LinkInv /\ [LinkNext]_linkVars => LinkInv'
<1> SUFFICES ASSUME LinkInv, [LinkNext]_linkVars PROVE LinkInv'
  OBVIOUS
<1>1. CASE UNCHANGED linkVars
  BY <1>1 DEF linkVars, LinkInv, LinkTypes, Unread, Unused, RanOnce, Answers, Waiters, Waiting
<1>2. ASSUME NEW q \in Requests, Ask(q) \/ AskNobody(q) PROVE LinkInv'
  BY <1>2, AskKeeps, AskNobodyKeeps
<1>3. ASSUME NEW i \in RpcIds, TimedOut(i) \/ WriteFailed(i) PROVE LinkInv'
  BY <1>3, RejectKeeps DEF TimedOut, WriteFailed
<1>4. ASSUME NEW i \in RpcIds, TakeNext(i) \/ TakeAlso(i) PROVE LinkInv'
  BY <1>4, TakeUpKeeps DEF TakeNext, TakeAlso
<1>5. ASSUME NEW i \in RpcIds, Reply(i) PROVE LinkInv'
  BY <1>5, ReplyKeeps
<1>6. CASE Line
  BY <1>6, LineKeeps
<1>7. CASE Exited
  BY <1>7, ExitedKeeps
<1>8. CASE Close
  <2>1. UNCHANGED <<nextId, idOf, pending, outcome, answer, stdin, working, stdout, runs>>
    BY <1>8 DEF Close
  <2>2. LinkTypes' /\ Unread' /\ Unused'
    BY <2>1 DEF LinkInv, LinkTypes, Unread, Unused
  <2>3. RanOnce' /\ Answers' /\ Waiters'
    BY <2>1 DEF LinkInv, RanOnce, Answers, Waiters, Waiting
  <2> QED
    BY <2>2, <2>3 DEF LinkInv
<1>9. CASE Die
  BY <1>9 DEF Die, LinkInv, LinkTypes, Unread, Unused, RanOnce, Answers, Waiters, Waiting
<1> QED
  BY <1>1, <1>2, <1>3, <1>4, <1>5, <1>6, <1>7, <1>8, <1>9 DEF LinkNext

\* For any number of requests, timeouts, exits and late replies: an answered
\* request has the reply of its own call, which ran once, and the map of
\* waiters holds the ids of those that wait.
THEOREM AnswersAreOwn == LinkSpec => []OwnAnswer
<1>1. LinkInv => OwnAnswer
  BY DEF LinkInv, Answers, Waiters, OwnAnswer
<1> QED
  BY <1>1, LinkInvInit, LinkInvStep, PTL DEF LinkSpec

(***************************************************************************)
(* The ids: each request that is asked uses one up, so they never run past *)
(* the number of requests, and no two promises are found under one.        *)
(***************************************************************************)
Asked == {q \in Requests : outcome[q] # "none"}

Sent ==
  /\ nextId = Cardinality(Asked) + 1
  /\ \A q \in Requests : idOf[q] = 0 <=> outcome[q] \in {"none", "not running"}
  /\ \A q \in Requests : \A r \in Requests : idOf[q] = idOf[r] /\ idOf[q] # 0 => q = r
  /\ \A k \in 1 .. Len(stdin) : stdin[k] # 0
  /\ \A q \in Requests : answer[q] = 0 \/ answer[q] \in RpcIds

LEMMA AskedFinite == IsFiniteSet(Asked) /\ Cardinality(Asked) \in 0 .. Cardinality(Requests)
                       /\ Cardinality(Requests) \in Nat
  BY RequestsAssumption, FS_Subset, FS_CardinalityType DEF Asked

LEMMA SentInit == LinkInit => Sent
<1> SUFFICES ASSUME LinkInit PROVE Sent
  OBVIOUS
<1>1. Asked = {} /\ Cardinality({}) = 0 /\ nextId = 1
  BY FS_EmptySet DEF LinkInit, Asked
<1> QED
  BY <1>1 DEF LinkInit, Sent

\* One more request is asked.
LEMMA AskCounts ==
  ASSUME Sent, NEW q \in Requests, outcome[q] = "none",
         NEW o \in Outcomes \ {"none"}, LinkTypes,
         outcome' = [outcome EXCEPT ![q] = o], nextId' = nextId + 1
  PROVE  nextId' = Cardinality(Asked') + 1
<1>1. Asked' = Asked \cup {q} /\ q \notin Asked
  BY DEF LinkTypes, Asked
<1>2. Cardinality(Asked \cup {q}) = Cardinality(Asked) + 1
  BY <1>1, AskedFinite, FS_AddElement
<1> QED
  BY <1>1, <1>2 DEF Sent

\* What settles waiters leaves the ids and who was asked as they are.
LEMMA SettleKeepsSent ==
  ASSUME LinkInv, Sent, UNCHANGED <<nextId, idOf, stdin>>,
         \A q \in Requests : outcome'[q] = outcome[q]
                               \/ (q \in Waiting /\ outcome'[q] \notin {"none", "not running"}),
         \A q \in Requests : answer'[q] = answer[q] \/ answer'[q] \in RpcIds
  PROVE  Sent'
<1>1. Asked' = Asked
  BY DEF Asked, Waiting
<1>2. \A q \in Requests :
        outcome'[q] \in {"none", "not running"} <=> outcome[q] \in {"none", "not running"}
  BY DEF Waiting
<1> QED
  BY <1>1, <1>2 DEF Sent

LEMMA AskSends ==
  ASSUME LinkInv, Sent, NEW q \in Requests, Ask(q)
  PROVE  Sent'
<1>1. /\ idOf' = [idOf EXCEPT ![q] = nextId] /\ nextId' = nextId + 1
      /\ outcome' = [outcome EXCEPT ![q] = "waits"] /\ outcome[q] = "none"
      /\ answer' = answer /\ (stdin' = Append(stdin, nextId) \/ stdin' = stdin)
  BY DEF Ask
<1>2. LinkTypes /\ "waits" \in Outcomes \ {"none"}
  BY DEF LinkInv, Outcomes
<1>3. nextId' = Cardinality(Asked') + 1
  BY <1>1, <1>2, AskCounts
<1>4. /\ idOf \in [Requests -> Nat] /\ nextId \in Nat /\ nextId # 0 /\ stdin \in Seq(Nat)
      /\ outcome \in [Requests -> Outcomes] /\ \A r \in Requests : idOf[r] # nextId
  BY <1>2 DEF LinkTypes
<1>5. /\ idOf'[q] = nextId /\ outcome'[q] = "waits"
      /\ \A r \in Requests \ {q} : idOf'[r] = idOf[r] /\ outcome'[r] = outcome[r]
  BY <1>1, <1>4
<1>6. \A r \in Requests : idOf'[r] = 0 <=> outcome'[r] \in {"none", "not running"}
  <2> SUFFICES ASSUME NEW r \in Requests
               PROVE  idOf'[r] = 0 <=> outcome'[r] \in {"none", "not running"}
    OBVIOUS
  <2>1. CASE r = q
    BY <1>4, <1>5, <2>1
  <2>2. CASE r # q
    BY <1>5, <2>2 DEF Sent
  <2> QED
    BY <2>1, <2>2
<1>7. \A r \in Requests : \A s \in Requests : idOf'[r] = idOf'[s] /\ idOf'[r] # 0 => r = s
  <2> SUFFICES ASSUME NEW r \in Requests, NEW s \in Requests, idOf'[r] = idOf'[s], idOf'[r] # 0
               PROVE  r = s
    OBVIOUS
  <2>1. CASE r = q \/ s = q
    BY <1>4, <1>5, <2>1
  <2>2. CASE r # q /\ s # q
    BY <1>5, <2>2 DEF Sent
  <2> QED
    BY <2>1, <2>2
<1>8. \A k \in 1 .. Len(stdin') : stdin'[k] # 0
  <2>1. CASE stdin' = stdin
    BY <2>1 DEF Sent
  <2>2. CASE stdin' = Append(stdin, nextId)
    <3>1. \A k \in 1 .. Len(stdin') : stdin'[k] = nextId \/ (k \in 1 .. Len(stdin) /\ stdin'[k] = stdin[k])
      BY <1>4, <2>2
    <3> QED
      BY <1>4, <3>1 DEF Sent
  <2> QED
    BY <1>1, <2>1, <2>2
<1> QED
  BY <1>1, <1>3, <1>6, <1>7, <1>8 DEF Sent

LEMMA AskNobodySends ==
  ASSUME LinkInv, Sent, NEW q \in Requests, AskNobody(q)
  PROVE  Sent'
<1>1. /\ outcome' = [outcome EXCEPT ![q] = "not running"] /\ nextId' = nextId + 1
      /\ outcome[q] = "none" /\ UNCHANGED <<idOf, answer, stdin>>
  BY DEF AskNobody
<1>2. LinkTypes /\ "not running" \in Outcomes \ {"none"}
  BY DEF LinkInv, Outcomes
<1>3. nextId' = Cardinality(Asked') + 1
  BY <1>1, <1>2, AskCounts
<1>4. \A r \in Requests : outcome'[r] \in {"none", "not running"} <=> outcome[r] \in {"none", "not running"}
  BY <1>1, <1>2 DEF LinkTypes
<1> QED
  BY <1>1, <1>3, <1>4 DEF Sent

\* Steps of the server shorten the pipe or leave it.
LEMMA ServerSends ==
  ASSUME LinkInv, Sent, UNCHANGED <<nextId, idOf, outcome, answer>>,
         \A k \in 1 .. Len(stdin') : stdin'[k] # 0
  PROVE  Sent'
  BY DEF Sent, Asked

LEMMA SentStep == LinkInv /\ Sent /\ [LinkNext]_linkVars => Sent'
<1> SUFFICES ASSUME LinkInv, Sent, [LinkNext]_linkVars PROVE Sent'
  OBVIOUS
<1>0. ASSUME UNCHANGED <<nextId, idOf, outcome, answer, stdin>> PROVE Sent'
  BY <1>0 DEF Sent, Asked
<1>1. CASE UNCHANGED linkVars
  BY <1>0, <1>1 DEF linkVars
<1>2. ASSUME NEW q \in Requests, Ask(q) \/ AskNobody(q) PROVE Sent'
  BY <1>2, AskSends, AskNobodySends
<1>3. ASSUME NEW i \in RpcIds, TimedOut(i) \/ WriteFailed(i) PROVE Sent'
  <2>1. PICK why \in {"timeout", "unsent"} : Rejected(i, why)
    BY <1>3 DEF TimedOut, WriteFailed
  <2>2. UNCHANGED <<nextId, idOf, stdin>>
    BY <1>3 DEF TimedOut, WriteFailed
  <2>3. /\ outcome' = [q \in Requests |-> IF q \in Owner(i) THEN why ELSE outcome[q]]
        /\ answer' = answer
    BY <2>1 DEF Rejected
  <2>4. \A q \in Requests : outcome'[q] = outcome[q]
                               \/ (q \in Waiting /\ outcome'[q] \notin {"none", "not running"})
    BY <2>3 DEF Owner, Waiting
  <2> QED
    BY <2>2, <2>3, <2>4, SettleKeepsSent
<1>4. ASSUME NEW i \in RpcIds, TakeNext(i) \/ TakeAlso(i) PROVE Sent'
  <2>1. stdin # <<>> /\ stdin' = Tail(stdin) /\ UNCHANGED <<nextId, idOf, outcome, answer>>
    BY <1>4 DEF TakeNext, TakeAlso, TakeUp
  <2>2. stdin \in Seq(Nat)
    BY DEF LinkInv, LinkTypes
  <2>3. \A k \in 1 .. Len(stdin') : k + 1 \in 1 .. Len(stdin) /\ stdin'[k] = stdin[k + 1]
    BY <2>1, <2>2
  <2>4. \A k \in 1 .. Len(stdin') : stdin'[k] # 0
    BY <2>3 DEF Sent
  <2> QED
    BY <2>1, <2>4, ServerSends
<1>5. ASSUME NEW i \in RpcIds, Reply(i) PROVE Sent'
  BY <1>0, <1>5 DEF Reply
<1>6. CASE Line
  <2>1. UNCHANGED <<nextId, idOf, stdin>>
    BY <1>6 DEF Line
  <2>2. CASE Head(stdout) \notin pending
    BY <1>0, <1>6, <2>1, <2>2 DEF Line
  <2>3. CASE Head(stdout) \in pending
    <3> DEFINE i == Head(stdout)
    <3>1. i \in RpcIds
      BY <1>6 DEF Line, LinkInv, LinkTypes
    <3>2. /\ outcome' = [q \in Requests |-> IF q \in Owner(i) THEN "answered" ELSE outcome[q]]
          /\ answer' = [q \in Requests |-> IF q \in Owner(i) THEN i ELSE answer[q]]
      BY <1>6, <2>3 DEF Line, Resolved
    <3> HIDE DEF i
    <3>3. /\ \A q \in Requests : outcome'[q] = outcome[q]
                \/ (q \in Waiting /\ outcome'[q] \notin {"none", "not running"})
          /\ \A q \in Requests : answer'[q] = answer[q] \/ answer'[q] \in RpcIds
      BY <3>1, <3>2 DEF Owner, Waiting
    <3> QED
      BY <2>1, <3>3, SettleKeepsSent
  <2> QED
    BY <2>2, <2>3
<1>7. CASE Exited
  <2>1. /\ outcome' = [q \in Requests |-> IF idOf[q] \in pending THEN "exited" ELSE outcome[q]]
        /\ UNCHANGED <<nextId, idOf, answer, stdin>>
    BY <1>7 DEF Exited
  <2>2. ASSUME NEW q \in Requests, idOf[q] \in pending PROVE q \in Waiting
    <3>1. PICK r \in Waiting : idOf[q] = idOf[r]
      BY <2>2 DEF LinkInv, Waiters
    <3>2. idOf[r] # 0 /\ r \in Requests
      BY DEF Sent, Waiting
    <3> QED
      BY <3>1, <3>2 DEF Sent
  <2>3. \A q \in Requests : outcome'[q] = outcome[q]
                               \/ (q \in Waiting /\ outcome'[q] \notin {"none", "not running"})
    BY <2>1, <2>2
  <2> QED
    BY <2>1, <2>3, SettleKeepsSent
<1>8. CASE Close
  BY <1>0, <1>8 DEF Close
<1>9. CASE Die
  <2>1. stdin' = <<>> /\ UNCHANGED <<nextId, idOf, outcome, answer>>
    BY <1>9 DEF Die
  <2> QED
    BY <2>1, ServerSends
<1> QED
  BY <1>1, <1>2, <1>3, <1>4, <1>5, <1>6, <1>7, <1>8, <1>9 DEF LinkNext

LEMMA SentHolds == LinkSpec => [](LinkInv /\ Sent)
  BY LinkInvInit, LinkInvStep, SentInit, SentStep, PTL DEF LinkSpec

\* For any number of requests: every id is within the ids the module counts
\* with, so that a bound on them leaves no call of the server out, and no
\* variable leaves its type.
THEOREM LinkTyped == LinkSpec => []LinkTypeOK
<1> DEFINE Ends == /\ serial \in BOOLEAN /\ child \in {"up", "dead", "gone"}
                   /\ killed \in BOOLEAN /\ coded \in BOOLEAN
<1>1. LinkInit => Ends
  BY DEF LinkInit
<1>2. Ends /\ [LinkNext]_linkVars => Ends'
  <2> SUFFICES ASSUME Ends, [LinkNext]_linkVars PROVE Ends'
    OBVIOUS
  <2>1. serial' = serial
    BY DEF LinkNext, linkVars, Ask, AskNobody, TimedOut, WriteFailed, TakeNext, TakeAlso, TakeUp,
           Reply, Line, Exited, Close, Die
  <2>2. child' \in {child, "dead", "gone"} /\ killed' \in {killed, TRUE} /\ coded' \in {coded, TRUE, FALSE}
    BY DEF LinkNext, linkVars, Ask, AskNobody, TimedOut, WriteFailed, TakeNext, TakeAlso, TakeUp,
           Reply, Line, Exited, Close, Die
  <2> QED
    BY <2>1, <2>2
<1>3. ASSUME LinkInv, Sent, Ends PROVE LinkTypeOK
  <2> DEFINE n == Cardinality(Requests)
  <2>0. nextId = Cardinality(Asked) + 1 /\ Cardinality(Asked) \in 0 .. n /\ n \in Nat
    BY <1>3, AskedFinite DEF Sent
  <2>1. n \in Nat /\ nextId \in 1 .. n + 1 /\ RpcIds = 1 .. n
    <3> HIDE DEF n
    <3>1. nextId \in 1 .. n + 1
      BY <2>0
    <3>2. RpcIds = 1 .. n
      BY DEF RpcIds, n
    <3> QED
      BY <2>0, <3>1, <3>2
  <2>2. LinkTypes
    BY <1>3 DEF LinkInv
  <2> HIDE DEF n
  <2>3. idOf \in [Requests -> 0 .. n]
    <3>1. \A q \in Requests : idOf[q] \in 0 .. n
      BY <2>1, <2>2 DEF LinkTypes
    <3> QED
      BY <2>2, <3>1 DEF LinkTypes
  <2>4. answer \in [Requests -> 0 .. n]
    <3>1. \A q \in Requests : answer[q] = 0 \/ answer[q] \in 1 .. n
      BY <1>3, <2>1 DEF Sent
    <3>2. \A q \in Requests : answer[q] \in 0 .. n
      BY <2>1, <3>1
    <3> QED
      BY <2>2, <3>2 DEF LinkTypes
  <2>5. pending \subseteq RpcIds
    <3> SUFFICES ASSUME NEW i \in pending PROVE i \in RpcIds
      OBVIOUS
    <3>1. PICK q \in Waiting : i = idOf[q]
      BY <1>3 DEF LinkInv, Waiters
    <3>2. idOf[q] # 0 /\ q \in Requests
      BY <1>3 DEF Sent, Waiting
    <3> QED
      BY <2>1, <2>3, <3>1, <3>2
  <2>6. stdin \in Seq(RpcIds)
    <3>1. stdin \in Seq(Nat) /\ Len(stdin) \in Nat /\ stdin \in [1 .. Len(stdin) -> Nat]
      BY <2>2 DEF LinkTypes
    <3>2. \A k \in 1 .. Len(stdin) : stdin[k] \in Nat /\ stdin[k] # 0 /\ stdin[k] < nextId
      BY <1>3, <3>1 DEF LinkInv, Unread, Sent
    <3>3. \A k \in 1 .. Len(stdin) : stdin[k] \in RpcIds
      BY <2>1, <3>2
    <3>4. stdin \in [1 .. Len(stdin) -> RpcIds]
      BY <3>1, <3>3
    <3>5. \A m \in Nat : \A f \in [1 .. m -> RpcIds] : f \in Seq(RpcIds)
      OBVIOUS
    <3> QED
      BY <3>1, <3>4, <3>5
  <2> QED
    BY <1>3, <2>1, <2>2, <2>3, <2>4, <2>5, <2>6 DEF LinkTypeOK, LinkTypes, Outcomes, n
<1> QED
  BY <1>1, <1>2, <1>3, SentHolds, PTL DEF LinkSpec

\* What a promise came to, and with which reply, it keeps.
SettledStay ==
  [][\A q \in Requests :
       outcome[q] \notin {"none", "waits"} => outcome'[q] = outcome[q] /\ answer'[q] = answer[q]]_linkVars

\* In every order of the timer, the callback of write, the exit of the child
\* and the lines that come from it, late ones and the last ones after the exit
\* included: the first of them to settle a promise is the only one.
THEOREM PromisesSettleOnce == LinkSpec => SettledStay
<1> DEFINE Step == \A q \in Requests :
                     outcome[q] \notin {"none", "waits"}
                       => outcome'[q] = outcome[q] /\ answer'[q] = answer[q]
<1>1. LinkInv /\ Sent /\ [LinkNext]_linkVars => [Step]_linkVars
  <2> SUFFICES ASSUME LinkInv, Sent, LinkNext, NEW q \in Requests, outcome[q] \notin {"none", "waits"}
               PROVE  outcome'[q] = outcome[q] /\ answer'[q] = answer[q]
    OBVIOUS
  <2>1. outcome \in [Requests -> Outcomes]
    BY DEF LinkInv, LinkTypes
  <2>2. ASSUME NEW r \in Requests, Ask(r) \/ AskNobody(r)
        PROVE  outcome'[q] = outcome[q] /\ answer'[q] = answer[q]
    <3>1. r # q
      BY <2>2 DEF Ask, AskNobody
    <3> QED
      BY <2>1, <2>2, <3>1 DEF Ask, AskNobody
  <2>3. ASSUME NEW i \in RpcIds, TimedOut(i) \/ WriteFailed(i)
        PROVE  outcome'[q] = outcome[q] /\ answer'[q] = answer[q]
    BY <2>3 DEF TimedOut, WriteFailed, Rejected, Owner
  <2>4. ASSUME NEW i \in RpcIds, TakeNext(i) \/ TakeAlso(i) \/ Reply(i)
        PROVE  outcome'[q] = outcome[q] /\ answer'[q] = answer[q]
    BY <2>4 DEF TakeNext, TakeAlso, TakeUp, Reply
  <2>5. CASE Line
    BY <2>5 DEF Line, Resolved, Owner
  <2>6. CASE Exited
    <3>1. idOf[q] \notin pending
      <4> SUFFICES ASSUME idOf[q] \in pending PROVE FALSE
        OBVIOUS
      <4>1. PICK r \in Waiting : idOf[q] = idOf[r]
        BY DEF LinkInv, Waiters
      <4>2. r \in Requests /\ outcome[r] = "waits" /\ idOf[r] # 0
        BY DEF Sent, Waiting
      <4> QED
        BY <4>1, <4>2 DEF Sent
    <3> QED
      BY <2>6, <3>1 DEF Exited
  <2>7. CASE Close \/ Die
    BY <2>7 DEF Close, Die
  <2> QED
    BY <2>2, <2>3, <2>4, <2>5, <2>6, <2>7 DEF LinkNext
<1> QED
  BY <1>1, SentHolds, PTL DEF LinkSpec, SettledStay

-----------------------------------------------------------------------------
(***************************************************************************)
(* The record of the tool calls, for every set of tenants, of policies, of *)
(* events and of reads, and for every cap of the ring.                     *)
(***************************************************************************)
Levels == {"absent", "clear", "masked", "redacted"}
Events == [id : Nat, tenant : TenantIds \cup {Nobody}, tool : BOOLEAN, named : BOOLEAN,
           arguments : Levels, result : Levels, hash : BOOLEAN]

\* An event has its hash as soon as its arguments are replaced, and not before:
\* once they are, it can no longer be computed.
Hashed(e) == e.hash = (e.named /\ e.arguments = "redacted")

(***************************************************************************)
(* The inductive invariant.  NoGaps counts the events after one in the     *)
(* ring and the file, which two histories cut differently; so it is kept   *)
(* of the log that both are parts of, whose numbers name its events.       *)
(***************************************************************************)
Numbered ==
  /\ \A e \in log : e.id \in 1 .. Cardinality(log)
  /\ \A e \in log : \A f \in log : e.id = f.id => e = f

LogTypes ==
  /\ policy \in Policies
  /\ log \subseteq Events /\ IsFiniteSet(log)
  /\ \A e \in log : Hashed(e)
  /\ ring \subseteq log /\ file \subseteq log

Saved == \A e \in log : e.id \notin unsaved => e \in file
Held ==
  \A e \in log :
    e.id \notin gone /\ (RingMax = 0 \/ Cardinality(Newer(e)) < RingMax) => e \in ring

AuditInv == LogTypes /\ Numbered /\ Saved /\ Held

-----------------------------------------------------------------------------
\* What redaction does to an event.
LEMMA MaskedStays ==
  ASSUME NEW e \in Events, NEW p \in Policies, Hashed(e)
  PROVE  /\ MaskedEvent(e, p) \in Events /\ Hashed(MaskedEvent(e, p))
         /\ MaskedEvent(e, p).id = e.id /\ MaskedEvent(e, p).tenant = e.tenant
         /\ MaskedEvent(e, p).named = e.named
         /\ \A f \in Fields :
              /\ MaskedEvent(e, p)[f] = "clear" => e[f] = "clear" /\ f \notin p.walks
              /\ e[f] = "redacted" => MaskedEvent(e, p)[f] = "redacted"
<1> DEFINE a == IF "arguments" \in p.walks THEN MaskedField(e.arguments) ELSE e.arguments
           b == IF "result" \in p.walks THEN MaskedField(e.result) ELSE e.result
<1>1. a \in Levels /\ b \in Levels
  BY DEF Events, Levels, MaskedField
<1>2. /\ a = "clear" => e.arguments = "clear" /\ "arguments" \notin p.walks
      /\ b = "clear" => e.result = "clear" /\ "result" \notin p.walks
      /\ a = "redacted" <=> e.arguments = "redacted"
      /\ e.result = "redacted" => b = "redacted"
  BY DEF Events, Levels, MaskedField
<1>3. MaskedEvent(e, p) = [e EXCEPT !.arguments = a, !.result = b]
  BY DEF MaskedEvent
<1> HIDE DEF a, b
<1>4. MaskedEvent(e, p) \in Events
  BY <1>1, <1>3 DEF Events
<1>5. /\ MaskedEvent(e, p).arguments = a /\ MaskedEvent(e, p).result = b
      /\ MaskedEvent(e, p).id = e.id /\ MaskedEvent(e, p).tenant = e.tenant
      /\ MaskedEvent(e, p).named = e.named /\ MaskedEvent(e, p).hash = e.hash
  BY <1>3 DEF Events
<1>6. Hashed(MaskedEvent(e, p))
  BY <1>2, <1>5 DEF Hashed
<1>7. ASSUME NEW f \in Fields
      PROVE  /\ MaskedEvent(e, p)[f] = "clear" => e[f] = "clear" /\ f \notin p.walks
             /\ e[f] = "redacted" => MaskedEvent(e, p)[f] = "redacted"
  BY <1>2, <1>5 DEF Fields
<1> QED
  BY <1>4, <1>5, <1>6, <1>7

LEMMA RedactedEvent ==
  ASSUME NEW e \in Events, Hashed(e)
  PROVE  /\ Redacted(e) \in Events /\ Hashed(Redacted(e))
         /\ Redacted(e).id = e.id /\ Redacted(e).tenant = e.tenant
         /\ Redacted(e).named = e.named
         /\ \A f \in Fields : Redacted(e)[f] \in {"absent", "redacted"}
         /\ \A f \in Fields : e[f] = "redacted" => Redacted(e)[f] = "redacted"
<1> DEFINE a == RedactedField(e.arguments)
           b == RedactedField(e.result)
           h == e.hash \/ (e.named /\ e.arguments \in {"clear", "masked"})
<1>1. /\ a \in {"absent", "redacted"} /\ b \in {"absent", "redacted"}
      /\ e.arguments = "redacted" => a = "redacted"
      /\ e.result = "redacted" => b = "redacted"
  BY DEF RedactedField
<1>2. h \in BOOLEAN /\ h = (e.named /\ a = "redacted")
  <2>1. e.hash \in BOOLEAN /\ e.named \in BOOLEAN /\ e.arguments \in Levels
    BY DEF Events
  <2>2. a = "redacted" <=> e.arguments \in {"clear", "masked", "redacted"}
    BY <2>1 DEF RedactedField, Levels
  <2> HIDE DEF a
  <2> QED
    BY <2>1, <2>2, Zenon DEF Hashed
<1>3. Redacted(e) = [e EXCEPT !.hash = h, !.arguments = a, !.result = b]
  BY DEF Redacted
<1> HIDE DEF a, b, h
<1>4. Redacted(e) \in Events
  BY <1>1, <1>2, <1>3 DEF Events, Levels
<1>5. /\ Redacted(e).arguments = a /\ Redacted(e).result = b
      /\ Redacted(e).id = e.id /\ Redacted(e).tenant = e.tenant
      /\ Redacted(e).named = e.named /\ Redacted(e).hash = h
  BY <1>3 DEF Events
<1>6. Hashed(Redacted(e))
  BY <1>2, <1>5 DEF Hashed
<1>7. /\ \A f \in Fields : Redacted(e)[f] \in {"absent", "redacted"}
      /\ \A f \in Fields : e[f] = "redacted" => Redacted(e)[f] = "redacted"
  BY <1>1, <1>5 DEF Fields
<1> QED
  BY <1>4, <1>5, <1>6, <1>7

-----------------------------------------------------------------------------
(***************************************************************************)
(* The newest n of a part of the events have every event of the part that  *)
(* fewer than n of all the events follow.                                  *)
(***************************************************************************)
LEMMA LatestHas ==
  ASSUME NEW L, IsFiniteSet(L), \A f \in L : f.id \in Nat,
         \A f \in L : \A g \in L : f.id = g.id => f = g,
         NEW S, S \subseteq L, NEW e \in S, NEW n \in Nat,
         n = 0 \/ Cardinality({f \in L : f.id > e.id}) < n
  PROVE  e \in Latest(S, n)
<1> DEFINE after == {f \in L : f.id > e.id}
           from == {f \in S : f.id >= e.id}
<1> SUFFICES ASSUME n # 0 PROVE Cardinality(from) <= n
  BY DEF Latest
<1>1. IsFiniteSet(after)
  BY FS_Subset
<1>2. IsFiniteSet(after \cup {e}) /\ Cardinality(after \cup {e}) = Cardinality(after) + 1
  <2>1. e \notin after
    OBVIOUS
  <2> HIDE DEF after
  <2> QED
    BY <1>1, <2>1, FS_AddElement
<1>3. from \subseteq after \cup {e}
  OBVIOUS
<1>4. Cardinality(from) <= Cardinality(after \cup {e})
  BY <1>2, <1>3, FS_Subset
<1>5. Cardinality(after) \in Nat /\ Cardinality(from) \in Nat
  BY <1>1, <1>2, <1>3, FS_Subset, FS_CardinalityType
<1>6. Cardinality(after) < n
  OBVIOUS
<1> HIDE DEF after, from
<1> QED
  BY <1>2, <1>4, <1>5, <1>6

LEMMA LatestWithin == ASSUME NEW S, NEW n PROVE Latest(S, n) \subseteq S
  BY DEF Latest

-----------------------------------------------------------------------------
LEMMA AuditInvInit == AuditInit => AuditInv
<1> SUFFICES ASSUME AuditInit PROVE AuditInv
  OBVIOUS
<1>1. log = {} /\ ring = {} /\ file = {} /\ policy \in Policies
  BY DEF AuditInit
<1>2. IsFiniteSet(log)
  BY <1>1, FS_EmptySet
<1> QED
  BY <1>1, <1>2 DEF AuditInv, LogTypes, Numbered, Saved, Held

\* The event that is kept is one with a number of its own.
LEMMA NewEvent ==
  ASSUME AuditInv, NEW kind \in EventKinds
  PROVE  LET e == ToWrite(Event(Cardinality(log) + 1, kind))
         IN e \in Events /\ Hashed(e) /\ e.id = Cardinality(log) + 1
<1> DEFINE c == Event(Cardinality(log) + 1, kind)
<1>1. Cardinality(log) \in Nat /\ policy \in Policies
  BY FS_CardinalityType DEF AuditInv, LogTypes
<1>2. kind \in [tenant : TenantIds \cup {Nobody}, tool : BOOLEAN, named : BOOLEAN]
  BY AuditKinds
<1>3. Payload(kind) \in {"absent", "clear"}
  BY DEF Payload
<1>4. c \in Events /\ c.id = Cardinality(log) + 1
  BY <1>1, <1>2, <1>3 DEF Event, Events, Levels
<1>5. c.hash = FALSE /\ c.arguments # "redacted"
  BY <1>3 DEF Event
<1>6. Hashed(c)
  BY <1>5, Zenon DEF Hashed
<1> HIDE DEF c
<1>7. /\ MaskedEvent(c, policy) \in Events /\ Hashed(MaskedEvent(c, policy))
      /\ MaskedEvent(c, policy).id = c.id
  BY <1>1, <1>4, <1>6, MaskedStays
<1>8. /\ Redacted(MaskedEvent(c, policy)) \in Events /\ Hashed(Redacted(MaskedEvent(c, policy)))
      /\ Redacted(MaskedEvent(c, policy)).id = c.id
  BY <1>7, RedactedEvent
<1>9. ToWrite(c) \in {MaskedEvent(c, policy), Redacted(MaskedEvent(c, policy))}
  BY DEF ToWrite
<1>10. ToWrite(c) \in Events /\ Hashed(ToWrite(c)) /\ ToWrite(c).id = Cardinality(log) + 1
  BY <1>4, <1>7, <1>8, <1>9, Zenon
<1> QED
  BY <1>10 DEF c

LEMMA RecordKeeps ==
  ASSUME AuditInv, RecordNext
  PROVE  AuditInv'
<1>1. PICK kind \in EventKinds : Record(Event(Cardinality(log) + 1, kind))
  BY DEF RecordNext
<1> DEFINE e == ToWrite(Event(Cardinality(log) + 1, kind))
<1>2. e \in Events /\ Hashed(e) /\ e.id = Cardinality(log) + 1
  BY NewEvent
<1>3. /\ ring' = Latest(ring \cup {e}, RingMax) /\ Appended(e)
      /\ log' = log \cup {e} /\ policy' = policy /\ gone' = gone
  BY <1>1 DEF Record
<1> HIDE DEF e
<1>4. /\ policy \in Policies /\ log \subseteq Events /\ IsFiniteSet(log)
      /\ ring \subseteq log /\ file \subseteq log /\ \A f \in log : Hashed(f)
      /\ Cardinality(log) \in Nat
  BY FS_CardinalityType DEF AuditInv, LogTypes
<1>5. /\ \A f \in log : f.id \in 1 .. Cardinality(log)
      /\ \A f \in log : \A g \in log : f.id = g.id => f = g
  BY DEF AuditInv, Numbered
<1>6. e \notin log
  BY <1>2, <1>4, <1>5
<1>7. IsFiniteSet(log') /\ Cardinality(log') = Cardinality(log) + 1
  BY <1>3, <1>4, <1>6, FS_AddElement
<1>8. /\ \/ file' = file \cup {e} /\ unsaved \subseteq unsaved'
         \/ file' \in {file, Ended} /\ e.id \in unsaved' /\ unsaved \subseteq unsaved'
  BY <1>3 DEF Appended
<1>9. Ended \subseteq file
  BY DEF Ended
<1>10. LogTypes'
  <2>1. ring' \subseteq log'
    BY <1>3, <1>4, LatestWithin
  <2>2. file' \subseteq log'
    BY <1>3, <1>4, <1>8, <1>9
  <2>3. log' \subseteq Events /\ \A f \in log' : Hashed(f)
    BY <1>2, <1>3, <1>4
  <2> QED
    BY <1>3, <1>4, <1>7, <2>1, <2>2, <2>3 DEF LogTypes, Hashed
<1>11. Numbered'
  <2>1. ASSUME NEW f \in log' PROVE f.id \in 1 .. Cardinality(log')
    BY <1>2, <1>3, <1>4, <1>5, <1>7
  <2>2. ASSUME NEW f \in log', NEW g \in log', f.id = g.id PROVE f = g
    BY <1>2, <1>3, <1>4, <1>5, <2>2
  <2> QED
    BY <2>1, <2>2 DEF Numbered
<1>12. Saved'
  <2> SUFFICES ASSUME NEW f \in log', f.id \notin unsaved' PROVE f \in file'
    BY DEF Saved
  <2>1. f = e \/ (f \in log /\ f.id \notin unsaved)
    BY <1>3, <1>8
  <2>2. CASE f = e
    BY <1>8, <2>2
  <2>3. CASE f \in log /\ f.id \notin unsaved
    BY <1>8, <2>3 DEF AuditInv, Saved, Ended
  <2> QED
    BY <2>1, <2>2, <2>3
<1>13. Held'
  <2> SUFFICES ASSUME NEW f \in log', f.id \notin gone',
                      RingMax = 0 \/ Cardinality(Newer(f)') < RingMax
               PROVE  f \in ring'
    BY DEF Held
  <2>1. f \in ring \cup {e}
    <3> SUFFICES ASSUME f \in log PROVE f \in ring
      BY <1>3
    <3>1. Newer(f) \subseteq Newer(f)' /\ Newer(f)' \subseteq log'
      BY <1>3 DEF Newer
    <3>2. IsFiniteSet(Newer(f)')
      BY <1>7, <3>1, FS_Subset
    <3>3. Cardinality(Newer(f)) <= Cardinality(Newer(f)')
      BY <3>1, <3>2, FS_Subset
    <3>4. Cardinality(Newer(f)) \in Nat /\ Cardinality(Newer(f)') \in Nat
      BY <3>1, <3>2, FS_Subset, FS_CardinalityType
    <3>5. RingMax = 0 \/ Cardinality(Newer(f)) < RingMax
      BY <3>3, <3>4, AuditBounds
    <3> QED
      BY <1>3, <3>5 DEF AuditInv, Held
  <2>2. ring \cup {e} \subseteq log'
    BY <1>3, <1>4
  <2>3. /\ \A g \in log' : g.id \in Nat
        /\ \A g \in log' : \A h \in log' : g.id = h.id => g = h
    BY <1>7, <1>11 DEF Numbered
  <2>4. RingMax = 0 \/ Cardinality({g \in log' : g.id > f.id}) < RingMax
    BY DEF Newer
  <2>5. f \in Latest(ring \cup {e}, RingMax)
    BY <1>7, <2>1, <2>2, <2>3, <2>4, AuditBounds, LatestHas
  <2> QED
    BY <1>3, <2>5
<1> QED
  BY <1>10, <1>11, <1>12, <1>13 DEF AuditInv

\* A new process has of the file what the old one had of the ring.
LEMMA RestartKeeps ==
  ASSUME AuditInv, Restart
  PROVE  AuditInv'
<1>1. /\ ring' = Latest(file, RingMax) /\ gone' = unsaved /\ policy' \in Policies
      /\ file' = file /\ log' = log /\ unsaved' = unsaved
  BY DEF Restart
<1>2. LogTypes' /\ Numbered' /\ Saved'
  BY <1>1, LatestWithin DEF AuditInv, LogTypes, Numbered, Saved, Hashed
<1>3. Held'
  <2> SUFFICES ASSUME NEW f \in log', f.id \notin gone',
                      RingMax = 0 \/ Cardinality(Newer(f)') < RingMax
               PROVE  f \in ring'
    BY DEF Held
  <2>1. f \in file /\ file \subseteq log /\ IsFiniteSet(log)
    BY <1>1 DEF AuditInv, Saved, LogTypes
  <2>2. /\ \A g \in log : g.id \in Nat
        /\ \A g \in log : \A h \in log : g.id = h.id => g = h
    BY <2>1, FS_CardinalityType DEF AuditInv, Numbered
  <2>3. RingMax = 0 \/ Cardinality({g \in log : g.id > f.id}) < RingMax
    BY <1>1 DEF Newer
  <2>4. f \in Latest(file, RingMax)
    BY <2>1, <2>2, <2>3, AuditBounds, LatestHas
  <2> QED
    BY <1>1, <2>4
<1> QED
  BY <1>2, <1>3 DEF AuditInv

LEMMA AuditInvStep == AuditInv /\ [AuditNext]_auditVars => AuditInv'
<1> SUFFICES ASSUME AuditInv, [AuditNext]_auditVars PROVE AuditInv'
  OBVIOUS
<1>1. CASE UNCHANGED auditVars
  BY <1>1 DEF auditVars, AuditInv, LogTypes, Numbered, Saved, Held, Newer, Hashed
<1>2. CASE RecordNext
  BY <1>2, RecordKeeps
<1>3. CASE ReloadPolicy
  BY <1>3 DEF ReloadPolicy, AuditInv, LogTypes, Numbered, Saved, Held, Newer, Hashed
<1>4. CASE Restart
  BY <1>4, RestartKeeps
<1> QED
  BY <1>1, <1>2, <1>3, <1>4 DEF AuditNext

LEMMA AuditAlways == AuditSpec => []AuditInv
  BY AuditInvInit, AuditInvStep, PTL DEF AuditSpec

-----------------------------------------------------------------------------
\* An answer has recorded events that were found, in the form that is shown.
LEMMA ViewOf ==
  ASSUME AuditInv, NEW r \in Reads, NEW s \in View(r)
  PROVE  \E e \in log : e \in Found(r) /\ Matches(e, r) /\ s = Shown(e, r)
<1>1. PICK e \in Found(r) : s = Shown(e, r)
  BY DEF View
<1>2. e \in log /\ Matches(e, r)
  BY LatestWithin DEF Found, AuditInv, LogTypes
<1> QED
  BY <1>1, <1>2

\* A read that leaves the fields in: neither it nor the default has them out.
Unasked(r) == r.redact # "yes" /\ (r.redact = "no" \/ ~PolicyOf(r).byDefault)

LEMMA ShownEvent ==
  ASSUME NEW e \in Events, Hashed(e), policy \in Policies, NEW r \in Reads
  PROVE  LET s == Shown(e, r)
         IN /\ s.id = e.id
            /\ s.arguments = "redacted" => s.hash = s.named
            /\ \A f \in Fields :
                 /\ s[f] = "clear" => e[f] = "clear" /\ f \notin PolicyOf(r).walks
                 /\ s[f] \in {"clear", "masked"} => Unasked(r)
                 /\ e[f] = "redacted" => s[f] \in {"redacted", "absent"}
<1> DEFINE s == Shown(e, r)
           p == PolicyOf(r)
           m == MaskedEvent(e, p)
<1>1. p \in Policies
  BY AuditReads DEF PolicyOf
<1>2. /\ m \in Events /\ Hashed(m) /\ m.id = e.id
      /\ \A f \in Fields :
           /\ m[f] = "clear" => e[f] = "clear" /\ f \notin p.walks
           /\ e[f] = "redacted" => m[f] = "redacted"
  BY <1>1, MaskedStays
<1>3. /\ Redacted(m).id = e.id /\ Hashed(Redacted(m))
      /\ Redacted(m) \in Events
      /\ \A f \in Fields : Redacted(m)[f] \in {"absent", "redacted"}
  BY <1>2, RedactedEvent
<1>4. s = (IF Tabular(r) THEN Columns(e) ELSE IF Redacts(r) THEN Redacted(m) ELSE m)
  BY DEF Shown
<1> HIDE DEF m, p, s
<1> SUFFICES /\ s.id = e.id
             /\ s.arguments = "redacted" => s.hash = s.named
             /\ \A f \in Fields :
                  /\ s[f] = "clear" => e[f] = "clear" /\ f \notin p.walks
                  /\ s[f] \in {"clear", "masked"} => Unasked(r)
                  /\ e[f] = "redacted" => s[f] \in {"redacted", "absent"}
  BY DEF s, p
<1>5. CASE s = Columns(e)
  <2>1. s.id = e.id /\ s.arguments = "absent" /\ s.result = "absent"
    BY <1>5 DEF Columns, Events
  <2> QED
    BY <2>1 DEF Fields
<1>6. CASE s = Redacted(m)
  <2>1. s.arguments = "redacted" => s.hash = s.named
    BY <1>3, <1>6 DEF Hashed, Events
  <2>2. \A f \in Fields : s[f] \notin {"clear", "masked"} /\ s[f] \in {"redacted", "absent"}
    BY <1>3, <1>6
  <2> QED
    BY <1>3, <1>6, <2>1, <2>2
<1>7. CASE ~Redacts(r) /\ s = m
  <2>1. s.arguments = "redacted" => s.hash = s.named
    BY <1>2, <1>7 DEF Hashed, Events
  <2>2. Unasked(r)
    <3>1. r.redact \in {"yes", "no", "unset"}
      BY AuditReads
    <3> QED
      BY <1>7, <3>1 DEF Redacts, Unasked
  <2>3. ASSUME NEW f \in Fields
        PROVE  /\ s[f] = "clear" => e[f] = "clear" /\ f \notin p.walks
               /\ e[f] = "redacted" => s[f] \in {"redacted", "absent"}
    BY <1>2, <1>7
  <2> QED
    BY <1>2, <1>7, <2>1, <2>2, <2>3
<1> QED
  BY <1>4, <1>5, <1>6, <1>7, Zenon

\* No answer to a read of the calls has a gap: the cap of the ring, the limit
\* and the filters of the read, restarts and damaged lines take away only what
\* they must.
THEOREM AnswersHaveNoGaps == AuditSpec => []NoGaps
<1>1. ASSUME AuditInv PROVE NoGaps
  <2> SUFFICES ASSUME NEW e \in log, NEW r \in Reads, Admitted(r), Due(e, r)
               PROVE  \E s \in View(r) : s.id = e.id
    BY DEF NoGaps
  <2> DEFINE L == {f \in log : Matches(f, r)}
             S == {f \in (IF Offline(r) THEN file ELSE ring) : Matches(f, r)}
  <2>1. /\ policy \in Policies /\ log \subseteq Events /\ IsFiniteSet(log)
        /\ ring \subseteq log /\ file \subseteq log /\ Hashed(e)
    BY <1>1 DEF AuditInv, LogTypes
  <2>2. e \in S
    <3>1. CASE Offline(r)
      BY <1>1, <3>1 DEF Due, AuditInv, Saved
    <3>2. CASE ~Offline(r)
      BY <1>1, <3>2 DEF Due, AuditInv, Held
    <3> QED
      BY <3>1, <3>2
  <2>3. S \subseteq L /\ IsFiniteSet(L)
    BY <2>1, FS_Subset
  <2>4. /\ \A f \in L : f.id \in Nat
        /\ \A f \in L : \A g \in L : f.id = g.id => f = g
    BY <1>1, <2>1 DEF AuditInv, Numbered, Events
  <2>5. r.limit \in Nat
    BY AuditReads
  <2>6. r.limit = 0 \/ Cardinality({f \in L : f.id > e.id}) < r.limit
    <3>1. {f \in L : f.id > e.id} = {f \in Newer(e) : Matches(f, r)}
      BY DEF Newer
    <3> QED
      BY <3>1, Zenon DEF Due
  <2>7. Found(r) = Latest(S, r.limit)
    BY DEF Found
  <2> HIDE DEF L, S
  <2>8. e \in Found(r)
    <3>1. e \in Latest(S, r.limit)
      BY <2>2, <2>3, <2>4, <2>5, <2>6, LatestHas
    <3> QED
      BY <3>1, <2>7
  <2>9. Shown(e, r).id = e.id
    BY <2>1, ShownEvent
  <2> QED
    BY <2>8, <2>9 DEF View
<1> QED
  BY <1>1, AuditAlways, PTL

\* A tenant's key is shown what was recorded for that tenant and nothing else,
\* whatever it asks for and under whatever policy.
THEOREM TenantsSeeTheirOwn == AuditSpec => []OwnOnly
<1>1. ASSUME AuditInv PROVE OwnOnly
  <2> SUFFICES ASSUME NEW e \in log, NEW r \in Reads, Scoped(r), NEW s \in View(r), s.id = e.id
               PROVE  r.inside /\ e.tenant = r.who
    BY DEF OwnOnly
  <2>1. PICK e0 \in log : Matches(e0, r) /\ s = Shown(e0, r)
    BY <1>1, ViewOf
  <2>2. e0 = e
    <3>1. s.id = e0.id
      BY <1>1, <2>1, ShownEvent DEF AuditInv, LogTypes
    <3> QED
      BY <1>1, <3>1 DEF AuditInv, Numbered
  <2>3. Admitted(r)
    BY DEF View
  <2>4. HasTenant(r)
    BY <2>3 DEF Admitted, Scoped, Offline
  <2>5. policy.tenants \subseteq TenantIds /\ r.who \in policy.tenants
    BY <1>1, <2>4, AuditPolicies DEF AuditInv, LogTypes, Policy, HasTenant
  <2>6. TenantOf(r) = r.who /\ r.who # Nobody
    BY <2>5, AuditNobody DEF TenantOf
  <2>7. e.tenant = r.who
    BY <2>1, <2>2, <2>6 DEF Matches
  <2> QED
    BY <2>4, <2>7 DEF HasTenant
<1> QED
  BY <1>1, AuditAlways, PTL

\* What was taken out of an event comes back in no answer, what the policy or
\* the request of the moment wants out is in none, and the hash of the names of
\* the arguments stays with them, for any number of reloads and restarts.
THEOREM RedactionIsKept == AuditSpec => []RedactionKept
<1>1. ASSUME AuditInv, NEW r \in Reads, NEW s \in View(r)
      PROVE  \E e \in log : /\ s = Shown(e, r) /\ e \in Events /\ Hashed(e)
                            /\ s.id = e.id
  <2>1. PICK e \in log : s = Shown(e, r)
    BY <1>1, ViewOf
  <2>2. e \in Events /\ Hashed(e) /\ policy \in Policies
    BY <1>1 DEF AuditInv, LogTypes
  <2>3. s.id = e.id
    BY <2>1, <2>2, ShownEvent
  <2> QED
    BY <2>1, <2>2, <2>3
<1>2. ASSUME AuditInv PROVE RedactionKept
  <2>1. ASSUME NEW r \in Reads, NEW s \in View(r), s.arguments = "redacted"
        PROVE  s.hash = s.named
    <3>1. policy \in Policies
      BY <1>2 DEF AuditInv, LogTypes
    <3> QED
      BY <1>1, <1>2, <2>1, <3>1, ShownEvent
  <2>2. ASSUME NEW r \in Reads, NEW s \in View(r), NEW e \in log, s.id = e.id, NEW f \in Fields
        PROVE  /\ s[f] = "clear" => e[f] = "clear" /\ f \notin PolicyOf(r).walks
               /\ s[f] \in {"clear", "masked"} => Unasked(r)
               /\ e[f] = "redacted" => s[f] \in {"redacted", "absent"}
    <3>1. PICK e0 \in log : s = Shown(e0, r) /\ e0 \in Events /\ Hashed(e0) /\ s.id = e0.id
      BY <1>1, <1>2, <2>2
    <3>2. e0 = e /\ policy \in Policies
      BY <1>2, <2>2, <3>1 DEF AuditInv, Numbered, LogTypes
    <3> QED
      BY <3>1, <3>2, ShownEvent
  <2> QED
    BY <2>1, <2>2 DEF RedactionKept, Unasked
<1> QED
  BY <1>2, AuditAlways, PTL
=============================================================================
