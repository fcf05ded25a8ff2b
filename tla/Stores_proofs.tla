------------------------------ MODULE Stores_proofs ------------------------------
(***************************************************************************)
(* Theorems about what the servers keep of what others write: Watches for  *)
(* every number of versions of the source, Ledger for every set of         *)
(* tenants, budgets, prices and days, every cap and every size of request; *)
(* and about the notifications they send, Webhooks.                        *)
(***************************************************************************)
EXTENDS Watches, Ledger, Webhooks, FiniteSetTheorems, SequenceTheorems, WellFoundedInduction, TLAPS

(***************************************************************************)
(* A watched file.  The inductive invariant: no mtime is taken for seen    *)
(* before it is there, and the one that was stored belongs to what is      *)
(* shown, unless that is excused.                                          *)
(***************************************************************************)
FileInv ==
  /\ lastMtime <= stamp /\ stat <= stamp
  /\ at = "arm" /\ ~excused => shown = ver /\ whole
  /\ at = "idle" /\ ~excused /\ lastMtime = stamp => shown = ver
  /\ at = "load" /\ ~StoredFirst => lastMtime < stamp
  /\ at = "store" => ~StoredFirst
  /\ at = "store" /\ ~excused /\ stat = stamp => shown = ver

(***************************************************************************)
(* A watched URL.  The validators that are kept belong to one version, and *)
(* what is shown is that version, unless it is excused.  A date tells the  *)
(* last version from those before it.                                      *)
(***************************************************************************)
Tells(date, v) == stamp <= date => v = ver

UrlInv ==
  /\ at \in {"boot", "idle", "load"}
  /\ at # "boot" =>
       /\ prev.hash # None
       /\ prev.etag = IF tagged THEN prev.hash ELSE None
       /\ prev.date \in Nat /\ prev.date <= stamp
       /\ ~excused => shown = prev.hash
       /\ ~excused /\ dated /\ ~tagged => Tells(prev.date, prev.hash)
       /\ ~dated => prev.date = None
  /\ at = "load" =>
       /\ reply.ver # None
       /\ reply.date \in Nat /\ reply.date <= stamp
       /\ ~excused /\ dated /\ ~tagged => Tells(reply.date, reply.ver)

WatchTypes ==
  /\ WatchTypeOK /\ watched \in WatchKinds
  /\ tagged \in BOOLEAN /\ dated \in BOOLEAN
  /\ prev \in [etag : Nat, date : Nat, hash : 0 .. MaxVer]
  /\ reply \in [fresh : BOOLEAN, ver : 0 .. MaxVer, whole : BOOLEAN, date : Nat]

WatchInv ==
  /\ WatchTypes
  /\ IF watched = "url" THEN UrlInv ELSE FileInv

LEMMA WatchInvInit == WatchInit => WatchInv
<1> SUFFICES ASSUME WatchInit PROVE WatchInv
  OBVIOUS
<1>1. WatchTypes
  <2>1. 0 \in 0 .. MaxVer /\ 1 \in 1 .. MaxVer
    BY VersionsAssumption
  <2>2. WatchTypeOK
    BY <2>1 DEF WatchInit, WatchTypeOK, Validators, NoReply, None
  <2>3. /\ prev \in [etag : Nat, date : Nat, hash : 0 .. MaxVer]
        /\ reply \in [fresh : BOOLEAN, ver : 0 .. MaxVer, whole : BOOLEAN, date : Nat]
    BY <2>1 DEF WatchInit, Validators, NoReply, None
  <2> QED
    BY <2>2, <2>3 DEF WatchInit, WatchTypes
<1>2. UrlInv /\ FileInv
  BY DEF WatchInit, UrlInv, FileInv
<1> QED
  BY <1>1, <1>2 DEF WatchInv

LEMMA WatchTypesStep == WatchInv /\ [WatchNext]_watchVars => WatchTypes'
<1> SUFFICES ASSUME WatchTypes, [WatchNext]_watchVars PROVE WatchTypes'
  BY DEF WatchInv
<1>0. /\ ver \in 1 .. MaxVer /\ ver \in 0 .. MaxVer /\ 0 \in 0 .. MaxVer
      /\ ver < MaxVer => ver + 1 \in 1 .. MaxVer
  BY VersionsAssumption DEF WatchTypes, WatchTypeOK
<1> USE <1>0 DEF WatchTypes, WatchTypeOK, source, written, None
<1>1. CASE UNCHANGED watchVars
  BY <1>1 DEF watchVars
<1>2. CASE Writes
  <2>1. /\ UNCHANGED <<source, at, lastMtime, stat, prev, reply, shown>>
        /\ ver' \in 1 .. MaxVer /\ stamp' \in Nat /\ whole' \in BOOLEAN /\ excused' \in BOOLEAN
    <3>1. CASE Truncate
      <4>1. /\ UNCHANGED <<source, at, lastMtime, stat, prev, reply, shown>>
            /\ ver < MaxVer /\ ver' = ver + 1 /\ stamp' = stamp + 1 /\ whole' = FALSE
        BY <1>2, <3>1 DEF Writes, Truncate
      <4>2. excused' \in BOOLEAN
        BY <3>1 DEF Truncate
      <4>3. ver' \in 1 .. MaxVer
        BY <4>1, <1>0
      <4>4. stamp' \in Nat
        BY <4>1
      <4>5. whole' \in BOOLEAN
        BY <4>1
      <4> QED
        BY <4>1, <4>2, <4>3, <4>4, <4>5
    <3>2. CASE Fill
      BY <1>2, <3>2 DEF Writes, Fill
    <3>3. CASE Publish
      BY <1>2, <3>3 DEF Writes, Publish
    <3> QED
      BY <1>2, <3>1, <3>2, <3>3 DEF Writes
  <2> QED
    BY <2>1
<1>3. CASE Boot
  <2>1. prev' \in [etag : Nat, date : Nat, hash : 0 .. MaxVer]
    <3>1. prev' = prev \/ prev' = Validators(IF tagged THEN ver ELSE None, IF dated THEN stamp ELSE None, ver)
      BY <1>3 DEF Boot
    <3> QED
      BY <3>1 DEF Validators
  <2> QED
    BY <1>3, <2>1 DEF Boot
<1>4. CASE Arm \/ FileStep
  BY <1>4 DEF Arm, FileStep, Poll, Load, LoadPart, LoadFails, Store
<1>5. CASE Fetch
  <2>1. reply' \in [fresh : BOOLEAN, ver : 0 .. MaxVer, whole : BOOLEAN, date : Nat]
    <3>1. reply' = [fresh |-> ~NotModified, ver |-> ver, whole |-> whole, date |-> stamp]
          /\ (~NotModified) \in BOOLEAN
      BY <1>5 DEF Fetch
    <3> QED
      BY <3>1
  <2> QED
    BY <1>5, <2>1 DEF Fetch
<1>6. CASE Regenerate
  <2>1. KeptValidators \in [etag : Nat, date : Nat, hash : 0 .. MaxVer]
    BY DEF KeptValidators, Validators
  <2>2. NoReply \in [fresh : BOOLEAN, ver : 0 .. MaxVer, whole : BOOLEAN, date : Nat]
    BY DEF NoReply
  <2>3. shown' \in 0 .. MaxVer /\ excused' \in BOOLEAN
    BY <1>6 DEF Regenerate
  <2> QED
    BY <1>6, <2>1, <2>2, <2>3 DEF Regenerate
<1> QED
  BY <1>1, <1>2, <1>3, <1>4, <1>5, <1>6 DEF WatchNext

LEMMA FileInvStep ==
  ASSUME WatchTypes, WatchTypes', watched # "url", FileInv, [WatchNext]_watchVars
  PROVE  FileInv' /\ watched' = watched
<1> USE DEF WatchTypes, WatchTypeOK, source, written, FileInv, StoredFirst
<1>1. CASE UNCHANGED watchVars
  BY <1>1 DEF watchVars
<1>2. CASE Writes
  BY <1>2 DEF Writes, Truncate, Fill, Publish
<1>3. CASE Boot \/ Arm
  BY <1>3 DEF Boot, Arm
<1>4. CASE FileStep
  BY <1>4 DEF FileStep, Poll, Load, LoadPart, LoadFails, Store
<1>5. CASE Fetch \/ Regenerate
  BY <1>5 DEF Fetch, Regenerate
<1> QED
  BY <1>1, <1>2, <1>3, <1>4, <1>5 DEF WatchNext

LEMMA UrlInvStep ==
  ASSUME WatchTypes, WatchTypes', watched = "url", UrlInv, [WatchNext]_watchVars
  PROVE  UrlInv' /\ watched' = watched
<1> USE DEF WatchTypes, WatchTypeOK, source, written, UrlInv, Tells, None
<1>1. CASE UNCHANGED watchVars
  BY <1>1 DEF watchVars
<1>2. CASE Writes
  BY <1>2 DEF Writes, Truncate, Fill, Publish
<1>3. CASE Boot \/ Arm
  BY <1>3 DEF Boot, Arm, Validators
<1>4. CASE FileStep
  BY <1>4 DEF FileStep, Poll, Load, LoadPart, LoadFails, Store
<1>5. CASE Fetch
  BY <1>5 DEF Fetch
<1>6. CASE Regenerate
  BY <1>6 DEF Regenerate, KeptValidators, Validators, NoReply, Changed
<1> QED
  BY <1>1, <1>2, <1>3, <1>4, <1>5, <1>6 DEF WatchNext

LEMMA WatchInvHolds == WatchSpec => []WatchInv
<1>1. WatchInv /\ [WatchNext]_watchVars => WatchInv'
  BY WatchTypesStep, FileInvStep, UrlInvStep DEF WatchInv
<1> QED
  BY <1>1, WatchInvInit, PTL DEF WatchSpec

\* The state of a watch keeps to its types, for any number of versions.
THEOREM WatchTyped == WatchSpec => []WatchTypeOK
<1>1. WatchInv => WatchTypeOK
  BY DEF WatchInv, WatchTypes
<1> QED
  BY <1>1, WatchInvHolds, PTL

\* However many versions are written and however the writes fall between the
\* rounds, a watch comes to rest on the last version, or is excused.
THEOREM NoWriteIsMissed == WatchSpec => []NoWriteMissed
<1>1. WatchInv => NoWriteMissed
  <2> SUFFICES ASSUME WatchInv, Quiet, whole, ~excused PROVE shown = ver
    BY DEF NoWriteMissed
  <2>1. CASE watched = "url"
    <3>1. /\ prev.etag = IF tagged THEN prev.hash ELSE 0
          /\ prev.date \in Nat /\ shown = prev.hash /\ prev.hash # 0
          /\ dated /\ ~tagged => (stamp <= prev.date => prev.hash = ver)
          /\ ~dated => prev.date = 0
      BY <2>1 DEF WatchInv, UrlInv, Quiet, Tells, None
    <3>2. prev.hash = ver \/ NotModified
      BY <2>1 DEF Quiet
    <3>3. tagged \in BOOLEAN /\ dated \in BOOLEAN
      BY DEF WatchInv, WatchTypes
    <3>4. NotModified => prev.hash = ver
      BY <3>1, <3>3 DEF NotModified, None
    <3> QED
      BY <3>1, <3>2, <3>4
  <2>2. CASE watched # "url"
    BY <2>2 DEF WatchInv, WatchTypes, WatchTypeOK, FileInv, Quiet
  <2> QED
    BY <2>1, <2>2
<1> QED
  BY <1>1, WatchInvHolds, PTL

-----------------------------------------------------------------------------
(***************************************************************************)
(* The span store.  What a sequence of spans costs is defined by recursion *)
(* on its length, so the first lemmas say that such a recursion has one    *)
(* solution, and what the sum of a concatenation, of a suffix and of a     *)
(* part of a sequence is; no leaf after them unfolds it.                   *)
(***************************************************************************)
Before == {p \in Nat \X Nat : p[1] < p[2]}

\* What holds at 0 and goes from each number to the next holds of every number.
LEMMA Counting ==
  ASSUME NEW Holds \in SUBSET Nat, 0 \in Holds, \A n \in Holds : n + 1 \in Holds
  PROVE  Holds = Nat
<1>1. SUFFICES ASSUME Nat \ Holds # {}
               PROVE  FALSE
  OBVIOUS
<1>2. IsWellFoundedOn(Before, Nat)
  BY NatLessThanWellFounded DEF OpToRel, Before
<1>3. PICK n \in Nat \ Holds : \A m \in Nat \ Holds : ~(<<m, n>> \in Before)
  <2>1. Nat \ Holds \in SUBSET Nat
    OBVIOUS
  <2> QED
    BY <1>1, <1>2, <2>1, WFMin
<1>4. n \in Nat /\ n # 0 /\ n - 1 \in Nat /\ n - 1 < n /\ (n - 1) + 1 = n
  OBVIOUS
<1>5. n - 1 \in Holds
  BY <1>3, <1>4 DEF Before
<1> QED
  BY <1>4, <1>5

Obeys(f, n, base, step) == f[0] = base /\ \A i \in 1 .. n : f[i] = step[<<i, f[i - 1]>>]

\* A recursion on 0 .. n: there is a function that satisfies it.
LEMMA RecursionExists ==
  ASSUME NEW n \in Nat, NEW Values, NEW base \in Values, NEW step \in [(1 .. n) \X Values -> Values]
  PROVE  \E f \in [0 .. n -> Values] : Obeys(f, n, base, step)
<1> DEFINE Good(m) == \E f \in [0 .. m -> Values] : Obeys(f, m, base, step)
           Holds == {m \in Nat : m <= n => Good(m)}
<1>1. 0 \in Holds
  <2>1. [i \in 0 .. 0 |-> base] \in [0 .. 0 -> Values] /\ [i \in 0 .. 0 |-> base][0] = base /\ 1 .. 0 = {}
    OBVIOUS
  <2>2. Good(0)
    BY <2>1, Zenon DEF Obeys
  <2> QED
    BY <2>2
<1>2. \A m \in Holds : m + 1 \in Holds
  <2> SUFFICES ASSUME NEW m \in Holds, m + 1 <= n
               PROVE  Good(m + 1)
    BY SMT
  <2>1. m \in Nat /\ m <= n /\ Good(m)
    BY SMT
  <2>2. PICK f \in [0 .. m -> Values] : f[0] = base /\ \A i \in 1 .. m : f[i] = step[<<i, f[i - 1]>>]
    BY <2>1 DEF Obeys
  <2> HIDE DEF Good, Holds
  <2> DEFINE g == [i \in 0 .. m + 1 |-> IF i = m + 1 THEN step[<<m + 1, f[m]>>] ELSE f[i]]
  <2>3. m \in 0 .. m /\ m + 1 \in 1 .. n /\ 0 \in 0 .. m + 1 /\ 0 # m + 1
    BY <2>1
  <2>4. step[<<m + 1, f[m]>>] \in Values
    BY <2>3
  <2>5. \A i \in 0 .. m + 1 : i = m + 1 \/ i \in 0 .. m
    BY <2>1
  <2>6. g \in [0 .. m + 1 -> Values]
    BY <2>4, <2>5
  <2>7. g[0] = base
    BY <2>2, <2>3
  <2>8. ASSUME NEW i \in 1 .. m + 1
        PROVE  g[i] = step[<<i, g[i - 1]>>]
    <3>1. i \in 0 .. m + 1 /\ i - 1 \in 0 .. m + 1 /\ i - 1 # m + 1 /\ (i = m + 1 \/ i \in 1 .. m)
      BY <2>1
    <3>2. g[i - 1] = f[i - 1]
      BY <3>1
    <3>3. CASE i = m + 1
      <4>1. i - 1 = m
        BY <2>1, <3>3
      <4> QED
        BY <3>1, <3>2, <3>3, <4>1
    <3>4. CASE i # m + 1
      BY <2>2, <3>1, <3>2, <3>4
    <3> QED
      BY <3>3, <3>4
  <2> QED
    BY <2>6, <2>7, <2>8 DEF Good, Obeys
<1>3. Holds = Nat
  <2>1. Holds \in SUBSET Nat
    BY Zenon
  <2> HIDE DEF Holds
  <2> QED
    BY <1>1, <1>2, <2>1, Counting
<1>4. n \in Holds => Good(n)
  <2>1. n <= n
    OBVIOUS
  <2> HIDE DEF Good
  <2> QED
    BY <2>1, Zenon
<1>5. Good(n)
  <2> HIDE DEF Good, Holds
  <2> QED
    BY <1>3, <1>4
<1> QED
  BY <1>5

Alike(f, g, n) == f[0] = g[0] /\ \A i \in 1 .. n : f[i - 1] = g[i - 1] => f[i] = g[i]

\* Two functions that satisfy the same recursion are the same.
LEMMA RecursionUnique ==
  ASSUME NEW n \in Nat, NEW f, NEW g, Alike(f, g, n)
  PROVE  \A i \in 0 .. n : f[i] = g[i]
<1> DEFINE Holds == {m \in Nat : m <= n => f[m] = g[m]}
<1>1. 0 \in Holds
  BY DEF Alike
<1>2. \A m \in Holds : m + 1 \in Holds
  <2> SUFFICES ASSUME NEW m \in Nat, f[m] = g[m], m + 1 <= n
               PROVE  f[m + 1] = g[m + 1]
    OBVIOUS
  <2>1. m + 1 \in 1 .. n /\ (m + 1) - 1 = m
    OBVIOUS
  <2> QED
    BY <2>1 DEF Alike
<1>3. Holds = Nat
  <2>1. Holds \in SUBSET Nat
    BY Zenon
  <2> HIDE DEF Holds
  <2> QED
    BY <1>1, <1>2, <2>1, Counting
<1> QED
  BY <1>3

\* The recursive definition of a sum has the value that its recurrence says.
LEMMA SumRecurrenceIn ==
  ASSUME NEW Amounts \in {Nat, Int}, NEW w \in Seq(Amounts)
  PROVE  \E f \in [0 .. Len(w) -> Amounts] :
           /\ f[0] = 0 /\ \A i \in 1 .. Len(w) : f[i] = f[i - 1] + w[i]
           /\ SumOf(w) = f[Len(w)]
<1> DEFINE n == Len(w)
           Body(h) == [i \in 0 .. n |-> IF i = 0 THEN 0 ELSE h[i - 1] + w[i]]
           step == [p \in (1 .. n) \X Amounts |-> p[2] + w[p[1]]]
           sum == CHOOSE h : h = Body(h)
<1>1. n \in Nat /\ \A i \in 1 .. n : w[i] \in Amounts
  OBVIOUS
<1>2. step \in [(1 .. n) \X Amounts -> Amounts]
  <2>1. \A a, b \in Amounts : a + b \in Amounts
    OBVIOUS
  <2> QED
    BY <1>1, <2>1
<1>3. PICK f \in [0 .. n -> Amounts] : f[0] = 0 /\ \A i \in 1 .. n : f[i] = step[<<i, f[i - 1]>>]
  <2> HIDE DEF step, n
  <2>1. 0 \in Amounts
    OBVIOUS
  <2>2. \E f \in [0 .. n -> Amounts] : Obeys(f, n, 0, step)
    BY <1>1, <1>2, <2>1, RecursionExists, Zenon
  <2> QED
    BY <2>2 DEF Obeys
<1>4. \A i \in 1 .. n : i - 1 \in 0 .. n /\ f[i] = f[i - 1] + w[i]
  <2> TAKE i \in 1 .. n
  <2>1. i - 1 \in 0 .. n
    BY <1>1
  <2>2. f[i - 1] \in Amounts
    BY <2>1
  <2> QED
    BY <1>3, <2>1, <2>2
<1>5. f = Body(f)
  <2>1. \A i \in 0 .. n : i = 0 \/ i \in 1 .. n
    BY <1>1
  <2>2. \A i \in 0 .. n : f[i] = IF i = 0 THEN 0 ELSE f[i - 1] + w[i]
    BY <1>3, <1>4, <2>1
  <2> HIDE DEF n
  <2> QED
    BY <2>2
<1>6. sum = Body(sum)
  <2> HIDE DEF Body
  <2> QED
    BY <1>5, Zenon
<1>7. \A i \in 0 .. n : sum[i] = f[i]
  <2>1. 0 \in 0 .. n /\ \A i \in 1 .. n : i \in 0 .. n /\ i # 0
    BY <1>1
  <2> HIDE DEF sum, n
  <2>2. sum[0] = f[0]
    BY <1>3, <1>6, <2>1
  <2>3. \A i \in 1 .. n : sum[i] = sum[i - 1] + w[i]
    BY <1>6, <2>1
  <2>4. \A i \in 1 .. n : sum[i - 1] = f[i - 1] => sum[i] = f[i]
    BY <1>4, <2>3
  <2>5. Alike(sum, f, n)
    BY <2>2, <2>4 DEF Alike
  <2> QED
    BY <1>1, <2>5, RecursionUnique
<1>8. SumOf(w) = sum[n]
  BY Zenon DEF SumOf
<1>9. sum[n] = f[n]
  <2> HIDE DEF sum, n
  <2> QED
    BY <1>1, <1>7
<1> QED
  <2> HIDE DEF sum
  <2> QED
    BY <1>3, <1>4, <1>8, <1>9

LEMMA SumRecurrence ==
  ASSUME NEW w \in Seq(Nat)
  PROVE  \E f \in [0 .. Len(w) -> Nat] :
           /\ f[0] = 0 /\ \A i \in 1 .. Len(w) : f[i] = f[i - 1] + w[i]
           /\ SumOf(w) = f[Len(w)]
BY SumRecurrenceIn

LEMMA SumInt ==
  ASSUME NEW w \in Seq(Int)
  PROVE  SumOf(w) \in Int
<1>1. Len(w) \in Nat
  OBVIOUS
<1>2. \E f \in [0 .. Len(w) -> Int] : SumOf(w) = f[Len(w)]
  BY SumRecurrenceIn
<1> QED
  BY <1>1, <1>2

\* and no other value satisfies that recurrence.
LEMMA SumIs ==
  ASSUME NEW w \in Seq(Nat), NEW g, g[0] = 0, \A i \in 1 .. Len(w) : g[i] = g[i - 1] + w[i]
  PROVE  SumOf(w) = g[Len(w)]
<1>1. PICK f \in [0 .. Len(w) -> Nat] :
        /\ f[0] = 0 /\ \A i \in 1 .. Len(w) : f[i] = f[i - 1] + w[i]
        /\ SumOf(w) = f[Len(w)]
  BY SumRecurrence
<1>2. \A i \in 1 .. Len(w) : f[i - 1] = g[i - 1] => f[i] = g[i]
  BY <1>1
<1>3. Len(w) \in Nat /\ f[0] = g[0]
  BY <1>1
<1>4. \A i \in 0 .. Len(w) : f[i] = g[i]
  <2>1. Alike(f, g, Len(w))
    BY <1>2, <1>3 DEF Alike
  <2> QED
    BY <1>3, <2>1, RecursionUnique
<1> QED
  BY <1>1, <1>3, <1>4

LEMMA SumNat ==
  ASSUME NEW w \in Seq(Nat)
  PROVE  SumOf(w) \in Nat
<1>1. Len(w) \in Nat
  OBVIOUS
<1> QED
  BY <1>1, SumRecurrence

\* Nothing costs nothing.
LEMMA SumZero ==
  ASSUME NEW w \in Seq(Nat), \A i \in 1 .. Len(w) : w[i] = 0
  PROVE  SumOf(w) = 0
<1> DEFINE g == [i \in 0 .. Len(w) |-> 0]
<1>1. Len(w) \in Nat /\ Len(w) \in 0 .. Len(w) /\ 0 \in 0 .. Len(w)
  OBVIOUS
<1>2. \A i \in 1 .. Len(w) : i \in 0 .. Len(w) /\ i - 1 \in 0 .. Len(w)
  BY <1>1
<1>3. \A i \in 1 .. Len(w) : g[i] = g[i - 1] + w[i]
  BY <1>2
<1>4. g[0] = 0 /\ g[Len(w)] = 0
  BY <1>1
<1> HIDE DEF g
<1> QED
  BY <1>3, <1>4, SumIs

\* The sum of two sequences one after the other.
LEMMA SumConcat ==
  ASSUME NEW u \in Seq(Nat), NEW v \in Seq(Nat)
  PROVE  SumOf(u \o v) = SumOf(u) + SumOf(v)
<1> DEFINE m == Len(u)  n == Len(v)  w == u \o v
<1>1. /\ w \in Seq(Nat) /\ Len(w) = m + n /\ m \in Nat /\ n \in Nat
      /\ \A i \in 1 .. m + n : w[i] = IF i <= m THEN u[i] ELSE v[i - m]
  BY ConcatProperties
<1>2. PICK f \in [0 .. m -> Nat] : /\ f[0] = 0 /\ \A i \in 1 .. m : f[i] = f[i - 1] + u[i]
                                   /\ SumOf(u) = f[m]
  BY SumRecurrence
<1>3. PICK g \in [0 .. n -> Nat] : /\ g[0] = 0 /\ \A i \in 1 .. n : g[i] = g[i - 1] + v[i]
                                   /\ SumOf(v) = g[n]
  BY SumRecurrence
<1> DEFINE h == [i \in 0 .. m + n |-> IF i <= m THEN f[i] ELSE f[m] + g[i - m]]
<1>4. \A i \in 1 .. m : u[i] \in Nat
  OBVIOUS
<1>5. \A i \in 1 .. n : v[i] \in Nat
  OBVIOUS
<1> HIDE DEF m, n, w
<1>6. f[m] \in Nat /\ f[m] = f[m] + g[0]
  BY <1>1, <1>2, <1>3
<1>7. h[0] = 0 /\ h[m + n] = f[m] + g[n]
  <2>1. 0 \in 0 .. m + n /\ m + n \in 0 .. m + n /\ 0 <= m /\ (m + n) - m = n
    BY <1>1
  <2>2. m + n <= m => n = 0 /\ m + n = m
    BY <1>1
  <2> QED
    BY <1>2, <1>6, <2>1, <2>2
<1>8. ASSUME NEW i \in 1 .. m + n
      PROVE  h[i] = h[i - 1] + w[i]
  <2>1. i \in 0 .. m + n /\ i - 1 \in 0 .. m + n /\ i \in Nat
    BY <1>1
  <2>2. CASE i <= m
    <3>1. i \in 1 .. m /\ i - 1 <= m
      BY <1>1, <2>2
    <3> QED
      BY <1>1, <1>2, <2>1, <2>2, <3>1
  <2>3. CASE ~(i <= m)
    <3>1. i - m \in 1 .. n /\ (i - m) - 1 = (i - 1) - m /\ (i - m) - 1 \in 0 .. n
      BY <1>1, <2>1, <2>3
    <3>2. g[i - m] = g[(i - 1) - m] + v[i - m] /\ g[(i - 1) - m] \in Nat /\ v[i - m] \in Nat
      BY <1>3, <1>5, <3>1
    <3>3. h[i - 1] = f[m] + g[(i - 1) - m]
      <4>1. CASE i - 1 <= m
        <5>1. i - 1 = m /\ (i - 1) - m = 0
          BY <1>1, <2>1, <2>3, <4>1
        <5> QED
          BY <1>6, <2>1, <4>1, <5>1
      <4>2. CASE ~(i - 1 <= m)
        BY <2>1, <4>2
      <4> QED
        BY <4>1, <4>2
    <3>4. h[i] = f[m] + g[i - m]
      BY <2>1, <2>3
    <3>5. w[i] = v[i - m]
      BY <1>1, <2>3
    <3> HIDE DEF h
    <3> QED
      BY <1>6, <3>2, <3>3, <3>4, <3>5
  <2> QED
    BY <2>2, <2>3
<1> HIDE DEF h
<1>9. SumOf(w) = h[m + n]
  BY <1>1, <1>7, <1>8, SumIs
<1> QED
  BY <1>2, <1>3, <1>7, <1>9 DEF w

\* The last amounts of a sequence come to no more than all of them.
LEMMA SumSuffix ==
  ASSUME NEW w \in Seq(Nat), NEW k \in 1 .. Len(w)
  PROVE  /\ SubSeq(w, k, Len(w)) \in Seq(Nat)
         /\ SumOf(SubSeq(w, k, Len(w))) <= SumOf(w)
<1> DEFINE n == Len(w)  u == SubSeq(w, 1, k - 1)  v == SubSeq(w, k, n)
<1>1. n \in Nat /\ k \in Nat /\ 1 <= k /\ k <= n
  OBVIOUS
<1>2. \A i \in 1 .. n : w[i] \in Nat
  OBVIOUS
<1>3. u \in Seq(Nat) /\ Len(u) = k - 1 /\ \A i \in 1 .. k - 1 : u[i] = w[i]
  <2>1. \A i \in 1 .. k - 1 : w[i] \in Nat
    BY <1>1, <1>2
  <2> QED
    BY <1>1, <2>1
<1>4. v \in Seq(Nat) /\ Len(v) = n - k + 1 /\ \A i \in 1 .. n - k + 1 : v[i] = w[k + i - 1]
  <2>1. \A i \in k .. n : w[i] \in Nat
    BY <1>1, <1>2
  <2> QED
    BY <1>1, <2>1
<1> HIDE DEF u, v
<1>5. u \o v = w
  <2>1. /\ u \o v \in Seq(Nat) /\ Len(u \o v) = n
        /\ \A i \in 1 .. n : (u \o v)[i] = IF i <= k - 1 THEN u[i] ELSE v[i - (k - 1)]
    <3>1. /\ u \o v \in Seq(Nat) /\ Len(u \o v) = Len(u) + Len(v)
          /\ \A i \in 1 .. Len(u) + Len(v) : (u \o v)[i] = IF i <= Len(u) THEN u[i] ELSE v[i - Len(u)]
      BY <1>3, <1>4, ConcatProperties
    <3>2. Len(u) + Len(v) = n
      BY <1>1, <1>3, <1>4
    <3> QED
      BY <1>3, <3>1, <3>2
  <2>2. ASSUME NEW i \in 1 .. n
        PROVE  (u \o v)[i] = w[i]
    <3>0. i \in Nat
      BY <1>1
    <3>1. CASE i <= k - 1
      <4>1. i \in 1 .. k - 1
        BY <1>1, <3>0, <3>1
      <4> HIDE DEF n
      <4> QED
        BY <1>3, <2>1, <3>1, <4>1
    <3>2. CASE ~(i <= k - 1)
      <4>1. i - (k - 1) \in 1 .. n - k + 1 /\ k + (i - (k - 1)) - 1 = i
        BY <1>1, <3>0, <3>2
      <4> HIDE DEF n
      <4>2. (u \o v)[i] = v[i - (k - 1)]
        BY <2>1, <3>2
      <4>3. v[i - (k - 1)] = w[k + (i - (k - 1)) - 1]
        BY <1>4, <4>1
      <4> QED
        BY <4>1, <4>2, <4>3
    <3> QED
      BY <3>1, <3>2
  <2> QED
    BY <2>1, <2>2, SeqEqual
<1>6. SumOf(w) = SumOf(u) + SumOf(v)
  BY <1>3, <1>4, <1>5, SumConcat
<1>7. SumOf(u) \in Nat /\ SumOf(v) \in Nat
  BY <1>3, <1>4, SumNat
<1>8. SumOf(v) <= SumOf(w)
  BY <1>6, <1>7
<1> QED
  BY <1>4, <1>8 DEF v

\* The elements of s at the given places, in their order.
LEMMA PickedRecurrence ==
  ASSUME NEW Items, NEW s \in Seq(Items), NEW places \in SUBSET DOMAIN s
  PROVE  \E f \in [0 .. Len(s) -> Seq({s[i] : i \in places})] :
           /\ f[0] = <<>>
           /\ \A i \in 1 .. Len(s) : f[i] = IF i \in places THEN Append(f[i - 1], s[i]) ELSE f[i - 1]
           /\ Picked(s, places) = f[Len(s)]
<1> DEFINE n == Len(s)
           Chosen == {s[i] : i \in places}
           Values == Seq(Chosen)
           Body(h) == [i \in 0 .. n |-> IF i = 0 THEN <<>>
                                        ELSE IF i \in places THEN Append(h[i - 1], s[i]) ELSE h[i - 1]]
           step == [p \in (1 .. n) \X Values |-> IF p[1] \in places THEN Append(p[2], s[p[1]]) ELSE p[2]]
           all == CHOOSE h : h = Body(h)
<1>1. n \in Nat
  OBVIOUS
<1>2. \A i \in places : s[i] \in Chosen
  OBVIOUS
<1>3. <<>> \in Values
  <2>1. <<>> \in Seq(Chosen)
    OBVIOUS
  <2> QED
    BY <2>1
<1>4. \A w \in Values : \A i \in places : Append(w, s[i]) \in Values
  <2> HIDE DEF Chosen
  <2> QED
    BY <1>2, AppendProperties
<1>5. step \in [(1 .. n) \X Values -> Values]
  <2> HIDE DEF n, Values
  <2>1. \A p \in (1 .. n) \X Values : p[2] \in Values
    OBVIOUS
  <2>2. \A p \in (1 .. n) \X Values : (IF p[1] \in places THEN Append(p[2], s[p[1]]) ELSE p[2]) \in Values
    BY <1>4, <2>1
  <2> QED
    BY <2>2
<1>6. PICK f \in [0 .. n -> Values] : f[0] = <<>> /\ \A i \in 1 .. n : f[i] = step[<<i, f[i - 1]>>]
  <2> HIDE DEF step, n, Values
  <2>1. \E f \in [0 .. n -> Values] : Obeys(f, n, <<>>, step)
    BY <1>1, <1>3, <1>5, RecursionExists, Zenon
  <2> QED
    BY <2>1 DEF Obeys
<1>7. \A i \in 1 .. n : f[i] = IF i \in places THEN Append(f[i - 1], s[i]) ELSE f[i - 1]
  <2> TAKE i \in 1 .. n
  <2> HIDE DEF n, Values
  <2>1. i - 1 \in 0 .. n
    BY <1>1
  <2>2. f[i - 1] \in Values
    BY <2>1
  <2> QED
    BY <1>6, <2>1, <2>2
<1> HIDE DEF step, Values, Chosen
<1>8. f = Body(f)
  <2>1. \A i \in 0 .. n : i = 0 \/ i \in 1 .. n
    BY <1>1
  <2>2. \A i \in 1 .. n : i # 0
    BY <1>1
  <2> HIDE DEF n
  <2>3. \A i \in 0 .. n : f[i] = IF i = 0 THEN <<>>
                                 ELSE IF i \in places THEN Append(f[i - 1], s[i]) ELSE f[i - 1]
    BY <1>6, <1>7, <2>1, <2>2
  <2> QED
    BY <2>3
<1>9. all = Body(all)
  <2> HIDE DEF Body
  <2> QED
    BY <1>8, Zenon
<1>10. \A i \in 0 .. n : all[i] = f[i]
  <2>1. 0 \in 0 .. n /\ \A i \in 1 .. n : i \in 0 .. n /\ i # 0
    BY <1>1
  <2> HIDE DEF all, n
  <2>2. all[0] = f[0]
    BY <1>6, <1>9, <2>1
  <2>3. \A i \in 1 .. n : all[i] = IF i \in places THEN Append(all[i - 1], s[i]) ELSE all[i - 1]
    BY <1>9, <2>1
  <2>4. \A i \in 1 .. n : all[i - 1] = f[i - 1] => all[i] = f[i]
    BY <1>7, <2>3
  <2>5. Alike(all, f, n)
    BY <2>2, <2>4 DEF Alike
  <2> QED
    BY <1>1, <2>5, RecursionUnique
<1>11. Picked(s, places) = all[n]
  BY Zenon DEF Picked
<1>12. all[n] = f[n]
  <2> HIDE DEF all, n
  <2> QED
    BY <1>1, <1>10
<1> HIDE DEF all
<1> QED
  BY <1>6, <1>7, <1>11, <1>12 DEF Values, Chosen

\* What is picked is a sequence of elements that are.
LEMMA PickedElements ==
  ASSUME NEW Items, NEW s \in Seq(Items), NEW places \in SUBSET DOMAIN s
  PROVE  Picked(s, places) \in Seq({s[i] : i \in places})
<1> DEFINE Chosen == {s[i] : i \in places}
<1>1. Len(s) \in Nat /\ Len(s) \in 0 .. Len(s)
  OBVIOUS
<1>2. PICK f \in [0 .. Len(s) -> Seq(Chosen)] : Picked(s, places) = f[Len(s)]
  <2>1. \E f \in [0 .. Len(s) -> Seq(Chosen)] :
          /\ f[0] = <<>>
          /\ \A i \in 1 .. Len(s) : f[i] = IF i \in places THEN Append(f[i - 1], s[i]) ELSE f[i - 1]
          /\ Picked(s, places) = f[Len(s)]
    BY PickedRecurrence
  <2> HIDE DEF Chosen
  <2> QED
    BY <2>1, Zenon
<1> HIDE DEF Chosen
<1>3. Picked(s, places) \in Seq(Chosen)
  BY <1>1, <1>2
<1> QED
  BY <1>3 DEF Chosen

LEMMA SumAppend ==
  ASSUME NEW w \in Seq(Nat), NEW c \in Nat
  PROVE  SumOf(Append(w, c)) = SumOf(w) + c
<1> DEFINE n == Len(w)  v == Append(w, c)
<1>1. /\ n \in Nat /\ v \in Seq(Nat) /\ Len(v) = n + 1
      /\ \A i \in 1 .. n : v[i] = w[i]
      /\ v[n + 1] = c
  BY AppendProperties
<1>2. PICK f \in [0 .. n -> Nat] : /\ f[0] = 0 /\ \A i \in 1 .. n : f[i] = f[i - 1] + w[i]
                                   /\ SumOf(w) = f[n]
  BY SumRecurrence
<1> DEFINE h == [i \in 0 .. n + 1 |-> IF i <= n THEN f[i] ELSE f[n] + c]
<1> HIDE DEF n, v
<1>3. h[0] = 0 /\ h[n + 1] = f[n] + c
  <2>1. 0 \in 0 .. n + 1 /\ n + 1 \in 0 .. n + 1 /\ 0 <= n /\ ~(n + 1 <= n)
    BY <1>1
  <2> QED
    BY <1>2, <2>1
<1>4. ASSUME NEW i \in 1 .. n + 1
      PROVE  h[i] = h[i - 1] + v[i]
  <2>1. i \in 0 .. n + 1 /\ i - 1 \in 0 .. n + 1 /\ i - 1 <= n
    BY <1>1
  <2>2. h[i - 1] = f[i - 1]
    BY <2>1
  <2>3. CASE i = n + 1
    <3>1. i - 1 = n /\ ~(i <= n)
      BY <1>1, <2>3
    <3> QED
      BY <1>1, <2>1, <2>2, <2>3, <3>1
  <2>4. CASE i # n + 1
    <3>1. i \in 1 .. n /\ i <= n
      BY <1>1, <2>4
    <3> QED
      BY <1>1, <1>2, <2>1, <2>2, <3>1
  <2> QED
    BY <2>3, <2>4
<1> HIDE DEF h
<1>5. SumOf(v) = h[n + 1]
  BY <1>1, <1>3, <1>4, SumIs
<1> QED
  BY <1>2, <1>3, <1>5 DEF v

(***************************************************************************)
(* The spans and what they cost.                                           *)
(***************************************************************************)
LEMMA CostsIn ==
  ASSUME NEW spans \in Seq(Spans), NEW t, NEW today, NEW Amounts,
         \A i \in 1 .. Len(spans) : Cost(spans[i], t, today) \in Amounts
  PROVE  /\ Costs(spans, t, today) \in Seq(Amounts)
         /\ Len(Costs(spans, t, today)) = Len(spans)
         /\ \A i \in 1 .. Len(spans) : Costs(spans, t, today)[i] = Cost(spans[i], t, today)
<1>1. Len(spans) \in Nat /\ DOMAIN spans = 1 .. Len(spans)
  OBVIOUS
<1> DEFINE n == Len(spans)
           c == [i \in 1 .. n |-> Cost(spans[i], t, today)]
<1>2. Costs(spans, t, today) = c
  BY <1>1, Zenon DEF Costs
<1>3. c \in Seq(Amounts) /\ Len(c) = n /\ \A i \in 1 .. n : c[i] = Cost(spans[i], t, today)
  <2> HIDE DEF n
  <2>1. n \in Nat /\ \A i \in 1 .. n : Cost(spans[i], t, today) \in Amounts
    BY <1>1 DEF n
  <2> QED
    BY <2>1
<1> HIDE DEF c
<1> QED
  BY <1>2, <1>3

\* What a span costs is a number; of a tenant without odd spans, a natural one.
Fit(t) == {s \in Spans : s.tenant = t => s.usd \in Nat}

LEMMA CostInt ==
  ASSUME NEW s \in Spans, NEW t, NEW today
  PROVE  Cost(s, t, today) \in Int
<1>1. s.usd \in Prices
  BY DEF Spans
<1>2. s.usd \in Int \/ s.usd = NaN
  BY <1>1, PricesAssumption, Zenon
<1>3. Amount(s.usd) \in Int
  BY <1>2 DEF Amount
<1> QED
  BY <1>3 DEF Cost

LEMMA CostNat ==
  ASSUME NEW t, NEW s \in Fit(t), NEW today
  PROVE  Cost(s, t, today) \in Nat
<1>1. s.tenant = t => Amount(s.usd) \in Nat
  BY PricesAssumption DEF Amount, Fit
<1> QED
  BY <1>1 DEF Cost, Counts

LEMMA FitSpans ==
  ASSUME NEW t, NEW spans \in Seq(Fit(t))
  PROVE  spans \in Seq(Spans) /\ \A i \in 1 .. Len(spans) : spans[i] \in Fit(t)
<1>1. Fit(t) \subseteq Spans
  BY DEF Fit
<1> QED
  BY <1>1

LEMMA SpendInt ==
  ASSUME NEW spans \in Seq(Spans), NEW t, NEW today
  PROVE  Spend(spans, t, today) \in Int
<1>1. \A i \in 1 .. Len(spans) : spans[i] \in Spans
  OBVIOUS
<1>2. Costs(spans, t, today) \in Seq(Int)
  BY <1>1, CostsIn, CostInt
<1> QED
  BY <1>2, SumInt DEF Spend

LEMMA CostsOf ==
  ASSUME NEW t, NEW spans \in Seq(Fit(t)), NEW today
  PROVE  /\ Costs(spans, t, today) \in Seq(Nat)
         /\ Len(Costs(spans, t, today)) = Len(spans)
         /\ \A i \in 1 .. Len(spans) : Costs(spans, t, today)[i] = Cost(spans[i], t, today)
<1>1. spans \in Seq(Spans) /\ \A i \in 1 .. Len(spans) : spans[i] \in Fit(t)
  BY FitSpans
<1>2. \A i \in 1 .. Len(spans) : Cost(spans[i], t, today) \in Nat
  BY <1>1, CostNat
<1> QED
  BY <1>1, <1>2, CostsIn

LEMMA SpendNat ==
  ASSUME NEW t, NEW spans \in Seq(Fit(t)), NEW today
  PROVE  Spend(spans, t, today) \in Nat
BY CostsOf, SumNat DEF Spend

LEMMA SpendZero ==
  ASSUME NEW spans \in Seq(Spans), NEW t, NEW today,
         \A i \in 1 .. Len(spans) : spans[i].tenant = t => ~InPeriod(spans[i], today)
  PROVE  Spend(spans, t, today) = 0
<1>1. \A i \in 1 .. Len(spans) : Cost(spans[i], t, today) = 0
  BY DEF Cost, Counts
<1>2. \A i \in 1 .. Len(spans) : Cost(spans[i], t, today) \in Nat
  BY <1>1
<1>3. /\ Costs(spans, t, today) \in Seq(Nat)
      /\ Len(Costs(spans, t, today)) = Len(spans)
      /\ \A i \in 1 .. Len(spans) : Costs(spans, t, today)[i] = Cost(spans[i], t, today)
  BY <1>2, CostsIn
<1> QED
  BY <1>1, <1>3, SumZero DEF Spend

\* Where every cost of a tenant is a natural number, the report shows them all.
LEMMA ReportedNat ==
  ASSUME NEW t, NEW spans \in Seq(Fit(t)), NEW today
  PROVE  Amount(Reported(spans, t, today)) = Spend(spans, t, today)
<1>1. \A i \in DOMAIN spans : spans[i] \in Fit(t)
  OBVIOUS
<1>2. \A i \in DOMAIN spans : ~(Counts(spans[i], t, today) /\ spans[i].usd = NaN)
  BY <1>1, PricesAssumption DEF Fit, Counts
<1>3. Reported(spans, t, today) = Spend(spans, t, today)
  BY <1>2, Zenon DEF Reported
<1>4. Spend(spans, t, today) # NaN
  BY SpendNat, PricesAssumption
<1> QED
  BY <1>3, <1>4 DEF Amount

LEMMA SpendConcat ==
  ASSUME NEW t, NEW u \in Seq(Fit(t)), NEW v \in Seq(Fit(t)), NEW today
  PROVE  Spend(u \o v, t, today) = Spend(u, t, today) + Spend(v, t, today)
<1> DEFINE cu == Costs(u, t, today)  cv == Costs(v, t, today)  cw == Costs(u \o v, t, today)
           m == Len(u)  n == Len(v)
<1>1. /\ m \in Nat /\ n \in Nat
      /\ u \o v \in Seq(Fit(t)) /\ Len(u \o v) = m + n
      /\ \A i \in 1 .. m + n : (u \o v)[i] = IF i <= m THEN u[i] ELSE v[i - m]
  BY ConcatProperties
<1>2. /\ cu \in Seq(Nat) /\ Len(cu) = m /\ \A i \in 1 .. m : cu[i] = Cost(u[i], t, today)
      /\ cv \in Seq(Nat) /\ Len(cv) = n /\ \A i \in 1 .. n : cv[i] = Cost(v[i], t, today)
  BY CostsOf
<1>3. cw \in Seq(Nat) /\ Len(cw) = m + n /\ \A i \in 1 .. m + n : cw[i] = Cost((u \o v)[i], t, today)
  <2> HIDE DEF m, n
  <2>1. /\ cw \in Seq(Nat) /\ Len(cw) = Len(u \o v)
        /\ \A i \in 1 .. Len(u \o v) : cw[i] = Cost((u \o v)[i], t, today)
    <3> DEFINE w == u \o v
    <3>1. w \in Seq(Fit(t))
      BY <1>1
    <3> HIDE DEF w
    <3>2. /\ Costs(w, t, today) \in Seq(Nat) /\ Len(Costs(w, t, today)) = Len(w)
          /\ \A i \in 1 .. Len(w) : Costs(w, t, today)[i] = Cost(w[i], t, today)
      BY <3>1, CostsOf
    <3> QED
      BY <3>2, Zenon DEF w
  <2> HIDE DEF cw
  <2> QED
    BY <1>1, <2>1
<1> HIDE DEF cu, cv, cw, m, n
<1>4. /\ cu \o cv \in Seq(Nat) /\ Len(cu \o cv) = m + n
      /\ \A i \in 1 .. m + n : (cu \o cv)[i] = IF i <= m THEN cu[i] ELSE cv[i - m]
  <2>1. /\ cu \o cv \in Seq(Nat) /\ Len(cu \o cv) = Len(cu) + Len(cv)
        /\ \A i \in 1 .. Len(cu) + Len(cv) : (cu \o cv)[i] = IF i <= Len(cu) THEN cu[i] ELSE cv[i - Len(cu)]
    BY <1>2, ConcatProperties
  <2> QED
    BY <1>2, <2>1
<1>5. \A i \in 1 .. m + n : cw[i] = (cu \o cv)[i]
  <2> TAKE i \in 1 .. m + n
  <2>1. CASE i <= m
    <3>1. i \in 1 .. m
      BY <1>1, <2>1
    <3>2. cw[i] = Cost((u \o v)[i], t, today) /\ (u \o v)[i] = u[i]
      BY <1>1, <1>3, <2>1
    <3>3. (cu \o cv)[i] = cu[i] /\ cu[i] = Cost(u[i], t, today)
      BY <1>2, <1>4, <2>1, <3>1
    <3> QED
      BY <3>2, <3>3
  <2>2. CASE ~(i <= m)
    <3>1. i - m \in 1 .. n
      BY <1>1, <2>2
    <3>2. cw[i] = Cost((u \o v)[i], t, today) /\ (u \o v)[i] = v[i - m]
      BY <1>1, <1>3, <2>2
    <3>3. (cu \o cv)[i] = cv[i - m] /\ cv[i - m] = Cost(v[i - m], t, today)
      BY <1>2, <1>4, <2>2, <3>1
    <3> QED
      BY <3>2, <3>3
  <2> QED
    BY <2>1, <2>2
<1>6. cw = cu \o cv
  BY <1>3, <1>4, <1>5, SeqEqual
<1>7. SumOf(cw) = SumOf(cu) + SumOf(cv)
  BY <1>2, <1>6, SumConcat
<1> QED
  BY <1>7 DEF Spend, cu, cv, cw

LEMMA SpendAppend ==
  ASSUME NEW t, NEW w \in Seq(Fit(t)), NEW s \in Fit(t), NEW today
  PROVE  Spend(Append(w, s), t, today) = Spend(w, t, today) + Cost(s, t, today)
<1> DEFINE n == Len(w)  v == Append(w, s)
           cw == Costs(w, t, today)  cv == Costs(v, t, today)  c == Cost(s, t, today)
<1>1. /\ n \in Nat /\ v \in Seq(Fit(t)) /\ Len(v) = n + 1
      /\ \A i \in 1 .. n : v[i] = w[i]
      /\ v[n + 1] = s
  BY AppendProperties
<1>2. cw \in Seq(Nat) /\ Len(cw) = n /\ \A i \in 1 .. n : cw[i] = Cost(w[i], t, today)
  BY CostsOf
<1> HIDE DEF n, v
<1>3. cv \in Seq(Nat) /\ Len(cv) = n + 1 /\ \A i \in 1 .. n + 1 : cv[i] = Cost(v[i], t, today)
  BY <1>1, CostsOf
<1>4. c \in Nat
  BY CostNat
<1> HIDE DEF cw, cv
<1>5. /\ Append(cw, c) \in Seq(Nat) /\ Len(Append(cw, c)) = n + 1
      /\ \A i \in 1 .. n : Append(cw, c)[i] = cw[i]
      /\ Append(cw, c)[n + 1] = c
  <2> HIDE DEF c
  <2> QED
    BY <1>2, <1>4, AppendProperties
<1>6. \A i \in 1 .. n + 1 : cv[i] = Append(cw, c)[i]
  <2> TAKE i \in 1 .. n + 1
  <2>1. i = n + 1 \/ i \in 1 .. n
    BY <1>1
  <2> QED
    BY <1>1, <1>2, <1>3, <1>5, <2>1
<1> HIDE DEF c
<1>7. cv = Append(cw, c)
  BY <1>3, <1>5, <1>6, SeqEqual
<1>8. SumOf(cv) = SumOf(cw) + c
  BY <1>2, <1>4, <1>7, SumAppend
<1> QED
  BY <1>8 DEF Spend, cw, cv, c, v

\* capSpans keeps the last spans of the store,
LEMMA CapCut ==
  ASSUME NEW Items, NEW spans \in Seq(Items), CapSpans(spans) # spans
  PROVE  \E k \in 1 .. Len(spans) :
           /\ CapSpans(spans) \in Seq(Items) /\ Len(CapSpans(spans)) = Len(spans) - k + 1
           /\ \A i \in 1 .. Len(spans) - k + 1 : CapSpans(spans)[i] = spans[k + i - 1]
<1> DEFINE n == Len(spans)  k == n - SpanMax + 1  cut == SubSeq(spans, k, n)
<1>1. n \in Nat /\ DOMAIN spans = 1 .. n /\ SpanMax \in Nat
  BY LedgerBoundsAssumption
<1>2. ~(SpanMax = 0 \/ n <= SpanMax)
  BY DEF CapSpans
<1>3. CapSpans(spans) = cut
  BY <1>2 DEF CapSpans
<1>4. k \in 1 .. n
  BY <1>1, <1>2
<1> HIDE DEF k
<1>5. cut \in Seq(Items) /\ Len(cut) = n - k + 1 /\ \A i \in 1 .. n - k + 1 : cut[i] = spans[k + i - 1]
  <2>1. \A i \in k .. n : spans[i] \in Items
    BY <1>1, <1>4
  <2> QED
    BY <1>1, <1>4, <2>1
<1> HIDE DEF cut
<1> QED
  BY <1>3, <1>4, <1>5

LEMMA CapKeeps ==
  ASSUME NEW Items, NEW spans \in Seq(Items)
  PROVE  /\ CapSpans(spans) \in Seq(Items)
         /\ \A i \in DOMAIN CapSpans(spans) : \E j \in 1 .. Len(spans) : CapSpans(spans)[i] = spans[j]
<1> DEFINE n == Len(spans)  cut == CapSpans(spans)
<1>1. n \in Nat /\ DOMAIN spans = 1 .. n
  OBVIOUS
<1>2. CASE cut = spans
  BY <1>1, <1>2
<1>3. CASE cut # spans
  <2>1. PICK k \in 1 .. n :
          /\ cut \in Seq(Items) /\ Len(cut) = n - k + 1
          /\ \A i \in 1 .. n - k + 1 : cut[i] = spans[k + i - 1]
    BY <1>3, CapCut
  <2> HIDE DEF cut, n
  <2>2. \A i \in DOMAIN cut : \E j \in 1 .. n : cut[i] = spans[j]
    <3> TAKE i \in DOMAIN cut
    <3>1. i \in 1 .. n - k + 1
      BY <2>1
    <3>2. k + i - 1 \in 1 .. n
      BY <1>1, <2>1, <3>1
    <3> QED
      BY <2>1, <3>1, <3>2
  <2> QED
    BY <2>1, <2>2 DEF n, cut
<1> QED
  BY <1>2, <1>3

\* and adds nothing to what they cost.
LEMMA CapSpend ==
  ASSUME NEW t, NEW spans \in Seq(Fit(t)), NEW today
  PROVE  Spend(CapSpans(spans), t, today) <= Spend(spans, t, today)
<1> DEFINE n == Len(spans)  cut == CapSpans(spans)
<1>1. n \in Nat
  OBVIOUS
<1>2. CASE cut = spans
  <2>1. Spend(spans, t, today) \in Nat
    BY SpendNat
  <2> QED
    BY <1>2, <2>1
<1>3. CASE cut # spans
  <2> DEFINE c == Costs(spans, t, today)  d == Costs(cut, t, today)
  <2>1. PICK k \in 1 .. n :
          /\ cut \in Seq(Fit(t)) /\ Len(cut) = n - k + 1
          /\ \A i \in 1 .. n - k + 1 : cut[i] = spans[k + i - 1]
    BY <1>3, CapCut
  <2> DEFINE e == SubSeq(c, k, n)
  <2>2. k \in 1 .. n /\ k \in Nat
    BY <1>1, <2>1
  <2>4. c \in Seq(Nat) /\ Len(c) = n /\ \A i \in 1 .. n : c[i] = Cost(spans[i], t, today)
    BY CostsOf
  <2> HIDE DEF cut, c
  <2>5. d \in Seq(Nat) /\ Len(d) = n - k + 1 /\ \A i \in 1 .. n - k + 1 : d[i] = Cost(cut[i], t, today)
    <3>1. d \in Seq(Nat) /\ Len(d) = Len(cut) /\ \A i \in 1 .. Len(cut) : d[i] = Cost(cut[i], t, today)
      <4>1. cut \in Seq(Fit(t))
        BY <2>1
      <4> QED
        BY <4>1, CostsOf
    <3> HIDE DEF d, n
    <3> QED
      BY <2>1, <3>1
  <2> HIDE DEF d, n
  <2>6. e \in Seq(Nat) /\ SumOf(e) <= SumOf(c)
    BY <2>2, <2>4, SumSuffix
  <2>7. Len(e) = n - k + 1 /\ \A i \in 1 .. n - k + 1 : e[i] = c[k + i - 1]
    BY <1>1, <2>2, <2>4
  <2> HIDE DEF e
  <2>8. \A i \in 1 .. n - k + 1 : d[i] = e[i]
    <3> TAKE i \in 1 .. n - k + 1
    <3>1. k + i - 1 \in 1 .. n
      BY <1>1, <2>2
    <3> QED
      BY <2>1, <2>4, <2>5, <2>7, <3>1
  <2>9. d = e
    BY <2>5, <2>6, <2>7, <2>8, SeqEqual
  <2> QED
    BY <2>6, <2>9 DEF Spend, c, d, cut
<1> QED
  BY <1>2, <1>3

\* Part of a batch costs no more than the batch.
LEMMA PickedSpend ==
  ASSUME NEW t, NEW spans \in Seq(Fit(t)), NEW places \in SUBSET DOMAIN spans, NEW today
  PROVE  Spend(Picked(spans, places), t, today) <= Spend(spans, t, today)
<1> DEFINE n == Len(spans)  Chosen == {spans[i] : i \in places}  c == Costs(spans, t, today)
<1>1. n \in Nat /\ DOMAIN spans = 1 .. n /\ \A i \in 1 .. n : spans[i] \in Fit(t)
  OBVIOUS
<1>2. Chosen \subseteq Fit(t)
  BY <1>1
<1>3. PICK f \in [0 .. n -> Seq(Chosen)] :
        /\ f[0] = <<>>
        /\ \A i \in 1 .. n : f[i] = IF i \in places THEN Append(f[i - 1], spans[i]) ELSE f[i - 1]
        /\ Picked(spans, places) = f[n]
  <2>1. \E f \in [0 .. n -> Seq(Chosen)] :
          /\ f[0] = <<>>
          /\ \A i \in 1 .. n : f[i] = IF i \in places THEN Append(f[i - 1], spans[i]) ELSE f[i - 1]
          /\ Picked(spans, places) = f[n]
    BY PickedRecurrence
  <2> HIDE DEF Chosen, n
  <2> QED
    BY <2>1, Zenon
<1>4. c \in Seq(Nat) /\ Len(c) = n /\ \A i \in 1 .. n : c[i] = Cost(spans[i], t, today)
  BY CostsOf
<1> HIDE DEF n, Chosen, c
<1>5. PICK g \in [0 .. n -> Nat] : /\ g[0] = 0 /\ \A i \in 1 .. n : g[i] = g[i - 1] + c[i]
                                   /\ SumOf(c) = g[n]
  BY <1>4, SumRecurrence
<1>6. \A i \in 0 .. n : f[i] \in Seq(Fit(t))
  <2> TAKE i \in 0 .. n
  <2>1. f[i] \in Seq(Chosen)
    OBVIOUS
  <2> QED
    BY <1>2, <2>1
<1>7. \A s \in Fit(t) : Cost(s, t, today) \in Nat
  BY CostNat
<1> DEFINE Good(m) == Spend(f[m], t, today) <= g[m]
           Holds == {m \in Nat : m <= n => Good(m)}
<1>8. 0 \in Holds
  <2>1. Spend(f[0], t, today) = 0
    <3>1. <<>> \in Seq(Spans) /\ \A i \in 1 .. Len(<<>>) : FALSE
      OBVIOUS
    <3> QED
      BY <1>3, <3>1, SpendZero
  <2> QED
    BY <1>5, <2>1
<1>9. \A m \in Holds : m + 1 \in Holds
  <2> HIDE DEF Good
  <2> SUFFICES ASSUME NEW m \in Holds, m + 1 <= n
               PROVE  Good(m + 1)
    BY SMT
  <2>1. m \in Nat /\ m <= n /\ Good(m)
    BY <1>1, SMT
  <2> USE DEF Good
  <2> HIDE DEF Holds
  <2>2. m \in 0 .. n /\ m + 1 \in 1 .. n /\ (m + 1) - 1 = m /\ m + 1 \in 0 .. n
    BY <1>1, <2>1
  <2>3. g[m + 1] = g[m] + c[m + 1] /\ g[m] \in Nat /\ c[m + 1] = Cost(spans[m + 1], t, today)
    BY <1>4, <1>5, <2>2
  <2>4. Cost(spans[m + 1], t, today) \in Nat /\ Spend(f[m], t, today) \in Nat
    BY <1>1, <1>6, <1>7, <2>2, SpendNat
  <2>5. CASE m + 1 \in places
    <3>1. f[m + 1] = Append(f[m], spans[m + 1])
      BY <1>3, <2>2, <2>5
    <3>2. Spend(f[m + 1], t, today) = Spend(f[m], t, today) + Cost(spans[m + 1], t, today)
      BY <1>1, <1>6, <2>2, <3>1, SpendAppend
    <3> QED
      BY <2>1, <2>3, <2>4, <3>2
  <2>6. CASE m + 1 \notin places
    <3>1. f[m + 1] = f[m]
      BY <1>3, <2>2, <2>6
    <3> QED
      BY <2>1, <2>3, <2>4, <3>1
  <2> QED
    BY <2>5, <2>6
<1>10. Holds = Nat
  <2>1. Holds \in SUBSET Nat
    BY Zenon
  <2> HIDE DEF Holds
  <2> QED
    BY <1>8, <1>9, <2>1, Counting
<1>11. Spend(f[n], t, today) <= g[n]
  <2>1. n <= n
    BY <1>1
  <2> QED
    BY <1>1, <1>10, <2>1
<1> QED
  BY <1>3, <1>5, <1>11 DEF Spend, c

(***************************************************************************)
(* The inductive invariant: of tenants that are held to today's budget     *)
(* every stored span has a natural cost, so that what is reported is what  *)
(* is spent and the cap takes nothing off it, and with a daily budget none *)
(* is of a day to come, so that midnight brings none in.                   *)
(***************************************************************************)
LedgerInv ==
  /\ daily \in BOOLEAN /\ foresees \in BOOLEAN
  /\ store \in Seq(Spans) /\ day \in 1 .. LastDay
  /\ added \in [Spenders -> Int] /\ \A t \in Spenders \ foreign : added[t] \in Nat
  /\ \A i \in 1 .. Len(store) :
       store[i].tenant \in foreign \/ (store[i].usd \in Nat /\ (daily => store[i].day <= day))
  /\ WithinBudget

\* Spend reads daily and nothing else of the state.
LEMMA SpendStable ==
  ASSUME daily' = daily, NEW spans, NEW t, NEW today
  PROVE  Spend(spans, t, today)' = Spend(spans', t', today')
BY DEF Spend, Costs, Cost, Counts, InPeriod

\* The stored spans of a tenant that is held to its budget.
LEMMA StoreFit ==
  ASSUME LedgerInv, NEW t, t \notin foreign
  PROVE  store \in Seq(Fit(t))
<1>1. store \in Seq(Spans) /\ \A i \in 1 .. Len(store) : store[i] \in Fit(t)
  BY DEF LedgerInv, Fit
<1> QED
  BY <1>1

LEMMA LedgerInvInit == LedgerInit => LedgerInv
<1> SUFFICES ASSUME LedgerInit
             PROVE  LedgerInv
  OBVIOUS
<1> USE LedgerBoundsAssumption, BudgetsAssumption DEF LedgerInit
<1>1. store \in Seq(Spans) /\ Len(store) = 0 /\ 1 .. Len(store) = {}
  OBVIOUS
<1>2. \A t \in Spenders : Spend(store, t, day) = 0
  BY <1>1, SpendZero
<1>3. WithinBudget
  BY <1>2 DEF WithinBudget
<1>4. added \in [Spenders -> Int] /\ \A t \in Spenders : added[t] \in Nat
  OBVIOUS
<1> QED
  BY <1>1, <1>3, <1>4 DEF LedgerInv

LEMMA SpanDays == \A s \in Spans : s.day \in Int
<1>1. \A d \in Day : d \in Int
  BY LedgerBoundsAssumption DEF Day
<1> QED
  BY <1>1 DEF Spans

\* The spans of a request are spans.
LEMMA BatchSpans ==
  ASSUME NEW batch \in Batches
  PROVE  batch \in Seq(Spans) /\ DOMAIN batch = 1 .. Len(batch) /\ Len(batch) \in Nat
<1>1. PICK n \in 1 .. BatchMax : batch \in [1 .. n -> {s \in Spans : s.day - day \in Skews}]
  BY DEF Batches
<1>2. n \in Nat /\ \A i \in 1 .. n : batch[i] \in Spans
  BY <1>1
<1>3. batch \in [1 .. n -> Spans]
  BY <1>1
<1> QED
  BY <1>2, <1>3, LedgerBoundsAssumption

\* What an ingest does to the spend of a tenant, in terms of the blocked ones.
LEMMA KeptOf ==
  ASSUME NEW batch \in Batches
  PROVE  /\ KeptSpans(batch) \in Seq(Spans)
         /\ DOMAIN KeptSpans(batch) = 1 .. Len(KeptSpans(batch))
         /\ \A k \in 1 .. Len(KeptSpans(batch)) :
              \E i \in DOMAIN batch \ Denied(batch) : KeptSpans(batch)[k] = batch[i]
         /\ \A t : batch \in Seq(Fit(t)) => Spend(KeptSpans(batch), t, day) <= Spend(batch, t, day)
         /\ \A t \in BlockedTenants(batch) : Spend(KeptSpans(batch), t, day) = 0
<1> DEFINE kept == KeptSpans(batch)  places == DOMAIN batch \ Denied(batch)
<1>1. batch \in Seq(Spans) /\ DOMAIN batch = 1 .. Len(batch)
  BY BatchSpans
<1>2. places \in SUBSET DOMAIN batch
  OBVIOUS
<1>3. kept = Picked(batch, places)
  BY Zenon DEF KeptSpans
<1> HIDE DEF places, kept
<1>4. ASSUME NEW t, batch \in Seq(Fit(t))
      PROVE  Spend(kept, t, day) <= Spend(batch, t, day)
  BY <1>2, <1>3, <1>4, PickedSpend
<1>5. kept \in Seq({batch[i] : i \in places})
  BY <1>1, <1>2, <1>3, PickedElements
<1>6. \A k \in 1 .. Len(kept) : \E i \in places : kept[k] = batch[i]
  BY <1>5
<1>7. kept \in Seq(Spans) /\ DOMAIN kept = 1 .. Len(kept)
  <2>1. {batch[i] : i \in places} \subseteq Spans
    BY <1>1, <1>2
  <2> QED
    BY <1>5, <2>1
<1>8. ASSUME NEW t \in BlockedTenants(batch)
      PROVE  Spend(kept, t, day) = 0
  <2>1. ASSUME NEW k \in 1 .. Len(kept), kept[k].tenant = t
        PROVE  ~InPeriod(kept[k], day)
    <3>1. PICK i \in places : kept[k] = batch[i]
      BY <1>6
    <3>2. i \in DOMAIN batch /\ i \notin Denied(batch)
      BY DEF places
    <3> QED
      BY <2>1, <3>1, <3>2 DEF Denied
  <2> QED
    BY <1>7, <2>1, SpendZero
<1> QED
  BY <1>4, <1>6, <1>7, <1>8 DEF kept, places

LEMMA IngestKeeps ==
  ASSUME LedgerInv, NEW batch \in Batches, Ingest(batch)
  PROVE  LedgerInv'
<1> DEFINE kept == KeptSpans(batch)  all == store \o kept
<1>1. /\ daily' = daily /\ foresees' = foresees /\ day' = day
      /\ store' = CapSpans(store \o kept)
      /\ added' = [t \in Spenders |->
           IF foresees \/ Spend(kept, t, day) = 0 THEN added[t] ELSE Spend(kept, t, day)]
      /\ foreign' = foreign \cup {batch[i].tenant : i \in {i \in DOMAIN batch \ Denied(batch) : Unheld(batch[i])}}
  BY Zenon DEF Ingest
<1>2. /\ kept \in Seq(Spans) /\ DOMAIN kept = 1 .. Len(kept)
      /\ \A k \in 1 .. Len(kept) : \E i \in DOMAIN batch \ Denied(batch) : kept[k] = batch[i]
      /\ \A t : batch \in Seq(Fit(t)) => Spend(kept, t, day) <= Spend(batch, t, day)
      /\ \A t \in BlockedTenants(batch) : Spend(kept, t, day) = 0
  BY KeptOf
<1>3. batch \in Seq(Spans) /\ store \in Seq(Spans) /\ DOMAIN batch = 1 .. Len(batch) /\ day \in Int
  BY BatchSpans DEF LedgerInv
<1> HIDE DEF kept
<1>4. /\ all \in Seq(Spans) /\ Len(all) = Len(store) + Len(kept) /\ Len(store) \in Nat /\ Len(kept) \in Nat
      /\ \A i \in 1 .. Len(store) + Len(kept) : all[i] = IF i <= Len(store) THEN store[i] ELSE kept[i - Len(store)]
  BY <1>2, <1>3, ConcatProperties
<1>5. /\ store' \in Seq(Spans)
      /\ \A i \in DOMAIN store' : \E j \in 1 .. Len(all) : store'[i] = all[j]
  BY <1>1, <1>4, CapKeeps
<1>6. \A k \in 1 .. Len(kept) : kept[k].tenant \in foreign' \/ (kept[k].usd \in Nat /\ (daily => kept[k].day <= day))
  <2> TAKE k \in 1 .. Len(kept)
  <2>1. PICK i \in DOMAIN batch \ Denied(batch) : kept[k] = batch[i]
    BY <1>2
  <2>2. CASE Unheld(batch[i])
    BY <1>1, <2>1, <2>2
  <2>3. CASE ~Unheld(batch[i])
    <3>1. kept[k] \in Spans
      BY <1>2
    <3>2. kept[k].day \in Int
      BY <3>1, SpanDays
    <3> QED
      BY <1>3, <2>1, <2>3, <3>2 DEF Unheld
  <2> QED
    BY <2>2, <2>3
<1>7. ASSUME NEW t, t \notin foreign'
      PROVE  store \in Seq(Fit(t)) /\ kept \in Seq(Fit(t))
  <2>1. store \in Seq(Fit(t))
    BY <1>1, <1>7, StoreFit
  <2>2. \A k \in 1 .. Len(kept) : kept[k] \in Fit(t)
    BY <1>2, <1>6, <1>7 DEF Fit
  <2>3. kept \in Seq(Fit(t))
    BY <1>2, <2>2
  <2> QED
    BY <2>1, <2>3
<1>8. ASSUME NEW t, t \notin foreign', t \notin BlockedTenants(batch)
      PROVE  batch \in Seq(Fit(t))
  <2>1. ASSUME NEW i \in DOMAIN batch, batch[i].tenant = t
        PROVE  batch[i].usd \in Nat
    <3>1. i \in DOMAIN batch \ Denied(batch)
      BY <1>8, <2>1 DEF Denied
    <3> QED
      BY <1>1, <1>8, <2>1, <3>1 DEF Unheld
  <2>2. \A i \in 1 .. Len(batch) : batch[i] \in Fit(t)
    BY <1>3, <2>1 DEF Fit
  <2> QED
    BY <1>3, <2>2
<1>9. ASSUME NEW t, t \notin foreign'
      PROVE  /\ Spend(all, t, day) = Spend(store, t, day) + Spend(kept, t, day)
             /\ Spend(store, t, day) \in Nat /\ Spend(kept, t, day) \in Nat
             /\ Spend(store', t, day) \in Nat /\ Spend(store', t, day) <= Spend(all, t, day)
  <2>1. store \in Seq(Fit(t)) /\ kept \in Seq(Fit(t))
    BY <1>7, <1>9
  <2>2. all \in Seq(Fit(t))
    BY <2>1, ConcatProperties
  <2>3. Spend(all, t, day) = Spend(store, t, day) + Spend(kept, t, day)
    BY <2>1, SpendConcat
  <2>4. Spend(store, t, day) \in Nat /\ Spend(kept, t, day) \in Nat
    BY <2>1, SpendNat
  <2>5. store' = CapSpans(all)
    BY <1>1
  <2> HIDE DEF all
  <2>6. store' \in Seq(Fit(t)) /\ Spend(store', t, day) <= Spend(all, t, day)
    BY <2>2, <2>5, CapKeeps, CapSpend
  <2>7. Spend(store', t, day) \in Nat
    BY <2>6, SpendNat
  <2> QED
    BY <2>3, <2>4, <2>6, <2>7
<1> HIDE DEF all
<1>10. added' \in [Spenders -> Int]
  <2>1. \A t \in Spenders : (IF foresees \/ Spend(kept, t, day) = 0 THEN added[t] ELSE Spend(kept, t, day)) \in Int
    BY <1>2, SpendInt DEF LedgerInv
  <2> QED
    BY <1>1, <2>1
<1>11. \A t \in Spenders \ foreign' : t \notin foreign /\ added[t] \in Nat /\ added'[t] \in Nat
  BY <1>1, <1>9 DEF LedgerInv
<1>12. \A i \in 1 .. Len(store') :
         store'[i].tenant \in foreign' \/ (store'[i].usd \in Nat /\ (daily => store'[i].day <= day))
  <2> TAKE i \in 1 .. Len(store')
  <2>1. PICK j \in 1 .. Len(all) : store'[i] = all[j]
    BY <1>5
  <2>2. CASE j <= Len(store)
    <3>1. j \in 1 .. Len(store) /\ all[j] = store[j]
      BY <1>4, <2>2
    <3> QED
      BY <1>1, <2>1, <3>1 DEF LedgerInv
  <2>3. CASE ~(j <= Len(store))
    <3>1. j - Len(store) \in 1 .. Len(kept) /\ all[j] = kept[j - Len(store)]
      BY <1>4, <2>3
    <3> QED
      BY <1>6, <2>1, <3>1
  <2> QED
    BY <2>2, <2>3
<1>13. ASSUME NEW t \in DOMAIN Budgets \ foreign'
       PROVE  Spend(store', t, day) <= Budgets[t] + IF foresees THEN 0 ELSE added'[t]
  <2>1. t \in Spenders /\ Budgets[t] \in Nat /\ t \notin foreign' /\ t \notin foreign /\ added[t] \in Nat /\ added'[t] \in Nat
    BY <1>11, BudgetsAssumption
  <2>2. added'[t] = IF foresees \/ Spend(kept, t, day) = 0 THEN added[t] ELSE Spend(kept, t, day)
    BY <1>1, <2>1
  <2> DEFINE old == Spend(store, t, day)  new == Spend(store', t, day)
             got == Spend(kept, t, day)  asked == Spend(batch, t, day)
  <2>3. old \in Nat /\ new \in Nat /\ got \in Nat /\ new <= old + got
    <3>1. new <= Spend(all, t, day) /\ Spend(all, t, day) = old + got /\ new \in Nat /\ old \in Nat /\ got \in Nat
      BY <1>9, <2>1
    <3> HIDE DEF old, new, got
    <3> QED
      BY <3>1
  <2>4. old <= Budgets[t] + IF foresees THEN 0 ELSE added[t]
    BY <2>1 DEF LedgerInv, WithinBudget
  <2>5. CASE t \in BlockedTenants(batch)
    <3>1. got = 0
      BY <1>2, <2>5
    <3> HIDE DEF old, new, got, asked
    <3> QED
      BY <2>1, <2>2, <2>3, <2>4, <3>1 DEF got, new
  <2>6. CASE t \notin BlockedTenants(batch)
    <3>1. batch \in Seq(Fit(t)) /\ store \in Seq(Fit(t))
      BY <1>7, <1>8, <2>1, <2>6
    <3>2. asked \in Nat /\ got <= asked
      BY <1>2, <3>1, SpendNat
    <3>3. Current(t) = old
      BY <3>1, ReportedNat DEF Current
    <3>4. ~(old > Budgets[t]) /\ (foresees => ~(old + asked > Budgets[t]))
      BY <2>1, <2>6, <3>3 DEF BlockedTenants, Exceeds
    <3>5. CASE foresees
      <4> HIDE DEF old, new, got, asked
      <4> QED
        BY <2>1, <2>3, <3>2, <3>4, <3>5 DEF new
    <3>6. CASE ~foresees /\ got = 0
      <4> HIDE DEF old, new, got, asked
      <4> QED
        BY <2>1, <2>3, <3>4, <3>6 DEF new
    <3>7. CASE ~foresees /\ got # 0
      <4>1. added'[t] = got
        BY <2>2, <3>7
      <4> HIDE DEF old, new, got, asked
      <4> QED
        BY <2>1, <2>3, <3>4, <3>7, <4>1 DEF new
    <3> QED
      BY <3>5, <3>6, <3>7
  <2> QED
    BY <2>5, <2>6
<1>14. WithinBudget'
  <2>1. \A t : Spend(store, t, day)' = Spend(store', t, day)
    BY <1>1, SpendStable
  <2> QED
    BY <1>1, <1>13, <2>1 DEF WithinBudget
<1> QED
  BY <1>1, <1>5, <1>10, <1>11, <1>12, <1>14 DEF LedgerInv

LEMMA ReloadKeeps ==
  ASSUME LedgerInv, NEW batch \in Batches, WatchedReload(batch)
  PROVE  LedgerInv'
<1>1. /\ daily' = daily /\ foresees' = foresees /\ day' = day /\ added' = added
      /\ store' = CapSpans(batch) /\ foreign' = foreign \cup {s.tenant : s \in ToSet(batch)}
  BY Zenon DEF WatchedReload
<1>2. batch \in Seq(Spans) /\ DOMAIN batch = 1 .. Len(batch)
  BY BatchSpans
<1>3. /\ store' \in Seq(Spans)
      /\ \A i \in DOMAIN store' : \E j \in 1 .. Len(batch) : store'[i] = batch[j]
  BY <1>1, <1>2, CapKeeps
<1>4. \A i \in DOMAIN store' : store'[i].tenant \in foreign'
  <2> TAKE i \in DOMAIN store'
  <2>1. PICK j \in 1 .. Len(batch) : store'[i] = batch[j]
    BY <1>3
  <2>2. batch[j] \in ToSet(batch)
    BY <1>2 DEF ToSet
  <2> QED
    BY <1>1, <2>1, <2>2
<1>5. ASSUME NEW t \in DOMAIN Budgets \ foreign'
      PROVE  Spend(store', t, day) = 0
  <2>1. \A i \in 1 .. Len(store') : store'[i].tenant # t
    BY <1>3, <1>4
  <2> QED
    BY <1>3, <2>1, SpendZero
<1>6. WithinBudget'
  <2>1. \A t : Spend(store, t, day)' = Spend(store', t, day)
    BY <1>1, SpendStable
  <2>2. ASSUME NEW t \in DOMAIN Budgets \ foreign'
        PROVE  Spend(store', t, day) <= Budgets[t] + IF foresees THEN 0 ELSE added[t]
    <3>1. t \in Spenders /\ Budgets[t] \in Nat /\ added[t] \in Nat
      BY <1>1, <2>2, BudgetsAssumption DEF LedgerInv
    <3> QED
      BY <1>5, <3>1
  <2> QED
    BY <1>1, <2>1, <2>2 DEF WithinBudget
<1> QED
  BY <1>1, <1>3, <1>4, <1>6 DEF LedgerInv

LEMMA MidnightKeeps ==
  ASSUME LedgerInv, Midnight
  PROVE  LedgerInv'
<1>1. /\ daily' = daily /\ foresees' = foresees /\ day' = day + 1 /\ store' = store /\ foreign' = foreign
      /\ added' = (IF daily THEN [t \in Spenders |-> 0] ELSE added)
      /\ day' \in 1 .. LastDay /\ day \in Nat
  BY LedgerBoundsAssumption DEF Midnight, LedgerInv
<1>2. store \in Seq(Spans) /\ \A i \in 1 .. Len(store) : store[i].day \in Int
  <2>1. store \in Seq(Spans) /\ \A i \in 1 .. Len(store) : store[i] \in Spans
    BY DEF LedgerInv
  <2> QED
    BY <2>1, SpanDays
<1>3. added' \in [Spenders -> Int] /\ \A t \in Spenders \ foreign : added'[t] \in Nat
  BY <1>1 DEF LedgerInv
<1>4. \A t : Spend(store, t, day)' = Spend(store, t, day + 1)
  BY <1>1, SpendStable
<1>5. ASSUME NEW t \in DOMAIN Budgets \ foreign
      PROVE  Spend(store, t, day + 1) <= Budgets[t] + IF foresees THEN 0 ELSE added'[t]
  <2>1. t \in Spenders /\ Budgets[t] \in Nat /\ added'[t] \in Nat
    BY <1>3, BudgetsAssumption
  <2>2. CASE daily
    <3>1. \A i \in 1 .. Len(store) : store[i].tenant = t => store[i].day # day + 1
      BY <1>1, <1>2, <2>2 DEF LedgerInv
    <3>2. Spend(store, t, day + 1) = 0
      BY <1>2, <2>2, <3>1, SpendZero DEF InPeriod
    <3> QED
      BY <2>1, <3>2
  <2>3. CASE ~daily
    <3>1. Spend(store, t, day + 1) = Spend(store, t, day)
      BY <2>3 DEF Spend, Costs, Cost, Counts, InPeriod
    <3>2. added' = added
      BY <1>1, <2>3
    <3> QED
      BY <3>1, <3>2 DEF LedgerInv, WithinBudget
  <2> QED
    BY <2>2, <2>3
<1>6. WithinBudget'
  BY <1>1, <1>4, <1>5 DEF WithinBudget
<1>7. \A i \in 1 .. Len(store) :
        store[i].tenant \in foreign \/ (store[i].usd \in Nat /\ (daily => store[i].day <= day + 1))
  BY <1>1, <1>2 DEF LedgerInv
<1> QED
  BY <1>1, <1>3, <1>6, <1>7 DEF LedgerInv

LEMMA LedgerInvHolds == LedgerSpec => []LedgerInv
<1>1. LedgerInv /\ [LedgerNext]_ledgerVars => LedgerInv'
  <2> SUFFICES ASSUME LedgerInv, [LedgerNext]_ledgerVars
               PROVE  LedgerInv'
    OBVIOUS
  <2>1. ASSUME NEW batch \in Batches, Ingest(batch)
        PROVE  LedgerInv'
    BY <2>1, IngestKeeps
  <2>2. ASSUME NEW batch \in Batches, WatchedReload(batch)
        PROVE  LedgerInv'
    BY <2>2, ReloadKeeps
  <2>3. CASE Midnight
    BY <2>3, MidnightKeeps
  <2>4. CASE UNCHANGED ledgerVars
    BY <2>4 DEF ledgerVars, LedgerInv, WithinBudget, Spend, Costs, Cost, Counts, InPeriod
  <2> QED
    BY <2>1, <2>2, <2>3, <2>4 DEF LedgerNext
<1> QED
  BY <1>1, LedgerInvInit, PTL DEF LedgerSpec

\* However its spans are split over requests and days, no tenant that is held
\* to its budget has more of them stored for the period than the budget - and
\* one request, when would-exceed is off: applyBudgetDeny looks at what is
\* stored together with the whole batch, and capSpans only takes spans away.
\* Costs may be of any sign or no number; a tenant of which such a span got in
\* is one that is no longer held.
THEOREM BudgetsKept == LedgerSpec => []WithinBudget
<1>1. LedgerInv => WithinBudget
  BY DEF LedgerInv
<1> QED
  BY <1>1, LedgerInvHolds, PTL

\* /metrics and / show the spend and the denials of the store as it is: every
\* path that changes either of them computes the snapshot again.
THEOREM SnapshotKept == LedgerSpec => []SnapshotExact
<1>1. LedgerInit => SnapshotExact
  BY DEF LedgerInit, SnapshotExact, Snapshot
<1>2. SnapshotExact /\ [LedgerNext]_ledgerVars => SnapshotExact'
  <2> SUFFICES ASSUME SnapshotExact, [LedgerNext]_ledgerVars
               PROVE  SnapshotExact'
    OBVIOUS
  <2>1. daily' = daily
    BY DEF LedgerNext, Ingest, WatchedReload, Midnight, ledgerVars
  <2>2. ASSUME NEW batch \in Batches, Ingest(batch) \/ WatchedReload(batch)
        PROVE  SnapshotExact'
    <3>1. snap' = Snapshot(store', denyEvents', day)
      BY <2>2 DEF Ingest, WatchedReload
    <3>2. snap'.day = day
      BY <3>1 DEF Snapshot
    <3> QED
      BY <2>1, <3>1, <3>2 DEF SnapshotExact, Snapshot, Reported, Spend, Costs, Cost, Counts, InPeriod, DenyCount
  <2>3. CASE Midnight \/ UNCHANGED ledgerVars
    <3>1. UNCHANGED <<daily, store, denyEvents, snap>>
      BY <2>3 DEF Midnight, ledgerVars
    <3> QED
      BY <3>1 DEF SnapshotExact, Snapshot, Reported, Spend, Costs, Cost, Counts, InPeriod, DenyCount
  <2> QED
    BY <2>2, <2>3 DEF LedgerNext
<1> QED
  BY <1>1, <1>2, PTL DEF LedgerSpec

\* What is counted besides the spans.
CountsTyped ==
  /\ foreign \subseteq Spenders /\ ingests \in 0 .. MaxIngests /\ snap.day \in 1 .. LastDay
  /\ denyEvents \in [Spenders -> [1 .. LastDay -> Nat]]

LEMMA CountsTypedInit == LedgerInit => CountsTyped
  BY LedgerBoundsAssumption DEF LedgerInit, CountsTyped, Snapshot

LEMMA CountsTypedStep == LedgerInv /\ CountsTyped /\ [LedgerNext]_ledgerVars => CountsTyped'
<1> SUFFICES ASSUME LedgerInv, CountsTyped, [LedgerNext]_ledgerVars PROVE CountsTyped'
  OBVIOUS
<1>0. MaxIngests \in Nat /\ day \in 1 .. LastDay /\ \A s \in Spans : s.tenant \in Spenders
  BY LedgerBoundsAssumption DEF LedgerInv, Spans
<1>1. ASSUME NEW batch \in Batches, Ingest(batch) PROVE CountsTyped'
  <2>1. batch \in Seq(Spans) /\ DOMAIN batch = 1 .. Len(batch) /\ Len(batch) \in Nat
    BY BatchSpans
  <2>2. \A t : Cardinality({i \in Denied(batch) : batch[i].tenant = t}) \in Nat
    <3> TAKE t
    <3>1. {i \in Denied(batch) : batch[i].tenant = t} \in SUBSET (1 .. Len(batch))
      BY <2>1 DEF Denied
    <3>2. IsFiniteSet(1 .. Len(batch))
      BY <2>1, FS_Interval
    <3> QED
      BY <3>1, <3>2, FS_Subset, FS_CardinalityType
  <2>3. Counted(batch) \in [Spenders -> [1 .. LastDay -> Nat]]
    <3>1. ASSUME NEW t \in Spenders
          PROVE  [denyEvents[t] EXCEPT ![day] = @ + Cardinality({i \in Denied(batch) : batch[i].tenant = t})]
                   \in [1 .. LastDay -> Nat]
      <4>1. denyEvents[t] \in [1 .. LastDay -> Nat]
        BY DEF CountsTyped
      <4>2. denyEvents[t][day] \in Nat
        BY <1>0, <4>1
      <4>3. Cardinality({i \in Denied(batch) : batch[i].tenant = t}) \in Nat
        BY <2>2
      <4>4. \A n \in Nat : [denyEvents[t] EXCEPT ![day] = @ + n] \in [1 .. LastDay -> Nat]
        <5> TAKE n \in Nat
        <5>1. denyEvents[t][day] + n \in Nat
          BY <4>2
        <5> QED
          BY <4>1, <5>1
      <4> QED
        BY <4>3, <4>4
    <3> QED
      BY <3>1, Zenon DEF Counted
  <2>4. denyEvents' \in [Spenders -> [1 .. LastDay -> Nat]] /\ ingests' \in 0 .. MaxIngests
    <3>1. \/ UNCHANGED <<ingests, denyEvents>>
          \/ ingests < MaxIngests /\ ingests' = ingests + 1 /\ denyEvents' = Counted(batch)
      BY <1>1, Zenon DEF Ingest
    <3> QED
      BY <1>0, <2>3, <3>1 DEF CountsTyped
  <2>5. foreign' \subseteq Spenders
    <3>1. foreign' = foreign \cup {batch[i].tenant : i \in {i \in DOMAIN batch \ Denied(batch) : Unheld(batch[i])}}
      BY <1>1, Zenon DEF Ingest
    <3>2. \A i \in DOMAIN batch : batch[i].tenant \in Spenders
      BY <1>0, <2>1
    <3> QED
      BY <3>1, <3>2 DEF CountsTyped
  <2>6. snap'.day \in 1 .. LastDay
    BY <1>0, <1>1 DEF Ingest, Snapshot
  <2> QED
    BY <2>4, <2>5, <2>6 DEF CountsTyped
<1>2. ASSUME NEW batch \in Batches, WatchedReload(batch) PROVE CountsTyped'
  <2>1. batch \in Seq(Spans) /\ DOMAIN batch = 1 .. Len(batch)
    BY BatchSpans
  <2>2. foreign' = foreign \cup {s.tenant : s \in ToSet(batch)} /\ UNCHANGED <<ingests, denyEvents>>
    BY <1>2 DEF WatchedReload
  <2>3. \A s \in ToSet(batch) : s.tenant \in Spenders
    BY <1>0, <2>1 DEF ToSet
  <2>4. snap'.day \in 1 .. LastDay
    BY <1>0, <1>2 DEF WatchedReload, Snapshot
  <2> QED
    BY <2>2, <2>3, <2>4 DEF CountsTyped
<1>3. CASE Midnight \/ UNCHANGED ledgerVars
  BY <1>3 DEF Midnight, ledgerVars, CountsTyped
<1> QED
  BY <1>1, <1>2, <1>3 DEF LedgerNext

\* The store, its denials and what is shown of them keep to their types, for
\* every cap, set of prices and size of request.
THEOREM LedgerTyped == LedgerSpec => []LedgerTypeOK
<1>1. ASSUME LedgerInv, CountsTyped, SnapshotExact PROVE LedgerTypeOK
  <2>1. ASSUME NEW t \in Spenders PROVE Amount(Reported(store, t, snap.day)) \in Int
    <3>1. Spend(store, t, snap.day) \in Int
      BY <1>1, SpendInt DEF LedgerInv
    <3>2. Reported(store, t, snap.day) \in {NaN, Spend(store, t, snap.day)}
      BY Zenon DEF Reported
    <3> QED
      BY <3>1, <3>2 DEF Amount
  <2>2. ASSUME NEW t \in Spenders PROVE DenyCount(denyEvents, t, snap.day) \in Nat
    <3> DEFINE counted == [d \in 1 .. LastDay |-> IF daily => d = snap.day THEN denyEvents[t][d] ELSE 0]
    <3>1. LastDay \in Nat /\ \A d \in 1 .. LastDay : counted[d] \in Nat
      BY <1>1, LedgerBoundsAssumption DEF CountsTyped
    <3>2. counted \in [1 .. LastDay -> Nat]
      BY <3>1
    <3> HIDE DEF counted
    <3>3. counted \in Seq(Nat)
      BY <3>1, <3>2
    <3>4. SumOf(counted) \in Nat
      BY <3>3, SumNat
    <3> QED
      BY <3>4 DEF counted, DenyCount
  <2>3. snap = [day |-> snap.day,
                spend |-> [t \in Spenders |-> Amount(Reported(store, t, snap.day))],
                denied |-> [t \in Spenders |-> DenyCount(denyEvents, t, snap.day)]]
    BY <1>1 DEF SnapshotExact, Snapshot
  <2>4. /\ [t \in Spenders |-> Amount(Reported(store, t, snap.day))] \in [Spenders -> Int]
        /\ [t \in Spenders |-> DenyCount(denyEvents, t, snap.day)] \in [Spenders -> Nat]
    BY <2>1, <2>2
  <2>5. snap \in [day : 1 .. LastDay, spend : [Spenders -> Int], denied : [Spenders -> Nat]]
    BY <1>1, <2>3, <2>4 DEF CountsTyped
  <2> QED
    BY <1>1, <2>5 DEF LedgerInv, CountsTyped, LedgerTypeOK
<1> QED
  BY <1>1, LedgerInvHolds, SnapshotKept, CountsTypedInit, CountsTypedStep, PTL DEF LedgerSpec

-----------------------------------------------------------------------------
(***************************************************************************)
(* One notification.  The inductive invariant: an attempt that is out has  *)
(* not been taken, and who sleeps has made one attempt.                    *)
(***************************************************************************)
HeardOrTriedTwice ==
  /\ post = "over" => heard \/ posts = 2
  /\ event = "answered" /\ Senders[hook].waits => post = "over"

HookInv ==
  /\ HookTypeOK
  /\ event = "none" => post = "none" /\ posts = 0
  /\ post = "out" => 1 <= posts /\ taken < posts
  /\ post = "asleep" => posts = 1
  /\ HeardOrTriedTwice

LEMMA HookInvInit == HookInit => HookInv
<1> SUFFICES ASSUME HookInit PROVE HookInv
  OBVIOUS
<1>1. /\ event = "none" /\ post = "none" /\ posts = 0
      /\ heard = FALSE /\ taken = 0 /\ drips = FALSE
  BY DEF HookInit
<1>2. HookTypeOK
  <2>1. event \in {"none", "open", "answered"} /\ post \in {"none", "out", "asleep", "over"}
    BY <1>1
  <2>2. posts \in 0 .. 2 /\ taken \in 0 .. posts
    BY <1>1
  <2>3. heard \in BOOLEAN /\ drips \in BOOLEAN
    BY <1>1, Zenon
  <2> QED
    BY <2>1, <2>2, <2>3 DEF HookTypeOK
<1> QED
  BY <1>1, <1>2 DEF HookInv, HeardOrTriedTwice

LEMMA HookInvStep == HookInv /\ [HookNext]_hookVars => HookInv'
<1> SUFFICES ASSUME HookInv, [HookNext]_hookVars PROVE HookInv'
  OBVIOUS
<1> USE DEF HookInv, HookTypeOK, HeardOrTriedTwice
<1>1. CASE Fire
  BY <1>1 DEF Fire
<1>2. CASE EventAnswered
  BY <1>2 DEF EventAnswered
<1>3. ASSUME NEW answer \in {"2xx", "4xx", "5xx", "thrown"}, Outcome(answer) PROVE HookInv'
  <2>1. /\ post = "out" /\ taken' \in {taken, taken + 1}
        /\ UNCHANGED <<hook, event, posts, drips>>
    BY <1>3 DEF Outcome
  <2>2. /\ heard' = (answer \in {"2xx", "4xx"})
        /\ post' = IF posts = 1 /\ ShouldRetry(answer) THEN "asleep" ELSE "over"
    BY <1>3 DEF Outcome
  <2>3. heard' \in BOOLEAN /\ (~ShouldRetry(answer) => heard')
    <3>1. CASE answer \in {"2xx", "4xx"}
      BY <2>2, <3>1
    <3>2. CASE answer \notin {"2xx", "4xx"}
      BY <2>2, <3>2 DEF ShouldRetry
    <3> QED
      BY <3>1, <3>2
  <2>4. taken' \in 0 .. posts /\ event # "none" /\ posts \in 1 .. 2
    BY <2>1
  <2>5. (post' = "asleep" /\ posts = 1) \/ (post' = "over" /\ (heard' \/ posts = 2))
    BY <2>2, <2>3, <2>4
  <2>6. event = "answered" => ~Senders[hook].waits
    BY <2>1
  <2> QED
    BY <2>1, <2>3, <2>4, <2>5, <2>6
<1>4. CASE Drip
  BY <1>4 DEF Drip
<1>5. CASE Repeat
  BY <1>5 DEF Repeat
<1>6. CASE UNCHANGED hookVars
  BY <1>6 DEF hookVars
<1> QED
  BY <1>1, <1>2, <1>3, <1>4, <1>5, <1>6 DEF HookNext, PostEnds

LEMMA HookInvHolds == HookSpec => []HookInv
  BY HookInvInit, HookInvStep, PTL DEF HookSpec

\* Whatever the receiver does it gets the notification twice at most, and acts
\* on it no more often than it was sent.
THEOREM HookTyped == HookSpec => []HookTypeOK
<1>1. HookInv => HookTypeOK
  BY DEF HookInv
<1> QED
  BY <1>1, HookInvHolds, PTL

\* A notification that is over was heard or tried twice, and who waits for it is
\* answered no sooner.
THEOREM HooksAreTried == HookSpec => []HeardOrTriedTwice
<1>1. HookInv => HeardOrTriedTwice
  BY DEF HookInv
<1> QED
  BY <1>1, HookInvHolds, PTL
=============================================================================
