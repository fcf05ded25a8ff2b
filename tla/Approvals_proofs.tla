--------------------------- MODULE Approvals_proofs ---------------------------
(***************************************************************************)
(* Theorems about Approvals when the server is alone with its file and no  *)
(* write of it is cut short: for every number of threads and approvals,    *)
(* every TTL and every cap, with crashes between two steps.                *)
(***************************************************************************)
EXTENDS Approvals, FiniteSetTheorems, WellFoundedInduction, TLAPS

(***************************************************************************)
(* Typing, which holds with other processes and torn writes too.           *)
(***************************************************************************)
Section(w, e, d) == [rows |-> w, ended |-> e, as |-> d]

\* A thread in a section still has it in its plan.
InPlan == \A t \in Threads : work[t] # NoWork => req[t].todo # <<>>

\* A request that ends before its time, or the loop a pass.
Ends(t) == Refuse(t) \/ ReadFails(t) \/ AuditFails(t)

LEMMA EndsGiveUp == ASSUME NEW t, Ends(t) PROVE GiveUp(t)
  BY DEF Ends, Refuse, ReadFails, AuditFails

LEMMA TypeInit == Init => TypeOK
<1> SUFFICES ASSUME Init PROVE TypeOK
  OBVIOUS
<1>1. Idle \in Requests
  BY NatAssumption DEF Idle, Requests
<1>2. /\ row \in [Ids -> Statuses] /\ created \in [Ids -> Nat] /\ last \in Nat /\ now \in Nat
      /\ garbled \in BOOLEAN
  BY DEF Init, Statuses
<1>3. req \in [Threads -> Requests] /\ work \in [Threads -> {NoWork} \cup Sections]
  BY <1>1 DEF Init
<1>4. /\ outcome \in [Ids -> {"none"} \cup Decided] /\ notified \in [Ids -> 0 .. 2]
      /\ crashes \in 0 .. MaxCrashes /\ torn \in 0 .. MaxTorn /\ unaudited \subseteq Ids
  BY NatAssumption DEF Init
<1> QED
  BY <1>2, <1>3, <1>4 DEF TypeOK

LEMMA PlansTyped ==
  ASSUME TypeOK
  PROVE  /\ Idle \in Requests
         /\ \A p \in {CreatePlan, ReadPlan, DecidePlan, LoopPlan, ExportPlan} : Request(p) \in Requests
         /\ \A i \in Ids, d \in {"approved", "rejected"}, b \in BOOLEAN :
              [Request(DecidePlan) EXCEPT !.ask = <<i, d>>, !.late = b] \in Requests
<1> DEFINE Names == {"create", "expire", "silent", "decide", "notify"}
<1>1. /\ CreatePlan \in Seq(Names) /\ ReadPlan \in Seq(Names) /\ DecidePlan \in Seq(Names)
      /\ LoopPlan \in Seq(Names) /\ ExportPlan \in Seq(Names) /\ <<>> \in Seq(Names)
  BY DEF CreatePlan, ReadPlan, DecidePlan, LoopPlan, ExportPlan
<1>2. now \in Nat /\ \A i \in Ids : i \in 0 .. MaxIds
  BY NatAssumption DEF TypeOK, Ids
<1>3. Idle \in Requests
  BY <1>1, NatAssumption DEF Idle, Requests
<1>4. \A p \in Seq(Names) : Request(p) \in Requests
  BY <1>2, <1>3, NatAssumption DEF Request, Requests, Idle
<1>5. \A p \in {CreatePlan, ReadPlan, DecidePlan, LoopPlan, ExportPlan} : Request(p) \in Requests
  BY <1>1, <1>4
<1>6. ASSUME NEW i \in Ids, NEW d \in {"approved", "rejected"}, NEW b \in BOOLEAN
      PROVE  [Request(DecidePlan) EXCEPT !.ask = <<i, d>>, !.late = b] \in Requests
  BY <1>2, <1>5, <1>6 DEF Requests
<1> QED
  BY <1>3, <1>5, <1>6

LEMMA StepTyped ==
  ASSUME TypeOK, NEW t \in Threads, req[t].todo # <<>>, NEW S \in SUBSET Ids, Step(t, S)
  PROVE  req' \in [Threads -> Requests]
<1>1. Idle \in Requests /\ req[t] \in Requests
  BY PlansTyped DEF TypeOK
<1>2. Tail(req[t].todo) \in Seq({"create", "expire", "silent", "decide", "notify"})
  BY <1>1 DEF Requests
<1>3. [req[t] EXCEPT !.todo = Tail(@), !.since = now, !.news = S] \in Requests
  BY <1>1, <1>2 DEF Requests, TypeOK
<1> QED
  BY <1>1, <1>3 DEF Step, Finish, TypeOK

LEMMA RowsTyped ==
  ASSUME TypeOK
  PROVE  /\ \A t \in Threads : Contents(t) \subseteq [Ids -> Statuses]
         /\ \A r \in [Ids -> Statuses] :
              /\ Capped(r) \in [Ids -> Statuses]
              /\ \A k \in Nat : Prefix(r, k) \in [Ids -> Statuses]
              /\ \A m \in Nat : Expired(r, m) \in [Ids -> Statuses]
<1>1. \A r \in [Ids -> Statuses] :
              /\ Capped(r) \in [Ids -> Statuses]
              /\ \A k \in Nat : Prefix(r, k) \in [Ids -> Statuses]
              /\ \A m \in Nat : Expired(r, m) \in [Ids -> Statuses]
  BY DEF Capped, Prefix, Expired, Statuses, Decided
<1>2. ASSUME NEW t \in Threads PROVE Contents(t) \subseteq [Ids -> Statuses]
  <2>1. \A u \in Others(t) : work[u] # NoWork => work[u].rows \in [Ids -> Statuses]
    BY <1>2 DEF TypeOK, Sections, Others, Threads
  <2>2. \A k \in 0 .. last : k \in Nat
    BY DEF TypeOK
  <2>3. \A u \in {v \in Others(t) : work[v] # NoWork}, k \in 0 .. last :
          Prefix(work[u].rows, k) \in [Ids -> Statuses]
    BY <1>1, <2>1, <2>2
  <2> QED
    BY <2>3 DEF Contents, Writing, TypeOK
<1> QED
  BY <1>1, <1>2

LEMMA WorkTyped ==
  ASSUME TypeOK, NEW t \in Threads, NEW w \in [Ids -> Statuses], NEW e \in SUBSET Ids,
         NEW d \in Decided, Work(t, w, e, d)
  PROVE  work' \in [Threads -> {NoWork} \cup Sections]
  BY DEF Work, TypeOK, Sections

LEMMA WrittenTyped ==
  ASSUME TypeOK, NEW t \in Threads, work[t] # NoWork, NEW w \in [Ids -> Statuses], Written(t, w)
  PROVE  /\ row' \in [Ids -> Statuses] /\ created' \in [Ids -> Nat] /\ last' \in Nat
         /\ outcome' \in [Ids -> {"none"} \cup Decided]
<1>1. work[t].as \in Decided /\ req[t].since \in Nat
  BY DEF TypeOK, Sections, Requests
<1> QED
  BY <1>1 DEF Written, TypeOK

LEMMA TypeStep == TypeOK /\ InPlan /\ [Next]_vars => TypeOK'
<1> SUFFICES ASSUME TypeOK, InPlan, [Next]_vars PROVE TypeOK'
  OBVIOUS
<1>1. CASE UNCHANGED vars
  BY <1>1 DEF vars, file, TypeOK
<1>2. ASSUME NEW t \in Threads, BeginCreate(t) \/ BeginRead(t) \/ BeginCli(t) PROVE TypeOK'
  <2>1. \E p \in {CreatePlan, ReadPlan, DecidePlan, LoopPlan, ExportPlan} : Start(t, Request(p))
    BY <1>2 DEF BeginCreate, BeginRead, BeginCli
  <2>2. req' \in [Threads -> Requests]
    BY <2>1, PlansTyped DEF Start, TypeOK
  <2>3. now' \in Nat
    BY <1>2 DEF BeginCreate, BeginRead, BeginCli, TypeOK
  <2> QED
    BY <2>1, <2>2, <2>3 DEF Start, file, TypeOK
<1>3. ASSUME NEW t \in Threads, NEW i \in Ids, NEW d \in {"approved", "rejected"}, BeginDecide(t, i, d)
      PROVE TypeOK'
  <2>1. Due(i, now) \in BOOLEAN
    BY DEF Due
  <2>2. req' \in [Threads -> Requests]
    BY <1>3, <2>1, PlansTyped DEF BeginDecide, Start, TypeOK
  <2> QED
    BY <1>3, <2>2 DEF BeginDecide, Start, file, TypeOK
<1>4. CASE BeginLoop
  <2>1. req' \in [Threads -> Requests]
    BY <1>4, PlansTyped DEF BeginLoop, Start, TypeOK
  <2> QED
    BY <1>4, <2>1 DEF BeginLoop, Start, file, TypeOK
<1>5. ASSUME NEW t \in Threads, Ends(t) PROVE TypeOK'
  <2>1. req' \in [Threads -> Requests]
    BY <1>5, EndsGiveUp, PlansTyped DEF GiveUp, Finish, TypeOK
  <2>2. unaudited' \subseteq Ids
    BY <1>5 DEF Ends, Refuse, ReadFails, AuditFails, TypeOK, Requests
  <2> QED
    BY <1>5, <2>1, <2>2, EndsGiveUp DEF GiveUp, file, TypeOK
<1>6. ASSUME NEW t \in Threads, EnterExpire(t) PROVE TypeOK'
  <2>1. PICK rows \in Contents(t), m \in req[t].since .. now :
          LET kept == Capped(Expired(rows, m))
          IN IF Expiring(rows, m) = {} /\ kept = rows
             THEN Step(t, {}) /\ UNCHANGED work
             ELSE Work(t, kept, Expiring(rows, m), "expired") /\ UNCHANGED req
    BY <1>6 DEF EnterExpire
  <2>2. m \in Nat /\ req[t].todo # <<>>
    BY <1>6 DEF TypeOK, Requests, EnterExpire, At
  <2>3. /\ Capped(Expired(rows, m)) \in [Ids -> Statuses]
        /\ Expiring(rows, m) \in SUBSET Ids /\ "expired" \in Decided
    BY <2>2, RowsTyped DEF Expiring, Decided
  <2>4. work' \in [Threads -> {NoWork} \cup Sections] /\ req' \in [Threads -> Requests]
    BY <2>1, <2>2, <2>3, StepTyped, WorkTyped DEF TypeOK
  <2> QED
    BY <1>6, <2>4 DEF EnterExpire, file, TypeOK
<1>7. ASSUME NEW t \in Threads, EnterCreate(t) PROVE TypeOK'
  <2>1. PICK rows \in Contents(t) : Work(t, [rows EXCEPT ![last + 1] = "pending"], {}, "expired")
    BY <1>7 DEF EnterCreate
  <2>2. [rows EXCEPT ![last + 1] = "pending"] \in [Ids -> Statuses]
    BY RowsTyped DEF Statuses
  <2>3. work' \in [Threads -> {NoWork} \cup Sections]
    BY <2>1, <2>2, WorkTyped DEF Decided
  <2> QED
    BY <1>7, <2>3 DEF EnterCreate, file, TypeOK
<1>8. ASSUME NEW t \in Threads, EnterDecide(t) PROVE TypeOK'
  <2> DEFINE i == req[t].ask[1]
             d == req[t].ask[2]
  <2>1. PICK rows \in Contents(t) :
          IF i \in Ids /\ rows[i] = "pending"
          THEN Work(t, Capped([rows EXCEPT ![i] = d]), {i}, d) /\ UNCHANGED req
          ELSE Finish(t) /\ UNCHANGED work
    BY <1>8 DEF EnterDecide
  <2>2. d \in Decided
    BY DEF TypeOK, Requests, Decided
  <2> HIDE DEF i, d
  <2>3. [rows EXCEPT ![i] = d] \in [Ids -> Statuses]
    BY <2>2, RowsTyped DEF Statuses
  <2>4. Capped([rows EXCEPT ![i] = d]) \in [Ids -> Statuses]
    BY <2>3, RowsTyped
  <2>5. CASE i \in Ids /\ rows[i] = "pending"
    BY <1>8, <2>1, <2>2, <2>4, <2>5, WorkTyped DEF EnterDecide, file, TypeOK
  <2>6. CASE ~(i \in Ids /\ rows[i] = "pending")
    <3>1. req' \in [Threads -> Requests]
      BY <2>1, <2>6, PlansTyped DEF Finish, TypeOK
    <3> QED
      BY <1>8, <2>1, <2>6, <3>1 DEF EnterDecide, file, TypeOK
  <2> QED
    BY <2>5, <2>6
<1>9. ASSUME NEW t \in Threads, Leave(t) PROVE TypeOK'
  <2>1. work[t] \in Sections /\ work[t].rows \in [Ids -> Statuses] /\ work[t].ended \in SUBSET Ids
    BY <1>9 DEF Leave, TypeOK, Sections
  <2>2. work' \in [Threads -> {NoWork} \cup Sections]
    BY <1>9 DEF Leave, TypeOK
  <2>3. /\ row' \in [Ids -> Statuses] /\ created' \in [Ids -> Nat] /\ last' \in Nat
        /\ outcome' \in [Ids -> {"none"} \cup Decided]
    BY <1>9, <2>1, WrittenTyped DEF Leave
  <2>4. req' \in [Threads -> Requests]
    <3>1. (IF At(t, "silent") THEN {} ELSE work[t].ended) \in SUBSET Ids
      BY <2>1
    <3>2. req[t].todo # <<>>
      BY <1>9 DEF Leave, InPlan
    <3> QED
      BY <1>9, <3>1, <3>2, StepTyped DEF Leave
  <2> QED
    BY <1>9, <2>2, <2>3, <2>4 DEF Leave, TypeOK
<1>10. ASSUME NEW t \in Threads, Notify(t) PROVE TypeOK'
  <2>1. req[t].todo # <<>> /\ req[t].news \in SUBSET Ids
    BY <1>10 DEF Notify, At, TypeOK, Requests
  <2>2. req' \in [Threads -> Requests]
    BY <1>10, <2>1, StepTyped DEF Notify
  <2>3. notified' \in [Ids -> 0 .. 2]
    BY <1>10 DEF Notify, TypeOK
  <2> QED
    BY <1>10, <2>2, <2>3 DEF Notify, file, TypeOK
<1>11. ASSUME Killed PROVE /\ req' \in [Threads -> Requests] /\ now' \in Nat /\ notified' \in [Ids -> 0 .. 2]
                           /\ unaudited' \subseteq Ids /\ work' \in [Threads -> {NoWork} \cup Sections]
  BY <1>11, PlansTyped DEF Killed, TypeOK
<1>12. CASE Crash
  <2>1. crashes' \in 0 .. MaxCrashes
    BY <1>12, NatAssumption DEF Crash, TypeOK
  <2> QED
    BY <1>11, <1>12, <2>1 DEF Crash, file, TypeOK
<1>13. CASE Tear
  <2>1. PICK t \in Threads, k \in 0 .. last + 1 :
          /\ work[t] # NoWork
          /\ Written(t, Prefix(work[t].rows, k))
          /\ garbled' \in BOOLEAN
          /\ \/ t \in Server /\ Killed
             \/ /\ Finish(t) /\ work' = [work EXCEPT ![t] = NoWork]
                /\ UNCHANGED <<now, notified, unaudited>>
    BY <1>13 DEF Tear
  <2>2. k \in Nat
    BY DEF TypeOK
  <2>3. Prefix(work[t].rows, k) \in [Ids -> Statuses]
    BY <2>1, <2>2, RowsTyped DEF TypeOK, Sections
  <2>4. /\ row' \in [Ids -> Statuses] /\ created' \in [Ids -> Nat] /\ last' \in Nat
        /\ outcome' \in [Ids -> {"none"} \cup Decided]
    BY <2>1, <2>2, <2>3, WrittenTyped
  <2>5. torn' \in 0 .. MaxTorn /\ crashes' = crashes
    BY <1>13, NatAssumption DEF Tear, TypeOK
  <2>6. CASE Killed
    BY <1>11, <2>1, <2>4, <2>5, <2>6 DEF TypeOK, Killed
  <2>7. CASE /\ Finish(t) /\ work' = [work EXCEPT ![t] = NoWork]
             /\ UNCHANGED <<now, notified, unaudited>>
    <3>1. req' \in [Threads -> Requests]
      BY <2>7, PlansTyped DEF Finish, TypeOK
    <3> QED
      BY <2>1, <2>4, <2>5, <2>7, <3>1 DEF TypeOK
  <2> QED
    BY <2>1, <2>6, <2>7
<1>14. CASE Tick
  BY <1>14 DEF Tick, file, TypeOK
<1> QED
  BY <1>1, <1>2, <1>3, <1>4, <1>5, <1>6, <1>7, <1>8, <1>9, <1>10, <1>12, <1>13, <1>14
  DEF Next, Run, Enter, Ends

LEMMA PlanInit == Init => InPlan
  BY DEF Init, InPlan

LEMMA PlanStep == TypeOK /\ InPlan /\ [Next]_vars => InPlan'
<1> SUFFICES ASSUME TypeOK, InPlan, [Next]_vars, NEW u \in Threads, work'[u] # NoWork
             PROVE  req'[u].todo # <<>>
  BY DEF InPlan
<1>1. ASSUME req'[u] = req[u], work'[u] = work[u] \/ req[u].todo # <<>> PROVE req'[u].todo # <<>>
  BY <1>1 DEF InPlan
<1>2. ASSUME NEW t \in Threads, req[t] = Idle, UNCHANGED work, NEW r, req' = [req EXCEPT ![t] = r]
      PROVE  req'[u].todo # <<>>
  <2>1. u # t
    BY <1>2 DEF Idle, InPlan
  <2> QED
    BY <1>1, <1>2, <2>1 DEF TypeOK
<1>3. ASSUME NEW t \in Threads, work'[t] = NoWork, \A v \in Threads : v # t => work'[v] = work[v],
             \A v \in Threads : v # t => req'[v] = req[v]
      PROVE  req'[u].todo # <<>>
  BY <1>1, <1>3
<1>4. ASSUME NEW t \in Threads, req[t].todo # <<>>, UNCHANGED req,
             \A v \in Threads : v # t => work'[v] = work[v]
      PROVE  req'[u].todo # <<>>
  BY <1>1, <1>4
<1>5. CASE UNCHANGED vars
  BY <1>1, <1>5 DEF vars
<1>6. ASSUME NEW t \in Threads, \/ BeginCreate(t) \/ BeginRead(t) \/ BeginCli(t)
                                \/ \E i \in Ids, d \in {"approved", "rejected"} : BeginDecide(t, i, d)
      PROVE  req'[u].todo # <<>>
  BY <1>2, <1>6 DEF BeginCreate, BeginRead, BeginCli, BeginDecide, Start
<1>7. CASE BeginLoop
  BY <1>2, <1>7 DEF BeginLoop, Start, Threads, Server
<1>8. ASSUME NEW t \in Threads, Ends(t) PROVE req'[u].todo # <<>>
  BY <1>3, <1>8, EndsGiveUp DEF GiveUp, Finish, TypeOK
<1>9. ASSUME NEW t \in Threads, NEW S, Step(t, S), work'[t] = NoWork,
             \A v \in Threads : v # t => work'[v] = work[v]
      PROVE  req'[u].todo # <<>>
  <2>1. \A v \in Threads : v # t => req'[v] = req[v]
    <3>1. CASE Tail(req[t].todo) = <<>>
      BY <1>9, <3>1 DEF Step, Finish, TypeOK
    <3>2. CASE Tail(req[t].todo) # <<>>
      BY <1>9, <3>2 DEF Step, TypeOK
    <3> QED
      BY <3>1, <3>2
  <2> QED
    BY <1>3, <1>9, <2>1
<1>10. ASSUME NEW t \in Threads, req[t].todo # <<>>, UNCHANGED req, NEW w, NEW e, NEW d, Work(t, w, e, d)
       PROVE  req'[u].todo # <<>>
  BY <1>4, <1>10 DEF Work, TypeOK
<1>11. ASSUME NEW t \in Threads, EnterExpire(t) PROVE req'[u].todo # <<>>
  <2>1. PICK rows \in Contents(t), m \in req[t].since .. now :
          LET kept == Capped(Expired(rows, m))
          IN IF Expiring(rows, m) = {} /\ kept = rows
             THEN Step(t, {}) /\ UNCHANGED work
             ELSE Work(t, kept, Expiring(rows, m), "expired") /\ UNCHANGED req
    BY <1>11 DEF EnterExpire
  <2>2. work[t] = NoWork /\ req[t].todo # <<>>
    BY <1>11 DEF EnterExpire, At
  <2> QED
    BY <1>9, <1>10, <2>1, <2>2
<1>12. ASSUME NEW t \in Threads, EnterCreate(t) PROVE req'[u].todo # <<>>
  BY <1>10, <1>12 DEF EnterCreate, At
<1>13. ASSUME NEW t \in Threads, EnterDecide(t) PROVE req'[u].todo # <<>>
  <2>1. work[t] = NoWork /\ req[t].todo # <<>>
    BY <1>13 DEF EnterDecide, At
  <2>2. \/ Finish(t) /\ UNCHANGED work
        \/ \E w, e, d : Work(t, w, e, d) /\ UNCHANGED req
    BY <1>13 DEF EnterDecide
  <2>3. CASE Finish(t) /\ UNCHANGED work
    BY <1>3, <2>1, <2>3 DEF Finish, TypeOK
  <2> QED
    BY <1>10, <2>1, <2>2, <2>3
<1>14. ASSUME NEW t \in Threads, Leave(t) PROVE req'[u].todo # <<>>
  BY <1>9, <1>14 DEF Leave, TypeOK
<1>15. ASSUME NEW t \in Threads, Notify(t) PROVE req'[u].todo # <<>>
  BY <1>9, <1>15 DEF Notify
<1>16. CASE Killed
  BY <1>1, <1>16 DEF Killed
<1>17. CASE Tick
  BY <1>1, <1>17 DEF Tick
<1>18. CASE Tear /\ ~Killed
  <2>1. PICK t \in Threads : Finish(t) /\ work' = [work EXCEPT ![t] = NoWork]
    BY <1>18 DEF Tear
  <2> QED
    BY <1>3, <2>1 DEF Finish, TypeOK
<1> QED
  BY <1>5, <1>6, <1>7, <1>8, <1>11, <1>12, <1>13, <1>14, <1>15, <1>16, <1>17, <1>18
  DEF Next, Run, Enter, Crash, Ends

\* Every reachable state is well typed, torn writes and other processes included.
THEOREM TypeCorrect == Spec => []TypeOK
  BY TypeInit, TypeStep, PlanInit, PlanStep, PTL DEF Spec

(***************************************************************************)
(* The server alone with its file.                                         *)
(***************************************************************************)
ServerAlone == Cli = {} /\ MaxTorn = 0

(***************************************************************************)
(* The inductive invariant.  The lock makes what a thread has read the     *)
(* file as it still is, so what it is about to write changes only the rows *)
(* it decides and drops only decided ones.                                 *)
(***************************************************************************)
Busy(t) == work[t] # NoWork
OneWriter == \A t, u \in Threads : Busy(t) /\ Busy(u) => t = u

RowsAgree ==
  \A i \in Ids :
    /\ row[i] \in Statuses
    /\ row[i] = "pending" => outcome[i] = "none"
    /\ row[i] \in Decided => outcome[i] = row[i]
    /\ row[i] = "absent" /\ i <= last => outcome[i] # "none"
    /\ i > last => row[i] = "absent" /\ outcome[i] = "none"

\* Writing rows w, which decide the approvals S, over the rows r.
Replaces(w, S, d, r) ==
  /\ d \in Decided /\ S \subseteq Ids
  /\ \A i \in Ids :
       /\ i \in S => r[i] = "pending" /\ w[i] \in {d, "absent"}
       /\ i \notin S => w[i] = r[i] \/ (w[i] = "absent" /\ r[i] \in Decided)

Creates(t) ==
  /\ work[t].ended = {} /\ last < MaxIds
  /\ \A i \in Ids : work[t].rows[i] = IF i = last + 1 THEN "pending" ELSE row[i]

WorkFresh ==
  \A t \in Threads : Busy(t) =>
    \/ At(t, "create") /\ Creates(t)
    \/ /\ At(t, "expire") \/ At(t, "silent") \/ At(t, "decide")
       /\ Replaces(work[t].rows, work[t].ended, work[t].as, row)

Inv == ServerAlone /\ TypeOK /\ InPlan /\ ~garbled /\ last <= MaxIds /\ OneWriter /\ RowsAgree /\ WorkFresh

LEMMA InvInit == ServerAlone /\ Init => Inv
  BY TypeInit, PlanInit, NatAssumption DEF Inv, Init, OneWriter, RowsAgree, WorkFresh, Busy, Ids, Statuses, Decided

(***************************************************************************)
(* What the sections compute.                                              *)
(***************************************************************************)
LEMMA ExpiryReplaces ==
  ASSUME RowsAgree, NEW m
  PROVE  Replaces(Capped(Expired(row, m)), Expiring(row, m), "expired", row)
<1> DEFINE x == Expired(row, m)
<1>1. Expiring(row, m) \subseteq Ids /\ \A i \in Expiring(row, m) : row[i] = "pending"
  BY NatAssumption DEF Expiring, Ids
<1>2. \A i \in Ids : x[i] = IF i \in Expiring(row, m) THEN "expired" ELSE row[i]
  BY DEF Expired
<1> HIDE DEF x
<1>3. \A i \in Ids : Capped(x)[i] = x[i] \/ (Capped(x)[i] = "absent" /\ x[i] \in Decided)
  BY DEF Capped
<1> QED
  BY <1>1, <1>2, <1>3 DEF Replaces, Decided, x

LEMMA DecisionReplaces ==
  ASSUME RowsAgree, row \in [Ids -> Statuses],
         NEW i \in Ids, row[i] = "pending", NEW d \in {"approved", "rejected"}
  PROVE  Replaces(Capped([row EXCEPT ![i] = d]), {i}, d, row)
<1> DEFINE x == [row EXCEPT ![i] = d]
<1>1. \A j \in Ids : x[j] = IF j = i THEN d ELSE row[j]
  OBVIOUS
<1> HIDE DEF x
<1>2. \A j \in Ids : Capped(x)[j] = x[j] \/ (Capped(x)[j] = "absent" /\ x[j] \in Decided)
  BY DEF Capped
<1> QED
  BY <1>1, <1>2 DEF Replaces, Decided, x

(***************************************************************************)
(* Every step keeps the invariant.                                         *)
(***************************************************************************)
Safe == last <= MaxIds /\ OneWriter /\ RowsAgree /\ WorkFresh

\* A step that leaves the file and the sections alone, and the threads in one.
LEMMA QuietStep ==
  ASSUME Inv, UNCHANGED <<row, last, outcome, work>>,
         \A t \in Threads : Busy(t) => req'[t] = req[t]
  PROVE  Safe'
<1>1. last' <= MaxIds /\ OneWriter' /\ RowsAgree'
  BY DEF Inv, OneWriter, Busy, RowsAgree
<1>2. WorkFresh'
  BY DEF Inv, WorkFresh, Busy, At, Creates, Replaces
<1> QED
  BY <1>1, <1>2 DEF Safe

LEMMA OnlyFile ==
  ASSUME Inv, NEW t \in Threads, ~Busy(t), Mutex(t)
  PROVE  t \in Server /\ Contents(t) = {row} /\ \A u \in Threads : ~Busy(u)
  BY DEF Inv, ServerAlone, Threads, Mutex, Busy, Contents, Writing, Others

\* A thread that holds no section takes its next one.
LEMMA EnterStep ==
  ASSUME Inv, NEW t \in Threads, \A u \in Threads : ~Busy(u),
         UNCHANGED <<row, last, outcome, req>>,
         \A u \in Threads : u # t => work'[u] = work[u],
         \/ At(t, "create") /\ Creates(t)'
         \/ /\ At(t, "expire") \/ At(t, "silent") \/ At(t, "decide")
            /\ Replaces(work'[t].rows, work'[t].ended, work'[t].as, row)
  PROVE  Safe'
<1>1. last' <= MaxIds /\ RowsAgree'
  BY DEF Inv, RowsAgree
<1>2. \A u \in Threads : u # t => ~Busy(u)'
  BY DEF Busy
<1>3. OneWriter'
  BY <1>2 DEF OneWriter
<1>4. WorkFresh'
  BY <1>2 DEF WorkFresh, At, Replaces
<1> QED
  BY <1>1, <1>3, <1>4 DEF Safe

\* The only writer writes.
LEMMA LeaveStep ==
  ASSUME Inv, NEW t \in Threads, Leave(t)
  PROVE  Safe' /\ \A i \in Ids : outcome[i] # "none" => outcome'[i] = outcome[i]
<1>1. \A u \in Threads : ~Busy(u)'
  BY DEF Leave, Busy, Inv, OneWriter, TypeOK
<1>2. OneWriter' /\ WorkFresh'
  BY <1>1 DEF OneWriter, WorkFresh
<1>3. /\ work[t] \in Sections /\ work[t].as \in Decided
      /\ \A i \in Ids : outcome'[i] = IF i \in work[t].ended THEN work[t].as ELSE outcome[i]
      /\ \A i \in Ids : row'[i] = work[t].rows[i]
      /\ last \in Nat /\ row' \in [Ids -> Statuses]
  BY DEF Leave, Written, Inv, TypeOK, Sections
<1>4. CASE At(t, "create")
  <2>1. Creates(t)
    BY <1>4 DEF Leave, Inv, WorkFresh, Busy, At
  <2>2. last' = last + 1
    BY <1>4 DEF Leave, Written
  <2>3. outcome' = outcome \/ \A i \in Ids : outcome'[i] = outcome[i]
    BY <2>1, <1>3 DEF Creates
  <2>4. last' <= MaxIds
    BY <1>3, <2>1, <2>2, NatAssumption DEF Creates
  <2>5. RowsAgree'
    <3> SUFFICES ASSUME NEW i \in Ids
                 PROVE /\ row'[i] \in Statuses
                       /\ row'[i] = "pending" => outcome'[i] = "none"
                       /\ row'[i] \in Decided => outcome'[i] = row'[i]
                       /\ row'[i] = "absent" /\ i <= last' => outcome'[i] # "none"
                       /\ i > last' => row'[i] = "absent" /\ outcome'[i] = "none"
      BY DEF RowsAgree
    <3>1. i \in Int
      BY DEF Ids
    <3>2. CASE i = last + 1
      <4>1. row'[i] = "pending" /\ outcome[i] = "none" /\ outcome'[i] = "none"
        BY <1>3, <2>1, <2>3, <3>1, <3>2 DEF Creates, Inv, RowsAgree
      <4> QED
        BY <1>3, <2>2, <3>1, <3>2, <4>1 DEF Statuses, Decided
    <3>3. CASE i # last + 1
      <4>1. row'[i] = row[i] /\ outcome'[i] = outcome[i]
        BY <1>3, <2>1, <2>3, <3>3 DEF Creates
      <4>2. (i <= last' <=> i <= last) /\ (i > last' => i > last)
        BY <1>3, <2>2, <3>1, <3>3
      <4> QED
        BY <4>1, <4>2 DEF Inv, RowsAgree
    <3> QED
      BY <3>2, <3>3
  <2> QED
    BY <1>2, <2>3, <2>4, <2>5 DEF Safe
<1>5. CASE ~At(t, "create")
  <2>1. Replaces(work[t].rows, work[t].ended, work[t].as, row)
    BY <1>5 DEF Leave, Inv, WorkFresh, Busy
  <2>2. last' = last /\ last' <= MaxIds
    BY <1>5 DEF Leave, Written, Inv
  <2>3. RowsAgree' /\ \A i \in Ids : outcome[i] # "none" => outcome'[i] = outcome[i]
    <3> SUFFICES ASSUME NEW i \in Ids
                 PROVE /\ row'[i] \in Statuses
                       /\ row'[i] = "pending" => outcome'[i] = "none"
                       /\ row'[i] \in Decided => outcome'[i] = row'[i]
                       /\ row'[i] = "absent" /\ i <= last' => outcome'[i] # "none"
                       /\ i > last' => row'[i] = "absent" /\ outcome'[i] = "none"
                       /\ outcome[i] # "none" => outcome'[i] = outcome[i]
      BY DEF RowsAgree
    <3>1. CASE i \in work[t].ended
      <4>1. /\ row[i] = "pending" /\ outcome[i] = "none" /\ ~(i > last)
            /\ row'[i] \in {work[t].as, "absent"} /\ outcome'[i] = work[t].as
        BY <1>3, <2>1, <3>1 DEF Replaces, Inv, RowsAgree
      <4> QED
        BY <1>3, <2>2, <4>1 DEF Decided, Statuses
    <3>2. CASE i \notin work[t].ended
      <4>1. outcome'[i] = outcome[i]
        BY <1>3, <3>2
      <4>2. row'[i] = row[i] \/ (row'[i] = "absent" /\ row[i] \in Decided)
        BY <1>3, <2>1, <3>2 DEF Replaces
      <4> QED
        BY <1>3, <2>2, <4>1, <4>2 DEF Inv, RowsAgree, Decided
    <3> QED
      BY <3>1, <3>2
  <2> QED
    BY <1>2, <2>2, <2>3 DEF Safe
<1> QED
  BY <1>4, <1>5

Kept == \A i \in Ids : outcome[i] # "none" => outcome'[i] = outcome[i]

LEMMA StepAlone ==
  ASSUME TypeOK, NEW t \in Threads, ~Busy(t), NEW S, Step(t, S) \/ Finish(t)
  PROVE  \A u \in Threads : Busy(u) => req'[u] = req[u]
<1>1. CASE Finish(t)
  BY <1>1 DEF Finish, TypeOK
<1>2. CASE Step(t, S) /\ Tail(req[t].todo) # <<>>
  BY <1>2 DEF Step, TypeOK
<1>3. CASE Step(t, S) /\ Tail(req[t].todo) = <<>>
  BY <1>3 DEF Step, Finish, TypeOK
<1> QED
  BY <1>1, <1>2, <1>3

LEMMA SafeStep == Inv /\ [Next]_vars => Safe' /\ Kept
<1> SUFFICES ASSUME Inv, [Next]_vars PROVE Safe' /\ Kept
  OBVIOUS
<1> USE DEF Kept
<1>1. ASSUME UNCHANGED <<file, work>>, \A t \in Threads : Busy(t) => req'[t] = req[t]
      PROVE  Safe' /\ Kept
  BY <1>1, QuietStep DEF file
<1>2. ASSUME NEW t \in Threads, NEW r, Start(t, r) PROVE Safe' /\ Kept
  <2>1. ~Busy(t)
    BY <1>2 DEF Start, Inv, InPlan, Busy, Idle
  <2>2. \A u \in Threads : Busy(u) => req'[u] = req[u]
    BY <1>2, <2>1 DEF Start, Inv, TypeOK
  <2> QED
    BY <1>1, <1>2, <2>2 DEF Start
<1>3. CASE UNCHANGED vars
  BY <1>1, <1>3 DEF vars
<1>4. ASSUME NEW t \in Threads, \/ BeginCreate(t) \/ BeginRead(t) \/ BeginCli(t)
                                \/ \E i \in Ids, d \in {"approved", "rejected"} : BeginDecide(t, i, d)
      PROVE  Safe' /\ Kept
  BY <1>2, <1>4 DEF BeginCreate, BeginRead, BeginCli, BeginDecide
<1>5. CASE BeginLoop
  BY <1>2, <1>5 DEF BeginLoop, Threads, Server
<1>6. ASSUME NEW t \in Threads, Ends(t) \/ Notify(t) PROVE Safe' /\ Kept
  <2>1. ~Busy(t) /\ UNCHANGED <<file, work>> /\ \E S : Step(t, S) \/ Finish(t)
    BY <1>6, EndsGiveUp DEF GiveUp, Notify, Busy
  <2> QED
    BY <1>1, <2>1, StepAlone DEF Inv
<1>7. ASSUME NEW t \in Threads, EnterExpire(t) PROVE Safe' /\ Kept
  <2>1. ~Busy(t) /\ UNCHANGED file
    BY <1>7 DEF EnterExpire, Busy
  <2>2. Contents(t) = {row} /\ \A u \in Threads : ~Busy(u)
    BY <1>7, <2>1, OnlyFile DEF EnterExpire
  <2>3. PICK m \in req[t].since .. now :
          LET kept == Capped(Expired(row, m))
          IN IF Expiring(row, m) = {} /\ kept = row
             THEN Step(t, {}) /\ UNCHANGED work
             ELSE Work(t, kept, Expiring(row, m), "expired") /\ UNCHANGED req
    BY <1>7, <2>2 DEF EnterExpire
  <2>4. CASE Step(t, {}) /\ UNCHANGED work
    BY <1>1, <2>1, <2>4, StepAlone DEF Inv
  <2>5. CASE Work(t, Capped(Expired(row, m)), Expiring(row, m), "expired") /\ UNCHANGED req
    <3>1. work'[t] = Section(Capped(Expired(row, m)), Expiring(row, m), "expired")
          /\ \A u \in Threads : u # t => work'[u] = work[u]
      BY <2>5 DEF Work, Section, Inv, TypeOK
    <3>2. Replaces(work'[t].rows, work'[t].ended, work'[t].as, row)
      BY <3>1, ExpiryReplaces DEF Section, Inv
    <3> QED
      BY <1>7, <2>1, <2>2, <2>5, <3>1, <3>2, EnterStep DEF EnterExpire, file
  <2> QED
    BY <2>3, <2>4, <2>5
<1>8. ASSUME NEW t \in Threads, EnterCreate(t) PROVE Safe' /\ Kept
  <2>1. ~Busy(t) /\ UNCHANGED <<file, req>> /\ last < MaxIds /\ At(t, "create")
    BY <1>8 DEF EnterCreate, Busy
  <2>2. Contents(t) = {row} /\ \A u \in Threads : ~Busy(u)
    BY <1>8, <2>1, OnlyFile DEF EnterCreate
  <2>3. Work(t, [row EXCEPT ![last + 1] = "pending"], {}, "expired")
    BY <1>8, <2>2 DEF EnterCreate
  <2>4. work'[t] = Section([row EXCEPT ![last + 1] = "pending"], {}, "expired")
        /\ \A u \in Threads : u # t => work'[u] = work[u]
    BY <2>3 DEF Work, Section, Inv, TypeOK
  <2>5. Creates(t)'
    <3>1. work'[t].ended = {} /\ last' < MaxIds
      BY <2>1, <2>4 DEF Section, file
    <3>2. \A i \in Ids : work'[t].rows[i] = IF i = last + 1 THEN "pending" ELSE row[i]
      BY <2>4 DEF Section, Inv, TypeOK
    <3> QED
      BY <2>1, <3>1, <3>2 DEF Creates, file
  <2> QED
    BY <2>1, <2>2, <2>4, <2>5, EnterStep DEF file
<1>9. ASSUME NEW t \in Threads, EnterDecide(t) PROVE Safe' /\ Kept
  <2> DEFINE i == req[t].ask[1]
             d == req[t].ask[2]
  <2>1. ~Busy(t) /\ UNCHANGED file /\ At(t, "decide")
    BY <1>9 DEF EnterDecide, Busy
  <2>2. Contents(t) = {row} /\ \A u \in Threads : ~Busy(u)
    BY <1>9, <2>1, OnlyFile DEF EnterDecide
  <2>3. IF i \in Ids /\ row[i] = "pending"
        THEN Work(t, Capped([row EXCEPT ![i] = d]), {i}, d) /\ UNCHANGED req
        ELSE Finish(t) /\ UNCHANGED work
    BY <1>9, <2>2 DEF EnterDecide
  <2>4. d \in {"approved", "rejected"}
    BY DEF Inv, TypeOK, Requests
  <2> HIDE DEF i, d
  <2>5. CASE i \in Ids /\ row[i] = "pending"
    <3>1. work'[t] = Section(Capped([row EXCEPT ![i] = d]), {i}, d)
          /\ \A u \in Threads : u # t => work'[u] = work[u]
      BY <2>3, <2>5 DEF Work, Section, Inv, TypeOK
    <3>2. Replaces(work'[t].rows, work'[t].ended, work'[t].as, row)
      <4>1. RowsAgree /\ row \in [Ids -> Statuses]
        BY DEF Inv, TypeOK
      <4>2. Replaces(Capped([row EXCEPT ![i] = d]), {i}, d, row)
        BY <2>4, <2>5, <4>1, DecisionReplaces
      <4> QED
        BY <3>1, <4>2 DEF Section
    <3> QED
      BY <2>1, <2>2, <2>3, <2>5, <3>1, <3>2, EnterStep DEF file
  <2>6. CASE ~(i \in Ids /\ row[i] = "pending")
    BY <1>1, <2>1, <2>3, <2>6, StepAlone DEF Inv
  <2> QED
    BY <2>5, <2>6
<1>10. ASSUME NEW t \in Threads, Leave(t) PROVE Safe' /\ Kept
  BY <1>10, LeaveStep
<1>11. CASE Crash
  <2>1. \A t \in Threads : ~Busy(t)' /\ UNCHANGED file
    BY <1>11 DEF Crash, Killed, Busy, Inv, ServerAlone, Threads
  <2>2. OneWriter' /\ WorkFresh' /\ last' <= MaxIds /\ RowsAgree'
    BY <1>11, <2>1 DEF OneWriter, WorkFresh, Crash, file, Inv, RowsAgree
  <2> QED
    BY <1>11, <2>2 DEF Safe, Crash, file
<1>12. CASE Tear
  BY <1>12 DEF Tear, Inv, ServerAlone, TypeOK
<1>13. CASE Tick
  BY <1>1, <1>13 DEF Tick
<1> QED
  BY <1>3, <1>4, <1>5, <1>6, <1>7, <1>8, <1>9, <1>10, <1>11, <1>12, <1>13 DEF Next, Run, Enter, Ends

\* Without a write that is cut short the file can be read.
LEMMA FileWhole == Inv /\ [Next]_vars => ~garbled'
<1> SUFFICES ASSUME Inv, [Next]_vars PROVE ~garbled'
  OBVIOUS
<1>1. CASE UNCHANGED file
  BY <1>1 DEF file, Inv
<1>2. ASSUME NEW t \in Threads, Leave(t) PROVE ~garbled'
  BY <1>2 DEF Leave
<1>3. CASE \A t \in Threads : ~Leave(t)
  <2>1. ~Tear
    BY DEF Tear, Inv, ServerAlone, TypeOK
  <2>2. UNCHANGED file
    BY <1>3, <2>1 DEF Next, vars, BeginCreate, BeginRead, BeginCli, BeginDecide, BeginLoop, Start, Refuse,
                      ReadFails, AuditFails, GiveUp, Run, Enter, EnterExpire, EnterCreate, EnterDecide,
                      Notify, Crash, Tick
  <2> QED
    BY <1>1, <2>2
<1> QED
  BY <1>2, <1>3

LEMMA InvStep == Inv /\ [Next]_vars => Inv'
<1> SUFFICES ASSUME Inv, [Next]_vars PROVE Inv'
  OBVIOUS
<1>1. Safe' /\ TypeOK' /\ InPlan' /\ ServerAlone' /\ ~garbled'
  BY SafeStep, TypeStep, PlanStep, FileWhole DEF Inv, ServerAlone
<1> QED
  BY <1>1 DEF Inv, Safe

\* While the server is alone with its file, no interleaving of its threads and
\* no crash between two steps loses an undecided approval.
THEOREM NoApprovalLost == ServerAlone /\ Spec => []NothingLost
<1>1. Inv => NothingLost
  <2>1. ASSUME Inv, NEW i \in 1 .. last PROVE i \in Ids /\ i <= last
    BY <2>1, NatAssumption DEF Inv, TypeOK, Ids
  <2> QED
    BY <2>1 DEF Inv, RowsAgree, NothingLost
<1> QED
  BY <1>1, InvInit, InvStep, PTL DEF Spec

\* ... and no decision is ever replaced by another.
THEOREM DecisionsAreFinal == ServerAlone /\ Spec => OutcomeFinal
<1>1. Inv /\ [Next]_vars => [\A i \in Ids : outcome[i] # "none" => outcome'[i] = outcome[i]]_vars
  BY SafeStep DEF Kept
<1> QED
  BY <1>1, InvInit, InvStep, PTL DEF Spec, OutcomeFinal

(***************************************************************************)
(* The refinement of ApprovalLedger.  The ledger knows neither the lock    *)
(* nor the two halves of a section.  What a section writes is a step of it *)
(* because it is computed from the file as it still is, with decisions of  *)
(* its own: a file with no decision to add is capped already, so no write  *)
(* only caps it.                                                           *)
(***************************************************************************)
Decision(S, d) == [i \in Ids |-> IF i \in S THEN d ELSE row[i]]
Decides(t) ==
  ~At(t, "create") => work[t].ended # {} /\ work[t].rows = Capped(Decision(work[t].ended, work[t].as))

FileCapped == Capped(row) = row
Exact == FileCapped /\ \A t \in Threads : Busy(t) => Decides(t)

LEMMA IdsFinite == IsFiniteSet(Ids) /\ \A S \in SUBSET Ids : IsFiniteSet(S) /\ Cardinality(S) \in Nat
<1>1. IsFiniteSet(Ids)
  BY NatAssumption, FS_Interval DEF Ids
<1> QED
  BY <1>1, FS_Subset, FS_CardinalityType

\* The ledger counts as the store does.
LEMMA LedgerCounts == ASSUME NEW S PROVE Ledger!Cardinality(S) = Cardinality(S)
  BY DEF Ledger!Cardinality, Cardinality

\* What is capped is capped for good.
LEMMA CappedTwice == ASSUME NEW r PROVE Capped(Capped(r)) = Capped(r)
<1> DEFINE c == Capped(r)
<1> SUFFICES ASSUME NEW i \in Ids, Cap > 0, c[i] \in Decided PROVE ~(Cardinality(Newer(c, i)) >= Cap)
  BY DEF Capped, Decided
<1>1. \A j \in Ids : c[j] \in Decided => r[j] \in Decided
  BY DEF Capped, Decided
<1>2. ~(Cardinality(Newer(r, i)) >= Cap)
  BY <1>1 DEF Capped, Decided
<1>3. Newer(c, i) \in SUBSET Newer(r, i) /\ Newer(r, i) \in SUBSET Ids
  BY <1>1 DEF Newer
<1> HIDE DEF c
<1>4. /\ Cardinality(Newer(c, i)) \in Nat /\ Cardinality(Newer(r, i)) \in Nat
      /\ Cardinality(Newer(c, i)) <= Cardinality(Newer(r, i))
  BY <1>3, IdsFinite, FS_Subset
<1> QED
  BY <1>2, <1>4, NatAssumption

\* Every step writes what a section has computed, or leaves the file alone; and
\* what a section computes is a decision on the file.
LEMMA SectionCases ==
  ASSUME Inv, FileCapped, [Next]_vars
  PROVE  \/ \E t \in Threads : Leave(t)
         \/ /\ UNCHANGED file
            /\ \A t \in Threads : Busy(t)' =>
                 (Busy(t) /\ work'[t] = work[t] /\ req'[t] = req[t]) \/ Decides(t)'
<1> DEFINE Goal == \/ \E t \in Threads : Leave(t)
                   \/ /\ UNCHANGED file
                      /\ \A t \in Threads : Busy(t)' =>
                           (Busy(t) /\ work'[t] = work[t] /\ req'[t] = req[t]) \/ Decides(t)'
<1>1. ASSUME UNCHANGED <<file, work>>, \A t \in Threads : Busy(t) => req'[t] = req[t] PROVE Goal
  BY <1>1 DEF Busy
<1>2. ASSUME NEW t \in Threads, NEW r, Start(t, r) PROVE Goal
  <2>1. ~Busy(t)
    BY <1>2 DEF Start, Inv, InPlan, Busy, Idle
  <2>2. \A u \in Threads : Busy(u) => req'[u] = req[u]
    BY <1>2, <2>1 DEF Start, Inv, TypeOK
  <2> QED
    BY <1>1, <1>2, <2>2 DEF Start
<1>3. CASE UNCHANGED vars
  BY <1>1, <1>3 DEF vars
<1>4. ASSUME NEW t \in Threads, \/ BeginCreate(t) \/ BeginRead(t) \/ BeginCli(t)
                                \/ \E i \in Ids, d \in {"approved", "rejected"} : BeginDecide(t, i, d)
      PROVE  Goal
  BY <1>2, <1>4 DEF BeginCreate, BeginRead, BeginCli, BeginDecide
<1>5. CASE BeginLoop
  BY <1>2, <1>5 DEF BeginLoop, Threads, Server
<1>6. ASSUME NEW t \in Threads, Ends(t) \/ Notify(t) PROVE Goal
  <2>1. ~Busy(t) /\ UNCHANGED <<file, work>> /\ \E S : Step(t, S) \/ Finish(t)
    BY <1>6, EndsGiveUp DEF GiveUp, Notify, Busy
  <2> QED
    BY <1>1, <2>1, StepAlone DEF Inv
<1>7. ASSUME NEW t \in Threads, \A u \in Threads : ~Busy(u), UNCHANGED <<file, req>>,
             NEW S, S # {}, NEW d, NEW w, Work(t, w, S, d), w = Capped(Decision(S, d))
      PROVE  Goal
  <2>1. work'[t] = Section(w, S, d) /\ \A u \in Threads : u # t => work'[u] = work[u]
    BY <1>7 DEF Work, Section, Inv, TypeOK
  <2>2. work'[t].ended = S /\ work'[t].rows = w /\ work'[t].as = d
    BY <2>1 DEF Section
  <2>3. Capped(Decision(S, d))' = Capped(Decision(S, d))
    BY <1>7 DEF Capped, Decision, Newer, file
  <2>4. Decides(t)'
    BY <1>7, <2>2, <2>3 DEF Decides, Capped, Decision, Newer, file
  <2>5. \A u \in Threads : Busy(u)' => u = t
    BY <1>7, <2>1 DEF Busy
  <2> QED
    BY <1>7, <2>4, <2>5
<1>8. ASSUME NEW t \in Threads, EnterExpire(t) PROVE Goal
  <2>1. ~Busy(t) /\ UNCHANGED file
    BY <1>8 DEF EnterExpire, Busy
  <2>2. Contents(t) = {row} /\ \A u \in Threads : ~Busy(u)
    BY <1>8, <2>1, OnlyFile DEF EnterExpire
  <2>3. PICK m \in req[t].since .. now :
          LET kept == Capped(Expired(row, m))
          IN IF Expiring(row, m) = {} /\ kept = row
             THEN Step(t, {}) /\ UNCHANGED work
             ELSE Work(t, kept, Expiring(row, m), "expired") /\ UNCHANGED req
    BY <1>8, <2>2 DEF EnterExpire
  <2>4. Expired(row, m) = Decision(Expiring(row, m), "expired")
    BY DEF Expired, Decision
  <2>5. Expiring(row, m) = {} => Capped(Expired(row, m)) = row
    <3>1. Expiring(row, m) = {} => Expired(row, m) = row
      BY <2>4 DEF Decision, Inv, TypeOK
    <3> QED
      BY <3>1 DEF FileCapped
  <2>6. CASE Expiring(row, m) = {}
    BY <1>1, <2>1, <2>3, <2>5, <2>6, StepAlone DEF Inv
  <2>7. CASE Expiring(row, m) # {}
    <3>1. Work(t, Capped(Expired(row, m)), Expiring(row, m), "expired") /\ UNCHANGED <<file, req>>
      BY <2>1, <2>3, <2>7
    <3> QED
      BY <1>7, <2>2, <2>4, <2>7, <3>1
  <2> QED
    BY <2>6, <2>7
<1>9. ASSUME NEW t \in Threads, EnterCreate(t) PROVE Goal
  <2>1. ~Busy(t) /\ UNCHANGED <<file, req>> /\ At(t, "create")
    BY <1>9 DEF EnterCreate, Busy
  <2>2. \A u \in Threads : ~Busy(u)
    BY <1>9, <2>1, OnlyFile DEF EnterCreate
  <2>3. \A u \in Threads : u # t => work'[u] = work[u]
    BY <1>9 DEF EnterCreate, Work, Inv, TypeOK
  <2>4. \A u \in Threads : Busy(u)' => u = t
    BY <2>2, <2>3 DEF Busy
  <2>5. Decides(t)'
    BY <2>1 DEF Decides, At
  <2> QED
    BY <2>1, <2>4, <2>5
<1>10. ASSUME NEW t \in Threads, EnterDecide(t) PROVE Goal
  <2> DEFINE i == req[t].ask[1]
             d == req[t].ask[2]
  <2>1. ~Busy(t) /\ UNCHANGED file
    BY <1>10 DEF EnterDecide, Busy
  <2>2. Contents(t) = {row} /\ \A u \in Threads : ~Busy(u)
    BY <1>10, <2>1, OnlyFile DEF EnterDecide
  <2>3. IF i \in Ids /\ row[i] = "pending"
        THEN Work(t, Capped([row EXCEPT ![i] = d]), {i}, d) /\ UNCHANGED req
        ELSE Finish(t) /\ UNCHANGED work
    BY <1>10, <2>2 DEF EnterDecide
  <2> HIDE DEF i, d
  <2>4. [row EXCEPT ![i] = d] = Decision({i}, d)
    BY DEF Decision, Inv, TypeOK
  <2>5. CASE i \in Ids /\ row[i] = "pending"
    BY <1>7, <2>1, <2>2, <2>3, <2>4, <2>5
  <2>6. CASE ~(i \in Ids /\ row[i] = "pending")
    BY <1>1, <2>1, <2>3, <2>6, StepAlone DEF Inv
  <2> QED
    BY <2>5, <2>6
<1>11. ASSUME NEW t \in Threads, Leave(t) PROVE Goal
  BY <1>11
<1>12. CASE Crash
  BY <1>12 DEF Crash, Killed, Busy, Inv, ServerAlone, Threads
<1>13. CASE Tear
  BY <1>13 DEF Tear, Inv, ServerAlone, TypeOK
<1>14. CASE Tick
  BY <1>1, <1>14 DEF Tick
<1> QED
  BY <1>3, <1>4, <1>5, <1>6, <1>8, <1>9, <1>10, <1>11, <1>12, <1>13, <1>14 DEF Next, Run, Enter, Ends

\* The write of a section is one step of the ledger, and leaves a capped file.
LEMMA LeaveImplements ==
  ASSUME Inv, Exact, NEW t \in Threads, Leave(t)
  PROVE  Ledger!Next /\ FileCapped'
<1>1. /\ last \in Nat /\ last <= MaxIds /\ work[t] \in Sections /\ work[t].as \in Decided
      /\ created \in [Ids -> Nat] /\ row \in [Ids -> Statuses] /\ RowsAgree
      /\ outcome \in [Ids -> {"none"} \cup Decided] /\ req[t].since \in Nat
  BY DEF Inv, TypeOK, Leave, Sections, Requests
<1>2. /\ row' = work[t].rows
      /\ outcome' = [i \in Ids |-> IF i \in work[t].ended THEN work[t].as ELSE outcome[i]]
  BY DEF Leave, Written
<1>3. CASE At(t, "create")
  <2> DEFINE n == last + 1
  <2>1. Creates(t)
    BY <1>3 DEF Leave, Inv, WorkFresh, Busy, At
  <2>2. n \in Ids
    BY <1>1, <2>1, NatAssumption DEF Creates, Ids
  <2>3. last' = n /\ created' = [created EXCEPT ![n] = req[t].since]
    BY <1>3 DEF Leave, Written
  <2>4. /\ \A i \in Ids : outcome'[i] = outcome[i]
        /\ \A i \in Ids : row'[i] = IF i = n THEN "pending" ELSE row[i]
        /\ row[n] = "absent" /\ outcome[n] = "none"
    BY <1>1, <1>2, <2>1, <2>2 DEF Creates, RowsAgree
  <2>5. Life[n] = "new" /\ Life' = [Life EXCEPT ![n] = "pending"]
    <3>1. n > last /\ \A i \in Ids : i > last /\ ~(i > last') <=> i = n
      BY <1>1, <2>2, <2>3 DEF Ids
    <3>2. Life' = [i \in Ids |-> IF i > last' THEN "new" ELSE IF outcome'[i] = "none" THEN "pending" ELSE outcome'[i]]
      BY DEF Life, Ids
    <3>3. \A i \in Ids : i # n => Life'[i] = Life[i]
      <4> SUFFICES ASSUME NEW i \in Ids, i # n PROVE Life'[i] = Life[i]
        OBVIOUS
      <4>1. i > last <=> i > last'
        BY <1>1, <2>3 DEF Ids
      <4> QED
        BY <2>4, <3>2, <4>1 DEF Life
    <3>4. Life'[n] = "pending"
      BY <2>2, <2>4, <3>1, <3>2
    <3> HIDE DEF n
    <3>5. Life[n] = "new"
      BY <2>2, <3>1 DEF Life
    <3>6. Life' = [i \in Ids |-> Life'[i]] /\ Life = [i \in Ids |-> Life[i]]
      BY <3>2 DEF Life
    <3> QED
      BY <2>2, <3>3, <3>4, <3>5, <3>6
  <2>6. Readable' = Readable \cup {n}
    BY <2>2, <2>4 DEF Readable, Ids
  <2>7. created' \in [Ids -> Nat] /\ \A j \in Ids \ {n} : created'[j] = created[j]
    BY <1>1, <2>2, <2>3
  <2>8. Ledger!Create(n)
    BY <2>5, <2>6, <2>7 DEF Ledger!Create
  <2>9. FileCapped'
    <3>1. \A i \in Ids : row'[i] \in Decided <=> i # n /\ row[i] \in Decided
      BY <2>4 DEF Decided
    <3>2. ASSUME NEW i \in Ids, row'[i] \in Decided
          PROVE  Newer(row, i)' = Newer(row, i) /\ row[i] = row'[i] /\ row[i] \in Decided
      <4>1. i # n /\ row[i] = row'[i] /\ row[i] \in Decided
        BY <2>4, <3>1, <3>2
      <4>2. created'[i] = created[i]
        BY <2>7, <4>1
      <4> HIDE DEF n
      <4>3. Newer(row, i)' = {j \in Ids : row'[j] \in Decided /\ created'[j] > created'[i]}
        BY DEF Newer, Ids
      <4>4. \A j \in Ids : row'[j] \in Decided /\ created'[j] > created'[i]
                           <=> row[j] \in Decided /\ created[j] > created[i]
        BY <2>4, <2>7, <3>1, <4>2 DEF Decided
      <4> QED
        BY <4>1, <4>3, <4>4 DEF Newer
    <3>3. \A i \in Ids : row[i] \in Decided => ~(Cap > 0 /\ Cardinality(Newer(row, i)) >= Cap)
      <4>1. \A i \in Ids : Capped(row)[i] = row[i]
        BY DEF Exact, FileCapped
      <4> QED
        BY <4>1 DEF Capped, Decided
    <3>4. row' = [i \in Ids |-> row'[i]]
      BY <1>1, <1>2 DEF Sections
    <3>5. Capped(row)' = [i \in Ids |-> IF Cap > 0 /\ row'[i] \in Decided /\ Cardinality(Newer(row, i)') >= Cap
                                       THEN "absent" ELSE row'[i]]
      BY DEF Capped, Ids
    <3>6. \A i \in Ids : Capped(row)'[i] = row'[i]
      BY <3>2, <3>3, <3>5
    <3> QED
      BY <3>4, <3>5, <3>6 DEF FileCapped
  <2> QED
    BY <2>2, <2>8, <2>9 DEF Ledger!Next
<1>4. CASE ~At(t, "create")
  <2> DEFINE S == work[t].ended
             d == work[t].as
             x == Decision(S, d)
  <2>1. S # {} /\ row' = Capped(x)
    BY <1>2, <1>4 DEF Leave, Exact, Decides, Busy
  <2>2. S \subseteq Ids /\ \A i \in S : row[i] = "pending"
    BY <1>4 DEF Leave, Inv, WorkFresh, Busy, Replaces
  <2>3. UNCHANGED <<last, created>>
    BY <1>4 DEF Leave, Written
  <2>4. \A i \in Ids : x[i] = IF i \in S THEN d ELSE row[i]
    BY DEF Decision
  <2>5. \A i \in Ids : row[i] # "absent" => i <= last
    BY <1>1 DEF RowsAgree, Ids
  <2> HIDE DEF S, d, x
  <2>6. S \subseteq Readable /\ \A i \in S : Life[i] = "pending" /\ i <= last
    BY <1>1, <2>2, <2>5 DEF Readable, Life, RowsAgree, Ids
  <2>7. Life' = [i \in Ids |-> IF i \in S THEN d ELSE Life[i]]
    <3>1. Life' = [i \in Ids |-> IF i > last THEN "new" ELSE IF outcome'[i] = "none" THEN "pending" ELSE outcome'[i]]
      BY <2>3 DEF Life, Ids
    <3>2. \A i \in Ids : outcome'[i] = IF i \in S THEN d ELSE outcome[i]
      BY <1>2 DEF S, d
    <3>3. d # "none"
      BY <1>1 DEF d, Decided
    <3>4. \A i \in Ids : Life'[i] = IF i \in S THEN d ELSE Life[i]
      <4> SUFFICES ASSUME NEW i \in Ids PROVE Life'[i] = IF i \in S THEN d ELSE Life[i]
        OBVIOUS
      <4>1. CASE i \in S
        <5>1. ~(i > last)
          BY <1>1, <2>6, <4>1 DEF Ids
        <5> QED
          BY <3>1, <3>2, <3>3, <4>1, <5>1
      <4>2. CASE i \notin S
        BY <3>1, <3>2, <4>2 DEF Life
      <4> QED
        BY <4>1, <4>2
    <3> QED
      BY <3>1, <3>4
  <2>8. \A i \in Ids : /\ x[i] # "absent" <=> i \in Readable
                       /\ i \in Readable => (x[i] \in Decided <=> Life'[i] # "pending")
    <3> SUFFICES ASSUME NEW i \in Ids
                 PROVE  /\ x[i] # "absent" <=> i \in Readable
                        /\ i \in Readable => (x[i] \in Decided <=> Life'[i] # "pending")
      OBVIOUS
    <3>1. CASE i \in S
      <4>1. x[i] = d /\ d \in Decided /\ Life'[i] = d
        BY <1>1, <2>4, <2>7, <3>1 DEF d
      <4> QED
        BY <2>6, <3>1, <4>1 DEF Decided
    <3>2. CASE i \notin S
      <4>1. x[i] = row[i] /\ Life'[i] = Life[i]
        BY <2>4, <2>7, <3>2
      <4>2. i \in Readable => ~(i > last)
        BY <1>1, <2>5 DEF Readable, Ids
      <4>3. row[i] \in Decided => outcome[i] = row[i]
        BY <1>1 DEF RowsAgree
      <4>4. row[i] = "pending" => outcome[i] = "none"
        BY <1>1 DEF RowsAgree
      <4>5. row[i] \in {"absent", "pending"} \cup Decided
        BY <1>1 DEF Statuses
      <4> QED
        BY <4>1, <4>2, <4>3, <4>4, <4>5 DEF Life, Readable, Decided
    <3> QED
      BY <3>1, <3>2
  <2>9. ASSUME NEW i \in Readable
        PROVE  Newer(x, i) = {j \in Readable : Life'[j] # "pending" /\ created[j] > created[i]}
    <3>1. \A j \in Ids : x[j] \in Decided /\ created[j] > created[i]
                         <=> j \in Readable /\ Life'[j] # "pending" /\ created[j] > created[i]
      BY <2>8 DEF Decided
    <3> QED
      BY <3>1 DEF Newer, Readable
  <2>10. Readable' = {i \in Readable :
                        \/ Life'[i] = "pending" \/ Cap = 0
                        \/ Cardinality({j \in Readable : Life'[j] # "pending" /\ created[j] > created[i]}) < Cap}
    <3>1. Readable' = {i \in Ids : Capped(x)[i] # "absent"}
      BY <2>1 DEF Readable, Ids
    <3>2. \A i \in Ids : Capped(x)[i] # "absent"
            <=> x[i] # "absent" /\ ~(Cap > 0 /\ x[i] \in Decided /\ Cardinality(Newer(x, i)) >= Cap)
      BY DEF Capped
    <3>3. \A i \in Ids : Cardinality(Newer(x, i)) \in Nat
      <4>1. \A i \in Ids : Newer(x, i) \in SUBSET Ids
        BY DEF Newer
      <4> QED
        BY <4>1, IdsFinite
    <3>4. ASSUME NEW i \in Readable
          PROVE  Capped(x)[i] # "absent"
                   <=> \/ Life'[i] = "pending" \/ Cap = 0
                       \/ Cardinality({j \in Readable : Life'[j] # "pending" /\ created[j] > created[i]}) < Cap
      <4>1. i \in Ids
        BY DEF Readable
      <4> DEFINE k == Cardinality(Newer(x, i))
      <4>2. k \in Nat /\ k = Cardinality({j \in Readable : Life'[j] # "pending" /\ created[j] > created[i]})
        BY <2>9, <3>3, <4>1
      <4>3. Capped(x)[i] # "absent" <=> ~(Cap > 0 /\ Life'[i] # "pending" /\ k >= Cap)
        BY <2>8, <3>2, <4>1
      <4> HIDE DEF k
      <4>4. ~(Cap > 0 /\ Life'[i] # "pending" /\ k >= Cap) <=> Life'[i] = "pending" \/ Cap = 0 \/ k < Cap
        BY <4>2, NatAssumption
      <4> QED
        BY <4>2, <4>3, <4>4
    <3>5. \A i \in Ids : i \notin Readable => Capped(x)[i] = "absent"
      BY <2>8, <3>2
    <3> QED
      BY <3>1, <3>4, <3>5 DEF Readable
  <2>11. Ledger!Decide(S, d)
    BY <2>1, <2>3, <2>6, <2>7, <2>10, LedgerCounts DEF Ledger!Decide
  <2>12. S \in SUBSET Ids /\ d \in Decided
    BY <1>1, <2>2 DEF d
  <2>13. FileCapped'
    <3>1. Capped(Capped(x)) = Capped(x)
      BY CappedTwice
    <3>2. Capped(row)' = Capped(row')
      BY <2>3 DEF Capped, Newer, Ids
    <3> QED
      BY <2>1, <3>1, <3>2 DEF FileCapped
  <2> QED
    BY <2>11, <2>12, <2>13 DEF Ledger!Next
<1> QED
  BY <1>3, <1>4

LEMMA ExactInit == Init => Exact
  BY DEF Init, Exact, FileCapped, Capped, Decided, Busy

LEMMA LedgerStep == Inv /\ Exact /\ [Next]_vars => Exact' /\ [Ledger!Next]_(Ledger!ledger)
<1> SUFFICES ASSUME Inv, Exact, [Next]_vars PROVE Exact' /\ [Ledger!Next]_(Ledger!ledger)
  OBVIOUS
<1>1. ASSUME NEW t \in Threads, Leave(t) PROVE Exact' /\ Ledger!Next
  <2>1. Ledger!Next /\ FileCapped'
    BY <1>1, LeaveImplements
  <2>2. \A u \in Threads : ~Busy(u)'
    BY <1>1 DEF Leave, Busy, Inv, OneWriter, TypeOK
  <2> QED
    BY <2>1, <2>2 DEF Exact
<1>2. ASSUME UNCHANGED file,
             \A t \in Threads : Busy(t)' =>
               (Busy(t) /\ work'[t] = work[t] /\ req'[t] = req[t]) \/ Decides(t)'
      PROVE  Exact' /\ UNCHANGED Ledger!ledger
  <2>1. UNCHANGED <<row, created, last, outcome>>
    BY <1>2 DEF file
  <2>2. UNCHANGED Ledger!ledger
    BY <2>1 DEF Ledger!ledger, Life, Readable, Ids
  <2>4. FileCapped'
    BY <2>1 DEF FileCapped, Exact, Capped, Newer
  <2>5. ASSUME NEW t \in Threads, Busy(t), work'[t] = work[t], req'[t] = req[t] PROVE Decides(t)'
    <3>1. Decides(t) /\ At(t, "create")' = At(t, "create")
      BY <2>5 DEF Exact, At
    <3>2. Capped(Decision(work[t].ended, work[t].as))' = Capped(Decision(work'[t].ended, work'[t].as))
      BY <2>1 DEF Capped, Newer, Decision
    <3> QED
      BY <2>5, <3>1, <3>2 DEF Decides
  <2> QED
    BY <1>2, <2>2, <2>4, <2>5 DEF Exact
<1> QED
  BY <1>1, <1>2, SectionCases DEF Exact

LEMMA LedgerInit == Init => Ledger!Init
  BY NatAssumption DEF Init, Ledger!Init, Life, Readable, Ids

\* While the server is alone with its file, its threads, its lock and its two
\* halves of a section implement the ledger of the clients.
THEOREM StoreImplementsLedger == ServerAlone /\ Spec => LedgerSpec
  BY LedgerInit, InvInit, InvStep, ExactInit, LedgerStep, PTL DEF Spec, LedgerSpec, Ledger!Spec

(***************************************************************************)
(* What a request still has to do.                                         *)
(***************************************************************************)
Remainders ==
  {<<>>, CreatePlan, ExportPlan, LoopPlan, ReadPlan, DecidePlan, <<"notify">>, <<"notify", "silent">>,
   <<"decide", "notify">>, <<"silent", "decide", "notify">>, <<"silent", "silent", "decide", "notify">>,
   <<"notify", "silent", "silent", "decide", "notify">>}

PlansKept == \A t \in Threads : req[t].todo \in Remainders

\* No plan notifies twice in a row, and expiry comes first in that of a decision.
LEMMA RemaindersShrink ==
  /\ \A s \in Remainders \ {<<>>} :
       /\ Tail(s) \in Remainders
       /\ Head(s) = "notify" /\ Tail(s) # <<>> => Head(Tail(s)) # "notify"
       /\ Tail(s) # DecidePlan
  /\ DecidePlan # <<>> /\ Head(DecidePlan) = "expire"
<1> USE DEF CreatePlan, ExportPlan, LoopPlan, ReadPlan, DecidePlan
<1>1. /\ Tail(CreatePlan) = <<>> /\ Tail(ExportPlan) = <<>> /\ Tail(<<"notify">>) = <<>>
      /\ Tail(LoopPlan) = <<"notify">> /\ Tail(<<"decide", "notify">>) = <<"notify">>
      /\ Tail(<<"notify", "silent">>) = ExportPlan
      /\ Tail(ReadPlan) = <<"notify", "silent">>
      /\ Tail(<<"silent", "decide", "notify">>) = <<"decide", "notify">>
      /\ Tail(<<"silent", "silent", "decide", "notify">>) = <<"silent", "decide", "notify">>
  OBVIOUS
<1>2. /\ Tail(<<"notify", "silent", "silent", "decide", "notify">>) = <<"silent", "silent", "decide", "notify">>
      /\ Tail(DecidePlan) = <<"notify", "silent", "silent", "decide", "notify">>
  OBVIOUS
<1>3. /\ Head(CreatePlan) = "create" /\ Head(ExportPlan) = "silent" /\ Head(LoopPlan) = "expire"
      /\ Head(ReadPlan) = "expire" /\ Head(<<"decide", "notify">>) = "decide"
      /\ Head(<<"silent", "decide", "notify">>) = "silent"
      /\ Head(<<"silent", "silent", "decide", "notify">>) = "silent"
  OBVIOUS
<1>4. /\ DecidePlan # <<>> /\ Head(DecidePlan) = "expire" /\ DecidePlan # <<"notify">> /\ DecidePlan # ExportPlan
      /\ DecidePlan # <<"notify", "silent">> /\ DecidePlan # <<"decide", "notify">>
      /\ DecidePlan # <<"silent", "decide", "notify">>
      /\ DecidePlan # <<"silent", "silent", "decide", "notify">>
      /\ DecidePlan # <<"notify", "silent", "silent", "decide", "notify">>
  OBVIOUS
<1> DEFINE Good(s) == /\ Tail(s) \in Remainders
                      /\ Head(s) = "notify" /\ Tail(s) # <<>> => Head(Tail(s)) # "notify"
                      /\ Tail(s) # DecidePlan
<1>5. \A s \in {CreatePlan, ExportPlan, <<"notify">>} : Good(s)
  BY <1>1, <1>4 DEF Remainders
<1>6. \A s \in {LoopPlan, ReadPlan, DecidePlan, <<"decide", "notify">>, <<"silent", "decide", "notify">>,
                <<"silent", "silent", "decide", "notify">>} :
        Tail(s) \in Remainders /\ Head(s) # "notify" /\ Tail(s) # DecidePlan
  BY <1>1, <1>2, <1>3, <1>4 DEF Remainders
<1>7. \A s \in {<<"notify", "silent">>, <<"notify", "silent", "silent", "decide", "notify">>} : Good(s)
  BY <1>1, <1>2, <1>3, <1>4 DEF Remainders
<1>8. \A s \in Remainders \ {<<>>} : Good(s)
  <2>1. \A s \in Remainders \ {<<>>} :
          \/ s \in {CreatePlan, ExportPlan, <<"notify">>}
          \/ s \in {LoopPlan, ReadPlan, DecidePlan, <<"decide", "notify">>, <<"silent", "decide", "notify">>,
                    <<"silent", "silent", "decide", "notify">>}
          \/ s \in {<<"notify", "silent">>, <<"notify", "silent", "silent", "decide", "notify">>}
    BY Zenon DEF Remainders
  <2> QED
    BY <1>5, <1>6, <1>7, <2>1
<1> QED
  BY <1>4, <1>8

LEMMA StepResult ==
  ASSUME TypeOK, NEW t \in Threads, NEW S \in SUBSET Ids, Step(t, S)
  PROVE  /\ \A u \in Threads : u # t => req'[u] = req[u]
         /\ req'[t].todo = Tail(req[t].todo) /\ req'[t].news \subseteq S
         /\ req'[t].since \in {0, now}
         /\ req'[t].late => req[t].late /\ req'[t].ask = req[t].ask /\ req'[t].since = now
<1>1. req[t] \in Requests
  BY DEF TypeOK
<1>2. CASE Tail(req[t].todo) = <<>>
  <2>1. req'[t] = Idle /\ \A u \in Threads : u # t => req'[u] = req[u]
    BY <1>2 DEF Step, Finish, TypeOK
  <2>2. Idle.todo = <<>> /\ Idle.news = {} /\ Idle.since = 0 /\ Idle.late = FALSE
    BY DEF Idle
  <2> QED
    BY <1>2, <2>1, <2>2
<1>3. CASE Tail(req[t].todo) # <<>>
  <2>1. req' = [req EXCEPT ![t].todo = Tail(@), ![t].since = now, ![t].news = S]
    BY <1>3 DEF Step
  <2>2. req'[t] = [req[t] EXCEPT !.todo = Tail(@), !.since = now, !.news = S]
        /\ \A u \in Threads : u # t => req'[u] = req[u]
    BY <2>1 DEF TypeOK
  <2> QED
    BY <1>1, <2>2 DEF Requests
<1> QED
  BY <1>2, <1>3

\* How a step can change what one thread has to do.
Begins(t) ==
  \/ /\ req'[t] \in {Request(p) : p \in {CreatePlan, ReadPlan, LoopPlan, ExportPlan}}
     /\ At(t, "create")' => BeginCreate(t)
     /\ UNCHANGED <<row, created, last, outcome>>
  \/ \E i \in Ids, d \in {"approved", "rejected"} :
       /\ i <= last
       /\ req'[t] = [Request(DecidePlan) EXCEPT !.ask = <<i, d>>, !.late = Due(i, now)]
       /\ UNCHANGED <<row, created, last, outcome>>

LEMMA ReqCases ==
  ASSUME TypeOK, [Next]_vars
  PROVE  /\ now' \in Nat /\ now <= now'
         /\ \A t \in Threads :
              \/ req'[t] = req[t]
              \/ req'[t] = Idle
              \/ req[t] = Idle /\ Begins(t)
              \/ EnterExpire(t) /\ Step(t, {}) /\ UNCHANGED work
              \/ Leave(t)
              \/ Notify(t)
<1>1. now' \in Nat /\ now <= now'
  <2>1. now \in Nat /\ (now' = now \/ now' = now + 1)
    BY DEF TypeOK, Next, vars, BeginCreate, BeginRead, BeginCli, BeginDecide, BeginLoop, Refuse, ReadFails, AuditFails, GiveUp,
           Run, Enter, EnterExpire, EnterCreate, EnterDecide, Leave, Notify, Crash, Tear, Killed, Tick
  <2> QED
    BY <2>1
<1>2. ASSUME NEW t \in Threads
      PROVE  \/ req'[t] = req[t]
             \/ req'[t] = Idle
             \/ req[t] = Idle /\ Begins(t)
             \/ EnterExpire(t) /\ Step(t, {}) /\ UNCHANGED work
             \/ Leave(t)
             \/ Notify(t)
  <2> DEFINE Goal == \/ req'[t] = req[t]
                     \/ req'[t] = Idle
                     \/ req[t] = Idle /\ Begins(t)
                     \/ EnterExpire(t) /\ Step(t, {}) /\ UNCHANGED work
                     \/ Leave(t)
                     \/ Notify(t)
  <2>1. CASE UNCHANGED vars
    BY <2>1 DEF vars
  <2>2. ASSUME NEW u \in Threads, NEW r, Start(u, r)
        PROVE  /\ u # t => req'[t] = req[t]
               /\ u = t => req[t] = Idle /\ req'[t] = r /\ UNCHANGED <<row, created, last, outcome>>
    BY <2>2 DEF Start, file, TypeOK
  <2>a. \A p \in {ReadPlan, LoopPlan, ExportPlan} : req'[t] = Request(p) => ~At(t, "create")'
    BY DEF Request, Idle, At, ReadPlan, LoopPlan, ExportPlan
  <2>3. ASSUME NEW u \in Threads, BeginCreate(u) \/ BeginRead(u) \/ BeginCli(u) PROVE Goal
    <3>1. CASE BeginCreate(u)
      BY <2>2, <3>1 DEF BeginCreate, Begins
    <3>2. CASE BeginRead(u) \/ BeginCli(u)
      <4>1. \E p \in {ReadPlan, LoopPlan, ExportPlan} : Start(u, Request(p))
        BY <3>2 DEF BeginRead, BeginCli
      <4> QED
        BY <2>2, <2>a, <4>1 DEF Begins
    <3> QED
      BY <2>3, <3>1, <3>2
  <2>4. CASE BeginLoop
    BY <2>2, <2>4, <2>a DEF BeginLoop, Begins, Threads, Server
  <2>5. ASSUME NEW u \in Threads, NEW i \in Ids, NEW d \in {"approved", "rejected"}, BeginDecide(u, i, d)
        PROVE  Goal
    BY <2>2, <2>5 DEF BeginDecide, Begins
  <2>6. ASSUME NEW u \in Threads, Finish(u) PROVE req'[t] = req[t] \/ req'[t] = Idle
    BY <2>6 DEF Finish, TypeOK
  <2>7. ASSUME NEW u \in Threads, NEW S \in SUBSET Ids, Step(u, S), u # t PROVE req'[t] = req[t]
    BY <2>7, StepResult
  <2>8. ASSUME NEW u \in Threads, Ends(u) \/ EnterCreate(u) \/ EnterDecide(u) PROVE Goal
    BY <2>6, <2>8, EndsGiveUp DEF GiveUp, EnterCreate, EnterDecide
  <2>9. ASSUME NEW u \in Threads, EnterExpire(u) PROVE Goal
    <3>1. (Step(u, {}) /\ UNCHANGED work) \/ UNCHANGED req
      BY <2>9 DEF EnterExpire
    <3> QED
      BY <2>7, <2>9, <3>1
  <2>10. ASSUME NEW u \in Threads, Leave(u) PROVE Goal
    <3>1. work[u].ended \in SUBSET Ids
      BY <2>10 DEF Leave, TypeOK, Sections
    <3> QED
      BY <2>7, <2>10, <3>1 DEF Leave
  <2>11. ASSUME NEW u \in Threads, Notify(u) PROVE Goal
    <3>1. req[u].news \in SUBSET Ids
      BY DEF TypeOK, Requests
    <3> QED
      BY <2>7, <2>11, <3>1 DEF Notify
  <2>12. CASE Crash \/ Tear
    BY <2>6, <2>12 DEF Crash, Tear, Killed
  <2>13. CASE Tick
    BY <2>13 DEF Tick
  <2> QED
    BY <2>1, <2>3, <2>4, <2>5, <2>8, <2>9, <2>10, <2>11, <2>12, <2>13 DEF Next, Run, Enter, Ends
<1> QED
  BY <1>1, <1>2

LEMMA PlansInit == Init => PlansKept
  BY DEF Init, PlansKept, Remainders, Idle

LEMMA PlansStep == TypeOK /\ InPlan /\ PlansKept /\ [Next]_vars => PlansKept'
<1> SUFFICES ASSUME TypeOK, InPlan, PlansKept, [Next]_vars, NEW t \in Threads
             PROVE  req'[t].todo \in Remainders
  BY DEF PlansKept
<1>1. CASE req'[t] = req[t] \/ req'[t] = Idle
  BY <1>1 DEF PlansKept, Remainders, Idle
<1>2. CASE Begins(t)
  <2>1. req'[t].todo \in {CreatePlan, ReadPlan, LoopPlan, ExportPlan, DecidePlan}
    BY <1>2 DEF Begins, Request, Idle
  <2> QED
    BY <2>1 DEF Remainders
<1>3. ASSUME NEW S \in SUBSET Ids, Step(t, S), req[t].todo # <<>> PROVE req'[t].todo \in Remainders
  BY <1>3, StepResult, RemaindersShrink DEF PlansKept
<1>4. CASE EnterExpire(t) /\ Step(t, {})
  BY <1>3, <1>4 DEF EnterExpire, At
<1>5. CASE Leave(t)
  <2>1. work[t].ended \in SUBSET Ids /\ req[t].todo # <<>>
    BY <1>5 DEF Leave, TypeOK, Sections, InPlan
  <2> QED
    BY <1>3, <1>5, <2>1 DEF Leave
<1>6. CASE Notify(t)
  <2>1. req[t].news \in SUBSET Ids
    BY DEF TypeOK, Requests
  <2> QED
    BY <1>3, <1>6, <2>1 DEF Notify, At
<1> QED
  BY <1>1, <1>2, <1>4, <1>5, <1>6, ReqCases

(***************************************************************************)
(* Nobody is told twice: what a thread is about to notify was decided by   *)
(* it, so no other thread is, and nobody has been told before.             *)
(***************************************************************************)
Owed(t) == IF At(t, "notify") THEN req[t].news ELSE {}

OwedOnce ==
  /\ \A t \in Threads : \A i \in Owed(t) : outcome[i] # "none" /\ notified[i] = 0
  /\ \A t, u \in Threads : t # u => Owed(t) \cap Owed(u) = {}

LEMMA NotifyInit == Init => NotifiedOnce /\ OwedOnce
  BY DEF Init, NotifiedOnce, OwedOnce, Owed, At, Idle

\* A step that notifies nobody and owes nothing new.
LEMMA OwesNoMore ==
  ASSUME NotifiedOnce, OwedOnce, UNCHANGED notified,
         \A i \in Ids : outcome[i] # "none" => outcome'[i] # "none",
         \A t \in Threads : Owed(t)' \subseteq Owed(t) /\ Owed(t) \subseteq Ids
  PROVE  NotifiedOnce' /\ OwedOnce'
<1>1. NotifiedOnce'
  BY DEF NotifiedOnce
<1>2. \A t \in Threads : \A i \in Owed(t)' : outcome'[i] # "none" /\ notified'[i] = 0
  BY DEF OwedOnce
<1>3. \A t, u \in Threads : t # u => Owed(t)' \cap Owed(u)' = {}
  BY DEF OwedOnce
<1> QED
  BY <1>1, <1>2, <1>3 DEF OwedOnce

LEMMA LeaveOwes ==
  ASSUME Inv, PlansKept, NotifiedOnce, OwedOnce, NEW t \in Threads, Leave(t)
  PROVE  NotifiedOnce' /\ OwedOnce'
<1> DEFINE S == work[t].ended
<1>1. /\ S \in SUBSET Ids /\ work[t].as \in Decided
      /\ \A i \in Ids : outcome'[i] = IF i \in S THEN work[t].as ELSE outcome[i]
      /\ UNCHANGED notified
  BY DEF Leave, Written, Inv, TypeOK, Sections
<1>2. \A i \in S : i \in Ids /\ outcome[i] = "none" /\ notified[i] = 0
  <2>1. \A i \in S : row[i] = "pending"
    BY <1>1 DEF Leave, Inv, WorkFresh, Busy, Creates, Replaces
  <2>2. \A i \in S : i \in Ids /\ outcome[i] = "none"
    BY <1>1, <2>1 DEF Inv, RowsAgree
  <2> QED
    BY <2>2 DEF NotifiedOnce, Inv, TypeOK
<1>3. \A i \in Ids : outcome[i] # "none" => outcome'[i] # "none"
  BY <1>1 DEF Decided
<1>4. /\ \A u \in Threads : u # t => req'[u] = req[u]
      /\ req'[t].news \subseteq S
  <2>1. (IF At(t, "silent") THEN {} ELSE S) \in SUBSET Ids
    BY <1>1
  <2> QED
    BY <2>1, StepResult DEF Leave, Inv
<1>5. Owed(t)' \subseteq S /\ \A u \in Threads : u # t => Owed(u)' = Owed(u)
  BY <1>4 DEF Owed, At
<1>6. \A u \in Threads : Owed(u) \subseteq Ids
  BY DEF Owed, Inv, TypeOK, Requests
<1> HIDE DEF S
<1>7. NotifiedOnce'
  BY <1>1, <1>3 DEF NotifiedOnce
<1>8. \A i \in Owed(t)' : outcome'[i] # "none" /\ notified'[i] = 0
  BY <1>1, <1>2, <1>5 DEF Decided
<1>9. \A u \in Threads : u # t => \A i \in Owed(u)' : outcome'[i] # "none" /\ notified'[i] = 0
  BY <1>1, <1>3, <1>5, <1>6 DEF OwedOnce
<1>10. \A u \in Threads : u # t => Owed(t)' \cap Owed(u)' = {}
  BY <1>2, <1>5 DEF OwedOnce
<1>11. \A u, v \in Threads : u # v => Owed(u)' \cap Owed(v)' = {}
  BY <1>5, <1>10 DEF OwedOnce
<1> QED
  BY <1>7, <1>8, <1>9, <1>11 DEF OwedOnce

LEMMA NotifyPays ==
  ASSUME Inv, PlansKept, NotifiedOnce, OwedOnce, NEW t \in Threads, Notify(t)
  PROVE  NotifiedOnce' /\ OwedOnce'
<1> DEFINE S == req[t].news
<1>1. S = Owed(t) /\ S \in SUBSET Ids /\ req[t].todo # <<>> /\ Head(req[t].todo) = "notify"
  BY DEF Notify, At, Owed, Inv, TypeOK, Requests
<1>2. \A i \in S : outcome[i] # "none" /\ notified[i] = 0
  BY <1>1 DEF OwedOnce
<1>3. UNCHANGED outcome /\ \A i \in Ids : notified'[i] = IF i \in S THEN 1 ELSE notified[i]
  <2>1. UNCHANGED outcome /\ notified' = [i \in Ids |-> IF i \in S /\ notified[i] < 2
                                                      THEN notified[i] + 1 ELSE notified[i]]
    BY DEF Notify, file
  <2> QED
    BY <1>2, <2>1
<1>4. /\ \A u \in Threads : u # t => req'[u] = req[u]
      /\ req'[t].todo = Tail(req[t].todo)
  BY <1>1, StepResult DEF Notify, Inv
<1>5. Owed(t)' = {} /\ \A u \in Threads : u # t => Owed(u)' = Owed(u)
  <2>1. req[t].todo \in Remainders \ {<<>>}
    BY <1>1 DEF PlansKept
  <2>2. req'[t].todo # <<>> => Head(req'[t].todo) # "notify"
    BY <1>1, <1>4, <2>1, RemaindersShrink
  <2> QED
    BY <1>4, <2>2 DEF Owed, At
<1>6. \A u \in Threads : Owed(u) \subseteq Ids
  BY DEF Owed, Inv, TypeOK, Requests
<1> HIDE DEF S
<1>7. NotifiedOnce'
  BY <1>2, <1>3 DEF NotifiedOnce
<1>8. \A u \in Threads : \A i \in Owed(u)' : outcome'[i] # "none" /\ notified'[i] = 0
  <2> SUFFICES ASSUME NEW u \in Threads, NEW i \in Owed(u)' PROVE outcome'[i] # "none" /\ notified'[i] = 0
    OBVIOUS
  <2>1. u # t /\ i \in Owed(u) /\ i \in Ids
    BY <1>5, <1>6
  <2>2. i \notin S
    BY <1>1, <2>1 DEF OwedOnce
  <2> QED
    BY <1>3, <2>1, <2>2 DEF OwedOnce
<1>9. \A u, v \in Threads : u # v => Owed(u)' \cap Owed(v)' = {}
  BY <1>5 DEF OwedOnce
<1> QED
  BY <1>7, <1>8, <1>9 DEF OwedOnce

LEMMA NotifyStep == Inv /\ PlansKept /\ NotifiedOnce /\ OwedOnce /\ [Next]_vars => NotifiedOnce' /\ OwedOnce'
<1> SUFFICES ASSUME Inv, PlansKept, NotifiedOnce, OwedOnce, [Next]_vars PROVE NotifiedOnce' /\ OwedOnce'
  OBVIOUS
<1>1. ASSUME NEW t \in Threads, Leave(t) PROVE NotifiedOnce' /\ OwedOnce'
  BY <1>1, LeaveOwes
<1>2. ASSUME NEW t \in Threads, Notify(t) PROVE NotifiedOnce' /\ OwedOnce'
  BY <1>2, NotifyPays
<1>3. CASE \A t \in Threads : ~Leave(t) /\ ~Notify(t)
  <2>1. UNCHANGED notified
    BY <1>3 DEF Next, vars, BeginCreate, BeginRead, BeginCli, BeginDecide, BeginLoop, Start, Refuse,
                ReadFails, AuditFails, GiveUp, Run, Enter, EnterExpire, EnterCreate, EnterDecide, Crash, Tear, Killed, Tick
  <2>2. \A i \in Ids : outcome[i] # "none" => outcome'[i] # "none"
    BY SafeStep DEF Kept
  <2>3. ASSUME NEW t \in Threads PROVE Owed(t)' \subseteq Owed(t) /\ Owed(t) \subseteq Ids
    <3>1. Owed(t) \subseteq Ids
      BY DEF Owed, Inv, TypeOK, Requests
    <3>2. CASE req'[t] = req[t]
      BY <3>1, <3>2 DEF Owed, At
    <3>3. CASE req'[t] = Idle
      BY <3>1, <3>3 DEF Owed, At, Idle
    <3>4. CASE Begins(t)
      <4>1. req'[t].todo \in {CreatePlan, ReadPlan, LoopPlan, ExportPlan, DecidePlan}
        BY <3>4 DEF Begins, Request, Idle
      <4>2. Head(req'[t].todo) # "notify"
        BY <4>1 DEF CreatePlan, ReadPlan, LoopPlan, ExportPlan, DecidePlan
      <4> QED
        BY <3>1, <4>2 DEF Owed, At
    <3>5. CASE EnterExpire(t) /\ Step(t, {})
      <4>1. req'[t].news = {}
        BY <3>5, StepResult DEF Inv
      <4> QED
        BY <3>1, <4>1 DEF Owed
    <3> QED
      BY <1>3, <3>2, <3>3, <3>4, <3>5, ReqCases DEF Inv
  <2> QED
    BY <2>1, <2>2, <2>3, OwesNoMore
<1> QED
  BY <1>1, <1>2, <1>3

\* Under the same assumptions nobody is told twice of a decision, or of one
\* that was not taken.
THEOREM NobodyToldTwice == ServerAlone /\ Spec => []NotifiedOnce
<1>1. Inv => TypeOK /\ InPlan
  BY DEF Inv
<1> QED
  BY <1>1, InvInit, InvStep, PlansInit, PlansStep, NotifyInit, NotifyStep, PTL DEF Spec

(***************************************************************************)
(* A late request comes too late: the first section of its plan expires    *)
(* the approval, at a moment that is not before its arrival.               *)
(***************************************************************************)
Settled(t) ==
  /\ req[t].todo # DecidePlan => row[req[t].ask[1]] # "pending"
  /\ req[t].todo = DecidePlan /\ Busy(t) => work[t].rows[req[t].ask[1]] # "pending"

LateSettled ==
  \A t \in Threads :
    req[t].late => /\ req[t].ask[1] \in 1 .. last
                   /\ Due(req[t].ask[1], req[t].since)
                   /\ Settled(t)

SinceKept == \A t \in Threads : req[t].since <= now

LEMMA LateInit == Init => SinceKept /\ LateSettled
  BY DEF Init, SinceKept, LateSettled, Idle

LEMMA SinceStep == TypeOK /\ SinceKept /\ [Next]_vars => SinceKept'
<1> SUFFICES ASSUME TypeOK, SinceKept, [Next]_vars, NEW t \in Threads PROVE req'[t].since <= now'
  BY DEF SinceKept
<1>1. /\ now \in Nat /\ now' \in Nat /\ now <= now' /\ req[t] \in Requests
      /\ req[t].since \in Nat /\ req[t].since <= now /\ Idle.since = 0
  BY ReqCases DEF TypeOK, SinceKept, Requests, Idle
<1>2. req'[t] = req[t] \/ req'[t].since \in {0, now}
  <2>1. CASE Begins(t)
    BY <2>1 DEF Begins, Request, Idle
  <2>2. ASSUME NEW S \in SUBSET Ids, Step(t, S) PROVE req'[t].since \in {0, now}
    BY <2>2, StepResult
  <2>3. CASE Leave(t)
    <3>1. work[t].ended \in SUBSET Ids
      BY <2>3 DEF Leave, TypeOK, Sections
    <3> QED
      BY <2>2, <2>3, <3>1 DEF Leave
  <2>4. CASE Notify(t)
    BY <1>1, <2>2, <2>4 DEF Notify, Requests
  <2> QED
    BY <1>1, <2>1, <2>2, <2>3, <2>4, ReqCases
<1> QED
  BY <1>1, <1>2

\* Rows that are not pending stay so, and stamps stay as they are.
LEMMA RowsSettle ==
  ASSUME Inv, [Next]_vars
  PROVE  /\ last \in Nat /\ last' \in Nat /\ last <= last'
         /\ \A i \in 1 .. last : created'[i] = created[i] /\ (row[i] # "pending" => row'[i] # "pending")
<1>1. last \in Nat
  BY DEF Inv, TypeOK
<1>2. ASSUME NEW t \in Threads, Leave(t)
      PROVE  /\ last' = last \/ last' = last + 1
             /\ \A i \in 1 .. last : created'[i] = created[i] /\ (row[i] # "pending" => row'[i] # "pending")
  <2>1. Busy(t) /\ row' = work[t].rows /\ last <= MaxIds
    BY <1>2 DEF Leave, Busy, Written, Inv
  <2>2. \A i \in 1 .. last : i \in Ids /\ i # last + 1
    BY <1>1, <2>1, NatAssumption DEF Ids
  <2>3. (last' = last \/ last' = last + 1) /\ \A i \in 1 .. last : created'[i] = created[i]
    BY <1>2, <2>2 DEF Leave, Written, Inv, TypeOK
  <2>4. \A i \in 1 .. last : row[i] # "pending" => row'[i] # "pending"
    BY <2>1, <2>2 DEF Inv, WorkFresh, Creates, Replaces, Decided
  <2> QED
    BY <2>3, <2>4
<1>3. CASE \A t \in Threads : ~Leave(t)
  <2>1. ~Tear
    BY DEF Tear, Inv, ServerAlone, TypeOK
  <2>2. UNCHANGED <<row, created, last>>
    BY <1>3, <2>1 DEF Next, vars, file, BeginCreate, BeginRead, BeginCli, BeginDecide, BeginLoop, Start, Refuse,
                      ReadFails, AuditFails, GiveUp, Run, Enter, EnterExpire, EnterCreate, EnterDecide, Notify, Crash, Tick
  <2> QED
    BY <1>1, <2>2
<1> QED
  BY <1>1, <1>2, <1>3

LEMMA DueLater ==
  ASSUME TypeOK, NEW i \in Ids, NEW m \in Nat, NEW n \in Nat, m <= n, Due(i, m)
  PROVE  Due(i, n)
<1>1. created[i] \in Nat
  BY DEF TypeOK
<1> QED
  BY <1>1, NatAssumption DEF Due

\* What a thread that is late has read leaves its approval expired.
LEMMA LateExpires ==
  ASSUME Inv, SinceKept, LateSettled, NEW t \in Threads, req[t].late, EnterExpire(t), req[t].todo = DecidePlan
  PROVE  \/ Step(t, {}) /\ row[req[t].ask[1]] # "pending"
         \/ UNCHANGED req /\ work'[t].rows[req[t].ask[1]] # "pending"
<1> DEFINE i == req[t].ask[1]
<1>1. i \in Ids /\ Due(i, req[t].since)
  BY NatAssumption DEF LateSettled, Inv, TypeOK, Ids
<1>2. req[t].since \in Nat /\ now \in Nat
  BY DEF Inv, TypeOK, Requests
<1>3. Contents(t) = {row}
  BY OnlyFile DEF EnterExpire, Busy
<1>4. PICK m \in req[t].since .. now :
        LET kept == Capped(Expired(row, m))
        IN IF Expiring(row, m) = {} /\ kept = row
           THEN Step(t, {}) /\ UNCHANGED work
           ELSE Work(t, kept, Expiring(row, m), "expired") /\ UNCHANGED req
  BY <1>3 DEF EnterExpire
<1>5. m \in Nat /\ Due(i, m)
  BY <1>1, <1>2, DueLater DEF Inv
<1> HIDE DEF i
<1>6. row[i] = "pending" => i \in Expiring(row, m)
  BY <1>1, <1>5 DEF Expiring
<1>7. CASE Expiring(row, m) = {} /\ Capped(Expired(row, m)) = row
  BY <1>4, <1>6, <1>7 DEF i
<1>8. CASE ~(Expiring(row, m) = {} /\ Capped(Expired(row, m)) = row)
  <2>1. Work(t, Capped(Expired(row, m)), Expiring(row, m), "expired") /\ UNCHANGED req
    BY <1>4, <1>8
  <2>2. work'[t].rows = Capped(Expired(row, m))
    BY <2>1 DEF Work, Inv, TypeOK
  <2>3. Expired(row, m)[i] # "pending"
    BY <1>1, <1>6 DEF Expired
  <2>4. Capped(Expired(row, m))[i] # "pending"
    BY <1>1, <2>3 DEF Capped
  <2> QED
    BY <2>1, <2>2, <2>4 DEF i
<1> QED
  BY <1>7, <1>8

\* The sections of other threads leave the work of a thread alone.
LEMMA WorkKept ==
  ASSUME Inv, [Next]_vars, NEW t \in Threads
  PROVE  \/ work'[t] = work[t]
         \/ ~Busy(t)'
         \/ EnterExpire(t) /\ UNCHANGED req
         \/ EnterCreate(t) /\ UNCHANGED req
         \/ EnterDecide(t) /\ UNCHANGED req
<1>1. ASSUME NEW u \in Threads, NEW w, NEW e, NEW d, Work(u, w, e, d), u # t PROVE work'[t] = work[t]
  BY <1>1 DEF Work, Inv, TypeOK
<1>2. ASSUME NEW u \in Threads, EnterExpire(u) \/ EnterCreate(u) \/ EnterDecide(u)
      PROVE  work' = work \/ \E w, e, d : Work(u, w, e, d) /\ UNCHANGED req
  <2>1. CASE EnterExpire(u)
    BY <2>1 DEF EnterExpire
  <2>2. CASE EnterCreate(u)
    BY <2>2 DEF EnterCreate
  <2>3. CASE EnterDecide(u)
    BY <2>3 DEF EnterDecide
  <2> QED
    BY <1>2, <2>1, <2>2, <2>3
<1>3. ASSUME NEW u \in Threads, Leave(u) PROVE work'[t] = work[t] \/ ~Busy(t)'
  BY <1>3 DEF Leave, Inv, TypeOK, Busy
<1>4. CASE Killed
  BY <1>4 DEF Killed, Busy
<1>5. CASE work' = work
  BY <1>5
<1>6. ASSUME NEW u \in Threads, Enter(u)
      PROVE  \/ work'[t] = work[t]
             \/ EnterExpire(t) /\ UNCHANGED req
             \/ EnterCreate(t) /\ UNCHANGED req
             \/ EnterDecide(t) /\ UNCHANGED req
  BY <1>1, <1>2, <1>6 DEF Enter
<1>7. \/ \E u \in Threads : Enter(u) \/ Leave(u)
      \/ Killed
      \/ work' = work
  <2>1. ~Tear
    BY DEF Tear, Inv, ServerAlone, TypeOK
  <2> QED
    BY <2>1 DEF Next, vars, Run, BeginCreate, BeginRead, BeginCli, BeginDecide, BeginLoop, Start, Refuse, ReadFails, AuditFails, GiveUp,
         Notify, Crash, Tick
<1> QED
  BY <1>3, <1>4, <1>5, <1>6, <1>7

LEMMA LateStep == Inv /\ PlansKept /\ SinceKept /\ LateSettled /\ [Next]_vars => LateSettled'
<1> SUFFICES ASSUME Inv, PlansKept, SinceKept, LateSettled, [Next]_vars, NEW t \in Threads, req'[t].late
             PROVE  /\ req'[t].ask[1] \in 1 .. last'
                    /\ Due(req[t].ask[1], req[t].since)'
                    /\ Settled(t)'
  BY DEF LateSettled
<1> DEFINE i == req'[t].ask[1]
<1>0. TypeOK /\ now \in Nat /\ req[t].since \in Nat /\ req[t].since <= now
  BY DEF Inv, TypeOK, SinceKept, Requests
<1>1. ASSUME i \in 1 .. last, Due(i, req'[t].since) PROVE i \in 1 .. last' /\ Due(req[t].ask[1], req[t].since)'
  BY <1>1, RowsSettle DEF Due
<1>2. CASE req'[t] = req[t]
  <2>1. i \in 1 .. last /\ Due(i, req'[t].since) /\ Settled(t) /\ req[t].late /\ i = req[t].ask[1]
    BY <1>2 DEF LateSettled
  <2>2. req'[t].todo # DecidePlan => row'[i] # "pending"
    BY <1>2, <2>1, RowsSettle DEF Settled
  <2>3. ASSUME req'[t].todo = DecidePlan, Busy(t)' PROVE work'[t].rows[i] # "pending"
    <3>1. CASE work'[t] = work[t]
      BY <1>2, <2>1, <2>3, <3>1 DEF Settled, Busy
    <3>2. CASE EnterExpire(t) /\ UNCHANGED req
      <4>1. ~Step(t, {})
        <5>1. req[t].todo \in Remainders \ {<<>>} /\ req[t].todo = DecidePlan
          BY <1>2, <2>3, RemaindersShrink DEF PlansKept
        <5>2. Step(t, {}) => req'[t].todo = Tail(req[t].todo)
          BY <1>0, StepResult
        <5> QED
          BY <1>2, <2>3, <5>1, <5>2, RemaindersShrink
      <4> QED
        BY <1>2, <2>1, <2>3, <3>2, <4>1, LateExpires
    <3>3. CASE EnterCreate(t) \/ EnterDecide(t)
      BY <1>2, <2>3, <3>3, RemaindersShrink DEF EnterCreate, EnterDecide, At
    <3> QED
      BY <2>3, <3>1, <3>2, <3>3, WorkKept
  <2> QED
    BY <1>1, <2>1, <2>2, <2>3 DEF Settled
<1>3. CASE req'[t] = Idle
  BY <1>3 DEF Idle
<1>4. CASE req[t] = Idle /\ Begins(t)
  <2>1. \A p : Request(p).late = FALSE
    BY DEF Request, Idle
  <2>2. PICK j \in Ids, d \in {"approved", "rejected"} :
          /\ j <= last
          /\ req'[t] = [Request(DecidePlan) EXCEPT !.ask = <<j, d>>, !.late = Due(j, now)]
          /\ UNCHANGED <<row, created, last, outcome>>
    BY <1>4, <2>1 DEF Begins
  <2>3. req'[t].ask = <<j, d>> /\ req'[t].late = Due(j, now) /\ req'[t].since = now /\ req'[t].todo = DecidePlan
    BY <2>2 DEF Request, Idle
  <2>4. i = j /\ i \in 1 .. last /\ Due(i, req'[t].since)
    BY <2>2, <2>3 DEF Ids, Inv, TypeOK
  <2>5. ~Busy(t)'
    <3>1. ~Busy(t) /\ req[t].todo = <<>>
      BY <1>4 DEF Inv, InPlan, Busy, Idle
    <3>2. ~EnterExpire(t) /\ ~EnterCreate(t) /\ ~EnterDecide(t)
      BY <3>1 DEF EnterExpire, EnterCreate, EnterDecide, At
    <3> QED
      BY <3>1, <3>2, WorkKept DEF Busy
  <2> QED
    BY <1>1, <2>3, <2>4, <2>5 DEF Settled
\* A section of the plan is over: if it was the first, it has expired the
\* approval.
<1>5. ASSUME NEW S \in SUBSET Ids, Step(t, S), req[t].todo # <<>>, UNCHANGED work \/ ~Busy(t)',
             ~Busy(t)',
             req[t].late /\ req[t].todo = DecidePlan => row'[req[t].ask[1]] # "pending"
      PROVE  i \in 1 .. last' /\ Due(req[t].ask[1], req[t].since)' /\ Settled(t)'
  <2>1. req[t].late /\ req'[t].ask = req[t].ask /\ req'[t].since = now /\ req'[t].todo = Tail(req[t].todo)
    BY <1>0, <1>5, StepResult
  <2>2. i \in 1 .. last /\ i \in Ids /\ Due(i, req[t].since) /\ Settled(t)
    <3>1. i \in 1 .. last
      BY <2>1 DEF LateSettled
    <3>2. i \in Ids
      BY <3>1, NatAssumption DEF Inv, TypeOK, Ids
    <3> QED
      BY <2>1, <3>1, <3>2 DEF LateSettled
  <2>3. Due(i, now)
    BY <1>0, <2>2, DueLater
  <2>4. req[t].todo # DecidePlan => row'[i] # "pending"
    BY <2>1, <2>2, RowsSettle DEF Settled
  <2> QED
    BY <1>1, <1>5, <2>1, <2>2, <2>3, <2>4 DEF Settled
<1>6. CASE EnterExpire(t) /\ Step(t, {}) /\ UNCHANGED work
  <2>1. req[t].todo # <<>> /\ ~Busy(t)' /\ UNCHANGED row
    BY <1>6 DEF EnterExpire, At, Busy, file
  <2>2. req[t].late /\ req[t].todo = DecidePlan => row[req[t].ask[1]] # "pending"
    <3> SUFFICES ASSUME req[t].late, req[t].todo = DecidePlan, UNCHANGED req PROVE FALSE
      BY <1>6, LateExpires
    <3>1. req[t].todo \in Remainders \ {<<>>} /\ req'[t].todo = Tail(req[t].todo)
      BY <1>0, <1>6, <2>1, StepResult DEF PlansKept
    <3> QED
      BY <3>1, RemaindersShrink
  <2> QED
    BY <1>5, <1>6, <2>1, <2>2
<1>7. CASE Leave(t)
  <2>1. work[t].ended \in SUBSET Ids /\ ~Busy(t)' /\ Busy(t) /\ req[t].todo # <<>> /\ row' = work[t].rows
    BY <1>7 DEF Leave, Inv, TypeOK, Sections, InPlan, Busy, Written
  <2>2. req[t].late /\ req[t].todo = DecidePlan => row'[req[t].ask[1]] # "pending"
    BY <2>1 DEF LateSettled, Settled
  <2> QED
    BY <1>5, <1>7, <2>1, <2>2 DEF Leave
<1>8. CASE Notify(t)
  <2>1. req[t].news \in SUBSET Ids /\ ~Busy(t)' /\ req[t].todo # <<>>
    BY <1>8 DEF Notify, Inv, TypeOK, Requests, Busy, At
  <2>2. req[t].todo # DecidePlan
    BY <1>8, RemaindersShrink DEF Notify, At
  <2> QED
    BY <1>5, <1>8, <2>1, <2>2 DEF Notify
<1> QED
  BY <1>0, <1>2, <1>3, <1>4, <1>6, <1>7, <1>8, ReqCases

\* Under the same assumptions a request that arrives when its approval is due
\* never finds it pending when it comes to decide it, however long it waits.
THEOREM LateComesTooLate == ServerAlone /\ Spec => []LateNeverDecided
<1>1. Inv /\ LateSettled => LateNeverDecided
  <2> SUFFICES ASSUME LateSettled, NEW t \in Threads, At(t, "decide"), req[t].late
               PROVE  row[req[t].ask[1]] # "pending"
    BY DEF LateNeverDecided
  <2>1. req[t].todo # DecidePlan
    BY RemaindersShrink DEF At
  <2> QED
    BY <2>1 DEF LateSettled, Settled
<1>2. Inv => TypeOK /\ InPlan
  BY DEF Inv
<1> QED
  BY <1>1, <1>2, InvInit, InvStep, PlansInit, PlansStep, LateInit, SinceStep, LateStep, PTL DEF Spec

(***************************************************************************)
(* The news of a decision.  The section that takes it hands its record to  *)
(* the last step of the request, which notifies it: only a server that is  *)
(* killed in between, or an audit line that cannot be written, leaves a    *)
(* decision nobody is told of.                                             *)
(***************************************************************************)
Settles(i) == notified[i] > 0 \/ i \in unaudited \/ \E t \in Threads : i \in Owed(t)
DecisionsAnnounced ==
  crashes = 0 => \A i \in Ids : outcome[i] \in {"approved", "rejected"} => Settles(i)

\* Only the section of decide_approval writes a decision of a client.
OnlyDecide == \A t \in Threads : Busy(t) /\ work[t].as # "expired" => At(t, "decide")

\* A decision is the last section but one.
LEMMA DecideThenNotify == \A s \in Remainders \ {<<>>} : Head(s) = "decide" => Tail(s) = <<"notify">>
<1> USE DEF CreatePlan, ExportPlan, LoopPlan, ReadPlan, DecidePlan
<1>1. /\ Head(CreatePlan) # "decide" /\ Head(ExportPlan) # "decide" /\ Head(LoopPlan) # "decide"
      /\ Head(ReadPlan) # "decide" /\ Head(DecidePlan) # "decide" /\ Head(<<"notify">>) # "decide"
      /\ Head(<<"notify", "silent">>) # "decide" /\ Head(<<"silent", "decide", "notify">>) # "decide"
  OBVIOUS
<1>2. /\ Head(<<"silent", "silent", "decide", "notify">>) # "decide"
      /\ Head(<<"notify", "silent", "silent", "decide", "notify">>) # "decide"
      /\ Tail(<<"decide", "notify">>) = <<"notify">>
  OBVIOUS
<1> QED
  BY <1>1, <1>2, Zenon DEF Remainders

LEMMA OnlyDecideStep == Inv /\ OnlyDecide /\ [Next]_vars => OnlyDecide'
<1> SUFFICES ASSUME Inv, OnlyDecide, [Next]_vars, NEW t \in Threads, Busy(t)', work'[t].as # "expired"
             PROVE  At(t, "decide")'
  BY DEF OnlyDecide
<1>1. ASSUME NEW w, NEW S, NEW d, Work(t, w, S, d) PROVE work'[t].as = d
  BY <1>1 DEF Work, Inv, TypeOK
<1>2. CASE work'[t] = work[t]
  <2>1. Busy(t) /\ At(t, "decide")
    BY <1>2 DEF OnlyDecide, Busy
  <2>2. ~Enter(t) /\ ~Notify(t) /\ ~GiveUp(t) /\ req[t] # Idle
    BY <2>1 DEF Busy, Enter, EnterExpire, EnterCreate, EnterDecide, Notify, GiveUp, At, Idle
  <2>3. ~Leave(t) /\ ~Killed
    <3>1. t \in Server
      BY DEF Inv, ServerAlone, Threads
    <3> QED
      BY <1>2, <2>1, <3>1 DEF Leave, Killed, Busy, Inv, TypeOK
  <2>4. req'[t] # Idle
    BY InvStep DEF Inv, InPlan, Busy, Idle
  <2>5. req'[t] = req[t]
    BY <2>1, <2>2, <2>3, <2>4, ReqCases DEF Inv, Enter
  <2> QED
    BY <2>1, <2>5 DEF At
<1>3. CASE EnterExpire(t) /\ UNCHANGED req
  <2>1. work' = work \/ \E w, S : Work(t, w, S, "expired")
    BY <1>3 DEF EnterExpire
  <2> QED
    BY <1>1, <1>2, <2>1
<1>4. CASE EnterCreate(t)
  BY <1>1, <1>4 DEF EnterCreate
<1>5. CASE EnterDecide(t) /\ UNCHANGED req
  BY <1>5 DEF EnterDecide, At
<1> QED
  BY <1>2, <1>3, <1>4, <1>5, WorkKept

LEMMA AnnouncedInit == Init => OnlyDecide /\ DecisionsAnnounced
  BY DEF Init, OnlyDecide, DecisionsAnnounced, Busy

LEMMA AnnouncedLeave ==
  ASSUME Inv, PlansKept, OnlyDecide, NEW t \in Threads, Leave(t), NEW i \in Ids,
         outcome'[i] \in {"approved", "rejected"},
         i \notin work[t].ended => Settles(i)
  PROVE  Settles(i)'
<1> DEFINE S == work[t].ended
<1>1. /\ S \in SUBSET Ids /\ Busy(t) /\ req[t].todo # <<>> /\ req[t] \in Requests
      /\ outcome'[i] = IF i \in S THEN work[t].as ELSE outcome[i]
      /\ UNCHANGED <<notified, unaudited>>
  BY DEF Leave, Written, Inv, InPlan, TypeOK, Sections, Busy
<1>2. /\ \A u \in Threads : u # t => req'[u] = req[u]
      /\ req'[t].todo = Tail(req[t].todo)
  <2>1. (IF At(t, "silent") THEN {} ELSE S) \in SUBSET Ids
    BY <1>1
  <2> QED
    BY <2>1, StepResult DEF Leave, Inv
<1>3. CASE i \in S
  <2>1. At(t, "decide")
    BY <1>1, <1>3 DEF OnlyDecide
  <2>2. Tail(req[t].todo) = <<"notify">> /\ ~At(t, "silent")
    BY <1>1, <2>1, DecideThenNotify DEF PlansKept, At
  <2>3. req' = [req EXCEPT ![t].todo = Tail(@), ![t].since = now, ![t].news = S]
    <3>1. Tail(req[t].todo) # <<>>
      BY <2>2
    <3> QED
      BY <2>2, <3>1 DEF Leave, Step
  <2>4. req'[t].todo = <<"notify">> /\ req'[t].news = S
    BY <1>1, <2>2, <2>3 DEF Inv, TypeOK, Requests
  <2>5. i \in Owed(t)'
    BY <1>3, <2>4 DEF Owed, At
  <2> QED
    BY <2>5 DEF Settles
<1>4. CASE i \notin S
  <2>1. ~At(t, "notify")
    BY <1>1 DEF Inv, WorkFresh, At
  <2>2. \A u \in Threads : i \in Owed(u) => i \in Owed(u)'
    BY <1>2, <2>1 DEF Owed, At
  <2> QED
    BY <1>1, <1>4, <2>2 DEF Settles
<1> QED
  BY <1>3, <1>4

LEMMA AnnouncedNotify ==
  ASSUME Inv, NEW t \in Threads, Notify(t), NEW i \in Ids, Settles(i)
  PROVE  Settles(i)'
<1>1. /\ notified[i] \in 0 .. 2 /\ UNCHANGED unaudited
      /\ notified'[i] = IF i \in req[t].news /\ notified[i] < 2 THEN notified[i] + 1 ELSE notified[i]
  BY DEF Notify, Inv, TypeOK
<1>2. req[t].news \in SUBSET Ids
  BY DEF Inv, TypeOK, Requests
<1>3. \A u \in Threads : u # t => Owed(u)' = Owed(u)
  BY <1>2, StepResult DEF Notify, Inv, Owed, At
<1>4. i \in Owed(t) => notified'[i] > 0
  BY <1>1 DEF Owed
<1> QED
  BY <1>1, <1>3, <1>4 DEF Settles

\* A request whose audit line cannot be written is remembered with what it owes.
LEMMA AnnouncedFails ==
  ASSUME Inv, NEW t \in Threads, AuditFails(t), NEW i \in Ids, Settles(i)
  PROVE  Settles(i)'
<1>1. UNCHANGED notified /\ unaudited' = unaudited \cup req[t].news /\ Finish(t)
  BY DEF AuditFails, GiveUp
<1>2. \A u \in Threads : u # t => Owed(u)' = Owed(u)
  BY <1>1 DEF Finish, Inv, TypeOK, Owed, At
<1>3. Owed(t) \subseteq unaudited'
  BY <1>1 DEF Owed
<1> QED
  BY <1>1, <1>2, <1>3 DEF Settles

\* Any other step neither decides, nor notifies, nor lets a thread forget.
LEMMA AnnouncedQuiet ==
  ASSUME Inv, [Next]_vars, crashes' = 0, \A t \in Threads : ~Leave(t) /\ ~Notify(t) /\ ~AuditFails(t)
  PROVE  /\ UNCHANGED <<outcome, notified, unaudited>> /\ crashes = 0
         /\ \A t \in Threads : Owed(t) \subseteq Owed(t)'
<1>1. crashes \in Nat /\ ~Tear
  BY NatAssumption DEF Tear, Inv, ServerAlone, TypeOK
<1>2. ~Crash /\ crashes = 0
  <2>1. ~Crash
    BY <1>1 DEF Crash
  <2>2. crashes' = crashes
    BY <1>1, <2>1 DEF Next, vars, BeginCreate, BeginRead, BeginCli, BeginDecide, BeginLoop, Start, Refuse,
                      ReadFails, AuditFails, GiveUp, Run, Enter, EnterExpire, EnterCreate, EnterDecide, Tick
  <2> QED
    BY <2>1, <2>2
<1>3. UNCHANGED <<outcome, notified, unaudited>>
  BY <1>1, <1>2 DEF Next, vars, file, BeginCreate, BeginRead, BeginCli, BeginDecide, BeginLoop, Start, Refuse,
              ReadFails, AuditFails, GiveUp, Run, Enter, EnterExpire, EnterCreate, EnterDecide, Tick
<1>4. ASSUME NEW t \in Threads, At(t, "notify") PROVE req'[t] = req[t]
  <2>1. \A u \in Threads : \A r : Start(u, r) => req'[t] = req[t]
    BY <1>4 DEF Start, At, Idle, Inv, TypeOK
  <2>2. \A u \in Threads : u # t /\ Finish(u) => req'[t] = req[t]
    BY DEF Finish, Inv, TypeOK
  <2>3. \A u \in Threads : u # t /\ Step(u, {}) => req'[t] = req[t]
    BY StepResult DEF Inv
  <2>4. ASSUME Ends(t) PROVE FALSE
    <3>1. ~ReadFails(t) /\ ~AuditFails(t)
      BY <1>4 DEF ReadFails
    <3>2. req[t].todo \in {<<"silent", "decide", "notify">>, <<"decide", "notify">>}
      BY <2>4, <3>1 DEF Ends, Refuse, DecidePlan
    <3> QED
      BY <1>4, <3>2 DEF At
  <2>5. ~EnterExpire(t) /\ ~EnterDecide(t)
    BY <1>4 DEF EnterExpire, EnterDecide, At
  <2>6. \A u \in Threads : Ends(u) \/ EnterDecide(u) => req'[t] = req[t]
    BY <2>2, <2>4, <2>5, EndsGiveUp DEF GiveUp, EnterDecide
  <2>7. \A u \in Threads : EnterExpire(u) \/ EnterCreate(u) => req'[t] = req[t]
    BY <2>3, <2>5 DEF EnterExpire, EnterCreate
  <2>8. \A u \in Threads, i \in Ids, d \in {"approved", "rejected"} : BeginDecide(u, i, d) => req'[t] = req[t]
    BY <2>1 DEF BeginDecide
  <2>9. \A u \in Threads : BeginCreate(u) \/ BeginRead(u) \/ BeginCli(u) => req'[t] = req[t]
    BY <2>1 DEF BeginCreate, BeginRead, BeginCli
  <2>10. BeginLoop \/ Tick \/ UNCHANGED vars => req'[t] = req[t]
    BY <2>1 DEF BeginLoop, Tick, vars, Threads, Server
  <2> QED
    BY <1>1, <1>2, <2>6, <2>7, <2>8, <2>9, <2>10 DEF Next, Run, Enter, Ends
<1> QED
  BY <1>2, <1>3, <1>4 DEF Owed, At

LEMMA AnnouncedStep == Inv /\ PlansKept /\ OnlyDecide /\ DecisionsAnnounced /\ [Next]_vars => DecisionsAnnounced'
<1> SUFFICES ASSUME Inv, PlansKept, OnlyDecide, DecisionsAnnounced, [Next]_vars, crashes' = 0,
                    NEW i \in Ids, outcome'[i] \in {"approved", "rejected"}
             PROVE  Settles(i)'
  BY DEF DecisionsAnnounced
<1>1. ASSUME NEW t \in Threads, Leave(t) PROVE Settles(i)'
  <2>1. crashes = 0 /\ (i \notin work[t].ended => outcome'[i] = outcome[i])
    BY <1>1 DEF Leave, Written, Inv, TypeOK
  <2> QED
    BY <1>1, <2>1, AnnouncedLeave DEF DecisionsAnnounced
<1>2. ASSUME NEW t \in Threads, Notify(t) PROVE Settles(i)'
  <2>1. crashes = 0 /\ outcome' = outcome
    BY <1>2 DEF Notify, file
  <2> QED
    BY <1>2, <2>1, AnnouncedNotify DEF DecisionsAnnounced
<1>3. ASSUME NEW t \in Threads, AuditFails(t) PROVE Settles(i)'
  <2>1. crashes = 0 /\ outcome' = outcome
    BY <1>3 DEF AuditFails, GiveUp, file
  <2> QED
    BY <1>3, <2>1, AnnouncedFails DEF DecisionsAnnounced
<1>4. CASE \A t \in Threads : ~Leave(t) /\ ~Notify(t) /\ ~AuditFails(t)
  BY <1>4, AnnouncedQuiet DEF DecisionsAnnounced, Settles
<1> QED
  BY <1>1, <1>2, <1>3, <1>4

\* While the server is alone with its file and is not killed, a decision that is
\* taken is notified, or a request is on its way to notify it, or its audit line
\* could not be written.
THEOREM DecisionsAreAnnounced == ServerAlone /\ Spec => []DecisionsAnnounced
<1>1. Inv => TypeOK /\ InPlan
  BY DEF Inv
<1> QED
  BY <1>1, InvInit, InvStep, PlansInit, PlansStep, AnnouncedInit, OnlyDecideStep, AnnouncedStep, PTL DEF Spec

(***************************************************************************)
(* The cap.  A file that is capped already has at most Cap decided rows    *)
(* because no two rows have the same stamp: the oldest decided one has all *)
(* the others above it.                                                    *)
(***************************************************************************)
DecidedRows == {i \in Ids : row[i] \in Decided}
CapKept == Cap > 0 => Cardinality(DecidedRows) <= Cap

\* The stamps of the rows, and of those about to be written, are distinct.
Stamped ==
  /\ \A i \in 1 .. last : created[i] < now
  /\ \A i, j \in 1 .. last : created[i] = created[j] => i = j
  /\ \A t \in Threads : At(t, "create") =>
       req[t].since < now /\ \A i \in 1 .. last : created[i] # req[t].since
  /\ \A t, u \in Threads : At(t, "create") /\ At(u, "create") /\ req[t].since = req[u].since => t = u

\* A record is created by the only section of its request.
LEMMA CreateAlone ==
  \A s \in Remainders \ {<<>>} :
    /\ Head(s) = "create" => Tail(s) = <<>>
    /\ Tail(s) # <<>> => Head(Tail(s)) # "create"
<1> USE DEF CreatePlan, ExportPlan, LoopPlan, ReadPlan, DecidePlan
<1>1. /\ Head(ExportPlan) # "create" /\ Head(LoopPlan) # "create" /\ Head(ReadPlan) # "create"
      /\ Head(DecidePlan) # "create" /\ Head(<<"notify">>) # "create" /\ Head(<<"notify", "silent">>) # "create"
      /\ Head(<<"decide", "notify">>) # "create" /\ Head(<<"silent", "decide", "notify">>) # "create"
      /\ Head(<<"silent", "silent", "decide", "notify">>) # "create"
      /\ Head(<<"notify", "silent", "silent", "decide", "notify">>) # "create"
  OBVIOUS
<1>2. \A s \in Remainders \ {<<>>} : Head(s) = "create" => s = CreatePlan
  BY <1>1, Zenon DEF Remainders
<1>3. /\ Tail(CreatePlan) = <<>> /\ Tail(ExportPlan) = <<>> /\ Tail(<<"notify">>) = <<>>
      /\ Tail(LoopPlan) = <<"notify">> /\ Tail(<<"decide", "notify">>) = <<"notify">>
      /\ Tail(<<"notify", "silent">>) = ExportPlan
      /\ Tail(ReadPlan) = <<"notify", "silent">>
      /\ Tail(<<"silent", "decide", "notify">>) = <<"decide", "notify">>
  OBVIOUS
<1>4. /\ Tail(<<"silent", "silent", "decide", "notify">>) = <<"silent", "decide", "notify">>
      /\ Tail(<<"notify", "silent", "silent", "decide", "notify">>) = <<"silent", "silent", "decide", "notify">>
      /\ Tail(DecidePlan) = <<"notify", "silent", "silent", "decide", "notify">>
  OBVIOUS
<1> DEFINE Other(s) == s # <<>> => Head(s) # "create"
<1>5. /\ Other(<<>>) /\ Other(<<"notify">>) /\ Other(ExportPlan) /\ Other(<<"notify", "silent">>)
      /\ Other(<<"decide", "notify">>) /\ Other(<<"silent", "decide", "notify">>)
      /\ Other(<<"silent", "silent", "decide", "notify">>)
      /\ Other(<<"notify", "silent", "silent", "decide", "notify">>)
  BY <1>1
<1> HIDE DEF Other
<1> USE DEF Remainders
<1>6. \A s \in Remainders \ {<<>>} : Other(Tail(s))
  <2> SUFFICES ASSUME NEW s \in Remainders \ {<<>>} PROVE Other(Tail(s))
    OBVIOUS
  <2>1. \/ s = CreatePlan \/ s = ExportPlan \/ s = LoopPlan \/ s = ReadPlan \/ s = DecidePlan
        \/ s = <<"notify">> \/ s = <<"notify", "silent">> \/ s = <<"decide", "notify">>
        \/ s = <<"silent", "decide", "notify">> \/ s = <<"silent", "silent", "decide", "notify">>
        \/ s = <<"notify", "silent", "silent", "decide", "notify">>
    BY Zenon
  <2> HIDE DEF CreatePlan, ExportPlan, LoopPlan, ReadPlan, DecidePlan, Remainders
  <2> QED
    BY <1>3, <1>4, <1>5, <2>1, Zenon
<1> QED
  BY <1>2, <1>3, <1>6 DEF Other

LEMMA StampedInit == Init => Stamped
  BY DEF Init, Stamped, At, Idle

\* A step that stamps nothing and lets no request begin to create.
LEMMA StampedQuiet ==
  ASSUME Stamped, UNCHANGED <<created, last>>, now \in Nat, now' \in Nat, now <= now',
         created \in [Ids -> Nat], last \in Nat, last <= MaxIds,
         \A t \in Threads : req[t].since \in Nat,
         \A t \in Threads : At(t, "create")' => req'[t] = req[t]
  PROVE  Stamped'
<1>1. \A t \in Threads : At(t, "create")' => At(t, "create") /\ req'[t].since = req[t].since
  BY DEF At
<1>2. \A i \in 1 .. last : created[i] \in Nat
  BY NatAssumption DEF Ids
<1>3. \A i \in 1 .. last' : created'[i] < now'
  BY <1>2 DEF Stamped
<1>4. \A t \in Threads : At(t, "create")' => req'[t].since < now'
  BY <1>1 DEF Stamped
<1> QED
  BY <1>1, <1>3, <1>4 DEF Stamped

\* The only request that begins to create takes a stamp that nobody has.
LEMMA StampedBegin ==
  ASSUME Inv, Stamped, NEW t \in Threads, BeginCreate(t)
  PROVE  Stamped'
<1>1. /\ now \in Nat /\ now' = now + 1 /\ UNCHANGED <<created, last>>
      /\ req'[t] = Request(CreatePlan) /\ \A u \in Threads : u # t => req'[u] = req[u]
      /\ last \in Nat /\ last <= MaxIds
  BY DEF BeginCreate, Start, file, Inv, TypeOK
<1>2. req'[t].since = now
  BY <1>1 DEF Request, Idle
<1>3. \A u \in Threads : u # t /\ At(u, "create")' => At(u, "create") /\ req'[u].since = req[u].since
  BY <1>1 DEF At
<1>4. \A i \in 1 .. last : created[i] \in Nat /\ created[i] < now
  BY <1>1, NatAssumption DEF Stamped, Ids, Inv, TypeOK
<1>5. \A u \in Threads : req[u].since \in Nat
  BY DEF Inv, TypeOK, Requests
<1>6. \A i \in 1 .. last' : created'[i] < now'
  BY <1>1, <1>4
<1>7. \A u \in Threads : At(u, "create")' =>
        req'[u].since < now' /\ \A i \in 1 .. last' : created'[i] # req'[u].since
  BY <1>1, <1>2, <1>3, <1>4, <1>5 DEF Stamped
<1>8. \A u, v \in Threads : At(u, "create")' /\ At(v, "create")' /\ req'[u].since = req'[v].since => u = v
  BY <1>1, <1>2, <1>3, <1>5 DEF Stamped
<1> QED
  BY <1>1, <1>6, <1>7, <1>8 DEF Stamped

LEMMA StampedLeave ==
  ASSUME Inv, PlansKept, Stamped, NEW t \in Threads, Leave(t)
  PROVE  Stamped'
<1>1. /\ now \in Nat /\ now' = now /\ req[t].todo \in Remainders \ {<<>>}
      /\ last \in Nat /\ last <= MaxIds /\ created \in [Ids -> Nat]
      /\ \A u \in Threads : req[u].since \in Nat
  BY DEF Leave, Inv, InPlan, PlansKept, TypeOK, Requests
<1>2. /\ \A u \in Threads : u # t => req'[u] = req[u]
      /\ req'[t].todo = Tail(req[t].todo)
  <2>1. (IF At(t, "silent") THEN {} ELSE work[t].ended) \in SUBSET Ids
    BY DEF Leave, Inv, TypeOK, Sections
  <2> QED
    BY <2>1, StepResult DEF Leave, Inv
<1>3. ~At(t, "create")'
  BY <1>1, <1>2, CreateAlone DEF At
<1>4. CASE ~At(t, "create")
  <2>1. UNCHANGED <<created, last>>
    BY <1>4 DEF Leave, Written
  <2> QED
    BY <1>1, <1>2, <1>3, <2>1, StampedQuiet
<1>5. CASE At(t, "create")
  <2> DEFINE n == last + 1
  <2>1. n \in Ids
    BY <1>1, <1>5, NatAssumption DEF Leave, Inv, WorkFresh, Busy, Creates, At, Ids
  <2>2. last' = n /\ created' = [created EXCEPT ![n] = req[t].since]
    BY <1>5 DEF Leave, Written
  <2>3. /\ created'[n] = req[t].since
        /\ \A i \in 1 .. last : i \in Ids /\ created'[i] = created[i] /\ created[i] \in Nat
        /\ \A i \in 1 .. last' : i \in 1 .. last \/ i = n
    BY <1>1, <2>1, <2>2, NatAssumption DEF Ids
  <2>4. req[t].since < now /\ \A i \in 1 .. last : created[i] # req[t].since /\ created[i] < now
    BY <1>5 DEF Stamped
  <2>5. \A u \in Threads : At(u, "create")' =>
          u # t /\ At(u, "create") /\ req'[u].since = req[u].since /\ req[u].since # req[t].since
    BY <1>2, <1>3, <1>5 DEF Stamped, At
  <2> HIDE DEF n
  <2>6. \A i \in 1 .. last' : created'[i] < now'
    BY <1>1, <2>3, <2>4
  <2>7. \A i, j \in 1 .. last' : created'[i] = created'[j] => i = j
    BY <2>3, <2>4 DEF Stamped
  <2>8. \A u \in Threads : At(u, "create")' =>
          req'[u].since < now' /\ \A i \in 1 .. last' : created'[i] # req'[u].since
    BY <1>1, <2>3, <2>5 DEF Stamped
  <2>9. \A u, v \in Threads : At(u, "create")' /\ At(v, "create")' /\ req'[u].since = req'[v].since => u = v
    BY <2>5 DEF Stamped
  <2> QED
    BY <2>6, <2>7, <2>8, <2>9 DEF Stamped
<1> QED
  BY <1>4, <1>5

LEMMA StampedStep == Inv /\ PlansKept /\ Stamped /\ [Next]_vars => Stamped'
<1> SUFFICES ASSUME Inv, PlansKept, Stamped, [Next]_vars PROVE Stamped'
  OBVIOUS
<1>1. ASSUME NEW t \in Threads, BeginCreate(t) PROVE Stamped'
  BY <1>1, StampedBegin
<1>2. ASSUME NEW t \in Threads, Leave(t) PROVE Stamped'
  BY <1>2, StampedLeave
<1>3. CASE \A t \in Threads : ~BeginCreate(t) /\ ~Leave(t)
  <2>1. ~Tear
    BY DEF Tear, Inv, ServerAlone, TypeOK
  <2>2. UNCHANGED <<created, last>>
    BY <1>3, <2>1 DEF Next, vars, file, BeginRead, BeginCli, BeginDecide, BeginLoop, Start, Refuse,
                      ReadFails, AuditFails, GiveUp, Run, Enter, EnterExpire, EnterCreate, EnterDecide, Notify, Crash, Tick
  <2>3. /\ now \in Nat /\ now' \in Nat /\ now <= now' /\ created \in [Ids -> Nat]
        /\ last \in Nat /\ last <= MaxIds /\ \A t \in Threads : req[t].since \in Nat
    BY ReqCases DEF Inv, TypeOK, Requests
  <2>4. ASSUME NEW t \in Threads, At(t, "create")' PROVE req'[t] = req[t]
    <3>1. req'[t] # Idle
      BY <2>4 DEF At, Idle
    <3>2. ASSUME NEW S \in SUBSET Ids, Step(t, S), req[t].todo # <<>> PROVE FALSE
      BY <2>4, <3>2, StepResult, CreateAlone DEF PlansKept, At, Inv
    <3>3. ~(EnterExpire(t) /\ Step(t, {}))
      BY <3>2 DEF EnterExpire, At
    <3>4. ~Notify(t)
      <4>1. req[t].news \in SUBSET Ids
        BY DEF Inv, TypeOK, Requests
      <4> QED
        BY <3>2, <4>1 DEF Notify, At
    <3>5. ~Begins(t)
      <4>1. ~BeginCreate(t)
        BY <1>3
      <4>2. ASSUME NEW i \in Ids, NEW d,
                   req'[t] = [Request(DecidePlan) EXCEPT !.ask = <<i, d>>, !.late = Due(i, now)]
            PROVE  FALSE
        <5>1. req'[t].todo = DecidePlan
          BY <4>2 DEF Request, Idle
        <5> QED
          BY <2>4, <5>1, RemaindersShrink DEF At
      <4> QED
        BY <2>4, <4>1, <4>2 DEF Begins
    <3> QED
      BY <1>3, <3>1, <3>3, <3>4, <3>5, ReqCases DEF Inv
  <2> QED
    BY <2>2, <2>3, <2>4, StampedQuiet
<1> QED
  BY <1>1, <1>2, <1>3

\* The smallest of some numbers.
LEMMA HasSmallest == ASSUME NEW S \in SUBSET Nat, S # {} PROVE \E m \in S : \A n \in S : m <= n
<1> DEFINE R == {p \in Nat \X Nat : p[1] < p[2]}
<1>1. IsWellFoundedOn(R, Nat)
  BY NatLessThanWellFounded DEF OpToRel
<1>2. PICK m \in S : \A n \in S : ~(<<n, m>> \in R)
  BY <1>1, WFMin
<1>3. ASSUME NEW n \in S PROVE m <= n
  <2>1. m \in Nat /\ n \in Nat /\ <<n, m>> \in Nat \X Nat /\ <<n, m>> \notin R
    BY <1>2
  <2>2. <<n, m>>[1] = n /\ <<n, m>>[2] = m
    OBVIOUS
  <2>3. ~(n < m)
    BY <2>1, <2>2
  <2> QED
    BY <2>1, <2>3
<1> QED
  BY <1>2, <1>3

LEMMA StampsCap ==
  ASSUME Inv, Stamped, FileCapped
  PROVE  CapKept
<1> DEFINE D == DecidedRows
<1>1. /\ D \in SUBSET Ids /\ IsFiniteSet(D) /\ Cardinality(D) \in Nat
      /\ \A i \in D : i \in 1 .. last /\ created[i] \in Nat
      /\ Cap \in Nat
  BY IdsFinite, NatAssumption DEF DecidedRows, Inv, RowsAgree, TypeOK, Ids, Decided
<1>2. CASE D = {}
  BY <1>1, <1>2, FS_EmptySet DEF CapKept
<1>3. ASSUME D # {}, Cap > 0 PROVE Cardinality(D) <= Cap
  <2>1. PICK m \in {created[i] : i \in D} : \A n \in {created[i] : i \in D} : m <= n
    <3>1. {created[i] : i \in D} \in SUBSET Nat /\ {created[i] : i \in D} # {}
      BY <1>1, <1>3
    <3> QED
      BY <3>1, HasSmallest
  <2>2. PICK i \in D : created[i] = m
    BY <2>1
  <2>3. \A j \in D : j # i => created[j] > created[i]
    BY <1>1, <2>1, <2>2 DEF Stamped
  <2>4. Newer(row, i) = D \ {i}
    BY <1>1, <2>2, <2>3 DEF Newer, DecidedRows
  <2>5. Cardinality(D \ {i}) = Cardinality(D) - 1
    BY <1>1, <2>2, FS_RemoveElement
  <2>6. ~(Cardinality(Newer(row, i)) >= Cap)
    BY <1>3, <2>2 DEF FileCapped, Capped, DecidedRows, Decided
  <2> QED
    BY <1>1, <2>4, <2>5, <2>6
<1> QED
  BY <1>2, <1>3 DEF CapKept

\* While the server is alone with its file, approvals_max is never exceeded, not
\* even between a decision and the next read of the file.
THEOREM CapIsKept == ServerAlone /\ Spec => []CapKept
<1>1. Inv => TypeOK /\ InPlan
  BY DEF Inv
<1>2. Inv /\ Stamped /\ Exact => CapKept
  BY StampsCap DEF Exact
<1> QED
  BY <1>1, <1>2, InvInit, InvStep, PlansInit, PlansStep, StampedInit, StampedStep, ExactInit, LedgerStep,
     PTL DEF Spec
=============================================================================
