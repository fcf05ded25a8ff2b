------------------------------ MODULE Approvals ------------------------------
(***************************************************************************)
(* The approval store of the work agent (approvals.py) and the threads of  *)
(* the server that use it (server.py): one per HTTP request, the expiry    *)
(* loop, and CLI commands that work on the same file in a process of their *)
(* own.                                                                    *)
(*                                                                         *)
(* Every operation is a sequence of sections on the JSONL file; each reads *)
(* all rows and writes them all back under _lock, which orders the threads *)
(* of the server and no other process.  A section is two actions: Enter    *)
(* reads and computes, Leave writes.  Ids are numbered as they are given   *)
(* out, which is the order of the rows in the file; "expired" stands for a *)
(* rejected row whose reason is expired.                                   *)
(***************************************************************************)
EXTENDS Integers, Sequences, FiniteSets

CONSTANTS
  Handlers,     \* the HTTP threads that can run together
  Loop,         \* the thread of _expire_loop
  Cli,          \* CLI commands on the same file: expire-approvals, export
  MaxIds,       \* bound: approvals created
  MaxNow,       \* bound: the last tick at which a request may arrive
  TTL,          \* approval_ttl_seconds; 0 is disabled
  Cap,          \* approvals_max; 0 is unlimited
  MaxCrashes,   \* bound: the server dies between two steps
  MaxTorn,      \* bound: a write of the file is cut short
  MaxUnaudited, \* bound: the audit line of a decision cannot be written
  NoWork

ASSUME ThreadsAssumption ==
  /\ IsFiniteSet(Handlers) /\ Loop \notin Handlers
  /\ Cli \cap (Handlers \cup {Loop}) = {}
ASSUME NatAssumption == /\ MaxIds \in Nat /\ MaxNow \in Nat /\ TTL \in Nat /\ Cap \in Nat
                        /\ MaxCrashes \in Nat /\ MaxTorn \in Nat /\ MaxUnaudited \in Nat

Ids == 1 .. MaxIds
Server == Handlers \cup {Loop}
Threads == Server \cup Cli
Decided == {"approved", "rejected", "expired"}
Statuses == {"absent", "pending"} \cup Decided

Sections == [rows : [Ids -> Statuses], ended : SUBSET Ids, as : Decided]
Requests == [todo : Seq({"create", "expire", "silent", "decide", "notify"}),
             since : Nat, ask : (0 .. MaxIds) \X {"approved", "rejected"},
             late : BOOLEAN, news : SUBSET Ids]

ASSUME NoWorkAssumption == NoWork \notin Sections

VARIABLES
  row,        \* the file: the status of each row, "absent" without one
  created,    \* created_at of each row
  last,       \* ids given out
  now,
  req,        \* what a thread is doing: see Idle
  work,       \* the section a thread is in: what it will write
  garbled,    \* the file ends inside a character of UTF-8
  outcome,    \* history: what each approval was decided to be
  notified,   \* history: notifications started for each approval, up to two
  unaudited,  \* history: decisions whose audit line could not be written
  crashes,
  torn

file == <<row, created, last, garbled, outcome>>
vars == <<file, now, req, work, notified, crashes, torn, unaudited>>

Idle == [todo  |-> <<>>,            \* the sections still to go through
         since |-> 0,               \* when the first of them was reached
         ask   |-> <<0, "rejected">>, \* the approval and the decision requested
         late  |-> FALSE,           \* whether it was due when the request came
         news  |-> {}]              \* the records to notify

Init ==
  /\ row = [i \in Ids |-> "absent"] /\ created = [i \in Ids |-> 0]
  /\ last = 0 /\ garbled = FALSE /\ now = 0
  /\ req = [t \in Threads |-> Idle] /\ work = [t \in Threads |-> NoWork]
  /\ outcome = [i \in Ids |-> "none"] /\ notified = [i \in Ids |-> 0]
  /\ crashes = 0 /\ torn = 0 /\ unaudited = {}

(***************************************************************************)
(* What the sections compute.                                              *)
(***************************************************************************)
\* Mutant: the age is taken the wrong way round.
Due_Swapped(i, m) == TTL > 0 /\ created[i] - m >= TTL
Due(i, m) == TTL > 0 /\ m - created[i] >= TTL

\* Mutant: the status of a row is not looked at.
Expiring_Decided(rows, m) == {i \in Ids : rows[i] # "absent" /\ Due(i, m)}
Expiring(rows, m) == {i \in Ids : rows[i] = "pending" /\ Due(i, m)}
Expired(rows, m) == [i \in Ids |-> IF i \in Expiring(rows, m) THEN "expired" ELSE rows[i]]

Newer(rows, i) == {j \in Ids : rows[j] \in Decided /\ created[j] > created[i]}

\* _cap_decided_rows.
\* Mutant: the newest are dropped.
Capped_Newest(rows) ==
  [i \in Ids |->
     IF /\ Cap > 0 /\ rows[i] \in Decided
        /\ Cardinality({j \in Ids : rows[j] \in Decided /\ created[j] < created[i]}) >= Cap
     THEN "absent" ELSE rows[i]]
Capped(rows) ==
  [i \in Ids |-> IF Cap > 0 /\ rows[i] \in Decided /\ Cardinality(Newer(rows, i)) >= Cap
                 THEN "absent" ELSE rows[i]]

\* A file that _write_all has not finished: its first k rows.
Prefix(rows, k) == [i \in Ids |-> IF i <= k THEN rows[i] ELSE "absent"]

\* What _read_all can find: the file, or what another process has written of it.
\* A file that ends inside a character is not read at all.
Others(t) == IF t \in Cli THEN Threads \ {t} ELSE Cli
Writing(t) == {u \in Others(t) : work[u] # NoWork}
Contents(t) ==
  (IF garbled THEN {} ELSE {row}) \cup {Prefix(work[u].rows, k) : u \in Writing(t), k \in 0 .. last}

\* _lock is free, or guards another process.
\* Mutant: nothing is locked.
Mutex_None(t) == TRUE
Mutex(t) == t \in Cli \/ \A u \in Server : work[u] = NoWork

(***************************************************************************)
(* The operations, as the sections they go through.                        *)
(***************************************************************************)
\* Mutants: a decision is not notified; nothing is expired before it.
DecidePlan_Silent == <<"expire", "notify", "silent", "silent", "decide">>
DecidePlan_Unexpired == <<"decide", "notify">>
CreatePlan == <<"create">>
ReadPlan == <<"expire", "notify", "silent">>
DecidePlan == <<"expire", "notify", "silent", "silent", "decide", "notify">>
LoopPlan == <<"expire", "notify">>
ExportPlan == <<"silent">>

Start(t, request) ==
  /\ req[t] = Idle
  /\ req' = [req EXCEPT ![t] = request]
  /\ UNCHANGED <<file, work, notified, crashes, torn, unaudited>>
Request(plan) == [Idle EXCEPT !.todo = plan, !.since = now]
Open == now <= MaxNow

\* POST /webhook/{platform} with an approval intent.  created_at is taken
\* before the lock; two requests never take the same microsecond.
BeginCreate(t) ==
  /\ t \in Handlers /\ Open
  /\ last + Cardinality({u \in Handlers : req[u].todo = CreatePlan}) < MaxIds
  /\ Start(t, Request(CreatePlan))
  /\ now' = now + 1

\* GET /approvals, /v1/approvals.*, /approvals/{id}, /v1/approvals/{id}/card.
BeginRead(t) == t \in Handlers /\ Open /\ Start(t, Request(ReadPlan)) /\ UNCHANGED now

\* GET and POST /approvals/{id}/decide, of an id that was given out.
BeginDecide(t, i, decision) ==
  /\ t \in Handlers /\ Open /\ i <= last
  /\ Start(t, [Request(DecidePlan) EXCEPT !.ask = <<i, decision>>, !.late = Due(i, now)])
  /\ UNCHANGED now

BeginLoop == Start(Loop, Request(LoopPlan)) /\ UNCHANGED now

\* expire-approvals, export.
BeginCli(t) ==
  /\ t \in Cli /\ Open
  /\ \E plan \in {LoopPlan, ExportPlan} : Start(t, Request(plan))
  /\ UNCHANGED now

At(t, section) == req[t].todo # <<>> /\ Head(req[t].todo) = section
Finish(t) == req' = [req EXCEPT ![t] = Idle]
Step(t, news) ==
  IF Tail(req[t].todo) = <<>> THEN Finish(t)
  ELSE req' = [req EXCEPT ![t].todo = Tail(@), ![t].since = now, ![t].news = news]

\* A request that ends before its time.
GiveUp(t) ==
  /\ work[t] = NoWork
  /\ Finish(t)
  /\ UNCHANGED <<file, now, work, notified, crashes, torn>>

\* 401 of a bad signature after get_approval, ValueError of a bad decision.
Refuse(t) ==
  /\ req[t].todo \in {SubSeq(DecidePlan, k, Len(DecidePlan)) : k \in {4, 5}}
  /\ GiveUp(t) /\ UNCHANGED unaudited

(***************************************************************************)
(* The sections.                                                           *)
(***************************************************************************)
Work(t, rows, ended, as) == work' = [work EXCEPT ![t] = [rows |-> rows, ended |-> ended, as |-> as]]

\* expire_due: the moment is taken before the lock, nothing is written when
\* nothing changed.
EnterExpire(t) ==
  /\ At(t, "expire") \/ At(t, "silent")
  /\ work[t] = NoWork /\ Mutex(t)
  /\ \E rows \in Contents(t), m \in req[t].since .. now :
       LET kept == Capped(Expired(rows, m))
       IN IF Expiring(rows, m) = {} /\ kept = rows
          THEN Step(t, {}) /\ UNCHANGED work
          ELSE Work(t, kept, Expiring(rows, m), "expired") /\ UNCHANGED req
  /\ UNCHANGED <<file, now, notified, crashes, torn, unaudited>>

\* create_approval.
EnterCreate(t) ==
  /\ At(t, "create") /\ work[t] = NoWork /\ Mutex(t) /\ last < MaxIds
  /\ \E rows \in Contents(t) : Work(t, [rows EXCEPT ![last + 1] = "pending"], {}, "expired")
  /\ UNCHANGED <<file, now, req, notified, crashes, torn, unaudited>>

\* decide_approval: 404 and 400 end the request.
\* Mutant: the status of the row is not looked at.
EnterDecide_Unchecked(t) ==
  /\ At(t, "decide") /\ work[t] = NoWork /\ Mutex(t)
  /\ \E rows \in Contents(t) :
       LET i == req[t].ask[1]
           d == req[t].ask[2]
       IN IF i \in Ids /\ rows[i] # "absent"
          THEN Work(t, Capped([rows EXCEPT ![i] = d]), {i}, d) /\ UNCHANGED req
          ELSE Finish(t) /\ UNCHANGED work
  /\ UNCHANGED <<file, now, notified, crashes, torn, unaudited>>
EnterDecide(t) ==
  /\ At(t, "decide") /\ work[t] = NoWork /\ Mutex(t)
  /\ \E rows \in Contents(t) :
       LET i == req[t].ask[1]
           d == req[t].ask[2]
       IN IF i \in Ids /\ rows[i] = "pending"
          THEN Work(t, Capped([rows EXCEPT ![i] = d]), {i}, d) /\ UNCHANGED req
          ELSE Finish(t) /\ UNCHANGED work
  /\ UNCHANGED <<file, now, notified, crashes, torn, unaudited>>

\* UnicodeDecodeError: the file ends inside a character, or another process has
\* written it no further.  The loop goes on with its next pass.
ReadFails(t) ==
  /\ req[t].todo # <<>> /\ ~At(t, "notify") /\ Mutex(t)
  /\ garbled \/ Writing(t) # {}
  /\ GiveUp(t) /\ UNCHANGED unaudited

Enter(t) == EnterExpire(t) \/ EnterCreate(t) \/ EnterDecide(t)

\* Writing the rows: what becomes of the file and of the records.
Written(t, rows) ==
  /\ row' = rows
  /\ IF At(t, "create")
     THEN /\ last' = last + 1
          /\ created' = [created EXCEPT ![last + 1] = req[t].since]
     ELSE UNCHANGED <<last, created>>
  /\ outcome' = [i \in Ids |-> IF i \in work[t].ended THEN work[t].as ELSE outcome[i]]

\* get, list and decide throw away what their own expire_due returns.
Leave(t) ==
  /\ work[t] # NoWork
  /\ Written(t, work[t].rows) /\ garbled' = FALSE
  /\ work' = [work EXCEPT ![t] = NoWork]
  /\ Step(t, IF At(t, "silent") THEN {} ELSE work[t].ended)
  /\ UNCHANGED <<now, notified, crashes, torn, unaudited>>

\* OSError of the audit file, which _finish_decide writes between the decision and
\* its notification.
AuditFails(t) ==
  /\ Cardinality(unaudited) < MaxUnaudited
  /\ req[t].todo = <<"notify">> /\ req[t].ask[1] # 0
  /\ GiveUp(t)
  /\ unaudited' = unaudited \cup req[t].news

\* _notify_approvals, _notify_approval: a webhook and a forward are started.
Notify(t) ==
  /\ At(t, "notify") /\ work[t] = NoWork
  /\ notified' = [i \in Ids |-> IF i \in req[t].news /\ notified[i] < 2
                                THEN notified[i] + 1 ELSE notified[i]]
  /\ Step(t, req[t].news)
  /\ UNCHANGED <<file, now, work, crashes, torn, unaudited>>

(***************************************************************************)
(* The server dies and is started again.                                   *)
(***************************************************************************)
Killed ==
  /\ req' = [t \in Threads |-> IF t \in Server THEN Idle ELSE req[t]]
  /\ work' = [t \in Threads |-> IF t \in Server THEN NoWork ELSE work[t]]
  /\ UNCHANGED <<now, notified, unaudited>>

Crash ==
  /\ crashes < MaxCrashes /\ crashes' = crashes + 1
  /\ Killed
  /\ UNCHANGED <<file, torn>>

\* _write_all truncates the file before it writes the rows: the server dies in
\* between, or the disk is full and only the request or the command ends.  What is
\* left ends anywhere, in a row or in a character.
Tear ==
  /\ torn < MaxTorn /\ torn' = torn + 1
  /\ \E t \in Threads, k \in 0 .. last + 1 :
       /\ work[t] # NoWork
       /\ Written(t, Prefix(work[t].rows, k))
       /\ garbled' \in BOOLEAN /\ (garbled' => row' # work[t].rows)
       /\ \/ t \in Server /\ Killed
          \/ /\ Finish(t) /\ work' = [work EXCEPT ![t] = NoWork]
             /\ UNCHANGED <<now, notified, unaudited>>
  /\ UNCHANGED crashes

Tick ==
  /\ now < MaxNow + TTL
  /\ now' = now + 1
  /\ UNCHANGED <<file, req, work, notified, crashes, torn, unaudited>>

Run(t) == Enter(t) \/ ReadFails(t) \/ Leave(t) \/ Notify(t) \/ AuditFails(t)

Next ==
  \/ \E t \in Threads :
       \/ BeginCreate(t) \/ BeginRead(t) \/ BeginCli(t) \/ Refuse(t) \/ Run(t)
       \/ \E i \in Ids, d \in {"approved", "rejected"} : BeginDecide(t, i, d)
  \/ BeginLoop \/ Crash \/ Tear \/ Tick

Spec == Init /\ [][Next]_vars

\* Threads run and time passes; nobody has to send a request.
FairSpec == /\ Spec
            /\ WF_vars(Tick) /\ WF_vars(BeginLoop)
            /\ \A t \in Server : WF_vars(Run(t))

-----------------------------------------------------------------------------
(***************************************************************************)
(* What a client sees of each approval.                                    *)
(***************************************************************************)
Life == [i \in Ids |-> IF i > last THEN "new" ELSE IF outcome[i] = "none" THEN "pending" ELSE outcome[i]]
Readable == {i \in Ids : row[i] # "absent"}

Ledger == INSTANCE ApprovalLedger
            WITH Decisions <- Decided, life <- Life, kept <- Readable, born <- created

-----------------------------------------------------------------------------
(***************************************************************************)
(* Properties.                                                             *)
(***************************************************************************)
\* The type invariant.
TypeOK ==
  /\ row \in [Ids -> Statuses] /\ garbled \in BOOLEAN
  /\ created \in [Ids -> Nat] /\ last \in Nat /\ now \in Nat
  /\ req \in [Threads -> Requests]
  /\ work \in [Threads -> {NoWork} \cup Sections]
  /\ outcome \in [Ids -> {"none"} \cup Decided]
  /\ notified \in [Ids -> 0 .. 2]
  /\ crashes \in 0 .. MaxCrashes /\ torn \in 0 .. MaxTorn /\ unaudited \subseteq Ids

\* A record leaves the file only after a decision: no interleaving of requests
\* and of the expiry loop loses a pending approval.
NothingLost == \A i \in 1 .. last : row[i] = "absent" => outcome[i] # "none"

\* An approval is decided once: neither a second request nor the expiry turns a
\* decision into another one.
OutcomeFinal == [][\A i \in Ids : outcome[i] # "none" => outcome'[i] = outcome[i]]_vars

\* The store implements the ledger: each write of the file is one of its steps,
\* and the oldest decided approvals go first, in every order of decisions.
LedgerSpec == Ledger!Spec

\* Nobody is told twice of a decision, or of one that was not taken.
NotifiedOnce == \A i \in Ids : notified[i] > 0 => notified[i] = 1 /\ outcome[i] # "none"

\* A request that arrives when its approval is due never decides it, however
\* long it waits for the lock: the expiry on its way comes first.
LateNeverDecided ==
  \A t \in Threads : At(t, "decide") /\ req[t].late => row[req[t].ask[1]] # "pending"

\* While the loop runs, no approval stays pending for ever, unless another process
\* is at work at the file, or a write that was cut inside a character has left it
\* so that no pass can read it.
ExpiryHappens ==
  \A i \in Ids :
    row[i] = "pending" ~> (row[i] # "pending" \/ garbled \/ \E t \in Cli : req[t] # Idle)

\* Every decision that a request to the server writes is notified, whatever other
\* processes write, if the write is not cut short and its audit line is written.
DecisionNotified ==
  \A i \in Ids :
    (\E t \in Server : work[t] # NoWork /\ i \in work[t].ended /\ work[t].as \in {"approved", "rejected"})
      ~> (notified[i] > 0 \/ torn > 0 \/ i \in unaudited)

\* server.py:144 "POST decision webhook for each newly expired row": when no
\* thread is at work, every expired approval has been notified.
ExpiredNotified ==
  (\A t \in Threads : req[t] = Idle) => \A i \in Ids : outcome[i] = "expired" => notified[i] > 0
=============================================================================
