--------------------------- MODULE RunQueue_proofs ---------------------------
(***************************************************************************)
(* Theorems about RunQueue for every set of runs and workers and every     *)
(* max_queue, runs_max, number of faults and of restarts.                  *)
(***************************************************************************)
EXTENDS RunQueue, FiniteSetTheorems, TLAPS

(***************************************************************************)
(* The inductive invariant: the types, and the facts about the stages that *)
(* the types and the counters rest on.                                     *)
(***************************************************************************)
TypeInv == TypeOK /\ StoredFile /\ ReservedFlag

\* The bound 1..Concurrency of shutdown() is a range of naturals.
LEMMA ConcurrencyType == Concurrency \in Nat /\ Concurrency > 0
  BY WorkersAssumption, FS_CardinalityType, FS_EmptySet DEF Concurrency

\* Trimming a history spares the runs that run.
SparesRunning(m, d) ==
  \A r \in Runs : m[r].status = "running" => Trimmed(m)[r] = m[r] /\ ForgetFiles(m, d)[r] = d[r]

\* Trimming the history keeps the type of memory and of the files, and touches
\* only finished runs.
LEMMA TrimType ==
  ASSUME NEW m \in [Runs -> [status : Statuses, seq : Nat]],
         NEW d \in [Runs -> Statuses \cup {"torn"}]
  PROVE  /\ Trimmed(m) \in [Runs -> [status : Statuses, seq : Nat]]
         /\ ForgetFiles(m, d) \in [Runs -> Statuses \cup {"torn"}]
         /\ SparesRunning(m, d)
<1>1. Forgotten \in [status : Statuses, seq : Nat] /\ "none" \in Statuses
  BY DEF Forgotten, Statuses
<1>2. \A r \in Runs : m[r].status \notin Completed => r \notin Overdue(m)
  BY DEF Overdue, Finished
<1>3. /\ Trimmed(m) \in [Runs -> [status : Statuses, seq : Nat]]
      /\ ForgetFiles(m, d) \in [Runs -> Statuses \cup {"torn"}]
  BY <1>1 DEF Trimmed, ForgetFiles
<1>4. SparesRunning(m, d)
  <2>1. "running" \notin Completed
    BY DEF Completed
  <2> QED
    BY <1>2, <2>1 DEF Trimmed, ForgetFiles, SparesRunning
<1> QED
  BY <1>3, <1>4

LEMMA TypeInit == Init => TypeInv
<1> SUFFICES ASSUME Init PROVE TypeInv
  OBVIOUS
<1>1. q \in Seq(Runs \cup {Sentinel})
  BY DEF Init
<1> QED
  BY <1>1 DEF Init, TypeInv, TypeOK, StoredFile, ReservedFlag, Forgotten, Statuses,
     InFlight, Completed, Stages

LEMMA TypeStep == TypeInv /\ [Next]_vars => TypeInv'
<1> SUFFICES ASSUME TypeInv, [Next]_vars PROVE TypeInv'
  OBVIOUS
<1> USE DEF TypeInv, TypeOK, StoredFile, ReservedFlag
<1>1. CASE UNCHANGED vars
  BY <1>1 DEF vars, counters
<1>2. ASSUME NEW r \in Runs, CheckStop(r) PROVE TypeInv'
  BY <1>2 DEF CheckStop, Move, Stages, counters
<1>a. ASSUME NEW r \in Runs, NEW status \in InFlight, stage[r] = "checked", Record(r, status),
             reserved' \in [Runs -> BOOLEAN],
             \A s \in Runs : s # r => reserved'[s] = reserved[s]
      PROVE  /\ memory' \in [Runs -> [status : Statuses, seq : Nat]]
             /\ disk' \in [Runs -> Statuses \cup {"torn"}]
             /\ stage' \in [Runs -> Stages] /\ faults' \in Nat
             /\ StoredFile' /\ ReservedFlag'
  <2>1. CASE Move(r, "lost") /\ UNCHANGED <<memory, disk, faults>>
    BY <1>a, <2>1 DEF Move, Stages
  <2>2. CASE memory' = [memory EXCEPT ![r] = [status |-> status, seq |-> 0]]
             /\ Persist(r, status) /\ Move(r, "admitted")
    <3>1. status \in Statuses
      BY DEF Statuses
    <3>2. memory' \in [Runs -> [status : Statuses, seq : Nat]]
      BY <2>2, <3>1
    <3> QED
      BY <1>a, <2>2, <3>1, <3>2 DEF Move, Stages, Persist
  <2>3. CASE memory' = [memory EXCEPT ![r] = [status |-> status, seq |-> 0]]
             /\ PersistRaises(r) /\ Move(r, "lost")
    <3>1. status \in Statuses
      BY DEF Statuses
    <3>2. memory' \in [Runs -> [status : Statuses, seq : Nat]]
      BY <2>3, <3>1
    <3> QED
      BY <1>a, <2>3, <3>2 DEF Move, Stages, PersistRaises
  <2> QED
    BY <1>a, <2>1, <2>2, <2>3 DEF Record
<1>3. ASSUME NEW r \in Runs, AdmitRunning(r) PROVE TypeInv'
  <2>1. "running" \in InFlight
    BY DEF InFlight
  <2>2. /\ reserved' \in [Runs -> BOOLEAN]
        /\ \A s \in Runs : s # r => reserved'[s] = reserved[s]
    BY <1>3 DEF AdmitRunning
  <2>3. stage[r] = "checked" /\ Record(r, "running") /\ running' \in Nat
    BY <1>3 DEF AdmitRunning
  <2> QED
    BY <1>3, <2>1, <2>2, <2>3, <1>a DEF AdmitRunning
<1>4. ASSUME NEW r \in Runs, AdmitQueued(r) PROVE TypeInv'
  <2>1. "queued" \in InFlight
    BY DEF InFlight
  <2>2. stage[r] = "checked" /\ Record(r, "queued") /\ queued' \in Nat
    BY <1>4 DEF AdmitQueued
  <2> QED
    BY <1>4, <2>1, <2>2, <1>a DEF AdmitQueued
<1>5. ASSUME NEW r \in Runs, RefuseFull(r) PROVE TypeInv'
  BY <1>5 DEF RefuseFull, Move, Stages, counters
<1>6. ASSUME NEW r \in Runs, Put(r) PROVE TypeInv'
  BY <1>6 DEF Put, Move, Stages, counters
<1>7. ASSUME NEW w \in Workers, Take(w) PROVE TypeInv'
  <2>1. Head(q) \in Runs /\ Tail(q) \in Seq(Runs \cup {Sentinel})
    BY <1>7 DEF Take
  <2> QED
    BY <1>7, <2>1 DEF Take, Move, Stages, counters
<1>8. ASSUME NEW w \in Workers, TakeSentinel(w) PROVE TypeInv'
  <2>1. Tail(q) \in Seq(Runs \cup {Sentinel})
    BY <1>8 DEF TakeSentinel
  <2> QED
    BY <1>8, <2>1 DEF TakeSentinel, counters
<1>9. ASSUME NEW r \in Runs, stage[r] \in {"failing", "raising"},
             NEW next \in Stages, NEW raised \in Stages,
             next \notin {"executing", "stored", "new", "checked", "failing"},
             raised \notin {"executing", "stored", "new", "checked", "failing", "rejected"},
             next = "rejected" => stage[r] = "failing",
             FailRecord(r, next, raised), UNCHANGED reserved
      PROVE  /\ memory' \in [Runs -> [status : Statuses, seq : Nat]]
             /\ disk' \in [Runs -> Statuses \cup {"torn"}]
             /\ stage' \in [Runs -> Stages] /\ faults' \in Nat
             /\ failed' \in Nat /\ finishSeq' \in Nat
             /\ StoredFile' /\ ReservedFlag'
  <2> DEFINE m == [memory EXCEPT ![r] = [status |-> "error", seq |-> finishSeq + 1]]
             d == [disk EXCEPT ![r] = "error"]
  <2>1. m \in [Runs -> [status : Statuses, seq : Nat]] /\ d \in [Runs -> Statuses \cup {"torn"}]
    BY DEF Statuses, Completed
  <2>2. \A s \in Runs : s # r => m[s] = memory[s] /\ d[s] = disk[s]
    OBVIOUS
  <2>3. CASE memory' = Trimmed(m) /\ disk' = ForgetFiles(m, d) /\ Move(r, next) /\ UNCHANGED faults
    <3>1. /\ memory' \in [Runs -> [status : Statuses, seq : Nat]]
          /\ disk' \in [Runs -> Statuses \cup {"torn"}]
          /\ \A s \in Runs : s # r /\ memory[s].status = "running" =>
               memory'[s] = memory[s] /\ disk'[s] = disk[s]
      <4> HIDE DEF m, d
      <4>1. \A s \in Runs : m[s].status = "running" =>
              Trimmed(m)[s] = m[s] /\ ForgetFiles(m, d)[s] = d[s]
        <5>1. SparesRunning(m, d)
          BY <2>1, TrimType
        <5> QED
          BY <5>1 DEF SparesRunning
      <4>2. memory' \in [Runs -> [status : Statuses, seq : Nat]]
            /\ disk' \in [Runs -> Statuses \cup {"torn"}]
        BY <2>1, <2>3, TrimType
      <4> QED
        BY <2>2, <2>3, <4>1, <4>2
    <3> HIDE DEF m, d
    <3>2. /\ stage' = [stage EXCEPT ![r] = next]
          /\ failed' \in Nat /\ finishSeq' \in Nat /\ faults' \in Nat
      BY <1>9, <2>3 DEF Move, FailRecord
    <3>3. StoredFile'
      BY <1>9, <3>1, <3>2
    <3> QED
      BY <1>9, <3>1, <3>2, <3>3
  <2>4. CASE memory' = m /\ PersistRaises(r) /\ Move(r, raised)
    BY <1>9, <2>1, <2>2, <2>4 DEF Move, PersistRaises, FailRecord
  <2> QED
    BY <1>9, <2>3, <2>4 DEF FailRecord
<1>10. ASSUME NEW w \in Workers, NEW r \in Runs, FailStopped(w, r) PROVE TypeInv'
  <2>1. stage[r] = "failing" /\ FailRecord(r, "rejected", "lost")
    BY <1>10 DEF FailStopped, Holds
  <2>2. worker' \in [Workers -> Runs \cup {NoRun}] /\ thread' \in [Workers -> {"up", "exited", "died"}]
    BY <1>10 DEF FailStopped, Free, Die
  <2>3. /\ memory' \in [Runs -> [status : Statuses, seq : Nat]]
        /\ disk' \in [Runs -> Statuses \cup {"torn"}]
        /\ stage' \in [Runs -> Stages] /\ faults' \in Nat
        /\ failed' \in Nat /\ finishSeq' \in Nat
        /\ StoredFile' /\ ReservedFlag'
    BY <1>10, <2>1, <1>9 DEF FailStopped, Stages
  <2> QED
    BY <1>10, <2>2, <2>3 DEF FailStopped
<1>11. ASSUME NEW w \in Workers, NEW r \in Runs, LeaveQueue(w, r) PROVE TypeInv'
  BY <1>11 DEF LeaveQueue, Move, Free, Stages
<1>12. ASSUME NEW w \in Workers, NEW r \in Runs, Begin(w, r) PROVE TypeInv'
  <2>1. memory' = [memory EXCEPT ![r].status = "running"] /\ stage[r] = "starting"
    BY <1>12 DEF Begin, Holds
  <2>2. queued' \in Nat /\ running' \in Nat
    BY <1>12 DEF Begin, CountBegun
  <2>3. /\ memory' \in [Runs -> [status : Statuses, seq : Nat]]
        /\ memory'[r].status = "running"
        /\ \A s \in Runs : s # r => memory'[s] = memory[s]
    BY <2>1 DEF Statuses, InFlight
  <2>4. CASE Persist(r, "running") /\ Move(r, "executing") /\ UNCHANGED <<worker, thread>>
    BY <1>12, <2>2, <2>3, <2>4 DEF Begin, Persist, Move, Stages, Statuses, InFlight
  <2>5. CASE PersistRaises(r) /\ Move(r, "dropped") /\ Free(w) /\ Die(w)
    <3>1. disk' \in [Runs -> Statuses \cup {"torn"}] /\ faults' \in Nat
          /\ \A s \in Runs : s # r => disk'[s] = disk[s]
      BY <2>5 DEF PersistRaises
    <3>2. /\ worker' \in [Workers -> Runs \cup {NoRun}]
          /\ thread' \in [Workers -> {"up", "exited", "died"}]
          /\ stage' = [stage EXCEPT ![r] = "dropped"]
      BY <2>5 DEF Free, Die, Move
    <3> QED
      BY <1>12, <2>2, <2>3, <3>1, <3>2 DEF Begin, Stages
  <2> QED
    BY <1>12, <2>4, <2>5 DEF Begin
<1>13. ASSUME NEW w \in Workers, NEW r \in Runs, Execute(w, r) PROVE TypeInv'
  <2>0. stage[r] = "executing" /\ "done" \in Statuses /\ "failed" \in Statuses
    BY <1>13 DEF Execute, Holds, Statuses, Completed
  <2>1. \/ \E s \in {"done", "failed"} : disk' = [disk EXCEPT ![r] = s] /\ faults' = faults
                                         /\ stage' = [stage EXCEPT ![r] = "stored"]
        \/ /\ \E s \in Statuses \cup {"torn"} : disk' = [disk EXCEPT ![r] = s]
           /\ faults' \in Nat /\ stage' = [stage EXCEPT ![r] = "raising"]
    <3>1. CASE UNCHANGED <<disk, faults>> /\ Move(r, "raising")
      <4>1. disk' = [disk EXCEPT ![r] = disk[r]] /\ disk[r] \in Statuses \cup {"torn"}
        BY <3>1
      <4> QED
        BY <3>1, <4>1 DEF Move
    <3>2. CASE PersistRaises(r) /\ Move(r, "raising")
      <4>1. disk[r] \in Statuses \cup {"torn"} /\ "torn" \in Statuses \cup {"torn"}
        OBVIOUS
      <4>2. PICK s \in {disk[r], "torn"} : disk' = [disk EXCEPT ![r] = s]
        BY <3>2 DEF PersistRaises
      <4>3. s \in Statuses \cup {"torn"}
        BY <4>1, <4>2
      <4>4. \E t \in Statuses \cup {"torn"} : disk' = [disk EXCEPT ![r] = t]
        BY <4>2, <4>3
      <4>5. faults' \in Nat /\ stage' = [stage EXCEPT ![r] = "raising"]
        BY <3>2 DEF PersistRaises, Move
      <4> QED
        BY <4>4, <4>5
    <3> QED
      BY <1>13, <2>0, <3>1, <3>2 DEF Execute, Persist, Move
  <2> QED
    <3>1. CASE \E s \in {"done", "failed"} : disk' = [disk EXCEPT ![r] = s] /\ faults' = faults
                                             /\ stage' = [stage EXCEPT ![r] = "stored"]
      BY <1>13, <2>0, <3>1 DEF Execute, Stages, counters
    <3>2. CASE /\ \E s \in Statuses \cup {"torn"} : disk' = [disk EXCEPT ![r] = s]
               /\ faults' \in Nat /\ stage' = [stage EXCEPT ![r] = "raising"]
      BY <1>13, <2>0, <3>2 DEF Execute, Stages, counters
    <3> QED
      BY <2>1, <3>1, <3>2
<1>14. ASSUME NEW w \in Workers, NEW r \in Runs, Finish(w, r) PROVE TypeInv'
  <2> DEFINE m == [memory EXCEPT ![r] = [status |-> disk[r], seq |-> finishSeq + 1]]
  <2>1. stage[r] = "stored" /\ disk[r] \in {"done", "failed"}
    BY <1>14 DEF Finish, Holds
  <2>2. m \in [Runs -> [status : Statuses, seq : Nat]]
    BY <2>1 DEF Statuses, Completed
  <2>3. memory' = Trimmed(m) /\ disk' = ForgetFiles(m, disk)
    BY <1>14 DEF Finish
  <2>4. /\ memory' \in [Runs -> [status : Statuses, seq : Nat]]
        /\ disk' \in [Runs -> Statuses \cup {"torn"}]
        /\ \A s \in Runs : s # r /\ memory[s].status = "running" =>
             memory'[s] = memory[s] /\ disk'[s] = disk[s]
    <3>1. \A s \in Runs : s # r => m[s] = memory[s]
      OBVIOUS
    <3> HIDE DEF m
    <3>2. /\ Trimmed(m) \in [Runs -> [status : Statuses, seq : Nat]]
          /\ ForgetFiles(m, disk) \in [Runs -> Statuses \cup {"torn"}]
          /\ SparesRunning(m, disk)
      <4>1. Trimmed(m) \in [Runs -> [status : Statuses, seq : Nat]]
            /\ ForgetFiles(m, disk) \in [Runs -> Statuses \cup {"torn"}]
        BY <2>2, TrimType
      <4>2. SparesRunning(m, disk)
        BY <2>2, TrimType
      <4> QED
        BY <4>1, <4>2
    <3> QED
      BY <2>3, <3>1, <3>2 DEF SparesRunning
  <2> HIDE DEF m
  <2> QED
    <3>1. stage' = [stage EXCEPT ![r] = "finished"] /\ finishSeq' \in Nat /\ completed' \in Nat
      BY <1>14 DEF Finish, Move
    <3>2. UNCHANGED <<reserved, faults>>
      BY <1>14 DEF Finish
    <3>3. StoredFile'
      BY <2>1, <2>4, <3>1
    <3>4. ReservedFlag'
      BY <2>1, <3>1, <3>2
    <3> QED
      BY <1>14, <2>4, <3>1, <3>3, <3>4 DEF Finish, Stages
<1>15. ASSUME NEW w \in Workers, NEW r \in Runs, Fail(w, r) PROVE TypeInv'
  <2>1. stage[r] = "raising" /\ FailRecord(r, "finished", "unsaved")
    BY <1>15 DEF Fail, Holds
  <2> QED
    BY <1>15, <2>1, <1>9 DEF Fail, Stages
<1>16. ASSUME NEW w \in Workers, NEW r \in Runs, Release(w, r) PROVE TypeInv'
  <2>1. /\ stage' = [stage EXCEPT ![r] = "over"] /\ worker' = [worker EXCEPT ![w] = NoRun]
        /\ thread' \in [Workers -> {"up", "exited", "died"}]
        /\ UNCHANGED <<phase, q, queued, completed, failed, finishSeq, memory, disk, reserved, faults, restarts>>
    BY <1>16 DEF Release, Move, Free, Die
  <2>2. running' \in Nat
    BY <1>16 DEF Release
  <2>3. TypeOK'
    BY <2>1, <2>2 DEF Stages
  <2>4. StoredFile'
    BY <2>1
  <2>5. ReservedFlag'
    BY <2>1
  <2> QED
    BY <2>3, <2>4, <2>5
<1>17. CASE MarkStop
  BY <1>17 DEF MarkStop, counters
<1>18. CASE Shutdown
  <2>1. q' \in Seq(Runs \cup {Sentinel})
    BY <1>18 DEF Shutdown
  <2> QED
    BY <1>18, <2>1 DEF Shutdown, counters
<1>19. CASE Exit \/ Restart
  <2>1. EndProcess /\ phase' \in {"serving", "exited"} /\ restarts' \in Nat
    BY <1>19 DEF Exit, Restart
  <2>2. disk' \in [Runs -> Statuses \cup {"torn"}]
    BY <2>1 DEF EndProcess, Statuses, Completed
  <2>3. \A r \in Runs : stage'[r] \in {"new", "refused", "over", "orphan"} /\ reserved'[r] = FALSE
    BY <2>1 DEF EndProcess
  <2>4. stage' \in [Runs -> Stages]
    BY <2>1 DEF EndProcess, Stages
  <2>5. /\ q' = <<>> /\ queued' = 0 /\ running' = 0 /\ completed' = 0 /\ failed' = 0
        /\ finishSeq' = 0 /\ faults' = faults
        /\ memory' = [r \in Runs |-> Forgotten] /\ reserved' = [r \in Runs |-> FALSE]
        /\ worker' = [w \in Workers |-> NoRun] /\ thread' = [w \in Workers |-> "up"]
    BY <2>1 DEF EndProcess
  <2>6. TypeOK'
    BY <2>1, <2>2, <2>4, <2>5 DEF Forgotten, Statuses
  <2>7. StoredFile'
    BY <2>3
  <2>8. ReservedFlag'
    BY <2>3
  <2> QED
    BY <2>6, <2>7, <2>8
<1> QED
  BY <1>1, <1>2, <1>3, <1>4, <1>5, <1>6, <1>7, <1>8, <1>10, <1>11, <1>12, <1>13,
     <1>14, <1>15, <1>16, <1>17, <1>18, <1>19
  DEF Next, HttpStep, WorkerStep, RunStep

\* Every state of the queue is well typed, for every interleaving, fault and
\* restart; the file of a run whose result is not yet remembered is its result.
THEOREM TypeCorrect == Spec => [](TypeOK /\ StoredFile)
<1>1. TypeInv => TypeOK /\ StoredFile
  BY DEF TypeInv
<1> QED
  BY <1>1, TypeInit, TypeStep, PTL DEF Spec

(***************************************************************************)
(* Ownership: a run is in the FIFO once, or with one worker, or with none. *)
(***************************************************************************)
LEMMA HolderInit == Init => OneHolder
  BY SpecialAssumption DEF Init, OneHolder, InWorker

LEMMA HolderStep == TypeInv /\ OneHolder /\ [Next]_vars => OneHolder'
<1> SUFFICES ASSUME TypeInv, OneHolder, [Next]_vars PROVE OneHolder'
  OBVIOUS
<1>t. /\ stage \in [Runs -> Stages] /\ q \in Seq(Runs \cup {Sentinel})
      /\ worker \in [Workers -> Runs \cup {NoRun}] /\ NoRun \notin Runs /\ Sentinel \notin Runs
  BY SpecialAssumption DEF TypeInv, TypeOK
<1>u. ASSUME UNCHANGED <<stage, q, worker>> PROVE OneHolder'
  BY <1>u DEF OneHolder
<1>m. ASSUME NEW r \in Runs, NEW s \in Stages, Move(r, s), UNCHANGED <<q, worker>>,
             stage[r] \in InWorker <=> s \in InWorker, stage[r] # "inq", s # "inq"
      PROVE OneHolder'
  <2>1. stage'[r] = s /\ \A x \in Runs : x # r => stage'[x] = stage[x]
    BY <1>m, <1>t DEF Move
  <2> QED
    BY <1>m, <2>1 DEF OneHolder
<1>f. ASSUME NEW w \in Workers, NEW r \in Runs, NEW s \in Stages, Move(r, s), Free(w), UNCHANGED q,
             worker[w] = r, stage[r] # "inq", s \notin InWorker, s # "inq"
      PROVE OneHolder'
  <2>1. stage'[r] = s /\ \A x \in Runs : x # r => stage'[x] = stage[x]
    BY <1>f, <1>t DEF Move
  <2>2. worker'[w] = NoRun /\ \A v \in Workers : v # w => worker'[v] = worker[v]
    BY <1>f, <1>t DEF Free
  <2>3. \A x \in Runs : stage'[x] \in InWorker <=> \E v \in Workers : worker'[v] = x
    <3>1. ASSUME NEW x \in Runs, x # r PROVE stage'[x] \in InWorker <=> \E v \in Workers : worker'[v] = x
      BY <1>f, <1>t, <2>1, <2>2, <3>1 DEF OneHolder
    <3>2. stage'[r] \notin InWorker /\ ~ \E v \in Workers : worker'[v] = r
      BY <1>f, <1>t, <2>1, <2>2 DEF OneHolder
    <3> QED
      BY <3>1, <3>2
  <2>4. \A v, u \in Workers : worker'[v] = worker'[u] /\ worker'[v] \in Runs => v = u
    BY <1>f, <1>t, <2>2 DEF OneHolder
  <2>5. /\ \A x \in Runs : stage'[x] = "inq" <=> \E i \in DOMAIN q' : q'[i] = x
        /\ \A i, j \in DOMAIN q' : q'[i] = q'[j] /\ q'[i] \in Runs => i = j
    BY <1>f, <2>1 DEF OneHolder
  <2> QED
    BY <2>3, <2>4, <2>5 DEF OneHolder
<1>1. CASE UNCHANGED vars
  BY <1>1, <1>u DEF vars
<1>2. ASSUME NEW r \in Runs, CheckStop(r) PROVE OneHolder'
  BY <1>2, <1>m DEF CheckStop, Stages, InWorker
<1>3. ASSUME NEW r \in Runs, AdmitRunning(r) \/ AdmitQueued(r) PROVE OneHolder'
  <2>1. stage[r] = "checked" /\ UNCHANGED <<q, worker>> /\ (Move(r, "admitted") \/ Move(r, "lost"))
    BY <1>3 DEF AdmitRunning, AdmitQueued, Record
  <2> QED
    BY <2>1, <1>m DEF Stages, InWorker
<1>5. ASSUME NEW r \in Runs, RefuseFull(r) PROVE OneHolder'
  BY <1>5, <1>m DEF RefuseFull, Stages, InWorker
<1>6. ASSUME NEW r \in Runs, Put(r) PROVE OneHolder'
  <2>1. stage[r] = "admitted" /\ q' = Append(q, r) /\ worker' = worker
        /\ stage'[r] = "inq" /\ \A x \in Runs : x # r => stage'[x] = stage[x]
    BY <1>6, <1>t DEF Put, Move
  <2>2. /\ DOMAIN q' = DOMAIN q \cup {Len(q) + 1} /\ q'[Len(q) + 1] = r
        /\ Len(q) + 1 \notin DOMAIN q /\ \A i \in DOMAIN q : q'[i] = q[i]
    BY <2>1, <1>t
  <2>3. \A i \in DOMAIN q : q[i] # r
    BY <2>1 DEF OneHolder
  <2>4. \A x \in Runs : stage'[x] = "inq" <=> \E i \in DOMAIN q' : q'[i] = x
    BY <2>1, <2>2, <2>3 DEF OneHolder
  <2>5. \A i, j \in DOMAIN q' : q'[i] = q'[j] /\ q'[i] \in Runs => i = j
    BY <2>2, <2>3 DEF OneHolder
  <2>6. \A x \in Runs : stage'[x] \in InWorker <=> \E v \in Workers : worker'[v] = x
    BY <2>1 DEF OneHolder, InWorker
  <2> QED
    BY <2>1, <2>4, <2>5, <2>6 DEF OneHolder
<1>h. ASSUME q # <<>>, q' = Tail(q)
      PROVE  /\ 1 \in DOMAIN q /\ Head(q) = q[1]
             /\ \A i \in DOMAIN q' : i + 1 \in DOMAIN q /\ i + 1 # 1 /\ q'[i] = q[i + 1]
             /\ \A i \in DOMAIN q : i # 1 => \E j \in DOMAIN q' : q'[j] = q[i]
             /\ DOMAIN q' \subseteq Nat
  <2>1. /\ 1 \in DOMAIN q /\ Head(q) = q[1] /\ DOMAIN q' \subseteq Nat
        /\ \A i \in DOMAIN q' : i + 1 \in DOMAIN q /\ i + 1 # 1 /\ q'[i] = q[i + 1]
    BY <1>h, <1>t
  <2>2. ASSUME NEW i \in DOMAIN q, i # 1 PROVE i - 1 \in DOMAIN q' /\ q'[i - 1] = q[i]
    BY <1>h, <1>t, <2>2
  <2> QED
    BY <2>1, <2>2
<1>7. ASSUME NEW w \in Workers, Take(w) PROVE OneHolder'
  <2> DEFINE r == Head(q)
  <2>1. /\ r \in Runs /\ q # <<>> /\ q' = Tail(q) /\ worker[w] = NoRun
        /\ Move(r, "failing") \/ Move(r, "starting")
        /\ worker' = [worker EXCEPT ![w] = r]
    BY <1>7, <1>t DEF Take
  <2>2. r = q[1] /\ 1 \in DOMAIN q /\ stage[r] = "inq"
    BY <2>1, <1>h DEF OneHolder
  <2> HIDE DEF r
  <2>3. stage'[r] \in InWorker /\ stage'[r] # "inq" /\ \A x \in Runs : x # r => stage'[x] = stage[x]
    BY <2>1, <1>t DEF Move, InWorker
  <2>4. worker'[w] = r /\ \A v \in Workers : v # w => worker'[v] = worker[v]
    BY <2>1, <1>t
  <2>5. \A v \in Workers : worker[v] # r
    BY <2>1, <2>2 DEF OneHolder, InWorker
  <2>6. \A x \in Runs : stage'[x] \in InWorker <=> \E v \in Workers : worker'[v] = x
    <3>1. ASSUME NEW x \in Runs, x # r PROVE stage'[x] \in InWorker <=> \E v \in Workers : worker'[v] = x
      BY <1>t, <2>1, <2>3, <2>4, <3>1 DEF OneHolder
    <3> QED
      BY <3>1, <2>3, <2>4
  <2>7. \A v, u \in Workers : worker'[v] = worker'[u] /\ worker'[v] \in Runs => v = u
    BY <2>4, <2>5 DEF OneHolder
  <2>8. \A i \in DOMAIN q' : q'[i] # r
    BY <2>1, <2>2, <1>h DEF OneHolder
  <2>9. \A x \in Runs : stage'[x] = "inq" <=> \E i \in DOMAIN q' : q'[i] = x
    <3>1. ASSUME NEW x \in Runs, x # r, stage'[x] = "inq" PROVE \E i \in DOMAIN q' : q'[i] = x
      <4>1. PICK i \in DOMAIN q : q[i] = x
        BY <3>1, <2>3 DEF OneHolder
      <4> QED
        BY <4>1, <3>1, <2>1, <2>2, <1>h
    <3>2. ASSUME NEW x \in Runs, NEW i \in DOMAIN q', q'[i] = x PROVE stage'[x] = "inq"
      BY <3>2, <2>1, <2>3, <2>8, <1>h DEF OneHolder
    <3> QED
      BY <3>1, <3>2, <2>3
  <2>10. \A i, j \in DOMAIN q' : q'[i] = q'[j] /\ q'[i] \in Runs => i = j
    <3>1. ASSUME NEW i \in DOMAIN q', NEW j \in DOMAIN q', q'[i] = q'[j], q'[i] \in Runs PROVE i = j
      <4>1. i + 1 \in DOMAIN q /\ j + 1 \in DOMAIN q /\ q[i + 1] = q[j + 1] /\ q[i + 1] \in Runs
            /\ i \in Nat /\ j \in Nat
        BY <3>1, <2>1, <1>h
      <4>2. i + 1 = j + 1
        BY <4>1 DEF OneHolder
      <4> QED
        BY <4>1, <4>2
    <3> QED
      BY <3>1
  <2> QED
    BY <2>6, <2>7, <2>9, <2>10 DEF OneHolder
<1>8. ASSUME NEW w \in Workers, TakeSentinel(w) PROVE OneHolder'
  <2>1. q # <<>> /\ q' = Tail(q) /\ Head(q) = Sentinel /\ UNCHANGED <<stage, worker>>
    BY <1>8 DEF TakeSentinel
  <2>2. \A x \in Runs : stage'[x] = "inq" <=> \E i \in DOMAIN q' : q'[i] = x
    <3>1. ASSUME NEW x \in Runs, stage'[x] = "inq" PROVE \E i \in DOMAIN q' : q'[i] = x
      <4>1. PICK i \in DOMAIN q : q[i] = x
        BY <3>1, <2>1 DEF OneHolder
      <4> QED
        BY <4>1, <2>1, <1>h, <1>t
    <3>2. ASSUME NEW x \in Runs, NEW i \in DOMAIN q', q'[i] = x PROVE stage'[x] = "inq"
      BY <3>2, <2>1, <1>h DEF OneHolder
    <3> QED
      BY <3>1, <3>2
  <2>3. \A i, j \in DOMAIN q' : q'[i] = q'[j] /\ q'[i] \in Runs => i = j
    <3>1. ASSUME NEW i \in DOMAIN q', NEW j \in DOMAIN q', q'[i] = q'[j], q'[i] \in Runs PROVE i = j
      <4>1. i + 1 \in DOMAIN q /\ j + 1 \in DOMAIN q /\ q[i + 1] = q[j + 1] /\ q[i + 1] \in Runs
            /\ i \in Nat /\ j \in Nat
        BY <3>1, <2>1, <1>h
      <4>2. i + 1 = j + 1
        BY <4>1 DEF OneHolder
      <4> QED
        BY <4>1, <4>2
    <3> QED
      BY <3>1
  <2> QED
    BY <2>1, <2>2, <2>3 DEF OneHolder
<1>10. ASSUME NEW w \in Workers, NEW r \in Runs, FailStopped(w, r) PROVE OneHolder'
  <2>1. stage[r] = "failing" /\ worker[w] = r /\ UNCHANGED q
    BY <1>10 DEF FailStopped, Holds
  <2>2. \/ Move(r, "rejected") /\ UNCHANGED worker
        \/ Move(r, "lost") /\ Free(w)
    <3>1. Move(r, "rejected") \/ Move(r, "lost")
      BY <1>10 DEF FailStopped, FailRecord
    <3>2. stage'[r] = "lost" => Free(w)
      BY <1>10 DEF FailStopped
    <3>3. stage'[r] # "lost" => UNCHANGED worker
      BY <1>10 DEF FailStopped
    <3>4. Move(r, "rejected") => stage'[r] = "rejected"
      BY <1>t DEF Move
    <3>5. Move(r, "lost") => stage'[r] = "lost"
      BY <1>t DEF Move
    <3> QED
      BY <3>1, <3>2, <3>3, <3>4, <3>5
  <2> QED
    BY <2>1, <2>2, <1>m, <1>f DEF Stages, InWorker
<1>11. ASSUME NEW w \in Workers, NEW r \in Runs, LeaveQueue(w, r) PROVE OneHolder'
  BY <1>11, <1>f DEF LeaveQueue, Holds, Stages, InWorker
<1>12. ASSUME NEW w \in Workers, NEW r \in Runs, Begin(w, r) PROVE OneHolder'
  <2>1. /\ stage[r] = "starting" /\ worker[w] = r /\ UNCHANGED q
        /\ (Move(r, "executing") /\ UNCHANGED worker) \/ (Move(r, "dropped") /\ Free(w))
    BY <1>12 DEF Begin, Holds
  <2> QED
    BY <2>1, <1>m, <1>f DEF Stages, InWorker
<1>13. ASSUME NEW w \in Workers, NEW r \in Runs, Execute(w, r) PROVE OneHolder'
  <2>1. stage[r] = "executing" /\ UNCHANGED <<q, worker>> /\ (Move(r, "stored") \/ Move(r, "raising"))
    BY <1>13 DEF Execute, Holds
  <2> QED
    BY <2>1, <1>m DEF Stages, InWorker
<1>14. ASSUME NEW w \in Workers, NEW r \in Runs, Finish(w, r) PROVE OneHolder'
  <2>1. stage[r] = "stored" /\ UNCHANGED <<q, worker>> /\ Move(r, "finished")
    BY <1>14 DEF Finish, Holds
  <2> QED
    BY <2>1, <1>m DEF Stages, InWorker
<1>15. ASSUME NEW w \in Workers, NEW r \in Runs, Fail(w, r) PROVE OneHolder'
  <2>1. stage[r] = "raising" /\ UNCHANGED <<q, worker>> /\ (Move(r, "finished") \/ Move(r, "unsaved"))
    BY <1>15 DEF Fail, Holds, FailRecord
  <2> QED
    BY <2>1, <1>m DEF Stages, InWorker
<1>16. ASSUME NEW w \in Workers, NEW r \in Runs, Release(w, r) PROVE OneHolder'
  <2>1. stage[r] \in {"finished", "unsaved"} /\ worker[w] = r /\ UNCHANGED q /\ Move(r, "over") /\ Free(w)
    BY <1>16 DEF Release, Holds
  <2> QED
    BY <2>1, <1>f DEF Stages, InWorker
<1>17. CASE MarkStop
  BY <1>17, <1>u DEF MarkStop
<1>18. CASE Shutdown
  <2>1. q' = Append(q, Sentinel) /\ UNCHANGED <<stage, worker>>
    BY <1>18 DEF Shutdown
  <2>2. /\ \A i \in DOMAIN q : i \in DOMAIN q' /\ q'[i] = q[i]
        /\ \A i \in DOMAIN q' : i \notin DOMAIN q => q'[i] = Sentinel
    BY <2>1, <1>t
  <2>3. \A i \in DOMAIN q' : q'[i] \in Runs => i \in DOMAIN q /\ q'[i] = q[i]
    BY <2>2, <1>t
  <2>4. \A x \in Runs : stage'[x] = "inq" <=> \E i \in DOMAIN q' : q'[i] = x
    BY <2>1, <2>2, <2>3 DEF OneHolder
  <2>5. \A i, j \in DOMAIN q' : q'[i] = q'[j] /\ q'[i] \in Runs => i = j
    BY <2>3 DEF OneHolder
  <2> QED
    BY <2>1, <2>4, <2>5 DEF OneHolder
<1>19. CASE Exit \/ Restart
  <2>1. /\ q' = <<>> /\ worker' = [w \in Workers |-> NoRun]
        /\ \A x \in Runs : stage'[x] \in {"new", "refused", "over", "orphan"}
    BY <1>19 DEF Exit, Restart, EndProcess
  <2> QED
    BY <2>1, <1>t DEF OneHolder, InWorker
<1> QED
  BY <1>1, <1>2, <1>3, <1>5, <1>6, <1>7, <1>8, <1>10, <1>11, <1>12, <1>13,
     <1>14, <1>15, <1>16, <1>17, <1>18, <1>19
  DEF Next, HttpStep, WorkerStep, RunStep

\* No run is ever held twice: not by two workers, not by the FIFO and a worker,
\* whatever the order of put, get, shutdown and the deaths of workers.
THEOREM RunsHaveOneHolder == Spec => []OneHolder
  BY TypeInit, TypeStep, HolderInit, HolderStep, PTL DEF Spec

(***************************************************************************)
(* The counters.  A step moves one run, so each set of holders changes by  *)
(* that run alone.                                                         *)
(***************************************************************************)
CountInv == /\ CountersExact
            /\ queued <= MaxQueue
            /\ Cardinality(Reserved) <= Concurrency

\* Two finite sets that differ at most in r have cardinalities that differ by
\* the membership of r.
LEMMA OneMoved ==
  ASSUME NEW S, NEW T, NEW r, IsFiniteSet(S), IsFiniteSet(T), S \ {r} = T \ {r}
  PROVE  /\ Cardinality(S) \in Nat /\ Cardinality(T) \in Nat
         /\ (r \in S <=> r \in T) => Cardinality(T) = Cardinality(S)
         /\ r \in S /\ r \notin T => Cardinality(S) = Cardinality(T) + 1
         /\ r \notin S /\ r \in T => Cardinality(T) = Cardinality(S) + 1
<1>1. Cardinality(S) \in Nat /\ Cardinality(T) \in Nat
  BY FS_CardinalityType
<1>2. Cardinality(S \ {r}) = IF r \in S THEN Cardinality(S) - 1 ELSE Cardinality(S)
  BY FS_RemoveElement
<1>3. Cardinality(T \ {r}) = IF r \in T THEN Cardinality(T) - 1 ELSE Cardinality(T)
  BY FS_RemoveElement
<1> QED
  BY <1>1, <1>2, <1>3

LEMMA HoldersFinite ==
  IsFiniteSet(RunningHolders) /\ IsFiniteSet(QueuedHolders) /\ IsFiniteSet(Reserved)
<1>1. RunningHolders \in SUBSET Runs /\ QueuedHolders \in SUBSET Runs /\ Reserved \in SUBSET Runs
  BY DEF RunningHolders, QueuedHolders, Reserved
<1> QED
  BY <1>1, FS_Subset, RunsAssumption

LEMMA HoldersMove ==
  ASSUME NEW r \in Runs,
         \A s \in Runs : s # r => stage'[s] = stage[s] /\ reserved'[s] = reserved[s]
  PROVE  /\ RunningHolders \ {r} = RunningHolders' \ {r}
         /\ QueuedHolders \ {r} = QueuedHolders' \ {r}
         /\ Reserved \ {r} = Reserved' \ {r}
         /\ IsFiniteSet(RunningHolders') /\ IsFiniteSet(QueuedHolders') /\ IsFiniteSet(Reserved')
<1>1. /\ RunningHolders' \in SUBSET Runs /\ QueuedHolders' \in SUBSET Runs
      /\ Reserved' \in SUBSET Runs
  BY DEF RunningHolders, QueuedHolders, Reserved
<1>2. IsFiniteSet(RunningHolders') /\ IsFiniteSet(QueuedHolders') /\ IsFiniteSet(Reserved')
  BY <1>1, FS_Subset, RunsAssumption
<1>3. RunningHolders \ {r} = RunningHolders' \ {r}
  BY DEF RunningHolders
<1>4. QueuedHolders \ {r} = QueuedHolders' \ {r} /\ Reserved \ {r} = Reserved' \ {r}
  BY DEF QueuedHolders, Reserved
<1> QED
  BY <1>2, <1>3, <1>4

\* A step that moves one run without moving it between the sets of holders
\* leaves their cardinalities as they are.
LEMMA HoldersKept ==
  ASSUME NEW r \in Runs,
         \A s \in Runs : s # r => stage'[s] = stage[s],
         UNCHANGED reserved,
         stage[r] \in Begun <=> stage'[r] \in Begun,
         stage[r] \in Waiting <=> stage'[r] \in Waiting
  PROVE  /\ Cardinality(RunningHolders') = Cardinality(RunningHolders)
         /\ Cardinality(QueuedHolders') = Cardinality(QueuedHolders)
         /\ Cardinality(Reserved') = Cardinality(Reserved)
<1>1. /\ r \in RunningHolders <=> r \in RunningHolders'
      /\ r \in QueuedHolders <=> r \in QueuedHolders'
      /\ r \in Reserved <=> r \in Reserved'
  BY DEF RunningHolders, QueuedHolders, Reserved
<1> QED
  BY <1>1, HoldersMove, HoldersFinite, OneMoved

LEMMA CountInit == Init => CountInv
<1> SUFFICES ASSUME Init PROVE CountInv
  OBVIOUS
<1>1. RunningHolders = {} /\ QueuedHolders = {} /\ Reserved = {}
  BY DEF Init, RunningHolders, QueuedHolders, Reserved, Waiting, Begun
<1>2. running = 0 /\ queued = 0
  BY DEF Init
<1> QED
  BY <1>1, <1>2, FS_EmptySet, ConcurrencyType, MaxQueueAssumption DEF CountInv, CountersExact

LEMMA CountStep == TypeInv /\ OneHolder /\ CountInv /\ [Next]_vars => CountInv'
<1> SUFFICES ASSUME TypeInv, OneHolder, CountInv, [Next]_vars PROVE CountInv'
  OBVIOUS
<1>t. /\ queued \in Nat /\ running \in Nat
      /\ stage \in [Runs -> Stages] /\ reserved \in [Runs -> BOOLEAN]
      /\ ReservedFlag
  BY DEF TypeInv, TypeOK
<1>c. /\ Concurrency \in Nat /\ Concurrency > 0 /\ MaxQueue \in Nat
      /\ Concurrency' = Concurrency /\ MaxQueue' = MaxQueue
  BY ConcurrencyType, MaxQueueAssumption DEF Concurrency
<1>k. ASSUME /\ Cardinality(RunningHolders') = Cardinality(RunningHolders)
             /\ Cardinality(QueuedHolders') = Cardinality(QueuedHolders)
             /\ Cardinality(Reserved') = Cardinality(Reserved)
             /\ UNCHANGED <<queued, running>>
      PROVE CountInv'
  BY <1>k, <1>c DEF CountInv, CountersExact
<1>u. ASSUME UNCHANGED <<stage, reserved, queued, running>> PROVE CountInv'
  BY <1>u, <1>c DEF CountInv, CountersExact, RunningHolders, QueuedHolders, Reserved
<1>m. ASSUME NEW r \in Runs, NEW s \in Stages, Move(r, s), UNCHANGED <<reserved, queued, running>>,
             stage[r] \in Begun <=> s \in Begun,
             stage[r] \in Waiting <=> s \in Waiting
      PROVE CountInv'
  <2>1. stage'[r] = s /\ \A x \in Runs : x # r => stage'[x] = stage[x]
    BY <1>m, <1>t DEF Move
  <2> QED
    BY <1>m, <2>1, HoldersKept, <1>k
<1>1. CASE UNCHANGED vars
  BY <1>1, <1>u DEF vars, counters
<1>2. ASSUME NEW r \in Runs, CheckStop(r) PROVE CountInv'
  BY <1>2, <1>m DEF CheckStop, counters, Stages, Begun, Waiting
<1>3. ASSUME NEW r \in Runs, AdmitRunning(r) PROVE CountInv'
  <2>1. /\ stage[r] = "checked" /\ ~reserved[r] /\ reserved'[r]
        /\ running < Concurrency /\ running' = running + 1 /\ queued' = queued
        /\ \E s \in {"admitted", "lost"} : Move(r, s)
    BY <1>3, <1>t DEF AdmitRunning, SlotFree, Record, ReservedFlag
  <2>2. stage'[r] \in Waiting /\ \A x \in Runs : x # r => stage'[x] = stage[x] /\ reserved'[x] = reserved[x]
    BY <1>3, <2>1, <1>t DEF Move, Waiting, AdmitRunning
  <2>3. /\ r \notin RunningHolders /\ r \in RunningHolders'
        /\ r \notin QueuedHolders /\ r \notin QueuedHolders'
        /\ r \notin Reserved /\ r \in Reserved'
    BY <2>1, <2>2 DEF RunningHolders, QueuedHolders, Reserved, Begun, Waiting
  <2>4. Cardinality(Reserved) <= Cardinality(RunningHolders)
    <3>1. Reserved \in SUBSET RunningHolders
      BY DEF Reserved, RunningHolders
    <3> QED
      BY <3>1, HoldersFinite, FS_Subset
  <2>5. /\ Cardinality(RunningHolders') = Cardinality(RunningHolders) + 1
        /\ Cardinality(QueuedHolders') = Cardinality(QueuedHolders)
        /\ Cardinality(Reserved') = Cardinality(Reserved) + 1
        /\ Cardinality(Reserved) \in Nat /\ Cardinality(RunningHolders) \in Nat
    BY <2>2, <2>3, HoldersMove, HoldersFinite, OneMoved
  <2> QED
    BY <2>1, <2>4, <2>5, <1>t, <1>c DEF CountInv, CountersExact
<1>4. ASSUME NEW r \in Runs, AdmitQueued(r) PROVE CountInv'
  <2>1. /\ stage[r] = "checked" /\ ~reserved[r] /\ reserved' = reserved
        /\ queued < MaxQueue /\ queued' = queued + 1 /\ running' = running
        /\ \E s \in {"admitted", "lost"} : Move(r, s)
    BY <1>4, <1>t DEF AdmitQueued, QueueFree, Record, ReservedFlag
  <2>2. stage'[r] \in Waiting /\ \A x \in Runs : x # r => stage'[x] = stage[x] /\ reserved'[x] = reserved[x]
    BY <2>1, <1>t DEF Move, Waiting
  <2>3. /\ r \notin RunningHolders /\ r \notin RunningHolders'
        /\ r \notin QueuedHolders /\ r \in QueuedHolders'
        /\ r \notin Reserved /\ r \notin Reserved'
    BY <2>1, <2>2 DEF RunningHolders, QueuedHolders, Reserved, Begun, Waiting
  <2>4. /\ Cardinality(RunningHolders') = Cardinality(RunningHolders)
        /\ Cardinality(QueuedHolders') = Cardinality(QueuedHolders) + 1
        /\ Cardinality(Reserved') = Cardinality(Reserved)
        /\ Cardinality(QueuedHolders) \in Nat
    BY <2>2, <2>3, HoldersMove, HoldersFinite, OneMoved
  <2> QED
    BY <2>1, <2>4, <1>t, <1>c DEF CountInv, CountersExact
<1>5. ASSUME NEW r \in Runs, RefuseFull(r) PROVE CountInv'
  BY <1>5, <1>m DEF RefuseFull, counters, Stages, Begun, Waiting
<1>6. ASSUME NEW r \in Runs, Put(r) PROVE CountInv'
  BY <1>6, <1>m DEF Put, counters, Stages, Begun, Waiting
<1>7. ASSUME NEW w \in Workers, Take(w) PROVE CountInv'
  <2>1. Head(q) \in Runs
    BY <1>7 DEF Take, TypeInv, TypeOK
  <2>3. stage[Head(q)] = "inq"
    <3>1. q \in Seq(Runs \cup {Sentinel}) /\ q # <<>>
      BY <1>7 DEF Take, TypeInv, TypeOK
    <3>2. Head(q) = q[1] /\ 1 \in DOMAIN q
      BY <3>1
    <3> QED
      BY <2>1, <3>2 DEF OneHolder
  <2>2. /\ UNCHANGED <<reserved, queued, running>>
        /\ Move(Head(q), "failing") \/ Move(Head(q), "starting")
    BY <1>7, <2>1 DEF Take, counters
  <2> QED
    BY <2>1, <2>2, <2>3, <1>m DEF Stages, Begun, Waiting
<1>8. ASSUME NEW w \in Workers, TakeSentinel(w) PROVE CountInv'
  BY <1>8, <1>u DEF TakeSentinel, counters
<1>10. ASSUME NEW w \in Workers, NEW r \in Runs, FailStopped(w, r) PROVE CountInv'
  <2>1. /\ stage[r] = "failing" /\ UNCHANGED <<reserved, queued, running>>
        /\ Move(r, "rejected") \/ Move(r, "lost")
    BY <1>10 DEF FailStopped, Holds, FailRecord
  <2> QED
    BY <2>1, <1>m DEF Stages, Begun, Waiting
<1>11. ASSUME NEW w \in Workers, NEW r \in Runs, LeaveQueue(w, r) PROVE CountInv'
  <2>1. /\ stage[r] = "rejected" /\ ~reserved[r] /\ reserved' = reserved
        /\ queued' = (IF queued > 0 THEN queued - 1 ELSE 0) /\ running' = running
        /\ Move(r, "over")
    BY <1>11, <1>t DEF LeaveQueue, Holds, ReservedFlag
  <2>2. stage'[r] = "over" /\ \A x \in Runs : x # r => stage'[x] = stage[x] /\ reserved'[x] = reserved[x]
    BY <2>1, <1>t DEF Move
  <2>3. /\ r \notin RunningHolders /\ r \notin RunningHolders'
        /\ r \in QueuedHolders /\ r \notin QueuedHolders'
        /\ r \notin Reserved /\ r \notin Reserved'
    BY <2>1, <2>2 DEF RunningHolders, QueuedHolders, Reserved, Begun, Waiting
  <2>4. /\ Cardinality(RunningHolders') = Cardinality(RunningHolders)
        /\ Cardinality(QueuedHolders) = Cardinality(QueuedHolders') + 1
        /\ Cardinality(Reserved') = Cardinality(Reserved)
        /\ Cardinality(QueuedHolders') \in Nat
    BY <2>2, <2>3, HoldersMove, HoldersFinite, OneMoved
  <2> QED
    BY <2>1, <2>4, <1>t, <1>c DEF CountInv, CountersExact
<1>12. ASSUME NEW w \in Workers, NEW r \in Runs, Begin(w, r) PROVE CountInv'
  <2>1. /\ stage[r] = "starting" /\ reserved' = reserved
        /\ Move(r, "executing") \/ Move(r, "dropped")
    BY <1>12 DEF Begin, Holds
  <2>2. stage'[r] \in Begun /\ \A x \in Runs : x # r => stage'[x] = stage[x] /\ reserved'[x] = reserved[x]
    BY <2>1, <1>t DEF Move, Begun
  <2>3. CASE reserved[r]
    <3>1. /\ r \in RunningHolders /\ r \in RunningHolders'
          /\ r \notin QueuedHolders /\ r \notin QueuedHolders'
          /\ r \in Reserved /\ r \notin Reserved'
      BY <2>1, <2>2, <2>3 DEF RunningHolders, QueuedHolders, Reserved, Begun, Waiting
    <3>2. /\ Cardinality(RunningHolders') = Cardinality(RunningHolders)
          /\ Cardinality(QueuedHolders') = Cardinality(QueuedHolders)
          /\ Cardinality(Reserved) = Cardinality(Reserved') + 1
          /\ Cardinality(Reserved') \in Nat
      BY <2>2, <3>1, HoldersMove, HoldersFinite, OneMoved
    <3>3. UNCHANGED <<queued, running>>
      BY <1>12, <2>3 DEF Begin, CountBegun
    <3> QED
      BY <3>2, <3>3, <1>t, <1>c DEF CountInv, CountersExact
  <2>4. CASE ~reserved[r]
    <3>1. /\ r \notin RunningHolders /\ r \in RunningHolders'
          /\ r \in QueuedHolders /\ r \notin QueuedHolders'
          /\ r \notin Reserved /\ r \notin Reserved'
      BY <2>1, <2>2, <2>4 DEF RunningHolders, QueuedHolders, Reserved, Begun, Waiting
    <3>2. /\ Cardinality(RunningHolders') = Cardinality(RunningHolders) + 1
          /\ Cardinality(QueuedHolders) = Cardinality(QueuedHolders') + 1
          /\ Cardinality(Reserved') = Cardinality(Reserved)
          /\ Cardinality(QueuedHolders') \in Nat /\ Cardinality(RunningHolders) \in Nat
      BY <2>2, <3>1, HoldersMove, HoldersFinite, OneMoved
    <3>3. queued' = (IF queued > 0 THEN queued - 1 ELSE 0) /\ running' = running + 1
      BY <1>12, <2>4 DEF Begin, CountBegun
    <3> QED
      BY <3>2, <3>3, <1>t, <1>c DEF CountInv, CountersExact
  <2> QED
    BY <2>3, <2>4
<1>13. ASSUME NEW w \in Workers, NEW r \in Runs, Execute(w, r) PROVE CountInv'
  <2>1. /\ stage[r] = "executing" /\ UNCHANGED <<reserved, queued, running>>
        /\ Move(r, "stored") \/ Move(r, "raising")
    BY <1>13 DEF Execute, Holds, counters
  <2> QED
    BY <2>1, <1>m DEF Stages, Begun, Waiting
<1>14. ASSUME NEW w \in Workers, NEW r \in Runs, Finish(w, r) PROVE CountInv'
  <2>1. /\ stage[r] = "stored" /\ UNCHANGED <<reserved, queued, running>> /\ Move(r, "finished")
    BY <1>14 DEF Finish, Holds
  <2> QED
    BY <2>1, <1>m DEF Stages, Begun, Waiting
<1>15. ASSUME NEW w \in Workers, NEW r \in Runs, Fail(w, r) PROVE CountInv'
  <2>1. /\ stage[r] = "raising" /\ UNCHANGED <<reserved, queued, running>>
        /\ Move(r, "finished") \/ Move(r, "unsaved")
    BY <1>15 DEF Fail, Holds, FailRecord
  <2> QED
    BY <2>1, <1>m DEF Stages, Begun, Waiting
<1>16. ASSUME NEW w \in Workers, NEW r \in Runs, Release(w, r) PROVE CountInv'
  <2>1. /\ stage[r] \in {"finished", "unsaved"} /\ reserved' = reserved
        /\ running' = (IF running > 0 THEN running - 1 ELSE 0) /\ queued' = queued
        /\ Move(r, "over")
    BY <1>16 DEF Release, Holds
  <2>2. stage'[r] = "over" /\ \A x \in Runs : x # r => stage'[x] = stage[x] /\ reserved'[x] = reserved[x]
    BY <2>1, <1>t DEF Move
  <2>3. /\ r \in RunningHolders /\ r \notin RunningHolders'
        /\ r \notin QueuedHolders /\ r \notin QueuedHolders'
        /\ r \notin Reserved /\ r \notin Reserved'
    BY <2>1, <2>2 DEF RunningHolders, QueuedHolders, Reserved, Begun, Waiting
  <2>4. /\ Cardinality(RunningHolders) = Cardinality(RunningHolders') + 1
        /\ Cardinality(QueuedHolders') = Cardinality(QueuedHolders)
        /\ Cardinality(Reserved') = Cardinality(Reserved)
        /\ Cardinality(RunningHolders') \in Nat
    BY <2>2, <2>3, HoldersMove, HoldersFinite, OneMoved
  <2> QED
    BY <2>1, <2>4, <1>t, <1>c DEF CountInv, CountersExact
<1>17. CASE MarkStop
  BY <1>17, <1>u DEF MarkStop, counters
<1>18. CASE Shutdown
  BY <1>18, <1>u DEF Shutdown, counters
<1>19. CASE Exit \/ Restart
  <2>1. RunningHolders' = {} /\ QueuedHolders' = {} /\ Reserved' = {}
    BY <1>19 DEF Exit, Restart, EndProcess, RunningHolders, QueuedHolders, Reserved, Begun, Waiting
  <2>2. running' = 0 /\ queued' = 0
    BY <1>19 DEF Exit, Restart, EndProcess
  <2> QED
    BY <2>1, <2>2, <1>c, FS_EmptySet DEF CountInv, CountersExact
<1> QED
  BY <1>1, <1>2, <1>3, <1>4, <1>5, <1>6, <1>7, <1>8, <1>10, <1>11, <1>12, <1>13,
     <1>14, <1>15, <1>16, <1>17, <1>18, <1>19
  DEF Next, HttpStep, WorkerStep, RunStep

\* The counters count exactly the runs that hold a slot, for every number of
\* threads, faults and restarts.
THEOREM CountersAreExact == Spec => []CountersExact
<1>1. CountInv => CountersExact
  BY DEF CountInv
<1> QED
  BY <1>1, TypeInit, TypeStep, HolderInit, HolderStep, CountInit, CountStep, PTL DEF Spec

(***************************************************************************)
(* The capacity.  What counts as running is reserved for a run that has    *)
(* not begun (at most `concurrency'), or held by a worker, or was left by  *)
(* a worker that a failed write killed.                                    *)
(***************************************************************************)
Dropped == {r \in Runs : stage[r] = "dropped"}
Active == {r \in Runs : stage[r] \in Begun \ {"dropped"}}
DroppedInv == Cardinality(Dropped) <= faults

LEMMA DroppedInit == Init => DroppedInv
<1> SUFFICES ASSUME Init PROVE DroppedInv
  OBVIOUS
<1>1. Dropped = {} /\ faults = 0
  BY DEF Init, Dropped
<1> QED
  BY <1>1, FS_EmptySet DEF DroppedInv

LEMMA DroppedStep == TypeInv /\ DroppedInv /\ [Next]_vars => DroppedInv'
<1> SUFFICES ASSUME TypeInv, DroppedInv, [Next]_vars PROVE DroppedInv'
  OBVIOUS
<1>t. stage \in [Runs -> Stages] /\ faults \in Nat
  BY DEF TypeInv, TypeOK
<1>n. IsFiniteSet(Dropped) /\ Cardinality(Dropped) \in Nat
  <2>1. Dropped \in SUBSET Runs
    BY DEF Dropped
  <2> QED
    BY <2>1, FS_Subset, FS_CardinalityType, RunsAssumption
<1>k. ASSUME Dropped' \subseteq Dropped, faults' \in Nat, faults' >= faults PROVE DroppedInv'
  <2>1. Cardinality(Dropped') \in Nat /\ Cardinality(Dropped') <= Cardinality(Dropped)
    <3>1. Dropped' \in SUBSET Dropped
      BY <1>k
    <3> QED
      BY <3>1, <1>n, FS_Subset, FS_CardinalityType
  <2> QED
    BY <1>k, <1>n, <1>t, <2>1 DEF DroppedInv
<1>m. ASSUME NEW r \in Runs, NEW s \in Stages \ {"dropped"}, Move(r, s),
             faults' \in Nat, faults' >= faults
      PROVE DroppedInv'
  <2>1. Dropped' \subseteq Dropped
    BY <1>m, <1>t DEF Dropped, Move
  <2> QED
    BY <2>1, <1>m, <1>k
<1>u. ASSUME UNCHANGED <<stage, faults>> PROVE DroppedInv'
  BY <1>u DEF DroppedInv, Dropped
<1>p. \A r \in Runs : PersistRaises(r) => faults' \in Nat /\ faults' = faults + 1
  BY <1>t DEF PersistRaises
<1>1. CASE UNCHANGED vars
  BY <1>1, <1>u DEF vars
<1>2. ASSUME NEW r \in Runs, HttpStep(r) PROVE DroppedInv'
  <2>1. CASE CheckStop(r) \/ RefuseFull(r) \/ Put(r)
    BY <2>1, <1>m, <1>t DEF CheckStop, RefuseFull, Put, Stages
  <2>2. CASE AdmitRunning(r) \/ AdmitQueued(r)
    <3>1. /\ Move(r, "lost") \/ Move(r, "admitted")
          /\ faults' = faults \/ PersistRaises(r)
      BY <2>2 DEF AdmitRunning, AdmitQueued, Record, Persist
    <3>2. faults' \in Nat /\ faults' >= faults
      BY <3>1, <1>p, <1>t
    <3> QED
      BY <3>1, <3>2, <1>m DEF Stages
  <2> QED
    BY <1>2, <2>1, <2>2 DEF HttpStep
<1>3. ASSUME NEW w \in Workers, NEW r \in Runs, Begin(w, r) PROVE DroppedInv'
  <2>1. CASE Persist(r, "running") /\ Move(r, "executing")
    BY <2>1, <1>m, <1>t DEF Persist, Stages
  <2>2. CASE PersistRaises(r) /\ Move(r, "dropped")
    <3>1. Dropped' \in SUBSET (Dropped \cup {r})
      BY <2>2, <1>t DEF Dropped, Move
    <3>2. /\ IsFiniteSet(Dropped \cup {r})
          /\ Cardinality(Dropped \cup {r}) \in Nat /\ Cardinality(Dropped \cup {r}) <= Cardinality(Dropped) + 1
      <4>1. /\ IsFiniteSet(Dropped \cup {r})
            /\ Cardinality(Dropped \cup {r}) =
                 IF r \in Dropped THEN Cardinality(Dropped) ELSE Cardinality(Dropped) + 1
        BY <1>n, FS_AddElement
      <4> QED
        BY <4>1, <1>n
    <3>3. Cardinality(Dropped') <= Cardinality(Dropped \cup {r}) /\ Cardinality(Dropped') \in Nat
      BY <3>1, <3>2, FS_Subset, FS_CardinalityType
    <3> QED
      BY <3>2, <3>3, <2>2, <1>p, <1>n, <1>t DEF DroppedInv
  <2> QED
    BY <1>3, <2>1, <2>2 DEF Begin
<1>4. ASSUME NEW w \in Workers, NEW r \in Runs, RunStep(w, r), ~Begin(w, r) PROVE DroppedInv'
  <2>1. CASE FailStopped(w, r) \/ Fail(w, r)
    <3>1. /\ \E s \in {"rejected", "lost", "finished", "unsaved"} : Move(r, s)
          /\ faults' = faults \/ PersistRaises(r)
      BY <2>1 DEF FailStopped, Fail, FailRecord
    <3>2. faults' \in Nat /\ faults' >= faults
      BY <3>1, <1>p, <1>t
    <3> QED
      BY <3>1, <3>2, <1>m DEF Stages
  <2>2. CASE Execute(w, r)
    <3>1. /\ \E s \in {"stored", "raising"} : Move(r, s)
          /\ faults' = faults \/ faults' = faults + 1
      BY <2>2 DEF Execute, Persist, PersistRaises
    <3> QED
      BY <3>1, <1>t, <1>m DEF Stages
  <2>3. CASE LeaveQueue(w, r) \/ Finish(w, r) \/ Release(w, r)
    <3>1. (\E s \in {"over", "finished"} : Move(r, s)) /\ faults' = faults
      BY <2>3 DEF LeaveQueue, Finish, Release
    <3> QED
      BY <3>1, <1>t, <1>m DEF Stages
  <2> QED
    BY <1>4, <2>1, <2>2, <2>3 DEF RunStep
<1>5. ASSUME NEW w \in Workers, Take(w) \/ TakeSentinel(w) PROVE DroppedInv'
  <2>1. CASE TakeSentinel(w)
    BY <2>1, <1>u DEF TakeSentinel
  <2>2. CASE Take(w)
    <3>1. Head(q) \in Runs
      BY <2>2 DEF Take, TypeInv, TypeOK
    <3>2. (\E s \in {"failing", "starting"} : Move(Head(q), s)) /\ faults' = faults
      BY <2>2 DEF Take
    <3> QED
      BY <3>1, <3>2, <1>t, <1>m DEF Stages
  <2> QED
    BY <1>5, <2>1, <2>2
<1>6. CASE MarkStop \/ Shutdown
  BY <1>6, <1>u DEF MarkStop, Shutdown
<1>7. CASE Exit \/ Restart
  <2>1. Dropped' \subseteq Dropped /\ faults' = faults
    BY <1>7 DEF Exit, Restart, EndProcess, Dropped
  <2> QED
    BY <2>1, <1>k, <1>t
<1> QED
  BY <1>1, <1>2, <1>3, <1>4, <1>5, <1>6, <1>7 DEF Next, WorkerStep

\* A worker holds one run, so no more runs are active than there are workers.
LEMMA ActiveBound == OneHolder => IsFiniteSet(Active) /\ Cardinality(Active) <= Concurrency
<1> SUFFICES ASSUME OneHolder PROVE IsFiniteSet(Active) /\ Cardinality(Active) <= Concurrency
  OBVIOUS
<1> DEFINE f == [r \in Active |-> CHOOSE w \in Workers : worker[w] = r]
<1>1. \A r \in Active : \E w \in Workers : worker[w] = r
  BY DEF Active, OneHolder, Begun, InWorker
<1>2. \A r \in Active : f[r] \in Workers /\ worker[f[r]] = r
  BY <1>1
<1>3. f \in Injection(Active, Workers)
  BY <1>2 DEF Injection, IsInjective
<1> HIDE DEF f
<1> QED
  BY <1>3, FS_Injection, WorkersAssumption DEF Concurrency

LEMMA CapacityStep == TypeInv /\ OneHolder /\ CountInv /\ DroppedInv => CapacityBound
<1> SUFFICES ASSUME TypeInv, OneHolder, CountInv, DroppedInv PROVE CapacityBound
  OBVIOUS
<1>1. IsFiniteSet(Active) /\ IsFiniteSet(Dropped) /\ IsFiniteSet(Reserved)
  <2>1. Active \in SUBSET Runs /\ Dropped \in SUBSET Runs /\ Reserved \in SUBSET Runs
    BY DEF Active, Dropped, Reserved
  <2> QED
    BY <2>1, FS_Subset, RunsAssumption
<1>2. RunningHolders = (Active \cup Dropped) \cup Reserved
  BY DEF RunningHolders, Active, Dropped, Reserved, Begun
<1>3. /\ IsFiniteSet(Active \cup Dropped)
      /\ Cardinality(Active \cup Dropped) =
           Cardinality(Active) + Cardinality(Dropped) - Cardinality(Active \cap Dropped)
  BY <1>1, FS_Union
<1>4. Cardinality(RunningHolders) =
        Cardinality(Active \cup Dropped) + Cardinality(Reserved)
          - Cardinality((Active \cup Dropped) \cap Reserved)
  BY <1>1, <1>2, <1>3, FS_Union
<1>5. /\ IsFiniteSet(Active \cap Dropped) /\ IsFiniteSet((Active \cup Dropped) \cap Reserved)
  <2>1. Active \cap Dropped \in SUBSET Active
    OBVIOUS
  <2>2. (Active \cup Dropped) \cap Reserved \in SUBSET Reserved
    OBVIOUS
  <2> QED
    BY <1>1, <2>1, <2>2, FS_Subset
<1>6. /\ Cardinality(Active) \in Nat /\ Cardinality(Dropped) \in Nat /\ Cardinality(Reserved) \in Nat
      /\ Cardinality(Active \cap Dropped) \in Nat
      /\ Cardinality((Active \cup Dropped) \cap Reserved) \in Nat
  BY <1>1, <1>5, FS_CardinalityType
<1>7. Cardinality(Active) <= Concurrency
  BY ActiveBound
<1>8. Concurrency \in Nat /\ faults \in Nat
  BY ConcurrencyType DEF TypeInv, TypeOK
<1> QED
  BY <1>3, <1>4, <1>6, <1>7, <1>8 DEF CapacityBound, CountInv, CountersExact, DroppedInv

\* The capacity the code gives: max_queue waiting, and the counter `running' up
\* to twice `concurrency', because a slot reserved for a run behind others is
\* counted beside the runs the workers begin before it.
THEOREM CapacityIsBounded == Spec => []CapacityBound
  BY CapacityStep, TypeInit, TypeStep, HolderInit, HolderStep, CountInit, CountStep,
     DroppedInit, DroppedStep, PTL DEF Spec
(***************************************************************************)
(* The end of the pool: who holds a run is alive, and a run whose file     *)
(* could not be written is there only after a fault.                       *)
(***************************************************************************)
UnsavedByFault == faults = 0 => \A r \in Runs : stage[r] # "unsaved"
LiveInv == HoldersLive /\ UnsavedByFault

LEMMA LiveInit == Init => LiveInv
  BY DEF Init, LiveInv, HoldersLive, UnsavedByFault

LEMMA LiveStep == TypeInv /\ LiveInv /\ [Next]_vars => LiveInv'
<1> SUFFICES ASSUME TypeInv, LiveInv, [Next]_vars PROVE LiveInv'
  OBVIOUS
<1> USE DEF LiveInv, HoldersLive, UnsavedByFault
<1>t. /\ stage \in [Runs -> Stages] /\ faults \in Nat
      /\ worker \in [Workers -> Runs \cup {NoRun}]
      /\ thread \in [Workers -> {"up", "exited", "died"}]
  BY DEF TypeInv, TypeOK
<1>1. CASE UNCHANGED vars
  BY <1>1 DEF vars
<1>2. ASSUME NEW r \in Runs, HttpStep(r) PROVE LiveInv'
  <2>1. UNCHANGED <<worker, thread>> /\ (faults' = 0 => faults = 0)
    BY <1>2, <1>t DEF HttpStep, CheckStop, AdmitRunning, AdmitQueued, RefuseFull, Put, Record,
                      Persist, PersistRaises
  <2>2. \E s \in Stages \ {"unsaved"} : stage' = [stage EXCEPT ![r] = s]
    BY <1>2 DEF HttpStep, CheckStop, AdmitRunning, AdmitQueued, RefuseFull, Put, Record, Move, Stages
  <2> QED
    BY <2>1, <2>2, <1>t
<1>3. ASSUME NEW w \in Workers, Take(w) PROVE LiveInv'
  <2>1. /\ thread[w] = "up" /\ UNCHANGED <<thread, faults>>
        /\ \A v \in Workers \ {w} : worker'[v] = worker[v]
    BY <1>3, <1>t DEF Take
  <2>2. \A r \in Runs : stage'[r] = stage[r] \/ stage'[r] \in {"failing", "starting"}
    BY <1>3, <1>t DEF Take, Move
  <2> QED
    BY <2>1, <2>2
<1>4. ASSUME NEW w \in Workers, TakeSentinel(w) PROVE LiveInv'
  <2>1. /\ worker[w] = NoRun /\ UNCHANGED <<worker, stage, faults>>
        /\ thread' = [thread EXCEPT ![w] = "exited"]
    BY <1>4 DEF TakeSentinel
  <2> QED
    BY <2>1, <1>t
<1>5. ASSUME NEW w \in Workers, NEW r \in Runs, worker[w] = r, faults' = 0 => faults = 0,
             \/ UNCHANGED <<worker, thread>>
             \/ Free(w) /\ thread' = thread
             \/ Free(w) /\ Die(w) /\ faults' # 0
      PROVE  HoldersLive'
  <2>1. CASE UNCHANGED <<worker, thread>>
    BY <1>5, <2>1
  <2>2. CASE Free(w) /\ thread' = thread
    BY <1>5, <2>2, <1>t DEF Free
  <2>3. CASE Free(w) /\ Die(w) /\ faults' # 0
    BY <2>3, <1>t DEF Free, Die
  <2> QED
    BY <1>5, <2>1, <2>2, <2>3
<1>6. ASSUME NEW w \in Workers, NEW r \in Runs, RunStep(w, r) PROVE LiveInv'
  <2>1. worker[w] = r /\ (faults' = 0 => faults = 0)
    BY <1>6, <1>t DEF RunStep, FailStopped, LeaveQueue, Begin, Execute, Finish, Fail, Release,
                      Holds, FailRecord, Persist, PersistRaises
  <2>2. \/ UNCHANGED <<worker, thread>>
        \/ Free(w) /\ thread' = thread
        \/ Free(w) /\ Die(w) /\ faults' # 0
    <3>1. CASE FailStopped(w, r)
      <4>1. CASE stage'[r] = "lost"
        BY <3>1, <4>1, <1>t DEF FailStopped, FailRecord, Move, PersistRaises, Stages
      <4> QED
        BY <3>1, <4>1 DEF FailStopped
    <3>2. CASE LeaveQueue(w, r)
      BY <3>2 DEF LeaveQueue
    <3>3. CASE Begin(w, r)
      BY <3>3, <1>t DEF Begin, PersistRaises
    <3>4. CASE Execute(w, r) \/ Finish(w, r) \/ Fail(w, r)
      BY <3>4 DEF Execute, Finish, Fail
    <3>5. CASE Release(w, r)
      <4>1. CASE stage[r] = "unsaved"
        BY <3>5, <4>1 DEF Release
      <4> QED
        BY <3>5, <4>1 DEF Release
    <3> QED
      BY <1>6, <3>1, <3>2, <3>3, <3>4, <3>5 DEF RunStep
  <2>3. HoldersLive'
    BY <1>5, <2>1, <2>2
  <2>4. UnsavedByFault'
    <3>1. CASE Fail(w, r)
      <4>1. \/ Move(r, "finished")
            \/ Move(r, "unsaved") /\ PersistRaises(r)
        BY <3>1 DEF Fail, FailRecord
      <4> QED
        BY <2>1, <4>1, <1>t DEF Move, PersistRaises
    <3>2. CASE ~Fail(w, r)
      <4>1. \E s \in Stages \ {"unsaved"} : stage' = [stage EXCEPT ![r] = s]
        BY <1>6, <3>2 DEF RunStep, FailStopped, FailRecord, LeaveQueue, Begin, Execute, Finish,
                          Release, Move, Stages
      <4> QED
        BY <2>1, <4>1, <1>t
    <3> QED
      BY <3>1, <3>2
  <2> QED
    BY <2>3, <2>4
<1>7. CASE MarkStop \/ Shutdown
  BY <1>7 DEF MarkStop, Shutdown
<1>8. CASE Exit \/ Restart
  <2>1. /\ \A w \in Workers : worker'[w] = NoRun /\ thread'[w] = "up"
        /\ \A r \in Runs : stage'[r] # "unsaved"
    BY <1>8, <1>t DEF Exit, Restart, EndProcess
  <2> QED
    BY <2>1
<1> QED
  BY <1>1, <1>2, <1>3, <1>4, <1>6, <1>7, <1>8 DEF Next, WorkerStep

\* No run is ever with a worker whose thread has ended - by the sentinel or by a
\* write that failed - for any number of workers, runs, faults and restarts.
THEOREM HoldersAreLive == Spec => []HoldersLive
<1>1. LiveInv => HoldersLive
  BY DEF LiveInv
<1> QED
  BY <1>1, TypeInit, TypeStep, LiveInit, LiveStep, PTL DEF Spec

(***************************************************************************)
(* The history: the finished runs by rank.                                 *)
(***************************************************************************)
Memories == [Runs -> [status : Statuses, seq : Nat]]
Distinct(m) == \A r, s \in Finished(m) : m[r].seq = m[s].seq => r = s
Below(m, r) == {s \in Finished(m) : m[s].seq <= m[r].seq}

LEMMA FinishedFinite ==
  ASSUME NEW m
  PROVE  /\ IsFiniteSet(Finished(m)) /\ Cardinality(Finished(m)) \in Nat
         /\ \A T \in SUBSET Finished(m) :
              IsFiniteSet(T) /\ Cardinality(T) \in Nat /\ Cardinality(T) <= Cardinality(Finished(m))
<1>1. Finished(m) \in SUBSET Runs
  BY DEF Finished
<1>2. IsFiniteSet(Finished(m))
  BY <1>1, FS_Subset, RunsAssumption
<1> QED
  BY <1>2, FS_Subset, FS_CardinalityType

\* Ranks go up with the numbers, so they are those from 1 on, and each run has
\* its own.
LEMMA Ranks ==
  ASSUME NEW m \in Memories, Distinct(m)
  PROVE  /\ \A r \in Finished(m) : Rank(m, r) \in 1 .. Cardinality(Finished(m))
         /\ \A r, s \in Finished(m) : m[r].seq < m[s].seq => Rank(m, r) < Rank(m, s)
         /\ \A r, s \in Finished(m) : Rank(m, r) = Rank(m, s) => r = s
         /\ \A i \in 1 .. Cardinality(Finished(m)) : \E r \in Finished(m) : Rank(m, r) = i
<1> DEFINE F == Finished(m)
           n == Cardinality(F)
<1>0. IsFiniteSet(F) /\ n \in Nat
  BY FinishedFinite
<1>t. \A r \in F : m[r].seq \in Nat
  BY DEF Finished, Memories
<1>b. \A r \in F : /\ Below(m, r) \in SUBSET F /\ r \in Below(m, r) /\ Rank(m, r) = Cardinality(Below(m, r))
                   /\ IsFiniteSet(Below(m, r)) /\ Rank(m, r) \in Nat /\ Rank(m, r) <= n
  <2> SUFFICES ASSUME NEW r \in F
               PROVE  /\ Below(m, r) \in SUBSET F /\ r \in Below(m, r) /\ Rank(m, r) = Cardinality(Below(m, r))
                      /\ IsFiniteSet(Below(m, r)) /\ Rank(m, r) \in Nat /\ Rank(m, r) <= n
    OBVIOUS
  <2>1. Below(m, r) \in SUBSET F /\ r \in Below(m, r) /\ Rank(m, r) = Cardinality(Below(m, r))
    BY <1>t DEF Below, Rank
  <2> QED
    BY <2>1, FinishedFinite
<1>1. \A r \in F : Rank(m, r) \in 1 .. n
  <2> SUFFICES ASSUME NEW r \in F PROVE Rank(m, r) \in 1 .. n
    OBVIOUS
  <2>1. Rank(m, r) # 0
    BY <1>b, FS_EmptySet
  <2> HIDE DEF n, F
  <2> QED
    BY <1>0, <1>b, <2>1
<1>2. \A r, s \in F : m[r].seq < m[s].seq => Rank(m, r) < Rank(m, s)
  <2> SUFFICES ASSUME NEW r \in F, NEW s \in F, m[r].seq < m[s].seq PROVE Rank(m, r) < Rank(m, s)
    OBVIOUS
  <2>1. Below(m, r) \in SUBSET Below(m, s) /\ s \notin Below(m, r)
    BY <1>t DEF Below
  <2>2. Cardinality(Below(m, r)) <= Cardinality(Below(m, s)) /\ Cardinality(Below(m, r)) # Cardinality(Below(m, s))
    BY <1>b, <2>1, FS_Subset
  <2> HIDE DEF n, F
  <2> QED
    BY <1>b, <2>2
<1>3. \A r, s \in F : Rank(m, r) = Rank(m, s) => r = s
  <2> SUFFICES ASSUME NEW r \in F, NEW s \in F, Rank(m, r) = Rank(m, s) PROVE r = s
    OBVIOUS
  <2>1. m[r].seq = m[s].seq
    <3> HIDE DEF n, F
    <3> QED
      BY <1>t, <1>2, <1>b
  <2> QED
    BY <2>1 DEF Distinct
<1>4. \A i \in 1 .. n : \E r \in F : Rank(m, r) = i
  <2> DEFINE f == [r \in F |-> Rank(m, r)]
  <2>1. f \in [F -> 1 .. n]
    BY <1>1
  <2>2. f \in Injection(F, 1 .. n)
    BY <2>1, <1>3 DEF Injection, IsInjective
  <2>3. IsFiniteSet(1 .. n) /\ Cardinality(1 .. n) = n
    <3> HIDE DEF n
    <3> QED
      BY <1>0, FS_Interval
  <2>4. f \in Surjection(F, 1 .. n)
    <3> HIDE DEF f, n, F
    <3>1. Cardinality(F) = n
      BY DEF n
    <3> QED
      BY <2>2, <2>3, <3>1, FS_Injection
  <2> QED
    BY <2>4 DEF Surjection
<1> QED
  BY <1>1, <1>2, <1>3, <1>4

\* The history at i is the run of rank i.
LEMMA HistoryAt ==
  ASSUME NEW m \in Memories, Distinct(m)
  PROVE  /\ HistoryOf(m) \in Seq(Runs) /\ Len(HistoryOf(m)) = Cardinality(Finished(m))
         /\ \A r \in Finished(m) : HistoryOf(m)[Rank(m, r)] = r
<1> DEFINE n == Cardinality(Finished(m))
<1>1. /\ n \in Nat
      /\ \A r \in Finished(m) : Rank(m, r) \in 1 .. n
      /\ \A r, s \in Finished(m) : Rank(m, r) = Rank(m, s) => r = s
      /\ \A i \in 1 .. n : \E r \in Finished(m) : Rank(m, r) = i
  BY Ranks, FinishedFinite
<1>2. HistoryOf(m) = [i \in 1 .. n |-> CHOOSE r \in Finished(m) : Rank(m, r) = i]
  BY DEF HistoryOf
<1> HIDE DEF n
<1>3. \A i \in 1 .. n : HistoryOf(m)[i] \in Finished(m) /\ Rank(m, HistoryOf(m)[i]) = i
  BY <1>1, <1>2
<1>4. HistoryOf(m) \in Seq(Runs) /\ Len(HistoryOf(m)) = n
  <2>1. \A i \in 1 .. n : HistoryOf(m)[i] \in Runs
    BY <1>3 DEF Finished
  <2>2. HistoryOf(m) \in [1 .. n -> Runs]
    BY <1>2, <2>1
  <2> QED
    BY <1>1, <2>2
<1> QED
  BY <1>1, <1>3, <1>4 DEF n
\* A history within the cap loses nothing.
LEMMA NoneOverdue ==
  ASSUME NEW m \in Memories, RunsMax = 0 \/ Cardinality(Finished(m)) <= RunsMax, NEW d \in [Runs -> Statuses \cup {"torn"}]
  PROVE  Overdue(m) = {} /\ Trimmed(m) = m /\ ForgetFiles(m, d) = d
<1>1. ASSUME NEW r \in Overdue(m) PROVE FALSE
  <2> DEFINE A == {s \in Finished(m) : m[s].seq >= m[r].seq}
  <2>1. RunsMax > 0 /\ Cardinality(A) > RunsMax
    BY <1>1 DEF Overdue
  <2>2. A \in SUBSET Finished(m)
    OBVIOUS
  <2>3. Cardinality(A) \in Nat /\ Cardinality(A) <= Cardinality(Finished(m)) /\ Cardinality(Finished(m)) \in Nat
    BY <2>2, FinishedFinite
  <2> HIDE DEF A
  <2> QED
    BY <2>1, <2>3, RunsMaxAssumption
<1>2. Overdue(m) = {}
  BY <1>1
<1> QED
  BY <1>2 DEF Trimmed, ForgetFiles, Memories

\* One more than the cap: the run of rank 1 goes, and no other.
LEMMA OldestOverdue ==
  ASSUME NEW m \in Memories, Distinct(m), RunsMax > 0, Cardinality(Finished(m)) = RunsMax + 1
  PROVE  \E o \in Finished(m) : Rank(m, o) = 1 /\ Overdue(m) = {o}
<1> DEFINE F == Finished(m)
           Above(r) == {s \in F : m[s].seq >= m[r].seq}
<1>0. IsFiniteSet(F) /\ RunsMax \in Nat
  BY FinishedFinite, RunsMaxAssumption
<1>t. \A r \in F : m[r].seq \in Nat
  BY DEF Finished, Memories
<1>1. PICK o \in F : Rank(m, o) = 1
  <2>1. 1 \in 1 .. Cardinality(F)
    BY <1>0
  <2> QED
    BY <2>1, Ranks
<1>2. \A s \in F : m[s].seq >= m[o].seq
  <2> SUFFICES ASSUME NEW s \in F, m[s].seq < m[o].seq PROVE FALSE
    BY <1>t
  <2>1. Rank(m, s) < Rank(m, o) /\ Rank(m, s) \in 1 .. Cardinality(F)
    BY Ranks
  <2> QED
    BY <2>1, <1>1
<1>3. Above(o) = F
  BY <1>2
<1>4. \A r \in F : r # o => Cardinality(Above(r)) <= RunsMax
  <2> SUFFICES ASSUME NEW r \in F, r # o PROVE Cardinality(Above(r)) <= RunsMax
    OBVIOUS
  <2>1. m[r].seq # m[o].seq
    BY DEF Distinct
  <2>2. Above(r) \in SUBSET F /\ o \notin Above(r)
    BY <2>1, <1>2, <1>t
  <2>3. Cardinality(Above(r)) <= Cardinality(F) /\ Cardinality(Above(r)) # Cardinality(F) /\ Cardinality(Above(r)) \in Nat
    BY <2>2, <1>0, FS_Subset, FinishedFinite
  <2> HIDE DEF Above, F
  <2> QED
    BY <2>3, <1>0 DEF F
<1>5. \A r \in F : r \in Overdue(m) <=> Cardinality(Above(r)) > RunsMax
  BY DEF Overdue
<1>6. Overdue(m) \subseteq F
  BY DEF Overdue
<1>7. o \in Overdue(m)
  BY <1>0, <1>3, <1>5
<1>8. \A r \in F : r # o => r \notin Overdue(m)
  <2> SUFFICES ASSUME NEW r \in F, r # o PROVE r \notin Overdue(m)
    OBVIOUS
  <2>1. Cardinality(Above(r)) \in Nat /\ Cardinality(Above(r)) <= RunsMax
    <3>1. Above(r) \in SUBSET F
      OBVIOUS
    <3> QED
      BY <3>1, <1>4, FinishedFinite
  <2> HIDE DEF Above, F
  <2> QED
    BY <2>1, <1>0, <1>5
<1> QED
  BY <1>1, <1>6, <1>7, <1>8

\* A run that finishes gets the highest number and is last.
LEMMA Appended ==
  ASSUME NEW m0 \in Memories, NEW m \in Memories, NEW r \in Runs,
         Distinct(m0), r \notin Finished(m0), m[r].status \in Completed,
         \A s \in Runs : s # r => m[s] = m0[s],
         \A s \in Finished(m0) : m0[s].seq < m[r].seq
  PROVE  /\ Finished(m) = Finished(m0) \cup {r} /\ Distinct(m)
         /\ Cardinality(Finished(m)) = Cardinality(Finished(m0)) + 1
         /\ HistoryOf(m) = Append(HistoryOf(m0), r)
<1> DEFINE n == Cardinality(Finished(m0))
           h0 == HistoryOf(m0)
           h == HistoryOf(m)
<1>1. Finished(m) = Finished(m0) \cup {r}
  BY DEF Finished
<1>t. \A s \in Finished(m) : m[s].seq \in Nat
  BY DEF Finished, Memories
<1>2. Distinct(m)
  BY <1>1, <1>t DEF Distinct, Finished
<1>3. Cardinality(Finished(m)) = n + 1 /\ n \in Nat
  BY <1>1, FinishedFinite, FS_AddElement
<1>4. \A s \in Finished(m0) : Rank(m, s) = Rank(m0, s)
  <2> SUFFICES ASSUME NEW s \in Finished(m0) PROVE Rank(m, s) = Rank(m0, s)
    OBVIOUS
  <2>1. {x \in Finished(m) : m[x].seq <= m[s].seq} = {x \in Finished(m0) : m0[x].seq <= m0[s].seq}
    BY <1>1, <1>t DEF Finished
  <2> QED
    BY <2>1 DEF Rank
<1>5. Rank(m, r) = n + 1
  <2>1. {x \in Finished(m) : m[x].seq <= m[r].seq} = Finished(m)
    BY <1>1, <1>t DEF Finished
  <2> QED
    BY <2>1, <1>3 DEF Rank
<1>6. /\ h0 \in Seq(Runs) /\ Len(h0) = n /\ \A s \in Finished(m0) : h0[Rank(m0, s)] = s
      /\ h \in Seq(Runs) /\ Len(h) = n + 1 /\ \A s \in Finished(m) : h[Rank(m, s)] = s
  BY <1>2, <1>3, HistoryAt
<1>7. \A i \in 1 .. n : h[i] = h0[i]
  <2> SUFFICES ASSUME NEW i \in 1 .. n PROVE h[i] = h0[i]
    OBVIOUS
  <2>1. PICK s \in Finished(m0) : Rank(m0, s) = i
    BY Ranks
  <2> HIDE DEF h, h0, n
  <2> QED
    BY <2>1, <1>1, <1>4, <1>6
<1>8. h[n + 1] = r
  BY <1>1, <1>5, <1>6
<1>9. h = Append(h0, r)
  <2> HIDE DEF h, h0, n
  <2> QED
    BY <1>3, <1>6, <1>7, <1>8
<1> QED
  BY <1>1, <1>2, <1>3, <1>9

\* Without the oldest, the history begins one later.
LEMMA CutHistory ==
  ASSUME NEW m \in Memories, Distinct(m), NEW o \in Finished(m), Rank(m, o) = 1, Overdue(m) = {o}
  PROVE  /\ Finished(Trimmed(m)) = Finished(m) \ {o} /\ Distinct(Trimmed(m)) /\ Trimmed(m) \in Memories
         /\ Cardinality(Finished(Trimmed(m))) = Cardinality(Finished(m)) - 1
         /\ HistoryOf(m) # <<>> /\ Head(HistoryOf(m)) = o
         /\ HistoryOf(Trimmed(m)) = Tail(HistoryOf(m))
<1> DEFINE c == Trimmed(m)
           n == Cardinality(Finished(m))
           h0 == HistoryOf(m)
           h == HistoryOf(c)
<1>1. /\ c \in Memories /\ c[o].status = "none" /\ \A s \in Runs : s # o => c[s] = m[s]
  <2>1. Forgotten \in [status : Statuses, seq : Nat]
    BY DEF Forgotten, Statuses
  <2> QED
    BY <2>1 DEF Trimmed, Memories, Forgotten, Finished
<1>2. Finished(c) = Finished(m) \ {o}
  <2>1. "none" \notin Completed
    BY DEF Completed
  <2> HIDE DEF c
  <2> QED
    BY <1>1, <2>1 DEF Finished
<1> HIDE DEF c
<1>t. \A s \in Finished(m) : m[s].seq \in Nat
  BY DEF Finished, Memories
<1>s. \A s \in Finished(c) : s \in Finished(m) /\ s # o /\ c[s] = m[s]
  BY <1>1, <1>2 DEF Finished
<1>3. Distinct(c)
  BY <1>s DEF Distinct
<1>4. Cardinality(Finished(c)) = n - 1 /\ n \in Nat /\ n > 0
  <2>1. Cardinality(Finished(c)) = n - 1
    BY <1>2, FinishedFinite, FS_RemoveElement
  <2>2. n \in Nat /\ n # 0
    BY FinishedFinite, FS_EmptySet
  <2> HIDE DEF n
  <2> QED
    BY <2>1, <2>2
<1>5. \A s \in Finished(c) : Rank(c, s) = Rank(m, s) - 1
  <2> SUFFICES ASSUME NEW s \in Finished(c) PROVE Rank(c, s) = Rank(m, s) - 1
    OBVIOUS
  <2>1. o \in Below(m, s)
    <3>1. m[s].seq < m[o].seq => Rank(m, s) < Rank(m, o)
      BY <1>s, Ranks
    <3>2. Rank(m, s) \in 1 .. n
      BY <1>s, Ranks
    <3>3. ~(m[s].seq < m[o].seq)
      <4> HIDE DEF n
      <4> QED
        BY <3>1, <3>2, <1>4
    <3> QED
      BY <3>3, <1>s, <1>t DEF Below
  <2>2. {x \in Finished(c) : c[x].seq <= c[s].seq} = Below(m, s) \ {o}
    BY <1>1, <1>2, <1>s DEF Below
  <2>3. Below(m, s) \in SUBSET Finished(m)
    BY DEF Below
  <2>4. Cardinality(Below(m, s) \ {o}) = Cardinality(Below(m, s)) - 1
    BY <2>1, <2>3, FinishedFinite, FS_RemoveElement
  <2> QED
    BY <2>2, <2>4 DEF Rank, Below
<1>6. /\ h0 \in Seq(Runs) /\ Len(h0) = n /\ \A s \in Finished(m) : h0[Rank(m, s)] = s
      /\ h \in Seq(Runs) /\ Len(h) = n - 1 /\ \A s \in Finished(c) : h[Rank(c, s)] = s
  BY <1>1, <1>3, <1>4, HistoryAt
<1>7. \A i \in 1 .. (n - 1) : h[i] = h0[i + 1]
  <2> SUFFICES ASSUME NEW i \in 1 .. (n - 1) PROVE h[i] = h0[i + 1]
    OBVIOUS
  <2>1. PICK s \in Finished(c) : Rank(c, s) = i
    BY <1>1, <1>3, <1>4, Ranks
  <2>2. Rank(m, s) \in 1 .. n
    BY <1>s, Ranks
  <2>3. Rank(m, s) = i + 1
    <3> HIDE DEF n
    <3> QED
      BY <2>1, <2>2, <1>5, <1>4
  <2> QED
    BY <2>1, <2>3, <1>s, <1>6
<1>8. h0 # <<>> /\ Head(h0) = o
  <2>1. h0[1] = o
    BY <1>6
  <2> HIDE DEF h0, n
  <2> QED
    BY <2>1, <1>4, <1>6
<1>9. h = Tail(h0)
  <2> HIDE DEF h, h0, n
  <2>1. Tail(h0) \in Seq(Runs) /\ Len(Tail(h0)) = n - 1 /\ \A i \in 1 .. (n - 1) : Tail(h0)[i] = h0[i + 1]
    BY <1>4, <1>6, <1>8
  <2> QED
    BY <1>4, <1>6, <1>7, <2>1
<1> QED
  BY <1>1, <1>2, <1>3, <1>4, <1>8, <1>9 DEF c
(***************************************************************************)
(* The refinement.  While no write fails, memory and file of a run agree   *)
(* with where its thread stands, and the history is within its cap.        *)
(***************************************************************************)
NoFaults == MaxFaults = 0

\* What memory and file say of a run at each stage.
Fits(r) ==
  /\ stage[r] \in {"new", "checked", "refused", "lost"} => memory[r] = Forgotten /\ disk[r] = "none"
  /\ stage[r] \notin {"dropped", "unsaved"}
  /\ stage[r] \in {"admitted", "inq", "starting", "failing"} =>
       memory[r].status \in InFlight /\ disk[r] = memory[r].status
  /\ stage[r] \in {"executing", "raising"} => memory[r].status = "running" /\ disk[r] = "running"
  /\ stage[r] = "stored" => memory[r].status = "running" /\ disk[r] \in {"done", "failed"}
  /\ stage[r] \in {"rejected", "finished", "over"} =>
       \/ memory[r].status \in Completed /\ disk[r] = memory[r].status
       \/ memory[r] = Forgotten /\ disk[r] \in Completed \cup {"none"}
  /\ stage[r] = "orphan" => memory[r] = Forgotten
  /\ stage[r] = "lost" => r \in BadSeed
  /\ r \in BadSeed => stage[r] \in {"new", "checked", "refused", "lost", "orphan"} /\ disk[r] = "none"
Shown == \A r \in Runs : Fits(r)

Capped ==
  /\ Distinct(memory)
  /\ \A r \in Finished(memory) : memory[r].seq <= finishSeq
  /\ RunsMax > 0 => Cardinality(Finished(memory)) <= RunsMax

ServiceInv == NoFaults /\ TypeInv /\ OneHolder /\ Shown /\ Capped

LEMMA NothingRaises == NoFaults /\ TypeInv => \A r \in Runs : ~PersistRaises(r)
  BY DEF NoFaults, TypeInv, TypeOK, PersistRaises

LEMMA ServiceInit == NoFaults /\ Init => ServiceInv /\ Service!Init
<1> SUFFICES ASSUME NoFaults, Init PROVE ServiceInv /\ Service!Init
  OBVIOUS
<1>1. TypeInv /\ OneHolder
  BY TypeInit, HolderInit
<1>2. Finished(memory) = {}
  BY DEF Init, Finished, Forgotten, Completed
<1>3. Cardinality(Finished(memory)) = 0
  BY <1>2, FS_EmptySet
<1>4. Shown /\ Capped
  BY <1>2, <1>3, RunsMaxAssumption DEF Init, Shown, Fits, Capped, Distinct
<1>5. ClientStatus = [r \in Runs |-> "none"]
  BY DEF Init, ClientStatus, View, Forgotten
<1>6. HistoryOf(memory) = <<>>
  BY <1>3 DEF HistoryOf
<1> QED
  BY <1>1, <1>4, <1>5, <1>6 DEF ServiceInv, Service!Init

Ended(r, s) == [memory EXCEPT ![r] = [status |-> s, seq |-> finishSeq + 1]]

\* A run that finishes, with what the cap takes away, is one step of the service.
LEMMA CompleteImplements ==
  ASSUME ServiceInv, NEW r \in Runs, stage[r] \in {"stored", "raising", "failing"},
         NEW s \in Completed, memory[r].status = "queued" => s = "error",
         NEW next \in {"rejected", "finished"}, Move(r, next),
         memory' = Trimmed(Ended(r, s)), disk' = ForgetFiles(Ended(r, s), [disk EXCEPT ![r] = s]),
         finishSeq' = finishSeq + 1
  PROVE  Service!Complete(r) /\ Shown' /\ Capped'
<1> DEFINE m == Ended(r, s)
           d == [disk EXCEPT ![r] = s]
<1>t. /\ memory \in Memories /\ finishSeq \in Nat /\ RunsMax \in Nat
      /\ stage \in [Runs -> Stages] /\ disk \in [Runs -> Statuses \cup {"torn"}]
  BY RunsMaxAssumption DEF ServiceInv, TypeInv, TypeOK, Memories
<1>1. m \in Memories /\ m[r] = [status |-> s, seq |-> finishSeq + 1] /\ \A x \in Runs : x # r => m[x] = memory[x]
  BY <1>t DEF Memories, Statuses, Ended
<1>d. d \in [Runs -> Statuses \cup {"torn"}] /\ d[r] = s /\ \A x \in Runs : x # r => d[x] = disk[x]
  BY <1>t DEF Statuses
<1>n. memory' = Trimmed(m) /\ disk' = ForgetFiles(m, d)
  OBVIOUS
<1> HIDE DEF m, d
<1>2. /\ memory[r].status \in InFlight /\ disk[r] # "none" /\ r \notin BadSeed
      /\ View(r) = memory[r].status
  BY DEF ServiceInv, Shown, Fits, View, InFlight
<1>3. r \notin Finished(memory)
  BY <1>2 DEF Finished, InFlight, Completed
<1>4. Distinct(memory) /\ \A x \in Finished(memory) : memory[x].seq < m[r].seq
  BY <1>1, <1>t DEF ServiceInv, Capped, Memories, Finished
<1> DEFINE h0 == HistoryOf(memory)
           n == Cardinality(Finished(memory))
<1>5. /\ Finished(m) = Finished(memory) \cup {r} /\ Distinct(m)
      /\ Cardinality(Finished(m)) = n + 1 /\ HistoryOf(m) = Append(h0, r)
      /\ n \in Nat /\ h0 \in Seq(Runs) /\ Len(h0) = n
  <2>1. m[r].status \in Completed
    BY <1>1
  <2>2. /\ Finished(m) = Finished(memory) \cup {r} /\ Distinct(m)
        /\ Cardinality(Finished(m)) = n + 1 /\ HistoryOf(m) = Append(h0, r)
    BY <2>1, <1>1, <1>3, <1>4, <1>t, Appended
  <2>3. h0 \in Seq(Runs) /\ Len(h0) = n
    BY <1>4, <1>t, HistoryAt
  <2> QED
    BY <2>2, <2>3, FinishedFinite
<1>6. stage'[r] = next /\ \A x \in Runs : x # r => stage'[x] = stage[x]
  BY <1>t DEF Move
<1>7. RunsMax > 0 => n <= RunsMax
  BY DEF ServiceInv, Capped
<1> HIDE DEF h0, n
<1>8. \A x \in Finished(m) : m[x].seq <= finishSeq + 1
  BY <1>1, <1>5, <1>t DEF ServiceInv, Capped, Memories, Finished
<1>9. ClientStatus[r] = memory[r].status
  BY <1>2 DEF ClientStatus, InFlight
<1>10. CASE RunsMax > 0 /\ n + 1 > RunsMax
  <2>1. n = RunsMax
    BY <1>5, <1>7, <1>10, <1>t
  <2>2. PICK o \in Finished(m) : Rank(m, o) = 1 /\ Overdue(m) = {o}
    BY <2>1, <1>1, <1>5, <1>10, OldestOverdue
  <2>3. /\ Finished(memory') = Finished(m) \ {o} /\ Distinct(memory')
        /\ Cardinality(Finished(memory')) = n
        /\ HistoryOf(m) # <<>> /\ Head(HistoryOf(m)) = o
        /\ HistoryOf(memory') = Tail(HistoryOf(m))
    <3>1. /\ Finished(Trimmed(m)) = Finished(m) \ {o} /\ Distinct(Trimmed(m))
          /\ Cardinality(Finished(Trimmed(m))) = Cardinality(Finished(m)) - 1
          /\ HistoryOf(m) # <<>> /\ Head(HistoryOf(m)) = o
          /\ HistoryOf(Trimmed(m)) = Tail(HistoryOf(m))
      BY <1>1, <1>5, <2>2, CutHistory
    <3>2. Cardinality(Finished(Trimmed(m))) = n
      BY <3>1, <1>5
    <3> QED
      BY <3>1, <3>2, <1>n, Zenon
  <2>4. \A x \in Runs : x # o => memory'[x] = m[x] /\ disk'[x] = d[x]
    BY <1>n, <2>2, <1>t DEF Trimmed, ForgetFiles
  <2>o. \A x \in Runs : x # o /\ x # r => memory'[x] = memory[x] /\ disk'[x] = disk[x] /\ stage'[x] = stage[x]
    BY <2>4, <1>1, <1>d, <1>6
  <2>5. o \in Runs /\ memory'[o] = Forgotten /\ disk'[o] = "none"
    BY <1>n, <2>2 DEF Trimmed, ForgetFiles, Finished
  <2>6. o # r
    <3>1. h0 # <<>>
      BY <1>5, <1>10, <2>1
    <3>2. Head(Append(h0, r)) = h0[1] /\ h0[1] \in Runs
      BY <3>1, <1>5, <1>n
    <3>3. o = h0[1]
      BY <2>3, <3>2, <1>5
    <3>4. r # h0[1]
      <4>1. 1 \in 1 .. n
        BY <1>5, <1>10, <2>1
      <4>2. PICK x \in Finished(memory) : Rank(memory, x) = 1
        BY <1>4, <1>t, <4>1, Ranks DEF n
      <4>3. h0[1] = x
        BY <1>4, <1>t, <4>2, HistoryAt DEF h0
      <4> QED
        BY <4>2, <4>3, <1>3
    <3> QED
      BY <3>3, <3>4
  <2>7. /\ memory[o].status \in Completed /\ stage[o] \in {"rejected", "finished", "over"} /\ o \notin BadSeed
    <3>1. memory[o].status \in Completed
      BY <2>2, <2>6, <1>1 DEF Finished
    <3>2. stage[o] \in {"rejected", "finished", "over"}
      BY <2>5, <3>1, <1>t DEF ServiceInv, Shown, Fits, Forgotten, Completed, InFlight, Stages
    <3> QED
      BY <2>5, <3>1, <3>2 DEF ServiceInv, Shown, Fits
  <2>8. Shown'
    <3>1. ASSUME NEW x \in Runs, x # o, x # r PROVE Fits(x)'
      <4>1. Fits(x)
        BY <3>1 DEF ServiceInv, Shown
      <4> QED
        BY <3>1, <4>1, <2>o DEF Fits
    <3>2. Fits(r)'
      <4>0. memory'[r] = m[r] /\ disk'[r] = d[r]
        BY <2>4, <2>6, Zenon
      <4>1. memory'[r].status = s /\ disk'[r] = s
        BY <4>0, <1>1, <1>d
      <4> QED
        BY <4>1, <1>2, <1>6 DEF Fits
    <3>3. Fits(o)'
      BY <2>5, <2>6, <2>7, <1>6 DEF Fits
    <3> QED
      BY <3>1, <3>2, <3>3 DEF Shown
  <2>9. Capped'
    <3>1. \A x \in Finished(memory') : memory'[x].seq <= finishSeq'
      BY <2>3, <2>4, <1>8 DEF Finished
    <3> QED
      BY <2>1, <2>3, <3>1, <1>5, <1>t DEF Capped
  <2>10. ClientStatus' = [[ClientStatus EXCEPT ![r] = s] EXCEPT ![o] = "gone"]
    <3>1. ClientStatus'[o] = "gone"
      BY <2>5, <2>6, <2>7, <1>6 DEF ClientStatus, View, Forgotten
    <3>2. ClientStatus'[r] = s
      BY <2>4, <2>6, <1>1, <1>d DEF ClientStatus, View, Completed
    <3>3. \A x \in Runs : x # o /\ x # r => ClientStatus'[x] = ClientStatus[x]
      BY <2>o DEF ClientStatus, View
    <3> QED
      BY <2>5, <3>1, <3>2, <3>3 DEF ClientStatus
  <2>11. Len(Append(h0, r)) = n + 1
    BY <1>5
  <2>12. Service!Complete(r)
    <3>1. ClientStatus[r] \in InFlight /\ s \in IF ClientStatus[r] = "queued" THEN {"error"} ELSE {"done", "failed", "error"}
      BY <1>2, <1>9 DEF Completed
    <3>2. /\ RunsMax > 0 /\ Len(Append(h0, r)) > RunsMax
          /\ HistoryOf(memory') = Tail(Append(h0, r)) /\ Head(Append(h0, r)) = o
      BY <1>5, <1>10, <2>3, <2>11
    <3> QED
      BY <3>1, <3>2, <2>10 DEF Service!Complete, Service!InFlight, InFlight, h0
  <2> QED
    BY <2>8, <2>9, <2>12
<1>11. CASE ~(RunsMax > 0 /\ n + 1 > RunsMax)
  <2>1. memory' = m /\ disk' = d
    <3>1. RunsMax = 0 \/ Cardinality(Finished(m)) <= RunsMax
      BY <1>5, <1>11, <1>t
    <3> QED
      BY <3>1, <1>1, <1>d, <1>n, NoneOverdue
  <2>2. Shown'
    <3>1. ASSUME NEW x \in Runs, x # r PROVE Fits(x)'
      BY <3>1, <2>1, <1>1, <1>d, <1>6 DEF ServiceInv, Shown, Fits
    <3>2. Fits(r)'
      BY <2>1, <1>1, <1>d, <1>2, <1>6 DEF Fits
    <3> QED
      BY <3>1, <3>2 DEF Shown
  <2>3. Capped'
    BY <2>1, <1>5, <1>8, <1>11, <1>t DEF Capped
  <2>4. ClientStatus' = [ClientStatus EXCEPT ![r] = s]
    <3>1. ClientStatus'[r] = s
      BY <2>1, <1>1, <1>d DEF ClientStatus, View, Completed
    <3>2. \A x \in Runs : x # r => ClientStatus'[x] = ClientStatus[x]
      BY <2>1, <1>1, <1>d, <1>6 DEF ClientStatus, View
    <3> QED
      BY <3>1, <3>2 DEF ClientStatus
  <2>5. Len(Append(h0, r)) = n + 1
    BY <1>5
  <2>6. Service!Complete(r)
    <3>1. ClientStatus[r] \in InFlight /\ s \in IF ClientStatus[r] = "queued" THEN {"error"} ELSE {"done", "failed", "error"}
      BY <1>2, <1>9 DEF Completed
    <3>2. ~(RunsMax > 0 /\ Len(Append(h0, r)) > RunsMax) /\ HistoryOf(memory') = Append(h0, r)
      BY <1>5, <1>11, <2>1, <2>5
    <3> QED
      BY <3>1, <3>2, <2>4 DEF Service!Complete, Service!InFlight, InFlight, h0
  <2> QED
    BY <2>2, <2>3, <2>6
<1> QED
  BY <1>10, <1>11
\* The history is that of the finished runs: other changes leave it.
LEMMA SameHistory ==
  ASSUME Capped, UNCHANGED finishSeq,
         \A x \in Runs : \/ memory'[x] = memory[x]
                         \/ memory[x].status \notin Completed /\ memory'[x].status \notin Completed
  PROVE  Capped' /\ HistoryOf(memory)' = HistoryOf(memory)
<1>1. Finished(memory') = Finished(memory) /\ \A x \in Finished(memory) : memory'[x] = memory[x]
  BY DEF Finished
<1>2. \A x \in Finished(memory) : Rank(memory', x) = Rank(memory, x)
  <2> SUFFICES ASSUME NEW x \in Finished(memory) PROVE Rank(memory', x) = Rank(memory, x)
    OBVIOUS
  <2>1. {y \in Finished(memory') : memory'[y].seq <= memory'[x].seq} =
          {y \in Finished(memory) : memory[y].seq <= memory[x].seq}
    BY <1>1
  <2> QED
    BY <2>1 DEF Rank
<1>3. HistoryOf(memory') = HistoryOf(memory)
  <2>1. \A i : (CHOOSE x \in Finished(memory') : Rank(memory', x) = i)
                 = (CHOOSE x \in Finished(memory) : Rank(memory, x) = i)
    BY <1>1, <1>2
  <2> QED
    BY <1>1, <2>1 DEF HistoryOf
<1>4. Capped'
  BY <1>1 DEF Capped, Distinct
<1> QED
  BY <1>3, <1>4

\* A step of one run that does not finish it.
LEMMA OneRun ==
  ASSUME ServiceInv, NEW r \in Runs, NEW s \in Stages, Move(r, s), UNCHANGED finishSeq, Fits(r)',
         \A x \in Runs : x # r => memory'[x] = memory[x] /\ disk'[x] = disk[x],
         \/ memory'[r] = memory[r]
         \/ memory[r].status \notin Completed /\ memory'[r].status \notin Completed
  PROVE  /\ Shown' /\ Capped' /\ HistoryOf(memory)' = HistoryOf(memory)
         /\ ClientStatus' = [ClientStatus EXCEPT ![r] = ClientStatus'[r]]
<1>1. stage'[r] = s /\ \A x \in Runs : x # r => stage'[x] = stage[x]
  BY DEF ServiceInv, TypeInv, TypeOK, Move
<1>2. Shown'
  <2>1. ASSUME NEW x \in Runs, x # r PROVE Fits(x)'
    BY <1>1, <2>1 DEF ServiceInv, Shown, Fits
  <2> QED
    BY <2>1 DEF Shown
<1>3. Capped' /\ HistoryOf(memory)' = HistoryOf(memory)
  BY SameHistory DEF ServiceInv
<1>4. \A x \in Runs : x # r => ClientStatus'[x] = ClientStatus[x]
  BY <1>1 DEF ClientStatus, View
<1>5. ClientStatus' = [ClientStatus EXCEPT ![r] = ClientStatus'[r]]
  BY <1>4 DEF ClientStatus
<1> QED
  BY <1>2, <1>3, <1>5

\* A process that ends forgets the history and keeps the files.
LEMMA EndImplements == ServiceInv /\ EndProcess => Shown' /\ Capped' /\ Service!Restart
<1> SUFFICES ASSUME ServiceInv, EndProcess PROVE Shown' /\ Capped' /\ Service!Restart
  OBVIOUS
<1>t. stage \in [Runs -> Stages]
  BY DEF ServiceInv, TypeInv, TypeOK
<1>1. PICK torn \in SUBSET {r \in Runs : stage[r] \in {"executing", "starting", "raising", "failing"}},
           saved \in SUBSET {r \in Runs : stage[r] \in {"raising", "failing"}} :
        disk' = [r \in Runs |-> IF r \in torn THEN "torn" ELSE IF r \in saved THEN "error" ELSE disk[r]]
  BY DEF EndProcess
<1>2. \A r \in Runs : /\ memory'[r] = Forgotten
                      /\ \/ disk'[r] = disk[r] \/ (disk'[r] = "torn" /\ r \in torn)
                         \/ disk'[r] = "error" /\ r \in saved
  BY <1>1 DEF EndProcess
<1>3. \A r \in Runs :
        \/ stage[r] \in {"new", "refused", "over", "orphan"} /\ stage'[r] = stage[r]
        \/ stage[r] = "checked" /\ stage'[r] = "refused"
        \/ stage[r] \notin {"new", "refused", "over", "orphan", "checked"} /\ stage'[r] = "orphan"
  BY DEF EndProcess
<1>4. \A r \in Runs : stage[r] \notin {"executing", "starting", "raising", "failing"} => disk'[r] = disk[r]
  BY <1>1
<1>5. Finished(memory') = {} /\ Cardinality(Finished(memory')) = 0
  BY <1>2, FS_EmptySet DEF Finished, Forgotten, Completed
<1>6. Capped'
  BY <1>5, RunsMaxAssumption DEF Capped, Distinct
<1>7. HistoryOf(memory)' = <<>>
  BY <1>5 DEF HistoryOf
<1>8. Shown'
  <2> SUFFICES ASSUME NEW r \in Runs PROVE Fits(r)'
    BY DEF Shown
  <2>1. Fits(r) /\ memory'[r] = Forgotten
    BY <1>2 DEF ServiceInv, Shown
  <2>2. CASE stage[r] \in {"new", "refused", "over", "orphan"}
    <3>1. stage'[r] = stage[r] /\ disk'[r] = disk[r]
      BY <1>3, <1>4, <2>2
    <3> QED
      BY <2>1, <2>2, <3>1 DEF Fits
  <2>3. CASE stage[r] = "checked"
    <3>1. stage'[r] = "refused" /\ disk'[r] = disk[r]
      BY <1>3, <1>4, <2>3
    <3> QED
      BY <2>1, <2>3, <3>1 DEF Fits
  <2>4. CASE stage[r] \notin {"new", "refused", "over", "orphan", "checked"}
    <3>1. stage'[r] = "orphan"
      BY <1>3, <2>4
    <3>2. r \in BadSeed => disk'[r] = "none"
      BY <1>4, <2>1 DEF Fits
    <3> QED
      BY <2>1, <3>1, <3>2 DEF Fits
  <2> QED
    BY <2>2, <2>3, <2>4
<1>9. ASSUME NEW r \in Runs
      PROVE  ClientStatus'[r] \in {ClientStatus[r]} \cup
               CASE ClientStatus[r] = "running" -> {"done", "failed", "error", "torn"}
                 [] ClientStatus[r] = "queued" -> {"error", "torn"}
                 [] OTHER -> {}
  <2>0. Fits(r) /\ View(r)' = disk'[r]
    BY <1>2, <1>9 DEF ServiceInv, Shown, View, Forgotten
  <2>1. CASE stage[r] \in {"new", "checked", "refused", "lost"}
    <3>1. disk'[r] = "none" /\ View(r) = "none"
      BY <2>0, <2>1, <1>4 DEF Fits, View, Forgotten
    <3>2. stage'[r] \in {"new", "refused"} \/ (stage'[r] = "orphan" /\ r \in BadSeed)
      BY <2>0, <2>1, <1>3 DEF Fits
    <3>3. ClientStatus'[r] = ClientStatus[r]
      BY <2>0, <2>1, <3>1, <3>2 DEF ClientStatus
    <3> QED
      BY <3>3
  <2>2. CASE stage[r] \in {"admitted", "inq", "starting", "failing"}
    <3>1. ClientStatus[r] \in {"queued", "running"} /\ ClientStatus[r] = disk[r]
      BY <2>0, <2>2 DEF Fits, View, InFlight, ClientStatus
    <3>2. ClientStatus'[r] = disk[r] \/ ClientStatus'[r] \in {"error", "torn"}
      BY <2>0, <3>1, <1>2 DEF ClientStatus
    <3> QED
      BY <3>1, <3>2
  <2>3. CASE stage[r] \in {"executing", "raising", "stored"}
    <3>1. ClientStatus[r] = "running" /\ disk[r] \in {"running", "done", "failed"}
      BY <2>0, <2>3 DEF Fits, View, ClientStatus
    <3>2. ClientStatus'[r] = disk[r] \/ ClientStatus'[r] \in {"error", "torn"}
      BY <2>0, <3>1, <1>2 DEF ClientStatus
    <3> QED
      BY <3>1, <3>2
  <2>4. CASE stage[r] \in {"rejected", "finished", "over", "orphan"}
    <3>1. disk'[r] = disk[r] /\ stage'[r] \in {"over", "orphan"}
      BY <2>4, <1>3, <1>4
    <3>2. View(r) = disk[r]
      BY <2>0, <2>4 DEF Fits, View, Forgotten
    <3>3. ClientStatus'[r] = ClientStatus[r]
      BY <2>0, <2>4, <3>1, <3>2 DEF ClientStatus
    <3> QED
      BY <3>3
  <2>5. stage[r] \in {"new", "checked", "refused", "lost", "admitted", "inq", "starting", "failing",
                      "executing", "raising", "stored", "rejected", "finished", "over", "orphan"}
    BY <2>0, <1>t DEF Fits, Stages
  <2> QED
    BY <2>1, <2>2, <2>3, <2>4, <2>5
<1>10. DOMAIN ClientStatus' = Runs
  BY DEF ClientStatus
<1>11. Service!Restart
  BY <1>7, <1>9, <1>10 DEF Service!Restart
<1> QED
  BY <1>6, <1>8, <1>11
ServiceView == <<ClientStatus, HistoryOf(memory)>>

LEMMA ServiceStep == ServiceInv /\ [Next]_vars => ServiceInv' /\ [Service!Next]_ServiceView
<1> SUFFICES ASSUME ServiceInv, [Next]_vars PROVE ServiceInv' /\ [Service!Next]_ServiceView
  OBVIOUS
<1>a. NoFaults' /\ TypeInv' /\ OneHolder'
  BY TypeStep, HolderStep DEF ServiceInv, NoFaults
<1>f. \A r \in Runs : Fits(r) /\ ~PersistRaises(r)
  BY NothingRaises DEF ServiceInv, Shown
<1>t. /\ stage \in [Runs -> Stages] /\ disk \in [Runs -> Statuses \cup {"torn"}]
      /\ memory \in [Runs -> [status : Statuses, seq : Nat]]
  BY DEF ServiceInv, TypeInv, TypeOK
<1> SUFFICES Shown' /\ Capped' /\ [Service!Next]_ServiceView
  BY <1>a DEF ServiceInv
\* Nothing that a client sees is changed.
<1>u. ASSUME UNCHANGED <<memory, disk, stage, finishSeq>> PROVE Shown' /\ Capped' /\ UNCHANGED ServiceView
  <2>1. Capped' /\ HistoryOf(memory)' = HistoryOf(memory)
    BY <1>u, SameHistory DEF ServiceInv
  <2>2. Shown' /\ ClientStatus' = ClientStatus
    BY <1>u DEF ServiceInv, Shown, Fits, ClientStatus, View
  <2> QED
    BY <2>1, <2>2 DEF ServiceView
<1>m. ASSUME NEW r \in Runs, NEW s \in Stages, Move(r, s), UNCHANGED <<memory, disk, finishSeq>>, Fits(r)',
             View(r) = "none" =>
               ({stage[r], s} \cap {"rejected", "finished", "over", "orphan"} = {} \/ r \in BadSeed
                \/ {stage[r], s} \subseteq {"rejected", "finished", "over", "orphan"})
      PROVE  Shown' /\ Capped' /\ UNCHANGED ServiceView
  <2>1. /\ Shown' /\ Capped' /\ HistoryOf(memory)' = HistoryOf(memory)
        /\ ClientStatus' = [ClientStatus EXCEPT ![r] = ClientStatus'[r]]
    BY <1>m, OneRun
  <2>2. ClientStatus'[r] = ClientStatus[r]
    <3>1. View(r)' = View(r) /\ stage'[r] = s
      BY <1>m, <1>t DEF View, Move
    <3> QED
      BY <1>m, <3>1 DEF ClientStatus
  <2>3. ClientStatus' = ClientStatus
    BY <2>1, <2>2 DEF ClientStatus
  <2> QED
    BY <2>1, <2>3 DEF ServiceView
<1>1. CASE UNCHANGED vars
  BY <1>1, <1>u DEF vars, counters
<1>2. ASSUME NEW r \in Runs, CheckStop(r) \/ RefuseFull(r) PROVE Shown' /\ Capped' /\ UNCHANGED ServiceView
  <2>1. PICK s \in {"refused", "checked"} : Move(r, s)
    BY <1>2 DEF CheckStop, RefuseFull
  <2>2. stage[r] \in {"new", "checked"} /\ UNCHANGED <<memory, disk, finishSeq>>
    BY <1>2 DEF CheckStop, RefuseFull, counters
  <2>3. Fits(r)'
    BY <2>1, <2>2, <1>f, <1>t DEF Fits, Move
  <2> QED
    BY <2>1, <2>2, <2>3, <1>m DEF Stages
<1>3. ASSUME NEW r \in Runs, NEW status \in InFlight, stage[r] = "checked", Record(r, status), UNCHANGED finishSeq
      PROVE  Shown' /\ Capped' /\ (Service!Accept(r) \/ UNCHANGED ServiceView)
  <2>1. CASE r \in BadSeed /\ Move(r, "lost") /\ UNCHANGED <<memory, disk, faults>>
    <3>1. Fits(r)'
      BY <2>1, <1>3, <1>f, <1>t DEF Fits, Move
    <3> QED
      BY <2>1, <3>1, <1>3, <1>m DEF Stages
  <2>2. CASE /\ r \notin BadSeed /\ memory' = [memory EXCEPT ![r] = [status |-> status, seq |-> 0]]
             /\ Persist(r, status) /\ Move(r, "admitted")
    <3>1. /\ memory'[r].status = status /\ disk'[r] = status /\ stage'[r] = "admitted"
          /\ \A x \in Runs : x # r => memory'[x] = memory[x] /\ disk'[x] = disk[x]
      BY <2>2, <1>t DEF Persist, Move
    <3>2. Fits(r)'
      BY <2>2, <3>1 DEF Fits
    <3>3. memory[r].status = "none" /\ disk[r] = "none" /\ status \notin Completed /\ status # "none"
      BY <1>3, <1>f DEF Fits, Forgotten, InFlight, Completed
    <3>4. /\ Shown' /\ Capped' /\ HistoryOf(memory)' = HistoryOf(memory)
          /\ ClientStatus' = [ClientStatus EXCEPT ![r] = ClientStatus'[r]]
      <4>1. memory[r].status \notin Completed /\ memory'[r].status \notin Completed
        BY <3>1, <3>3 DEF Completed
      <4> QED
        BY <2>2, <3>1, <3>2, <4>1, <1>3, OneRun DEF Stages
    <3>5. ClientStatus[r] = "none" /\ ClientStatus'[r] = status
      BY <1>3, <3>1, <3>3 DEF ClientStatus, View
    <3>6. Service!Accept(r)
      BY <3>4, <3>5 DEF Service!Accept, Service!InFlight, InFlight
    <3> QED
      BY <3>4, <3>6
  <2> QED
    BY <1>3, <1>f, <2>1, <2>2 DEF Record
<1>4. ASSUME NEW r \in Runs, AdmitRunning(r) \/ AdmitQueued(r)
      PROVE  Shown' /\ Capped' /\ (Service!Accept(r) \/ UNCHANGED ServiceView)
  BY <1>3, <1>4 DEF AdmitRunning, AdmitQueued, InFlight
<1>5. ASSUME NEW r \in Runs, Put(r) PROVE Shown' /\ Capped' /\ UNCHANGED ServiceView
  <2>1. stage[r] = "admitted" /\ Move(r, "inq") /\ UNCHANGED <<memory, disk, finishSeq>>
    BY <1>5 DEF Put, counters
  <2>2. Fits(r)'
    BY <2>1, <1>f, <1>t DEF Fits, Move
  <2> QED
    BY <2>1, <2>2, <1>m DEF Stages
<1>h. ASSUME NEW r \in Runs, stage[r] = "inq", NEW s \in {"failing", "starting"}, Move(r, s),
             UNCHANGED <<memory, disk, finishSeq>>
      PROVE  Shown' /\ Capped' /\ UNCHANGED ServiceView
  <2>1. Fits(r)'
    BY <1>h, <1>f, <1>t DEF Fits, Move
  <2>2. s \in Stages /\ {stage[r], s} \cap {"rejected", "finished", "over", "orphan"} = {}
    BY <1>h DEF Stages
  <2> QED
    BY <1>h, <2>1, <2>2, <1>m
<1>6. ASSUME NEW w \in Workers, Take(w) PROVE Shown' /\ Capped' /\ UNCHANGED ServiceView
  <2> DEFINE r == Head(q)
  <2>1. q \in Seq(Runs \cup {Sentinel}) /\ q # <<>> /\ r # Sentinel
    BY <1>6 DEF Take, ServiceInv, TypeInv, TypeOK
  <2>2. r \in Runs /\ r = q[1] /\ 1 \in DOMAIN q
    BY <2>1
  <2>3. stage[r] = "inq"
    BY <2>2 DEF ServiceInv, OneHolder
  <2>4. PICK s \in {"failing", "starting"} : Move(r, s)
    BY <1>6 DEF Take
  <2>5. UNCHANGED <<memory, disk, finishSeq>>
    BY <1>6 DEF Take, counters
  <2> QED
    BY <2>2, <2>3, <2>4, <2>5, <1>h
<1>7. ASSUME NEW w \in Workers, TakeSentinel(w) PROVE Shown' /\ Capped' /\ UNCHANGED ServiceView
  BY <1>7, <1>u DEF TakeSentinel, counters
<1>8. ASSUME NEW r \in Runs, NEW s \in Completed, NEW next \in {"rejected", "finished"},
             stage[r] \in {"stored", "raising", "failing"}, memory[r].status = "queued" => s = "error",
             memory' = Trimmed(Ended(r, s)), disk' = ForgetFiles(Ended(r, s), [disk EXCEPT ![r] = s]),
             finishSeq' = finishSeq + 1, Move(r, next)
      PROVE  Shown' /\ Capped' /\ Service!Complete(r)
  BY <1>8, CompleteImplements
<1>9. ASSUME NEW r \in Runs, NEW next \in {"rejected", "finished"}, NEW raised, stage[r] \in {"raising", "failing"},
             FailRecord(r, next, raised)
      PROVE  Shown' /\ Capped' /\ Service!Complete(r)
  <2>1. /\ memory' = Trimmed(Ended(r, "error")) /\ disk' = ForgetFiles(Ended(r, "error"), [disk EXCEPT ![r] = "error"])
        /\ finishSeq' = finishSeq + 1 /\ Move(r, next)
    BY <1>9, <1>f DEF FailRecord, Ended
  <2> QED
    BY <1>9, <2>1, <1>8 DEF Completed
<1>10. ASSUME NEW w \in Workers, NEW r \in Runs, FailStopped(w, r) \/ Fail(w, r)
       PROVE  Shown' /\ Capped' /\ Service!Complete(r)
  <2>1. \/ stage[r] = "failing" /\ FailRecord(r, "rejected", "lost")
        \/ stage[r] = "raising" /\ FailRecord(r, "finished", "unsaved")
    BY <1>10 DEF FailStopped, Fail, Holds
  <2> QED
    BY <2>1, <1>9
<1>11. ASSUME NEW w \in Workers, NEW r \in Runs, Finish(w, r) PROVE Shown' /\ Capped' /\ Service!Complete(r)
  <2>1. stage[r] = "stored" /\ disk[r] \in {"done", "failed"} /\ memory[r].status = "running"
    BY <1>11, <1>f DEF Finish, Holds, Fits
  <2>2. [disk EXCEPT ![r] = disk[r]] = disk
    BY <1>t
  <2>3. /\ memory' = Trimmed(Ended(r, disk[r])) /\ disk' = ForgetFiles(Ended(r, disk[r]), disk)
        /\ finishSeq' = finishSeq + 1 /\ Move(r, "finished")
    BY <1>11 DEF Finish, Ended
  <2> QED
    BY <2>1, <2>2, <2>3, <1>8 DEF Completed
<1>12. ASSUME NEW w \in Workers, NEW r \in Runs, LeaveQueue(w, r) \/ Release(w, r)
       PROVE  Shown' /\ Capped' /\ UNCHANGED ServiceView
  <2>1. stage[r] \in {"rejected", "finished"} /\ Move(r, "over") /\ UNCHANGED <<memory, disk, finishSeq>>
    BY <1>12, <1>f DEF LeaveQueue, Release, Holds, Fits
  <2>2. Fits(r)'
    BY <2>1, <1>f, <1>t DEF Fits, Move
  <2> QED
    BY <2>1, <2>2, <1>m DEF Stages
<1>13. ASSUME NEW w \in Workers, NEW r \in Runs, Begin(w, r)
       PROVE  Shown' /\ Capped' /\ (Service!Start(r) \/ UNCHANGED ServiceView)
  <2>1. /\ stage[r] = "starting" /\ memory' = [memory EXCEPT ![r].status = "running"]
        /\ Persist(r, "running") /\ Move(r, "executing") /\ UNCHANGED finishSeq
    BY <1>13, <1>f DEF Begin, Holds
  <2>2. /\ memory'[r].status = "running" /\ disk'[r] = "running" /\ stage'[r] = "executing"
        /\ \A x \in Runs : x # r => memory'[x] = memory[x] /\ disk'[x] = disk[x]
    BY <2>1, <1>t DEF Persist, Move
  <2>3. memory[r].status \in InFlight /\ r \notin BadSeed
    BY <2>1, <1>f DEF Fits
  <2>4. Fits(r)'
    BY <2>2, <2>3 DEF Fits
  <2>5. /\ Shown' /\ Capped' /\ HistoryOf(memory)' = HistoryOf(memory)
        /\ ClientStatus' = [ClientStatus EXCEPT ![r] = ClientStatus'[r]]
    <3>1. memory[r].status \notin Completed /\ memory'[r].status \notin Completed
      BY <2>2, <2>3 DEF Completed, InFlight
    <3> QED
      BY <2>1, <2>2, <2>4, <3>1, OneRun DEF Stages
  <2>6. ClientStatus[r] = memory[r].status /\ ClientStatus'[r] = "running"
    BY <2>2, <2>3 DEF ClientStatus, View, InFlight
  <2>7. CASE memory[r].status = "queued"
    <3>1. Service!Start(r)
      BY <2>5, <2>6, <2>7 DEF Service!Start
    <3> QED
      BY <2>5, <3>1
  <2>8. CASE memory[r].status = "running"
    <3>1. ClientStatus' = ClientStatus
      BY <2>5, <2>6, <2>8 DEF ClientStatus
    <3> QED
      BY <2>5, <3>1 DEF ServiceView
  <2> QED
    BY <2>3, <2>7, <2>8 DEF InFlight
<1>14. ASSUME NEW w \in Workers, NEW r \in Runs, Execute(w, r) PROVE Shown' /\ Capped' /\ UNCHANGED ServiceView
  <2>1. stage[r] = "executing" /\ memory' = memory /\ UNCHANGED finishSeq
    BY <1>14 DEF Execute, Holds, counters
  <2>2. memory[r].status = "running" /\ r \notin BadSeed /\ disk[r] = "running"
    BY <2>1, <1>f DEF Fits
  <2>3. \/ /\ \E s \in {"done", "failed"} : disk' = [disk EXCEPT ![r] = s]
           /\ Move(r, "stored")
        \/ disk' = disk /\ Move(r, "raising")
    BY <1>14, <1>f DEF Execute, Persist, NoFaults, ServiceInv, TypeInv, TypeOK
  <2>4. /\ \A x \in Runs : x # r => disk'[x] = disk[x]
        /\ \/ disk'[r] \in {"done", "failed"} /\ Move(r, "stored") /\ stage'[r] = "stored"
           \/ disk'[r] = "running" /\ Move(r, "raising") /\ stage'[r] = "raising"
    BY <2>2, <2>3, <1>t DEF Move
  <2>5. Fits(r)'
    BY <2>1, <2>2, <2>4 DEF Fits
  <2>6. /\ Shown' /\ Capped' /\ HistoryOf(memory)' = HistoryOf(memory)
        /\ ClientStatus' = [ClientStatus EXCEPT ![r] = ClientStatus'[r]]
    BY <2>1, <2>4, <2>5, OneRun DEF Stages
  <2>7. ClientStatus'[r] = ClientStatus[r]
    BY <2>1, <2>2 DEF ClientStatus, View
  <2>8. ClientStatus' = ClientStatus
    BY <2>6, <2>7 DEF ClientStatus
  <2> QED
    BY <2>6, <2>8 DEF ServiceView
<1>15. CASE MarkStop \/ Shutdown
  BY <1>15, <1>u DEF MarkStop, Shutdown, counters
<1>16. CASE Exit \/ Restart
  <2>1. EndProcess
    BY <1>16 DEF Exit, Restart
  <2> QED
    BY <2>1, EndImplements DEF Service!Next
<1> QED
  BY <1>1, <1>2, <1>4, <1>5, <1>6, <1>7, <1>10, <1>11, <1>12, <1>13, <1>14, <1>15, <1>16
  DEF Next, HttpStep, WorkerStep, RunStep, Service!Next

\* As long as no write fails, threads, locks, counters and files implement what
\* a client of the runner is promised, for any number of runs and workers, any
\* caps, bad seeds and restarts.
THEOREM QueueImplementsService == NoFaults /\ Spec => ServiceSpec
  BY ServiceInit, ServiceStep, PTL DEF Spec, ServiceSpec, Service!Spec, ServiceView
=============================================================================
