------------------------------ MODULE RunQueue ------------------------------
(***************************************************************************)
(* The run queue of the hosted runner (class RunQueue of agent_ci).        *)
(*                                                                         *)
(* POST /v1/runs is served by one HTTP thread per request; a pool of       *)
(* `concurrency' worker threads takes the accepted runs from a FIFO queue. *)
(* The counters, the history of runs and the files of a run are written    *)
(* under one lock, but the stop flag is read without it, the run is put    *)
(* into the FIFO after it is released, and execute_run writes the run's    *)
(* file outside it.  One action is one section that no other thread can    *)
(* split.  A run is a token that one thread, or the FIFO, holds: stage[r]  *)
(* is where that thread stands in its code.                                *)
(***************************************************************************)
EXTENDS Integers, Sequences, FiniteSets

CONSTANTS
  Runs,         \* the POST /v1/runs that pass the shape validation
  Workers,      \* the worker threads: `concurrency' of them
  MaxQueue,     \* --max-queue
  RunsMax,      \* --runs-max, the finished runs retained; 0 is unlimited
  BadSeed,      \* the runs whose body carries a seed that int() refuses
  NoRun,        \* an idle worker
  Sentinel,     \* the None that shutdown() puts once per worker
  MaxFaults,    \* bound: writes to runs_dir that fail (disk full)
  MaxRestarts   \* bound: times the process dies and is started again

ASSUME RunsAssumption == IsFiniteSet(Runs) /\ BadSeed \subseteq Runs
ASSUME WorkersAssumption == IsFiniteSet(Workers) /\ Workers # {}
ASSUME MaxQueueAssumption == MaxQueue \in Nat
ASSUME RunsMaxAssumption == RunsMax \in Nat
ASSUME BoundAssumption == MaxFaults \in Nat /\ MaxRestarts \in Nat
ASSUME SpecialAssumption == NoRun \notin Runs /\ Sentinel \notin Runs

VARIABLES
  phase,      \* "serving", "draining" (_stop), "closed" (shutdown()), "exited"
  q,          \* the FIFO _q
  queued,     \* the counter _queued
  running,    \* the counter _running
  completed,  \* the counter _completed
  failed,     \* the counter _failed
  finishSeq,  \* the counter _finish_seq
  memory,     \* _memory: status and _finishSeq of each run it holds
  disk,       \* status in runs_dir/{id}.json, "torn" when its write was cut
  stage,      \* where the thread that holds the run stands
  reserved,   \* reserved_running of the run
  worker,     \* the run a worker holds, or NoRun
  thread,     \* whether a worker's thread is "up", "exited" or "died"
  faults,     \* writes that failed so far
  restarts    \* restarts so far

counters == <<queued, running, completed, failed, finishSeq>>
vars == <<phase, q, counters, memory, disk, stage, reserved, worker,
          thread, faults, restarts>>

Concurrency == Cardinality(Workers)
InFlight == {"queued", "running"}
Completed == {"done", "failed", "error"}
Statuses == {"none"} \cup InFlight \cup Completed
Stages ==
  {"new", "checked", "refused",   \* the HTTP thread before the decision
   "admitted",                    \* counted and recorded, not yet in the FIFO
   "inq",                         \* in the FIFO, answered 202
   "failing", "rejected",         \* a worker fails it for the shutdown
   "starting",                    \* taken by a worker that will run it
   "executing", "stored", "raising", "finished", "unsaved",
   "over",                        \* nothing holds it any more
   "lost",                        \* its thread raised, its slot is not freed
   "dropped",                     \* as "lost", in a worker about to run it
   "orphan"}                      \* its process died

Stopped == phase # "serving"
Forgotten == [status |-> "none", seq |-> 0]

(***************************************************************************)
(* The history cap.                                                        *)
(***************************************************************************)
Finished(m) == {r \in Runs : m[r].status \in Completed}

\* Mutant of Overdue: the newest finished run is dropped.
Overdue_Newest(m) ==
  {r \in Finished(m) :
     /\ RunsMax > 0
     /\ Cardinality({s \in Finished(m) : m[s].seq <= m[r].seq}) > RunsMax}
Overdue(m) ==
  {r \in Finished(m) :
     /\ RunsMax > 0
     /\ Cardinality({s \in Finished(m) : m[s].seq >= m[r].seq}) > RunsMax}
Trimmed(m) == [r \in Runs |-> IF r \in Overdue(m) THEN Forgotten ELSE m[r]]

ForgetFiles(m, d) == [r \in Runs |-> IF r \in Overdue(m) THEN "none" ELSE d[r]]

\* What GET /v1/runs/{id} answers: memory first, else the file.
View(r) == IF memory[r].status # "none" THEN memory[r].status ELSE disk[r]

\* The two tests of submit, whose negations are the test of GET /ready.
SlotFree == running < Concurrency
\* Mutant of QueueFree: an off-by-one.
QueueFree_Off == queued <= MaxQueue
QueueFree == queued < MaxQueue

(***************************************************************************)
(* Init: __init__ with an empty runs_dir.                                  *)
(***************************************************************************)
Init ==
  /\ phase = "serving"
  /\ q = <<>>
  /\ queued = 0 /\ running = 0 /\ completed = 0 /\ failed = 0 /\ finishSeq = 0
  /\ memory = [r \in Runs |-> Forgotten]
  /\ disk = [r \in Runs |-> "none"]
  /\ stage = [r \in Runs |-> "new"]
  /\ reserved = [r \in Runs |-> FALSE]
  /\ worker = [w \in Workers |-> NoRun]
  /\ thread = [w \in Workers |-> "up"]
  /\ faults = 0 /\ restarts = 0

Move(r, s) == stage' = [stage EXCEPT ![r] = s]

\* _persist_run: the file is written, or the write raises and may tear it.
Persist(r, s) == disk' = [disk EXCEPT ![r] = s] /\ UNCHANGED faults
PersistRaises(r) ==
  /\ faults < MaxFaults
  /\ faults' = faults + 1
  /\ \E s \in {disk[r], "torn"} : disk' = [disk EXCEPT ![r] = s]

(***************************************************************************)
(* submit(), in the HTTP thread of the request.                            *)
(***************************************************************************)
\* `if self._stop', read without the lock (do_POST reads shutting_down
\* just before it).
CheckStop(r) ==
  /\ stage[r] = "new" /\ phase # "exited"
  /\ Move(r, IF Stopped THEN "refused" ELSE "checked")
  /\ UNCHANGED <<phase, q, counters, memory, disk, reserved, worker, thread,
                 faults, restarts>>

\* Under the lock: a slot is counted first, the record is built (int(seed)
\* may raise), remembered, and persisted (the write may raise).
Record(r, status) ==
  \/ /\ r \in BadSeed
     /\ Move(r, "lost")
     /\ UNCHANGED <<memory, disk, faults>>
  \/ /\ r \notin BadSeed
     /\ memory' = [memory EXCEPT ![r] = [status |-> status, seq |-> 0]]
     /\ \/ Persist(r, status) /\ Move(r, "admitted")
        \/ PersistRaises(r) /\ Move(r, "lost")

AdmitRunning(r) ==
  /\ stage[r] = "checked"
  /\ SlotFree
  /\ running' = running + 1
  /\ reserved' = [reserved EXCEPT ![r] = TRUE]
  /\ Record(r, "running")
  /\ UNCHANGED <<phase, q, queued, completed, failed, finishSeq, worker,
                 thread, restarts>>

AdmitQueued(r) ==
  /\ stage[r] = "checked"
  /\ ~SlotFree /\ QueueFree
  /\ queued' = queued + 1
  /\ Record(r, "queued")
  /\ UNCHANGED <<phase, q, running, completed, failed, finishSeq, reserved,
                 worker, thread, restarts>>

\* 429 queue_full.
RefuseFull(r) ==
  /\ stage[r] = "checked"
  /\ ~SlotFree /\ ~QueueFree
  /\ Move(r, "refused")
  /\ UNCHANGED <<phase, q, counters, memory, disk, reserved, worker, thread,
                 faults, restarts>>

\* Mutant of Put: a put that is repeated.
Put_Twice(r) ==
  /\ stage[r] = "admitted"
  /\ q' = q \o <<r, r>>
  /\ Move(r, "inq")
  /\ UNCHANGED <<phase, counters, memory, disk, reserved, worker, thread,
                 faults, restarts>>

\* self._q.put, after the lock is released; then 202.
Put(r) ==
  /\ stage[r] = "admitted"
  /\ q' = Append(q, r)
  /\ Move(r, "inq")
  /\ UNCHANGED <<phase, counters, memory, disk, reserved, worker, thread,
                 faults, restarts>>

(***************************************************************************)
(* _worker_loop.                                                           *)
(***************************************************************************)
Holds(w, r, s) == worker[w] = r /\ r \in Runs /\ stage[r] = s
Free(w) == worker' = [worker EXCEPT ![w] = NoRun]
Die(w) == thread' = [thread EXCEPT ![w] = "died"]

\* self._q.get() and `self._stop and not reserved_running'.
Take(w) ==
  /\ thread[w] = "up" /\ worker[w] = NoRun
  /\ q # <<>> /\ Head(q) # Sentinel
  /\ q' = Tail(q)
  /\ worker' = [worker EXCEPT ![w] = Head(q)]
  /\ Move(Head(q), IF Stopped /\ ~reserved[Head(q)] THEN "failing" ELSE "starting")
  /\ UNCHANGED <<phase, counters, memory, disk, reserved, thread, faults, restarts>>

TakeSentinel(w) ==
  /\ thread[w] = "up" /\ worker[w] = NoRun
  /\ q # <<>> /\ Head(q) = Sentinel
  /\ q' = Tail(q)
  /\ thread' = [thread EXCEPT ![w] = "exited"]
  /\ UNCHANGED <<phase, counters, memory, disk, stage, reserved, worker,
                 faults, restarts>>

\* The lock section of _fail: it raises before it trims when the write does.
FailRecord(r, next, raised) ==
  LET failure == [status |-> "error", seq |-> finishSeq + 1]
      m == [memory EXCEPT ![r] = failure]
  IN /\ failed' = failed + 1
     /\ finishSeq' = finishSeq + 1
     /\ \/ /\ memory' = Trimmed(m)
           /\ disk' = ForgetFiles(m, [disk EXCEPT ![r] = "error"])
           /\ Move(r, next)
           /\ UNCHANGED faults
        \/ memory' = m /\ PersistRaises(r) /\ Move(r, raised)

\* A queued run is failed with "shutting_down"; a raise kills the worker.
FailStopped(w, r) ==
  /\ Holds(w, r, "failing")
  /\ FailRecord(r, "rejected", "lost")
  /\ IF stage'[r] = "lost" THEN Free(w) /\ Die(w) ELSE UNCHANGED <<worker, thread>>
  /\ UNCHANGED <<phase, q, queued, running, completed, reserved, restarts>>

\* The second lock section: the run leaves the counter.
LeaveQueue(w, r) ==
  /\ Holds(w, r, "rejected")
  /\ queued' = IF queued > 0 THEN queued - 1 ELSE 0
  /\ Move(r, "over") /\ Free(w)
  /\ UNCHANGED <<phase, q, running, completed, failed, finishSeq, memory, disk,
                 reserved, thread, faults, restarts>>

\* A reserved run is counted already; another leaves _queued for _running.
\* Mutant: the run stays counted in _queued.
CountBegun_KeepsQueued(r) ==
  IF reserved[r] THEN UNCHANGED <<queued, running>>
                 ELSE UNCHANGED queued /\ running' = running + 1
CountBegun(r) ==
  IF reserved[r]
    THEN UNCHANGED <<queued, running>>
    ELSE queued' = (IF queued > 0 THEN queued - 1 ELSE 0) /\ running' = running + 1

\* The lock section before execute_run: status running, persisted.  It is not
\* inside the try: a raise kills the worker with the slot counted.
Begin(w, r) ==
  /\ Holds(w, r, "starting")
  /\ CountBegun(r)
  /\ memory' = [memory EXCEPT ![r].status = "running"]
  /\ \/ Persist(r, "running") /\ Move(r, "executing") /\ UNCHANGED <<worker, thread>>
     \/ PersistRaises(r) /\ Move(r, "dropped") /\ Free(w) /\ Die(w)
  /\ UNCHANGED <<phase, q, completed, failed, finishSeq, reserved, restarts>>

\* execute_run writes {id}.json outside the lock, then returns; or it raises
\* before (bad suite, bad baseline) or after that write.
Execute(w, r) ==
  /\ Holds(w, r, "executing")
  /\ \/ \E s \in {"done", "failed"} : Persist(r, s) /\ Move(r, "stored")
     \/ UNCHANGED <<disk, faults>> /\ Move(r, "raising")
     \/ PersistRaises(r) /\ Move(r, "raising")
     \/ /\ faults < MaxFaults /\ faults' = faults + 1   \* the junit file
        /\ \E s \in {"done", "failed"} : disk' = [disk EXCEPT ![r] = s]
        /\ Move(r, "raising")
  /\ UNCHANGED <<phase, q, counters, memory, reserved, worker, thread, restarts>>

\* The lock section after execute_run.
Finish(w, r) ==
  LET m == [memory EXCEPT ![r] = [status |-> disk[r], seq |-> finishSeq + 1]]
  IN /\ Holds(w, r, "stored")
     /\ finishSeq' = finishSeq + 1
     /\ completed' = completed + 1
     /\ memory' = Trimmed(m)
     /\ disk' = ForgetFiles(m, disk)
     /\ Move(r, "finished")
     /\ UNCHANGED <<phase, q, queued, running, failed, reserved, worker, thread,
                    faults, restarts>>

\* Mutant of Fail: no `except Exception', so the exception goes through
\* `finally' and ends the worker.
Fail_Uncaught(w, r) ==
  /\ Holds(w, r, "raising")
  /\ Move(r, "unsaved")
  /\ UNCHANGED <<phase, q, counters, memory, disk, reserved, worker, thread,
                 faults, restarts>>

\* An exception of execute_run goes to _fail.
Fail(w, r) ==
  /\ Holds(w, r, "raising")
  /\ FailRecord(r, "finished", "unsaved")
  /\ UNCHANGED <<phase, q, queued, running, completed, reserved, worker, thread,
                 restarts>>

\* `finally': the slot is freed; what _fail raised then kills the worker.
Release(w, r) ==
  /\ Holds(w, r, "finished") \/ Holds(w, r, "unsaved")
  /\ running' = IF running > 0 THEN running - 1 ELSE 0
  /\ Move(r, "over") /\ Free(w)
  /\ IF stage[r] = "unsaved" THEN Die(w) ELSE UNCHANGED thread
  /\ UNCHANGED <<phase, q, queued, completed, failed, finishSeq, memory, disk,
                 reserved, faults, restarts>>

(***************************************************************************)
(* The process.                                                            *)
(***************************************************************************)
\* SIGTERM: begin_shutdown sets shutting_down and, by mark_stop, _stop.
MarkStop ==
  /\ phase = "serving"
  /\ phase' = "draining"
  /\ UNCHANGED <<q, counters, memory, disk, stage, reserved, worker, thread,
                 faults, restarts>>

Pills(s) == {i \in DOMAIN s : s[i] = Sentinel}
Left == {w \in Workers : thread[w] = "exited"}
AllTold == Cardinality(Pills(q)) + Cardinality(Left) >= Concurrency

\* The drain is a fixed sleep, whatever is in work; then the loop of the server
\* ends and shutdown() puts one None per worker, each put on its own.
Shutdown ==
  /\ phase \in {"draining", "closed"} /\ ~AllTold
  /\ phase' = "closed"
  /\ q' = Append(q, Sentinel)
  /\ UNCHANGED <<counters, memory, disk, stage, reserved, worker, thread,
                 faults, restarts>>

\* What the end of the process does to it, and leaves in runs_dir.  A write in
\* progress is cut; of those made under the lock only one can be in progress,
\* and the one of _fail can be complete with no file of the history dropped yet.
EndProcess ==
  /\ q' = <<>>
  /\ queued' = 0 /\ running' = 0 /\ completed' = 0 /\ failed' = 0 /\ finishSeq' = 0
  /\ memory' = [r \in Runs |-> Forgotten]
  /\ reserved' = [r \in Runs |-> FALSE]
  /\ worker' = [w \in Workers |-> NoRun]
  /\ thread' = [w \in Workers |-> "up"]
  /\ stage' = [r \in Runs |->
                 CASE stage[r] \in {"new", "refused", "over", "orphan"} -> stage[r]
                   [] stage[r] = "checked" -> "refused"
                   [] OTHER -> "orphan"]
  /\ \E torn \in SUBSET {r \in Runs : stage[r] \in {"executing", "starting", "raising", "failing"}},
        saved \in SUBSET {r \in Runs : stage[r] \in {"raising", "failing"}} :
       /\ Cardinality({r \in torn \cup saved : stage[r] # "executing"}) <= 1
       /\ disk' = [r \in Runs |-> IF r \in torn THEN "torn"
                                  ELSE IF r \in saved THEN "error" ELSE disk[r]]
  /\ UNCHANGED faults

\* main() returns after the last put.  The workers are daemon threads and nobody
\* joins them or the queue: what they hold, or have not taken, is left as it is.
Exit ==
  /\ phase = "closed" /\ AllTold
  /\ phase' = "exited"
  /\ EndProcess
  /\ UNCHANGED restarts

\* The process is killed, or has ended, and another is started on the same
\* runs_dir.
Restart ==
  /\ restarts < MaxRestarts
  /\ restarts' = restarts + 1
  /\ phase' = "serving"
  /\ EndProcess

HttpStep(r) == CheckStop(r) \/ AdmitRunning(r) \/ AdmitQueued(r)
               \/ RefuseFull(r) \/ Put(r)

RunStep(w, r) == FailStopped(w, r) \/ LeaveQueue(w, r) \/ Begin(w, r)
                 \/ Execute(w, r) \/ Finish(w, r) \/ Fail(w, r) \/ Release(w, r)

WorkerStep(w) == Take(w) \/ TakeSentinel(w) \/ \E r \in Runs : RunStep(w, r)

Next == \/ \E r \in Runs : HttpStep(r)
        \/ \E w \in Workers : WorkerStep(w)
        \/ MarkStop \/ Shutdown \/ Exit \/ Restart

Spec == Init /\ [][Next]_vars

\* A thread that can run is scheduled: the workers (execute_run ends, its agent
\* is a replay and delayMs is finite), a handler that has entered submit, and the
\* main thread, which the timer of the drain wakes.  Nobody has to POST, to
\* signal or to restart, and no worker is given time before the exit.
Fairness == /\ \A r \in Runs : WF_vars(stage[r] # "new" /\ HttpStep(r))
            /\ \A w \in Workers : WF_vars(WorkerStep(w))
            /\ WF_vars(Shutdown \/ Exit)
FairSpec == Spec /\ Fairness
-----------------------------------------------------------------------------
(***************************************************************************)
(* Properties.                                                             *)
(***************************************************************************)
\* The type invariant.
TypeOK ==
  /\ phase \in {"serving", "draining", "closed", "exited"}
  /\ q \in Seq(Runs \cup {Sentinel})
  /\ queued \in Nat /\ running \in Nat
  /\ completed \in Nat /\ failed \in Nat /\ finishSeq \in Nat
  /\ memory \in [Runs -> [status : Statuses, seq : Nat]]
  /\ disk \in [Runs -> Statuses \cup {"torn"}]
  /\ stage \in [Runs -> Stages]
  /\ reserved \in [Runs -> BOOLEAN]
  /\ worker \in [Workers -> Runs \cup {NoRun}]
  /\ thread \in [Workers -> {"up", "exited", "died"}]
  /\ faults \in Nat /\ restarts \in Nat

\* The stages in which a worker holds the run, those in which a run counts as
\* admitted, and those in which it has begun and counts as running.
InWorker == {"failing", "rejected", "starting", "executing", "stored",
             "raising", "finished", "unsaved"}
Waiting == {"admitted", "inq", "failing", "rejected", "starting", "lost"}
Begun == {"executing", "stored", "raising", "finished", "unsaved", "dropped"}

RunningHolders ==
  {r \in Runs : stage[r] \in Begun \/ (stage[r] \in Waiting /\ reserved[r])}
QueuedHolders == {r \in Runs : stage[r] \in Waiting /\ ~reserved[r]}

\* A run is held by the FIFO or by one worker, and by nothing twice, whatever
\* the interleaving of put, get, shutdown and the deaths of workers.
OneHolder ==
  /\ \A r \in Runs : stage[r] \in InWorker <=> \E w \in Workers : worker[w] = r
  /\ \A w, v \in Workers : worker[w] = worker[v] /\ worker[w] \in Runs => w = v
  /\ \A r \in Runs : stage[r] = "inq" <=> \E i \in DOMAIN q : q[i] = r
  /\ \A i, j \in DOMAIN q : q[i] = q[j] /\ q[i] \in Runs => i = j

\* Between execute_run and the lock section that remembers its result, the file
\* says done or failed and memory still says running, whatever the history cap
\* deletes for other runs meanwhile.
StoredFile ==
  /\ \A r \in Runs : stage[r] \in {"executing", "stored"} => memory[r].status = "running"
  /\ \A r \in Runs : stage[r] = "stored" => disk[r] \in {"done", "failed"}

\* A slot is reserved in submit only, and only a run without one is refused by a
\* worker for the shutdown.
ReservedFlag ==
  \A r \in Runs : stage[r] \in {"new", "checked", "failing", "rejected"} => ~reserved[r]

\* _running and _queued count the runs that hold a slot: a slot reserved in
\* submit is neither counted again by the worker nor freed twice, max(0, ...)
\* never hides a miscount, and what an exception leaves counted is exactly the
\* runs whose thread raised.
CountersExact ==
  /\ running = Cardinality(RunningHolders)
  /\ queued = Cardinality(QueuedHolders)

\* The capacity the counters really give: at most max_queue waiting, at most
\* `concurrency' slots reserved for runs that have not begun, so at most twice
\* `concurrency' counted as running; and the pool begins no more than that.
Reserved == {r \in Runs : stage[r] \in Waiting /\ reserved[r]}
CapacityBound ==
  /\ queued <= MaxQueue
  /\ Cardinality(Reserved) <= Concurrency
  /\ running <= 2 * Concurrency + faults

\* The end of the pool.  A run is never with a thread that is gone, and a thread
\* dies of a failed write only: together with OneHolder, what is in work goes on.
HoldersLive ==
  /\ \A w \in Workers : worker[w] # NoRun => thread[w] = "up"
  /\ faults = 0 => \A w \in Workers : thread[w] # "died"

(***************************************************************************)
(* The queue as its clients see it.                                        *)
(***************************************************************************)
\* GET /v1/runs/{id} answers 404 for a run that was never recorded, as one with a
\* bad seed, and for one the history cap dropped.
ClientStatus ==
  [r \in Runs |->
     IF View(r) = "none" /\ stage[r] \in {"rejected", "finished", "over", "orphan"} /\ r \notin BadSeed
       THEN "gone" ELSE View(r)]

\* The finished runs of _memory by _finishSeq.
Rank(m, r) == Cardinality({s \in Finished(m) : m[s].seq <= m[r].seq})
HistoryOf(m) ==
  [i \in 1 .. Cardinality(Finished(m)) |-> CHOOSE r \in Finished(m) : Rank(m, r) = i]

Service == INSTANCE RunService WITH status <- ClientStatus, history <- HistoryOf(memory)

\* As long as no write fails, the queue implements the service its README
\* describes: runs go queued -> running -> done|failed|error, none goes back, and
\* the history is the last RunsMax runs in the order they finished.
ServiceSpec == Service!Spec

\* A run that was answered 202 is completed - done, failed or error, by whatever
\* worker is left - unless the process ends first: no exception of an earlier run
\* takes the pool away from it.  It is false once a write has failed, which kills
\* a worker, so the run has none.
AcceptedCompletes ==
  \A r \in Runs : (stage[r] = "inq") ~> (stage[r] \in {"over", "orphan"})

\* serve.py:1102 "bad requests never occupy the queue": when no thread and no
\* FIFO holds a run and no write failed, no slot is counted.
BadRequestsNeverOccupy ==
  (/\ faults = 0
   /\ \A r \in Runs : stage[r] \in {"new", "checked", "refused", "over", "lost"})
    => running = 0 /\ queued = 0
=============================================================================
