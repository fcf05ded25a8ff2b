----------------------------- MODULE RunService -----------------------------
(***************************************************************************)
(* What the hosted runner promises a client that polls GET /v1/runs/{id}:  *)
(* the life of a run, and the history of finished runs with its cap        *)
(* (README of c-agent-ci, lines 103 and 104), without threads, locks,      *)
(* counters or files.                                                      *)
(***************************************************************************)
EXTENDS Integers, Sequences

CONSTANTS Runs, RunsMax

VARIABLES
  status,    \* what a GET of the run answers
  history    \* the finished runs retained, oldest first

InFlight == {"queued", "running"}

Init == status = [r \in Runs |-> "none"] /\ history = <<>>

Accept(r) ==
  /\ status[r] = "none"
  /\ \E s \in InFlight : status' = [status EXCEPT ![r] = s]
  /\ UNCHANGED history

Start(r) ==
  /\ status[r] = "queued"
  /\ status' = [status EXCEPT ![r] = "running"]
  /\ UNCHANGED history

\* A run finishes; over the cap the oldest finished run is gone.  One that is
\* still queued can only be failed.
Complete(r) ==
  /\ status[r] \in InFlight
  /\ \E s \in IF status[r] = "queued" THEN {"error"} ELSE {"done", "failed", "error"} :
       LET all == Append(history, r)
           over == RunsMax > 0 /\ Len(all) > RunsMax
           finished == [status EXCEPT ![r] = s]
       IN IF over
            THEN /\ history' = Tail(all)
                 /\ status' = [finished EXCEPT ![Head(all)] = "gone"]
            ELSE history' = all /\ status' = finished

\* The process ends, or is started again: its history is forgotten, finished runs
\* keep their answer, and a run in flight is frozen where its file says, which may
\* be further than the last answer, or unreadable.
Restart ==
  /\ history' = <<>>
  /\ \A r \in Runs :
       status'[r] \in {status[r]} \cup
         CASE status[r] = "running" -> {"done", "failed", "error", "torn"}
           [] status[r] = "queued" -> {"error", "torn"}
           [] OTHER -> {}
  /\ DOMAIN status' = Runs

Next == (\E r \in Runs : Accept(r) \/ Start(r) \/ Complete(r)) \/ Restart

Spec == Init /\ [][Next]_<<status, history>>
=============================================================================
