------------------------------- MODULE StdioLink -------------------------------
(***************************************************************************)
(* The gateway's stdio upstream (createStdioUpstream of upstream.js) with  *)
(* an MCP server that the generator emitted at the other end of the pipes: *)
(* the JavaScript one takes up lines while others are under way, those in  *)
(* Python and Go finish one before they read the next.                     *)
(*                                                                         *)
(* Each callback of node is one step.  A request stands for a tools/call   *)
(* with its HTTP calls, which module SdkCall is about.                     *)
(***************************************************************************)
EXTENDS Integers, Sequences, FiniteSets

CONSTANT Requests

ASSUME RequestsAssumption == IsFiniteSet(Requests)

VARIABLES
  serial,    \* the server is the Python or the Go one
  nextId,    \* nextId
  idOf,      \* the id a request was sent under, 0 when it was not
  pending,   \* the keys of the map pending
  outcome,   \* what a request's promise came to; "none", "waits"
  answer,    \* the id of the reply that resolved it, or 0
  child,     \* "up", "dead", or "gone" once exit was emitted
  killed,    \* child.killed: close() has sent SIGTERM
  coded,     \* child.exitCode is not null: it stays null after a signal
  stdin,     \* ids in the pipe to the server
  working,   \* ids the server works at
  stdout,    \* ids of the replies in the pipe from it
  runs       \* history: how often the server took up an id

linkVars == <<serial, nextId, idOf, pending, outcome, answer, child, killed, coded, stdin,
             working, stdout, runs>>

RpcIds == 1 .. Cardinality(Requests)

LinkInit ==
  /\ serial \in BOOLEAN
  /\ nextId = 1 /\ idOf = [q \in Requests |-> 0]
  /\ pending = {} /\ outcome = [q \in Requests |-> "none"]
  /\ answer = [q \in Requests |-> 0]
  /\ child = "up" /\ killed = FALSE /\ coded = FALSE
  /\ stdin = <<>> /\ working = {} /\ stdout = <<>>
  /\ runs = [i \in RpcIds |-> 0]

(***************************************************************************)
(* request().                                                              *)
(***************************************************************************)
NotRunning == killed \/ coded

\* A child that died of a signal of somebody else's is written to like one that
\* runs.
Ask(q) ==
  /\ outcome[q] = "none" /\ ~NotRunning
  /\ idOf' = [idOf EXCEPT ![q] = nextId] /\ nextId' = nextId + 1
  /\ pending' = pending \cup {nextId}
  /\ outcome' = [outcome EXCEPT ![q] = "waits"]
  /\ stdin' = IF child = "up" THEN Append(stdin, nextId) ELSE stdin
  /\ UNCHANGED <<serial, answer, child, killed, coded, working, stdout, runs>>

\* upstream_stdio_not_running; an id is used up.
AskNobody(q) ==
  /\ outcome[q] = "none" /\ NotRunning
  /\ nextId' = nextId + 1
  /\ outcome' = [outcome EXCEPT ![q] = "not running"]
  /\ UNCHANGED <<serial, idOf, pending, answer, child, killed, coded, stdin, working, stdout, runs>>

\* The promise of the request that was sent under an id.
Owner(i) == {q \in Requests : idOf[q] = i /\ outcome[q] = "waits"}

Rejected(i, why) ==
  /\ outcome' = [q \in Requests |-> IF q \in Owner(i) THEN why ELSE outcome[q]]
  /\ UNCHANGED answer

Resolved(i, reply) ==
  /\ outcome' = [q \in Requests |-> IF q \in Owner(i) THEN "answered" ELSE outcome[q]]
  /\ answer' = [q \in Requests |-> IF q \in Owner(i) THEN reply ELSE answer[q]]

\* The timer.
TimedOut(i) ==
  /\ i \in pending /\ pending' = pending \ {i}
  /\ Rejected(i, "timeout")
  /\ UNCHANGED <<serial, nextId, idOf, child, killed, coded, stdin, working, stdout, runs>>

\* The callback of write: the pipe is broken.
WriteFailed(i) ==
  /\ child # "up" /\ i \in pending /\ pending' = pending \ {i}
  /\ Rejected(i, "unsent")
  /\ UNCHANGED <<serial, nextId, idOf, child, killed, coded, stdin, working, stdout, runs>>

\* rl.on("line"): a reply nobody waits for is dropped.
\* Mutant: it is given to whoever has waited longest.
Line_Oldest ==
  /\ stdout # <<>> /\ stdout' = Tail(stdout)
  /\ IF pending # {}
     THEN LET i == CHOOSE j \in pending : \A k \in pending : j <= k
          IN pending' = pending \ {i} /\ Resolved(i, Head(stdout))
     ELSE UNCHANGED <<pending, outcome, answer>>
  /\ UNCHANGED <<serial, nextId, idOf, child, killed, coded, stdin, working, runs>>
Line ==
  /\ stdout # <<>> /\ stdout' = Tail(stdout)
  /\ IF Head(stdout) \in pending
     THEN pending' = pending \ {Head(stdout)} /\ Resolved(Head(stdout), Head(stdout))
     ELSE UNCHANGED <<pending, outcome, answer>>
  /\ UNCHANGED <<serial, nextId, idOf, child, killed, coded, stdin, working, runs>>

\* child.on("exit"), which may come before the last lines.
Exited ==
  /\ child = "dead" /\ child' = "gone"
  /\ coded' \in BOOLEAN
  /\ pending' = {}
  /\ outcome' = [q \in Requests |-> IF idOf[q] \in pending THEN "exited" ELSE outcome[q]]
  /\ UNCHANGED <<serial, nextId, idOf, answer, killed, stdin, working, stdout, runs>>

\* close(), when the policy is reloaded or the gateway stops.
Close ==
  /\ child # "gone" /\ ~killed /\ killed' = TRUE
  /\ UNCHANGED <<serial, nextId, idOf, pending, outcome, answer, child, coded, stdin, working, stdout,
                 runs>>

(***************************************************************************)
(* The server: the loop over the lines, and handleRpc.                     *)
(***************************************************************************)
TakeUp(i) ==
  /\ child = "up"
  /\ stdin # <<>> /\ i = Head(stdin) /\ stdin' = Tail(stdin)
  /\ working' = working \cup {i}
  /\ runs' = [runs EXCEPT ![i] = @ + 1]
  /\ UNCHANGED <<serial, nextId, idOf, pending, outcome, answer, child, killed, coded, stdout>>

\* main of the Python and Go servers.
TakeNext(i) == serial /\ working = {} /\ TakeUp(i)

\* rl.on("line") of the JavaScript one: pause() does not hold back lines that
\* were read with it.
TakeAlso(i) == ~serial /\ TakeUp(i)

Reply(i) ==
  /\ i \in working /\ working' = working \ {i}
  /\ stdout' = Append(stdout, i)
  /\ UNCHANGED <<serial, nextId, idOf, pending, outcome, answer, child, killed, coded, stdin, runs>>

\* SIGTERM, or a crash.
Die ==
  /\ child = "up" /\ child' = "dead"
  /\ stdin' = <<>> /\ working' = {}
  /\ UNCHANGED <<serial, nextId, idOf, pending, outcome, answer, killed, coded, stdout, runs>>

LinkNext ==
  \/ \E q \in Requests : Ask(q) \/ AskNobody(q)
  \/ \E i \in RpcIds : TimedOut(i) \/ WriteFailed(i) \/ TakeNext(i) \/ TakeAlso(i) \/ Reply(i)
  \/ Line \/ Exited \/ Close \/ Die

LinkSpec == LinkInit /\ [][LinkNext]_linkVars

-----------------------------------------------------------------------------
(***************************************************************************)
(* Properties.                                                             *)
(***************************************************************************)
Waiting == {q \in Requests : outcome[q] = "waits"}

\* The type invariant.
LinkTypeOK ==
  /\ serial \in BOOLEAN /\ child \in {"up", "dead", "gone"}
  /\ killed \in BOOLEAN /\ coded \in BOOLEAN
  /\ nextId \in 1 .. Cardinality(Requests) + 1 /\ idOf \in [Requests -> 0 .. Cardinality(Requests)]
  /\ pending \subseteq RpcIds /\ working \subseteq RpcIds
  /\ stdin \in Seq(RpcIds) /\ stdout \in Seq(RpcIds) /\ runs \in [RpcIds -> Nat]
  /\ answer \in [Requests -> 0 .. Cardinality(Requests)]
  /\ outcome \in [Requests ->
       {"none", "waits", "answered", "timeout", "unsent", "exited", "not running"}]

\* However late, early or out of order the replies come, across timeouts, exits
\* and closes: a request gets the answer of its own call, which the server has
\* carried out exactly once, the reply of a call given up goes to nobody, and
\* the map holds a waiter for each request that waits and no others.
OwnAnswer ==
  /\ \A q \in Requests :
       outcome[q] = "answered" => answer[q] = idOf[q] /\ runs[idOf[q]] = 1
  /\ pending = {idOf[q] : q \in Waiting}
=============================================================================
