------------------------------- MODULE Webhooks -------------------------------
(***************************************************************************)
(* One notification of an outside URL: the retry once after 50 ms that the *)
(* five products share, against a receiver (external) that may take a POST *)
(* and still answer 5xx, or too late, or nothing.                          *)
(***************************************************************************)
EXTENDS Integers

(***************************************************************************)
(* The senders.  waits: whoever caused the event is answered only when the *)
(* notification is over; drains: the body of the answer is read, with a    *)
(* timeout for each read of the socket only.                               *)
(***************************************************************************)
Sender(waits, drains) == [waits |-> waits, drains |-> drains]
GatewayHook == Sender(FALSE, FALSE)  \* B, a tool call or a denial
CostHook == Sender(TRUE, FALSE)      \* E, a denied ingest
RunnerHook == Sender(FALSE, TRUE)    \* C, a run that is complete: a daemon thread
BomHook == Sender(TRUE, TRUE)        \* D, the command line's policy hit
AgentHook == Sender(FALSE, TRUE)     \* F, a decision: a daemon thread

Senders == [gateway |-> GatewayHook, cost |-> CostHook, runner |-> RunnerHook,
            bom |-> BomHook, agent |-> AgentHook]

VARIABLES
  hook,     \* the sender
  event,    \* the request or command that causes it: "none", "open", "answered"
  post,     \* "none", "out", "asleep" before the second, "over"
  posts,    \* POSTs sent
  heard,    \* an answer below 500 has come
  taken,    \* the receiver: POSTs it has acted on
  drips     \* the receiver's answer never ends

hookVars == <<hook, event, post, posts, heard, taken, drips>>

HookInit ==
  /\ hook \in DOMAIN Senders
  /\ event = "none" /\ post = "none" /\ posts = 0
  /\ heard = FALSE /\ taken = 0 /\ drips = FALSE

\* The event is written down, and its notification begins.
Fire ==
  /\ event = "none"
  /\ event' = "open" /\ post' = "out" /\ posts' = 1
  /\ UNCHANGED <<hook, heard, taken, drips>>

\* The request of the event is answered; errors of the webhook never tell.
EventAnswered ==
  /\ event = "open"
  /\ Senders[hook].waits => post = "over"
  /\ event' = "answered"
  /\ UNCHANGED <<hook, post, posts, heard, taken, drips>>

\* shouldRetryWebhook: a 5xx, and whatever is thrown.
\* Mutant: what is thrown is not tried again.
ShouldRetry_StatusOnly(answer) == answer = "5xx"
ShouldRetry(answer) == answer \in {"5xx", "thrown"}

\* An attempt is over; the error of the second is swallowed.
Outcome(answer) ==
  /\ post = "out" /\ ~drips
  /\ taken' \in (CASE answer = "2xx" -> {taken + 1}
                   [] answer = "4xx" -> {taken}
                   [] OTHER -> {taken, taken + 1})
  /\ heard' = (answer \in {"2xx", "4xx"})
  /\ post' = IF posts = 1 /\ ShouldRetry(answer) THEN "asleep" ELSE "over"
  /\ UNCHANGED <<hook, event, posts, drips>>

\* The body of the answer comes byte by byte, without an end.
Drip ==
  /\ post = "out" /\ Senders[hook].drains
  /\ drips' = TRUE
  /\ UNCHANGED <<hook, event, post, posts, heard, taken>>

\* The 50 ms are over: the same body, with a new timestamp.
Repeat ==
  /\ post = "asleep"
  /\ post' = "out" /\ posts' = posts + 1
  /\ UNCHANGED <<hook, event, heard, taken, drips>>

PostEnds == \E answer \in {"2xx", "4xx", "5xx", "thrown"} : Outcome(answer)

HookNext == Fire \/ EventAnswered \/ PostEnds \/ Drip \/ Repeat

\* The abort timer, or the socket's timeout, ends an attempt; a timer the sleep.
HookFairness == WF_hookVars(EventAnswered) /\ WF_hookVars(PostEnds) /\ WF_hookVars(Repeat)

HookSpec == HookInit /\ [][HookNext]_hookVars /\ HookFairness

-----------------------------------------------------------------------------
(***************************************************************************)
(* Properties.                                                             *)
(***************************************************************************)
\* The type invariant.
HookTypeOK ==
  /\ event \in {"none", "open", "answered"} /\ post \in {"none", "out", "asleep", "over"}
  /\ posts \in 0 .. 2 /\ taken \in 0 .. posts /\ heard \in BOOLEAN /\ drips \in BOOLEAN

\* Whatever the receiver does, the request of an event is answered, and its
\* notification was heard or tried twice, unless an answer drips.  It may be
\* taken twice: the two POSTs have nothing to tell them apart by.
HookSettled ==
  (event = "open") ~> (event = "answered" /\ post = "over" /\ (heard \/ posts = 2)) \/ drips
=============================================================================
