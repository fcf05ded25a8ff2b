-------------------------------- MODULE SdkCall --------------------------------
(***************************************************************************)
(* Writing calls through an emitted client: the loop of request() - and of *)
(* invokeHttp in the MCP servers - with its three attempts, against a      *)
(* server that settles each Idempotency-Key once.                          *)
(*                                                                         *)
(* A request that its client has given up may still reach the server, at   *)
(* any later time.  The server and the network are external.               *)
(***************************************************************************)
EXTENDS SdkClients, FiniteSets

CONSTANTS
  Calls,
  Pool     \* the clients considered

ASSUME PoolAssumption == Pool \subseteq Clients

Attempts == 3
Tries == 0 .. Attempts - 1
Shared == <<"shared", 0>>
Keys == (Calls \X Tries) \cup {Shared}

VARIABLES
  client,   \* the client of the program
  form,     \* the form of the server's Retry-After
  pinned,   \* idempotencyKey is given to the constructor or in the environment
  phase,    \* where a call is
  attempt,  \* attempt
  reaches,  \* the runtime can send the call's request
  key,      \* opIdempotencyKey, or <<>>
  wire,     \* requests sent that the server has not handled
  coming,   \* the status of the answer on its way to a call, or "none"
  nap,      \* what the call sleeps for: "told" by the server, or "backoff"
  result,   \* how the call ended
  settled,  \* the server: what became of a key
  effects,  \* the server: how often a key was carried out
  word,     \* the server's word to a call: "none", "asked" to wait, "waited"
  rough     \* history: an answer to the call was lost, damaged or a proxy's

setting == <<client, form, pinned>>
server == <<settled, effects, word>>
callVars == <<setting, phase, attempt, reaches, key, wire, coming, nap, result, server, rough>>

CallInit ==
  /\ client \in Pool /\ form \in Forms /\ pinned \in BOOLEAN
  /\ phase = [c \in Calls |-> "idle"] /\ attempt = [c \in Calls |-> 0]
  /\ reaches = [c \in Calls |-> TRUE] /\ key = [c \in Calls |-> <<>>]
  /\ wire = {} /\ coming = [c \in Calls |-> "none"]
  /\ nap = [c \in Calls |-> "backoff"] /\ result = [c \in Calls |-> "none"]
  /\ settled = [k \in Keys |-> "no"] /\ effects = [k \in Keys |-> 0]
  /\ word = [c \in Calls |-> "none"] /\ rough = [c \in Calls |-> FALSE]

(***************************************************************************)
(* The client.                                                             *)
(***************************************************************************)
\* The key of a call: pinned, or drawn before the first attempt; two draws
\* from the clock within one of its ticks are equal.
\* Mutant: drawn for each attempt.
KeyOf_Fresh(c, n) == IF pinned THEN {Shared} ELSE {<<c, n>>}
KeyOf(c, n) ==
  IF pinned THEN {Shared}
  ELSE IF n > 0 THEN {key[c]}
  ELSE IF Identity[client].drawn = "clock" THEN {<<c, 0>>, Shared} ELSE {<<c, 0>>}

\* An attempt: the request goes out, if the runtime can send it at all.
Transmit(c, n, k, sends) ==
  /\ phase' = [phase EXCEPT ![c] = "sent"]
  /\ attempt' = [attempt EXCEPT ![c] = n]
  /\ key' = [key EXCEPT ![c] = k]
  /\ wire' = IF sends THEN wire \cup {<<c, n, k>>} ELSE wire

Begin(c) ==
  /\ phase[c] = "idle"
  /\ \E m \in Writing, https \in BOOLEAN, k \in KeyOf(c, 0) :
       LET sends == m \in Send[client].methods /\ (https => Send[client].tls)
       IN /\ reaches' = [reaches EXCEPT ![c] = sends]
          /\ Transmit(c, 0, k, sends)
  /\ UNCHANGED <<setting, coming, nap, result, server, rough>>

LastTry(c) == attempt[c] = Attempts - 1

\* Mutant: a fourth attempt, and no end of them.
Retries_Forever(c, why) ==
  /\ phase' = [phase EXCEPT ![c] = "asleep"]
  /\ nap' = [nap EXCEPT ![c] = why]
  /\ attempt' = [attempt EXCEPT ![c] = 0]
  /\ UNCHANGED result
Retries(c, why) ==
  /\ phase' = [phase EXCEPT ![c] = "asleep"]
  /\ nap' = [nap EXCEPT ![c] = why]
  /\ UNCHANGED <<attempt, result>>

Ends(c, how) ==
  /\ phase' = [phase EXCEPT ![c] = "ended"]
  /\ result' = [result EXCEPT ![c] = how]
  /\ UNCHANGED <<attempt, nap>>

\* fetch threw, or its like: "late" or "lost".
Failed(c, cause) ==
  \/ LastTry(c) /\ Ends(c, Names[client][cause])
  \/ ~LastTry(c) /\ Retries(c, "backoff")

\* retryDelayMs.
\* Mutant: seconds are all that is understood.
Nap_SecondsOnly(c) == IF form = "whole" THEN "told" ELSE "backoff"
Nap(c) == IF form \in Heeds[client] THEN "told" ELSE "backoff"

\* What is done with a status and the text that is there.
Answered(c, status) ==
  \/ status \in {"ok", "refused"} /\ Ends(c, status)
  \/ status = "busy" /\ ~LastTry(c) /\ Retries(c, Nap(c))
  \/ status = "busy" /\ LastTry(c) /\ Ends(c, "busy")

\* How the body of an answer is read.
Unread(c) == Send[client].early /\ coming[c] = "busy" /\ ~LastTry(c)

Reading(c, damage) ==
  IF Unread(c) THEN Kept
  ELSE IF coming[c] = "ok" THEN Send[client].success[damage]
  ELSE Send[client].failure[damage]

Hangs(c) ==
  /\ phase' = [phase EXCEPT ![c] = "hung"]
  /\ UNCHANGED <<attempt, nap, result>>

React(c, reaction, damage) ==
  \/ reaction = "kept" /\ Answered(c, coming[c])
  \/ reaction = "again" /\ Failed(c, IF damage \in {"stalled", "drip"} THEN "late" ELSE "lost")
  \/ reaction = "raw" /\ Ends(c, "raw")
  \/ reaction = "hang" /\ Hangs(c)

Receive(c, damage) ==
  /\ phase[c] = "sent" /\ coming[c] # "none"
  /\ \E reaction \in Reading(c, damage) : React(c, reaction, damage)
  /\ coming' = [coming EXCEPT ![c] = "none"]
  /\ rough' = [rough EXCEPT ![c] = @ \/ (damage # "whole" /\ ~Unread(c))]
  /\ UNCHANGED <<setting, reaches, key, wire, server>>

\* The timeout, or a connection that breaks before the answer is there.
NoAnswer(c, cause) ==
  /\ phase[c] = "sent"
  /\ ~reaches[c] => cause = "lost"
  /\ Failed(c, cause)
  /\ coming' = [coming EXCEPT ![c] = "none"]
  /\ rough' = [rough EXCEPT ![c] = TRUE]
  /\ UNCHANGED <<setting, reaches, key, wire, server>>

\* The sleep is over: the next attempt.
Retry(c) ==
  /\ phase[c] = "asleep"
  /\ \E k \in KeyOf(c, attempt[c] + 1) : Transmit(c, attempt[c] + 1, k, reaches[c])
  /\ word' = [word EXCEPT ![c] = IF @ = "asked" /\ nap[c] = "told" THEN "waited" ELSE @]
  /\ UNCHANGED <<setting, reaches, coming, nap, result, settled, effects, rough>>

(***************************************************************************)
(* The server and what is before it (external).                            *)
(***************************************************************************)
\* An answer finds its call only while the call waits for that attempt.
Answer(r, status) ==
  coming' = IF phase[r[1]] = "sent" /\ attempt[r[1]] = r[2]
            THEN [coming EXCEPT ![r[1]] = status] ELSE coming

\* 429 or 503, with Retry-After: the server does not ask who has waited again.
Busy(r) ==
  /\ word[r[1]] # "waited"
  /\ word' = [word EXCEPT ![r[1]] = "asked"]
  /\ Answer(r, "busy")
  /\ UNCHANGED <<settled, effects, rough>>

Settle(r) ==
  /\ settled[r[3]] = "no"
  /\ \/ /\ settled' = [settled EXCEPT ![r[3]] = "ok"]
        /\ effects' = [effects EXCEPT ![r[3]] = @ + 1]
     \/ /\ settled' = [settled EXCEPT ![r[3]] = "refused"]
        /\ UNCHANGED effects
  /\ Answer(r, settled'[r[3]])
  /\ UNCHANGED <<word, rough>>

Replay(r) ==
  /\ settled[r[3]] # "no"
  /\ Answer(r, settled[r[3]])
  /\ UNCHANGED <<settled, effects, word, rough>>

\* The server settles the key, and a proxy answers 502 in its place.
Masked(r) ==
  /\ settled[r[3]] = "no"
  /\ settled' = [settled EXCEPT ![r[3]] = "ok"]
  /\ effects' = [effects EXCEPT ![r[3]] = @ + 1]
  /\ Answer(r, "busy")
  /\ rough' = [rough EXCEPT ![r[1]] = TRUE]
  /\ UNCHANGED word

Handle(r) ==
  /\ r \in wire /\ wire' = wire \ {r}
  /\ Busy(r) \/ Settle(r) \/ Replay(r) \/ Masked(r)
  /\ UNCHANGED <<setting, phase, attempt, reaches, key, nap, result>>

CallNext ==
  \/ \E c \in Calls :
       \/ Begin(c) \/ Retry(c)
       \/ \E damage \in Damages : Receive(c, damage)
       \/ \E cause \in {"late", "lost"} : NoAnswer(c, cause)
  \/ \E r \in wire : Handle(r)

CallSpec == CallInit /\ [][CallNext]_callVars

\* Timers fire and an answer is read; nothing is assumed of the server.
CallFairness ==
  \A c \in Calls :
    /\ WF_callVars(Retry(c))
    /\ WF_callVars(\/ \E damage \in Damages : Receive(c, damage)
                   \/ \E cause \in {"late", "lost"} : NoAnswer(c, cause))

-----------------------------------------------------------------------------
(***************************************************************************)
(* Properties.                                                             *)
(***************************************************************************)
\* The type invariant.
CallTypeOK ==
  /\ client \in Pool /\ form \in Forms /\ pinned \in BOOLEAN
  /\ phase \in [Calls -> {"idle", "sent", "asleep", "hung", "ended"}]
  /\ attempt \in [Calls -> Tries] /\ reaches \in [Calls -> BOOLEAN]
  /\ key \in [Calls -> Keys \cup {<<>>}]
  /\ wire \subseteq Calls \X Tries \X Keys
  /\ coming \in [Calls -> {"none", "ok", "refused", "busy"}]
  /\ nap \in [Calls -> {"told", "backoff"}]
  /\ result \in [Calls -> {"none", "ok", "refused", "busy", "timeout", "network", "raw"}]
  /\ settled \in [Keys -> {"no", "ok", "refused"}] /\ effects \in [Keys -> Nat]
  /\ word \in [Calls -> {"none", "asked", "waited"}] /\ rough \in [Calls -> BOOLEAN]

\* Whatever is retried, lost, damaged or late: a call's operation is carried out
\* at most once, and what the call is told of it is what the server settled.
Told(c) == CASE result[c] = "none" -> "nothing"
             [] result[c] \in {"ok", "refused"} -> result[c]
             [] OTHER -> "unknown"
Once == INSTANCE CallOnce WITH told <- [c \in Calls |-> Told(c)]
CallOnceSpec == Once!Spec

\* A client that reads the server's Retry-After never gives up on a server that
\* keeps its word: a call ends with 429 or 503 only if the form was not one it
\* reads, or an answer to it was lost, damaged or not the server's.
WordKept ==
  \A c \in Calls : result[c] = "busy" => form \notin Heeds[client] \/ rough[c]

\* Every call ends, however often it is retried, unless the peer keeps its
\* client waiting in the middle of a body.
CallEnds == \A c \in Calls : phase[c] = "sent" ~> phase[c] \in {"ended", "hung"}
=============================================================================
