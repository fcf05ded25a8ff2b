------------------------------- MODULE Sdk_proofs -------------------------------
(***************************************************************************)
(* Theorems about the emitted clients: their calls, the requests that they *)
(* compose and the pages that they ask for, whatever the pool of clients.  *)
(***************************************************************************)
EXTENDS SdkCall, SdkRequest, SdkPages, SequenceTheorems, TLAPS

(***************************************************************************)
(* Facts about the tables of SdkClients.                                   *)
(***************************************************************************)
\* A transport failure is never called by the name of a status.
LEMMA NamesOfFailures ==
  \A l \in Clients, cause \in {"late", "lost"} : Names[l][cause] \in {"timeout", "network"}
  BY DEF Clients, Langs, Names, TsErrors, PyErrors, GoErrors, JavaErrors, KotlinErrors,
         RustErrors, CsharpErrors, SwiftErrors, RubyErrors, PhpErrors, McpJsErrors,
         McpPyErrors, McpGoErrors

\* Of a whole answer every client keeps the text.
LEMMA WholeIsKept ==
  \A l \in Clients : Send[l].success["whole"] = Kept /\ Send[l].failure["whole"] = Kept
<1>1. \A l \in {"ts", "py", "go", "java", "kotlin"} :
        Send[l].success["whole"] = Kept /\ Send[l].failure["whole"] = Kept
  BY DEF Send, Attempt, Body, TsSend, PySend, GoSend, JavaSend, KotlinSend
<1>2. \A l \in {"rust", "csharp", "swift", "ruby", "php"} :
        Send[l].success["whole"] = Kept /\ Send[l].failure["whole"] = Kept
  BY DEF Send, Attempt, Body, RustSend, CsharpSend, SwiftSend, RubySend, PhpSend
<1>3. \A l \in {"mcpJs", "mcpPy", "mcpGo"} :
        Send[l].success["whole"] = Kept /\ Send[l].failure["whole"] = Kept
  BY DEF Send, Attempt, Body, McpJsSend, McpPySend, McpGoSend
<1> QED
  BY <1>1, <1>2, <1>3 DEF Clients, Langs

(***************************************************************************)
(* The inductive invariant.  A call has a key from its first attempt on,   *)
(* every request carries the key of its call, and an answer on its way     *)
(* says what became of that key.                                           *)
(***************************************************************************)
CallsFit ==
  \A c \in Calls :
    /\ phase[c] = "idle" <=> key[c] = <<>>
    /\ pinned /\ phase[c] # "idle" => key[c] = Shared
    /\ phase[c] = "asleep" => attempt[c] < Attempts - 1
    /\ phase[c] # "sent" => coming[c] = "none"
    /\ result[c] # "none" <=> phase[c] = "ended"
    /\ coming[c] \in {"ok", "refused"} => settled[key[c]] = coming[c]

WireFits == \A r \in wire : r[3] = key[r[1]]

ServerFits == \A k \in Keys : settled[k] = "no" => effects[k] = 0

\* Whom the server asked to wait, in a form that the client reads, is asleep for
\* it or has waited, unless an answer went wrong.
WordFits ==
  \A c \in Calls :
    form \in Heeds[client] /\ ~rough[c] =>
      /\ coming[c] = "busy" => word[c] = "asked"
      /\ phase[c] = "asleep" => nap[c] = "told" /\ word[c] = "asked"
      /\ phase[c] = "sent" /\ attempt[c] > 0 => word[c] = "waited"
      /\ result[c] # "busy"

CallInv == CallTypeOK /\ CallsFit /\ WireFits /\ ServerFits /\ WordFits

LEMMA SharedKey == Shared \in Keys /\ \A c \in Calls, n \in Tries : <<c, n>> \in Keys
  BY DEF Keys

LEMMA NoKey == <<>> \notin Keys
  BY DEF Keys, Shared

LEMMA CallInvInit == CallInit => CallInv
<1> SUFFICES ASSUME CallInit PROVE CallInv
  OBVIOUS
<1>1. CallTypeOK
  BY DEF CallInit, CallTypeOK, Tries, Attempts
<1>2. CallsFit /\ WireFits /\ ServerFits /\ WordFits
  BY DEF CallInit, CallsFit, WireFits, ServerFits, WordFits
<1> QED
  BY <1>1, <1>2 DEF CallInv

LEMMA BeginKeeps ==
  ASSUME CallInv, NEW c \in Calls, Begin(c)
  PROVE  CallInv'
<1>1. PICK k \in KeyOf(c, 0), sends \in BOOLEAN :
        /\ reaches' = [reaches EXCEPT ![c] = sends]
        /\ Transmit(c, 0, k, sends)
  BY DEF Begin, CallInv, CallTypeOK
<1>2. /\ phase[c] = "idle" /\ key[c] = <<>> /\ coming[c] = "none" /\ result[c] = "none"
      /\ UNCHANGED <<setting, coming, nap, result, server, rough>>
  BY DEF Begin, CallInv, CallsFit
<1>3. k \in Keys /\ (pinned => k = Shared) /\ k # <<>> /\ 0 \in Tries
  <2>1. 0 \in Tries
    BY DEF Tries, Attempts
  <2>2. k \in {Shared, <<c, 0>>} /\ (pinned => k = Shared)
    BY <1>1 DEF KeyOf
  <2>3. k \in Keys
    BY <2>1, <2>2, SharedKey
  <2> QED
    BY <2>1, <2>2, <2>3, NoKey
<1>4. /\ phase' = [phase EXCEPT ![c] = "sent"] /\ attempt' = [attempt EXCEPT ![c] = 0]
      /\ key' = [key EXCEPT ![c] = k]
      /\ wire' = wire \/ wire' = wire \cup {<<c, 0, k>>}
  BY <1>1 DEF Transmit
<1> USE DEF CallInv, setting, server
<1>5. CallTypeOK'
  BY <1>1, <1>2, <1>3, <1>4 DEF CallTypeOK
<1>6. CallsFit'
  BY <1>2, <1>3, <1>4 DEF CallTypeOK, CallsFit
<1>7. WireFits'
  <2>1. \A r \in wire : r[1] # c
    BY <1>2, NoKey DEF WireFits, CallTypeOK
  <2> QED
    BY <1>4, <2>1 DEF WireFits, CallTypeOK
<1>8. ServerFits' /\ WordFits'
  BY <1>2, <1>4 DEF ServerFits, WordFits, CallTypeOK
<1> QED
  BY <1>5, <1>6, <1>7, <1>8

LEMMA RetryKeeps ==
  ASSUME CallInv, NEW c \in Calls, Retry(c)
  PROVE  CallInv' /\ key' = key
<1> DEFINE n == attempt[c] + 1
<1>1. PICK k \in KeyOf(c, n) : Transmit(c, n, k, reaches[c])
  BY DEF Retry
<1>2. /\ phase[c] = "asleep" /\ key[c] # <<>> /\ coming[c] = "none" /\ result[c] = "none"
      /\ n \in Tries /\ n > 0
      /\ UNCHANGED <<setting, reaches, coming, nap, result, settled, effects, rough>>
  <2>1. /\ phase[c] = "asleep"
        /\ UNCHANGED <<setting, reaches, coming, nap, result, settled, effects, rough>>
    BY DEF Retry
  <2>2. key[c] # <<>> /\ coming[c] = "none" /\ result[c] = "none" /\ attempt[c] < Attempts - 1
    BY <2>1 DEF CallInv, CallsFit
  <2>3. attempt[c] \in 0 .. Attempts - 1
    BY DEF CallInv, CallTypeOK, Tries
  <2>4. n \in Tries /\ n > 0
    BY <2>2, <2>3 DEF Tries, Attempts
  <2> QED
    BY <2>1, <2>2, <2>4
<1>3. k = key[c] /\ k \in Keys
  BY <1>1, <1>2 DEF KeyOf, CallInv, CallsFit, CallTypeOK
<1>4. /\ phase' = [phase EXCEPT ![c] = "sent"] /\ attempt' = [attempt EXCEPT ![c] = n]
      /\ key' = key
      /\ wire' = wire \/ wire' = wire \cup {<<c, n, k>>}
  BY <1>1, <1>3 DEF Transmit, CallInv, CallTypeOK
<1>5. word' = [word EXCEPT ![c] = IF word[c] = "asked" /\ nap[c] = "told" THEN "waited" ELSE word[c]]
  BY DEF Retry, CallInv, CallTypeOK
<1> HIDE DEF n
<1> USE DEF CallInv, setting
<1>6. CallTypeOK'
  BY <1>2, <1>3, <1>4, <1>5 DEF CallTypeOK
<1>7. CallsFit' /\ ServerFits'
  BY <1>2, <1>3, <1>4 DEF CallTypeOK, CallsFit, ServerFits
<1>8. WireFits'
  BY <1>3, <1>4 DEF WireFits, CallTypeOK
<1>9. WordFits'
  BY <1>2, <1>4, <1>5 DEF WordFits, CallTypeOK
<1> QED
  BY <1>4, <1>6, <1>7, <1>8, <1>9

(***************************************************************************)
(* What may come of an attempt: the call ends, sleeps or hangs, and the    *)
(* server and the wire know nothing of it.                                 *)
(***************************************************************************)
EndsSo(c, how) ==
  /\ phase' = [phase EXCEPT ![c] = "ended"] /\ result' = [result EXCEPT ![c] = how]
  /\ nap' = nap
  /\ how \in {"ok", "refused"} => how = coming[c]
  /\ how = "busy" /\ ~rough'[c] => coming[c] = "busy" /\ LastTry(c)

SleepsSo(c, why) ==
  /\ phase' = [phase EXCEPT ![c] = "asleep"] /\ nap' = [nap EXCEPT ![c] = why]
  /\ result' = result /\ ~LastTry(c)
  /\ ~rough'[c] => coming[c] = "busy" /\ why = Nap(c)

HangsSo(c) ==
  /\ phase' = [phase EXCEPT ![c] = "hung"] /\ UNCHANGED <<nap, result>>

AttemptOver(c) ==
  /\ phase[c] = "sent" /\ coming' = [coming EXCEPT ![c] = "none"]
  /\ UNCHANGED <<setting, attempt, reaches, key, wire, server>>
  /\ \E b \in BOOLEAN : rough' = [rough EXCEPT ![c] = b] /\ (rough[c] => b)
  /\ \/ \E how \in {"ok", "refused", "busy", "timeout", "network", "raw"} : EndsSo(c, how)
     \/ \E why \in {"told", "backoff"} : SleepsSo(c, why)
     \/ HangsSo(c)

\* fetch threw: never a status.
LEMMA FailedSo ==
  ASSUME CallInv, NEW c \in Calls, NEW cause \in {"late", "lost"}, Failed(c, cause), rough'[c]
  PROVE  /\ UNCHANGED attempt
         /\ \/ \E how \in {"timeout", "network"} : EndsSo(c, how)
            \/ SleepsSo(c, "backoff")
<1>1. Names[client][cause] \in {"timeout", "network"}
  BY NamesOfFailures, PoolAssumption DEF CallInv, CallTypeOK
<1>2. CASE LastTry(c) /\ Ends(c, Names[client][cause])
  BY <1>1, <1>2 DEF Ends, EndsSo
<1>3. CASE ~LastTry(c) /\ Retries(c, "backoff")
  BY <1>3 DEF Retries, SleepsSo
<1> QED
  BY <1>2, <1>3 DEF Failed

LEMMA NoAnswerOver ==
  ASSUME CallInv, NEW c \in Calls, NEW cause \in {"late", "lost"}, NoAnswer(c, cause)
  PROVE  AttemptOver(c)
<1>1. rough' = [rough EXCEPT ![c] = TRUE] /\ rough'[c]
  BY DEF NoAnswer, CallInv, CallTypeOK
<1>2. Failed(c, cause)
  BY DEF NoAnswer
<1>3. /\ UNCHANGED attempt
      /\ \/ \E how \in {"timeout", "network"} : EndsSo(c, how)
         \/ SleepsSo(c, "backoff")
  BY <1>1, <1>2, FailedSo
<1> QED
  BY <1>1, <1>3 DEF NoAnswer, AttemptOver

LEMMA ReceiveOver ==
  ASSUME CallInv, NEW c \in Calls, NEW damage \in Damages, Receive(c, damage)
  PROVE  AttemptOver(c)
<1>1. PICK reaction \in Reading(c, damage) : React(c, reaction, damage)
  BY DEF Receive
<1>2. /\ phase[c] = "sent" /\ coming[c] # "none"
      /\ coming' = [coming EXCEPT ![c] = "none"]
      /\ rough' = [rough EXCEPT ![c] = rough[c] \/ (damage # "whole" /\ ~Unread(c))]
      /\ UNCHANGED <<setting, reaches, key, wire, server>>
  BY DEF Receive
<1>3. rough[c] \in BOOLEAN /\ (rough'[c] <=> rough[c] \/ (damage # "whole" /\ ~Unread(c)))
  BY <1>2 DEF CallInv, CallTypeOK
<1>4. \E b \in BOOLEAN : rough' = [rough EXCEPT ![c] = b] /\ (rough[c] => b)
  BY <1>2, <1>3
<1>5. Unread(c) \/ damage = "whole" => reaction = "kept"
  BY <1>1, WholeIsKept, PoolAssumption DEF Reading, Kept, CallInv, CallTypeOK
<1>6. CASE reaction = "kept" /\ Answered(c, coming[c])
  <2>1. CASE coming[c] \in {"ok", "refused"} /\ Ends(c, coming[c])
    <3>1. EndsSo(c, coming[c]) /\ UNCHANGED attempt
      BY <2>1 DEF Ends, EndsSo
    <3> QED
      BY <1>2, <1>4, <2>1, <3>1 DEF AttemptOver
  <2>2. CASE coming[c] = "busy" /\ ~LastTry(c) /\ Retries(c, Nap(c))
    <3>1. SleepsSo(c, Nap(c)) /\ UNCHANGED attempt /\ Nap(c) \in {"told", "backoff"}
      BY <2>2 DEF Retries, SleepsSo, Nap
    <3> QED
      BY <1>2, <1>4, <3>1 DEF AttemptOver
  <2>3. CASE coming[c] = "busy" /\ LastTry(c) /\ Ends(c, "busy")
    <3>1. EndsSo(c, "busy") /\ UNCHANGED attempt
      BY <2>3 DEF Ends, EndsSo
    <3> QED
      BY <1>2, <1>4, <3>1 DEF AttemptOver
  <2> QED
    BY <1>6, <2>1, <2>2, <2>3 DEF Answered
<1>7. CASE reaction = "again" /\ Failed(c, IF damage \in {"stalled", "drip"} THEN "late" ELSE "lost")
  <2> DEFINE cause == IF damage \in {"stalled", "drip"} THEN "late" ELSE "lost"
  <2>1. cause \in {"late", "lost"} /\ Failed(c, cause) /\ rough'[c]
    BY <1>3, <1>5, <1>7
  <2>2. /\ UNCHANGED attempt
        /\ \/ \E how \in {"timeout", "network"} : EndsSo(c, how)
           \/ SleepsSo(c, "backoff")
    <3> HIDE DEF cause
    <3> QED
      BY <2>1, FailedSo
  <2> QED
    BY <1>2, <1>4, <2>2 DEF AttemptOver
<1>8. CASE reaction = "raw" /\ Ends(c, "raw")
  <2>1. EndsSo(c, "raw") /\ UNCHANGED attempt
    BY <1>8 DEF Ends, EndsSo
  <2> QED
    BY <1>2, <1>4, <2>1 DEF AttemptOver
<1>9. CASE reaction = "hang" /\ Hangs(c)
  <2>1. HangsSo(c) /\ UNCHANGED attempt
    BY <1>9 DEF Hangs, HangsSo
  <2> QED
    BY <1>2, <1>4, <2>1 DEF AttemptOver
<1> QED
  BY <1>1, <1>6, <1>7, <1>8, <1>9 DEF React

LEMMA OverKeeps ==
  ASSUME CallInv, NEW c \in Calls, AttemptOver(c)
  PROVE  CallInv'
<1>1. /\ phase[c] = "sent" /\ coming' = [coming EXCEPT ![c] = "none"]
      /\ UNCHANGED <<setting, attempt, reaches, key, wire, server>>
  BY DEF AttemptOver
<1>2. PICK b \in BOOLEAN : rough' = [rough EXCEPT ![c] = b] /\ (rough[c] => b)
  BY DEF AttemptOver
<1> USE DEF CallInv, setting, server
<1>3. ServerFits' /\ WireFits'
  BY <1>1 DEF ServerFits, WireFits
<1>4. ASSUME NEW how \in {"ok", "refused", "busy", "timeout", "network", "raw"}, EndsSo(c, how)
      PROVE  CallTypeOK' /\ CallsFit' /\ WordFits'
  <2>1. CallTypeOK'
    BY <1>1, <1>2, <1>4 DEF EndsSo, CallTypeOK
  <2>2. CallsFit'
    BY <1>1, <1>4 DEF EndsSo, CallTypeOK, CallsFit
  <2>3. form \in Heeds[client] /\ ~rough'[c] => how # "busy"
    <3>1. LastTry(c) => attempt[c] > 0
      BY DEF LastTry, Attempts
    <3> QED
      BY <1>1, <1>2, <1>4, <3>1 DEF EndsSo, WordFits, CallTypeOK
  <2>4. WordFits'
    BY <1>1, <1>2, <1>4, <2>3 DEF EndsSo, WordFits, CallTypeOK
  <2> QED
    BY <2>1, <2>2, <2>4
<1>5. ASSUME NEW why \in {"told", "backoff"}, SleepsSo(c, why)
      PROVE  CallTypeOK' /\ CallsFit' /\ WordFits'
  <2>1. CallTypeOK'
    BY <1>1, <1>2, <1>5 DEF SleepsSo, CallTypeOK
  <2>2. attempt[c] < Attempts - 1
    <3>1. attempt[c] \in 0 .. Attempts - 1 /\ attempt[c] # Attempts - 1
      BY <1>5 DEF SleepsSo, LastTry, CallTypeOK, Tries
    <3> QED
      BY <3>1 DEF Attempts
  <2>3. CallsFit'
    BY <1>1, <1>5, <2>2 DEF SleepsSo, CallTypeOK, CallsFit
  <2>4. form \in Heeds[client] /\ ~rough'[c] => why = "told" /\ word[c] = "asked"
    BY <1>1, <1>2, <1>5 DEF SleepsSo, Nap, WordFits, CallTypeOK
  <2>5. WordFits'
    BY <1>1, <1>2, <1>5, <2>4 DEF SleepsSo, WordFits, CallTypeOK
  <2> QED
    BY <2>1, <2>3, <2>5
<1>6. ASSUME HangsSo(c)
      PROVE  CallTypeOK' /\ CallsFit' /\ WordFits'
  <2>1. CallTypeOK'
    BY <1>1, <1>2, <1>6 DEF HangsSo, CallTypeOK
  <2>2. CallsFit'
    BY <1>1, <1>6 DEF HangsSo, CallTypeOK, CallsFit
  <2>3. WordFits'
    BY <1>1, <1>2, <1>6 DEF HangsSo, WordFits, CallTypeOK
  <2> QED
    BY <2>1, <2>2, <2>3
<1> QED
  BY <1>3, <1>4, <1>5, <1>6 DEF AttemptOver

(***************************************************************************)
(* The server: it settles a key once, and its answer finds the call that   *)
(* waits for it.                                                           *)
(***************************************************************************)
SettlesSo(k, what) ==
  /\ settled[k] = "no" /\ settled' = [settled EXCEPT ![k] = what]
  /\ effects' = IF what = "ok" THEN [effects EXCEPT ![k] = 1] ELSE effects

AnswersSo(c, status) ==
  \/ coming' = coming
  \/ phase[c] = "sent" /\ coming' = [coming EXCEPT ![c] = status]

\* How a request is handled: the key is settled, or was, or stays unsettled.
HandledSo(c, k) ==
  \/ /\ UNCHANGED <<settled, effects, rough>>
     /\ word[c] # "waited" /\ word' = [word EXCEPT ![c] = "asked"] /\ AnswersSo(c, "busy")
  \/ \E what \in {"ok", "refused"} :
       /\ SettlesSo(k, what) /\ UNCHANGED word
       /\ \/ AnswersSo(c, what) /\ UNCHANGED rough
          \/ AnswersSo(c, "busy") /\ rough' = [rough EXCEPT ![c] = TRUE]
  \/ settled[k] # "no" /\ AnswersSo(c, settled[k]) /\ UNCHANGED <<settled, effects, word, rough>>

LEMMA AnswerSo ==
  ASSUME NEW r, NEW status, Answer(r, status)
  PROVE  AnswersSo(r[1], status)
  BY DEF Answer, AnswersSo

LEMMA HandleSo ==
  ASSUME CallInv, NEW r \in wire, Handle(r)
  PROVE  /\ HandledSo(r[1], r[3]) /\ r[1] \in Calls /\ r[3] \in Keys /\ r[3] = key[r[1]]
         /\ UNCHANGED <<setting, phase, attempt, reaches, key, nap, result>>
         /\ wire' = wire \ {r}
<1> DEFINE c == r[1]
           k == r[3]
<1>1. c \in Calls /\ k \in Keys /\ k = key[c]
  BY DEF CallInv, CallTypeOK, WireFits
<1>2. /\ effects \in [Keys -> Nat] /\ (settled[k] = "no" => effects[k] = 0)
      /\ settled \in [Keys -> {"no", "ok", "refused"}]
  BY <1>1 DEF CallInv, CallTypeOK, ServerFits
<1>3. CASE Busy(r)
  <2>1. HandledSo(c, k)
    BY <1>3, AnswerSo DEF Busy, HandledSo
  <2> QED
    BY <1>1, <2>1 DEF Handle
<1>4. CASE Settle(r)
  <2>1. settled[k] = "no" /\ AnswersSo(c, settled'[k]) /\ UNCHANGED <<word, rough>>
    BY <1>4, AnswerSo DEF Settle
  <2>2. PICK what \in {"ok", "refused"} :
          /\ settled' = [settled EXCEPT ![k] = what]
          /\ effects' = IF what = "ok" THEN [effects EXCEPT ![k] = effects[k] + 1] ELSE effects
    BY <1>4 DEF Settle
  <2> HIDE DEF c, k
  <2>3. SettlesSo(k, what) /\ settled'[k] = what
    <3>1. effects[k] + 1 = 1
      BY <1>2, <2>1
    <3>2. effects' = IF what = "ok" THEN [effects EXCEPT ![k] = 1] ELSE effects
      BY <2>2, <3>1, Zenon
    <3>3. settled'[k] = what
      BY <1>1, <1>2, <2>2
    <3> QED
      BY <2>1, <2>2, <3>2, <3>3 DEF SettlesSo
  <2>4. HandledSo(c, k)
    BY <2>1, <2>3 DEF HandledSo
  <2> USE DEF c, k
  <2> QED
    BY <1>1, <2>4 DEF Handle
<1>5. CASE Replay(r)
  <2>1. HandledSo(c, k)
    BY <1>5, AnswerSo DEF Replay, HandledSo
  <2> QED
    BY <1>1, <2>1 DEF Handle
<1>6. CASE Masked(r)
  <2>1. /\ settled[k] = "no" /\ settled' = [settled EXCEPT ![k] = "ok"]
        /\ effects' = [effects EXCEPT ![k] = effects[k] + 1]
        /\ AnswersSo(c, "busy") /\ rough' = [rough EXCEPT ![c] = TRUE] /\ UNCHANGED word
    BY <1>6, AnswerSo DEF Masked
  <2> HIDE DEF c, k
  <2>2. SettlesSo(k, "ok")
    <3>1. effects[k] + 1 = 1
      BY <1>2, <2>1
    <3>2. effects' = [effects EXCEPT ![k] = 1]
      BY <2>1, <3>1, Zenon
    <3> QED
      BY <2>1, <3>2 DEF SettlesSo
  <2>3. HandledSo(c, k)
    BY <2>1, <2>2 DEF HandledSo
  <2> USE DEF c, k
  <2> QED
    BY <1>1, <2>3 DEF Handle
<1> QED
  BY <1>3, <1>4, <1>5, <1>6 DEF Handle

LEMMA HandleKeeps ==
  ASSUME CallInv, NEW r \in wire, Handle(r)
  PROVE  CallInv'
<1> DEFINE c == r[1]
           k == r[3]
<1>1. /\ HandledSo(c, k) /\ c \in Calls /\ k \in Keys /\ k = key[c]
      /\ UNCHANGED <<setting, phase, attempt, reaches, key, nap, result>>
      /\ wire' = wire \ {r}
  BY HandleSo
<1>2. /\ \/ UNCHANGED <<settled, effects>>
         \/ \E what \in {"ok", "refused"} : SettlesSo(k, what)
      /\ \/ UNCHANGED word
         \/ word[c] # "waited" /\ word' = [word EXCEPT ![c] = "asked"]
      /\ UNCHANGED rough \/ rough' = [rough EXCEPT ![c] = TRUE]
      /\ \E status \in {"ok", "refused", "busy"} :
           /\ AnswersSo(c, status)
           /\ status # "busy" => settled'[k] = status
           /\ status = "busy" /\ ~rough'[c] => word[c] # "waited" /\ word'[c] = "asked"
  <2>1. CASE /\ UNCHANGED <<settled, effects, rough>>
             /\ word[c] # "waited" /\ word' = [word EXCEPT ![c] = "asked"] /\ AnswersSo(c, "busy")
    BY <1>1, <2>1 DEF CallInv, CallTypeOK
  <2>2. ASSUME NEW what \in {"ok", "refused"}, SettlesSo(k, what), UNCHANGED word,
               \/ AnswersSo(c, what) /\ UNCHANGED rough
               \/ AnswersSo(c, "busy") /\ rough' = [rough EXCEPT ![c] = TRUE]
        PROVE  <1>2!:
    <3>1. settled'[k] = what
      BY <1>1, <2>2 DEF SettlesSo, CallInv, CallTypeOK
    <3>2. rough' = [rough EXCEPT ![c] = TRUE] => rough'[c]
      BY <1>1 DEF CallInv, CallTypeOK
    <3>3. CASE AnswersSo(c, what) /\ UNCHANGED rough
      BY <2>2, <3>1, <3>3
    <3>4. CASE AnswersSo(c, "busy") /\ rough' = [rough EXCEPT ![c] = TRUE]
      BY <2>2, <3>2, <3>4
    <3> QED
      BY <2>2, <3>3, <3>4
  <2>3. CASE settled[k] # "no" /\ AnswersSo(c, settled[k]) /\ UNCHANGED <<settled, effects, word, rough>>
    <3>1. settled[k] \in {"ok", "refused"}
      BY <1>1, <2>3 DEF CallInv, CallTypeOK
    <3> QED
      BY <2>3, <3>1
  <2> QED
    BY <1>1, <2>1, <2>2, <2>3 DEF HandledSo
<1> HIDE DEF c, k
<1>3. PICK status \in {"ok", "refused", "busy"} :
        /\ AnswersSo(c, status)
        /\ status # "busy" => settled'[k] = status
        /\ status = "busy" /\ ~rough'[c] => word[c] # "waited" /\ word'[c] = "asked"
  BY <1>2
<1> USE DEF CallInv, setting
<1>4. settled' \in [Keys -> {"no", "ok", "refused"}] /\ effects' \in [Keys -> Nat] /\ ServerFits'
  <2>1. CASE UNCHANGED <<settled, effects>>
    BY <2>1 DEF CallTypeOK, ServerFits
  <2>2. ASSUME NEW what \in {"ok", "refused"}, SettlesSo(k, what)
        PROVE  <1>4!:
    <3>1. settled' \in [Keys -> {"no", "ok", "refused"}] /\ effects' \in [Keys -> Nat]
      BY <1>1, <2>2 DEF SettlesSo, CallTypeOK
    <3>2. settled'[k] # "no"
      BY <1>1, <2>2 DEF SettlesSo, CallTypeOK
    <3>3. \A q \in Keys \ {k} : settled'[q] = settled[q] /\ effects'[q] = effects[q]
      BY <1>1, <2>2 DEF SettlesSo, CallTypeOK
    <3> QED
      BY <3>1, <3>2, <3>3 DEF ServerFits
  <2> QED
    BY <1>2, <2>1, <2>2
<1>5. CallTypeOK'
  <2>1. coming' \in [Calls -> {"none", "ok", "refused", "busy"}]
    BY <1>1, <1>3 DEF AnswersSo, CallTypeOK
  <2>2. word' \in [Calls -> {"none", "asked", "waited"}]
    <3>1. UNCHANGED word \/ word' = [word EXCEPT ![c] = "asked"]
      BY <1>2
    <3> QED
      BY <1>1, <3>1 DEF CallTypeOK
  <2>3. rough' \in [Calls -> BOOLEAN]
    <3>1. UNCHANGED rough \/ rough' = [rough EXCEPT ![c] = TRUE]
      BY <1>2
    <3> QED
      BY <1>1, <3>1 DEF CallTypeOK
  <2>4. wire' \subseteq Calls \X Tries \X Keys
    BY <1>1 DEF CallTypeOK
  <2> QED
    BY <1>1, <1>4, <2>1, <2>2, <2>3, <2>4 DEF CallTypeOK
<1>6. \A q \in Keys : settled[q] # "no" => settled'[q] = settled[q]
  BY <1>2 DEF SettlesSo, CallTypeOK
<1>7. CallsFit'
  <2> SUFFICES ASSUME NEW d \in Calls, coming'[d] \in {"ok", "refused"}
               PROVE  settled'[key[d]] = coming'[d]
    BY <1>1, <1>3 DEF AnswersSo, CallsFit, CallTypeOK
  <2>1. CASE coming'[d] = coming[d]
    <3>1. key[d] \in Keys
      <4>1. coming[d] # "none"
        BY <2>1
      <4>2. phase[d] = "sent" /\ key[d] # <<>>
        BY <4>1 DEF CallsFit
      <4>3. key[d] \in Keys \cup {<<>>}
        BY DEF CallTypeOK
      <4> QED
        BY <4>2, <4>3
    <3> QED
      BY <1>6, <2>1, <3>1 DEF CallsFit
  <2>2. CASE coming'[d] # coming[d]
    BY <1>1, <1>3, <2>2 DEF AnswersSo, CallTypeOK
  <2> QED
    BY <2>1, <2>2
<1>8. WireFits'
  BY <1>1 DEF WireFits
<1>9. WordFits'
  <2> SUFFICES ASSUME NEW d \in Calls, form \in Heeds[client], ~rough'[d]
               PROVE  /\ coming'[d] = "busy" => word'[d] = "asked"
                      /\ phase[d] = "asleep" => nap[d] = "told" /\ word'[d] = "asked"
                      /\ phase[d] = "sent" /\ attempt[d] > 0 => word'[d] = "waited"
                      /\ result[d] # "busy"
    BY <1>1 DEF WordFits
  <2>1. /\ coming[d] = "busy" => word[d] = "asked"
        /\ phase[d] = "asleep" => nap[d] = "told" /\ word[d] = "asked"
        /\ phase[d] = "sent" /\ attempt[d] > 0 => word[d] = "waited"
        /\ result[d] # "busy"
    <3>1. ~rough[d]
      BY <1>1, <1>2 DEF CallTypeOK
    <3> QED
      BY <3>1 DEF WordFits
  <2>2. word'[d] = word[d] \/ (d = c /\ word[d] # "waited" /\ word'[d] = "asked")
    BY <1>1, <1>2 DEF CallTypeOK
  <2>3. \/ coming'[d] = coming[d]
        \/ d = c /\ coming'[d] = status
    BY <1>1, <1>3 DEF AnswersSo, CallTypeOK
  <2> QED
    BY <1>3, <2>1, <2>2, <2>3
<1> QED
  BY <1>4, <1>5, <1>7, <1>8, <1>9

LEMMA CallInvStep == CallInv /\ [CallNext]_callVars => CallInv'
<1> SUFFICES ASSUME CallInv, [CallNext]_callVars PROVE CallInv'
  OBVIOUS
<1>1. CASE UNCHANGED callVars
  BY <1>1 DEF callVars, setting, server, CallInv, CallTypeOK, CallsFit, WireFits, ServerFits, WordFits
<1>2. ASSUME NEW c \in Calls, Begin(c) PROVE CallInv'
  BY <1>2, BeginKeeps
<1>3. ASSUME NEW c \in Calls, Retry(c) PROVE CallInv'
  BY <1>3, RetryKeeps
<1>4. ASSUME NEW c \in Calls, NEW damage \in Damages, Receive(c, damage) PROVE CallInv'
  BY <1>4, ReceiveOver, OverKeeps
<1>5. ASSUME NEW c \in Calls, NEW cause \in {"late", "lost"}, NoAnswer(c, cause) PROVE CallInv'
  BY <1>5, NoAnswerOver, OverKeeps
<1>6. ASSUME NEW r \in wire, Handle(r) PROVE CallInv'
  BY <1>6, HandleKeeps
<1> QED
  BY <1>1, <1>2, <1>3, <1>4, <1>5, <1>6 DEF CallNext

LEMMA CallInvHolds == CallSpec => []CallInv
  BY CallInvInit, CallInvStep, PTL DEF CallSpec

\* Every variable of a call keeps to its values, for every pool of clients.
THEOREM CallTypes == CallSpec => []CallTypeOK
<1>1. CallInv => CallTypeOK
  BY DEF CallInv
<1> QED
  BY <1>1, CallInvHolds, PTL

\* No client of the pool gives up on a server that keeps its word: a call that
\* ends with 429 or 503 met a form it does not read, or an answer went wrong.
THEOREM ServerWordKept == CallSpec => []WordKept
<1>1. CallInv => WordKept
  BY DEF CallInv, WordFits, WordKept
<1> QED
  BY <1>1, CallInvHolds, PTL

(***************************************************************************)
(* How far a call is: it is sent or asleep on each of its attempts once.   *)
(***************************************************************************)
Progress(c) ==
  CASE phase[c] = "idle"             -> 0
    [] phase[c] = "sent"             -> 2 * attempt[c] + 1
    [] phase[c] = "asleep"           -> 2 * attempt[c] + 2
    [] phase[c] \in {"hung", "ended"} -> 2 * Attempts

Advances(c) ==
  phase'[c] # phase[c] \/ attempt'[c] # attempt[c] => Progress(c)' > Progress(c) /\ Progress(c)' <= 2 * Attempts
CallsAdvance == [][\A c \in Calls : Advances(c)]_callVars

LEMMA ProgressOf ==
  ASSUME CallInv, NEW c \in Calls
  PROVE  /\ attempt[c] \in 0 .. 2 /\ Attempts = 3
         /\ phase[c] = "idle" => Progress(c) = 0
         /\ phase[c] = "sent" => Progress(c) = 2 * attempt[c] + 1
         /\ phase[c] = "asleep" => Progress(c) = 2 * attempt[c] + 2 /\ attempt[c] < 2
         /\ phase[c] \in {"hung", "ended"} => Progress(c) = 6
<1>1. attempt[c] \in 0 .. 2 /\ Attempts = 3 /\ (phase[c] = "asleep" => attempt[c] < 2)
  BY DEF CallInv, CallTypeOK, CallsFit, Tries, Attempts
<1> QED
  BY <1>1 DEF Progress

LEMMA CallAdvances == CallInv /\ CallInv' /\ [CallNext]_callVars => \A c \in Calls : Advances(c)
<1> SUFFICES ASSUME CallInv, CallInv', [CallNext]_callVars, NEW c \in Calls PROVE Advances(c)
  OBVIOUS
<1>a. /\ attempt[c] \in 0 .. 2 /\ Attempts = 3
      /\ phase[c] = "idle" => Progress(c) = 0
      /\ phase[c] = "sent" => Progress(c) = 2 * attempt[c] + 1
      /\ phase[c] = "asleep" => Progress(c) = 2 * attempt[c] + 2 /\ attempt[c] < 2
  BY ProgressOf
<1>b. /\ attempt'[c] \in 0 .. 2
      /\ phase'[c] = "sent" => Progress(c)' = 2 * attempt'[c] + 1
      /\ phase'[c] = "asleep" => Progress(c)' = 2 * attempt'[c] + 2 /\ attempt'[c] < 2
      /\ phase'[c] \in {"hung", "ended"} => Progress(c)' = 6
  <2>1. /\ attempt'[c] \in 0 .. 2 /\ Attempts = 3
        /\ phase'[c] = "asleep" => attempt'[c] < 2
    BY DEF CallInv, CallTypeOK, CallsFit, Tries, Attempts
  <2> QED
    BY <2>1 DEF Progress
<1>1. CASE UNCHANGED <<phase, attempt>>
  BY <1>1 DEF Advances
<1>2. ASSUME NEW d \in Calls, NEW n, NEW k, NEW sends, Transmit(d, n, k, sends), d # c PROVE Advances(c)
  BY <1>2 DEF Transmit, Advances, CallInv, CallTypeOK
<1>3. ASSUME NEW n, NEW k, NEW sends, Transmit(c, n, k, sends) PROVE phase'[c] = "sent" /\ attempt'[c] = n
  BY <1>3 DEF Transmit, CallInv, CallTypeOK
<1>4. ASSUME NEW d \in Calls, Begin(d) PROVE Advances(c)
  <2>1. PICK k, sends : Transmit(d, 0, k, sends)
    BY <1>4 DEF Begin
  <2>2. CASE d = c
    BY <1>3, <1>4, <1>a, <1>b, <2>1, <2>2 DEF Begin, Advances
  <2> QED
    BY <1>2, <2>1, <2>2
<1>5. ASSUME NEW d \in Calls, Retry(d) PROVE Advances(c)
  <2>1. PICK k : Transmit(d, attempt[d] + 1, k, reaches[d])
    BY <1>5 DEF Retry
  <2>2. CASE d = c
    BY <1>3, <1>5, <1>a, <1>b, <2>1, <2>2 DEF Retry, Advances
  <2> QED
    BY <1>2, <2>1, <2>2
<1>6. ASSUME NEW d \in Calls, AttemptOver(d) PROVE Advances(c)
  <2>1. /\ attempt' = attempt /\ phase[d] = "sent"
        /\ \/ phase' = [phase EXCEPT ![d] = "ended"]
           \/ phase' = [phase EXCEPT ![d] = "asleep"]
           \/ phase' = [phase EXCEPT ![d] = "hung"]
    BY <1>6 DEF AttemptOver, EndsSo, SleepsSo, HangsSo
  <2>2. CASE d = c
    <3>1. phase'[c] \in {"ended", "asleep", "hung"}
      BY <2>1, <2>2 DEF CallInv, CallTypeOK
    <3> QED
      BY <1>a, <1>b, <2>1, <2>2, <3>1 DEF Advances
  <2>3. CASE d # c
    BY <1>1, <2>1, <2>3 DEF Advances, CallInv, CallTypeOK
  <2> QED
    BY <2>2, <2>3
<1>7. ASSUME NEW d \in Calls, NEW damage \in Damages, Receive(d, damage) PROVE Advances(c)
  BY <1>6, <1>7, ReceiveOver
<1>8. ASSUME NEW d \in Calls, NEW cause \in {"late", "lost"}, NoAnswer(d, cause) PROVE Advances(c)
  BY <1>6, <1>8, NoAnswerOver
<1>9. ASSUME NEW r \in wire, Handle(r) PROVE Advances(c)
  BY <1>1, <1>9 DEF Handle
<1>10. CASE UNCHANGED callVars
  BY <1>1, <1>10 DEF callVars
<1> QED
  BY <1>4, <1>5, <1>7, <1>8, <1>9, <1>10 DEF CallNext

\* Whatever the server and the network do, a call goes through at most three
\* attempts and two sleeps and never comes back to one: it cannot go on for ever.
THEOREM CallsGoForward == CallSpec => CallsAdvance
<1>1. CallInv /\ CallInv' /\ [CallNext]_callVars => [\A c \in Calls : Advances(c)]_callVars
  BY CallAdvances
<1> QED
  BY <1>1, CallInvHolds, PTL DEF CallSpec, CallsAdvance

(***************************************************************************)
(* The refinement of CallOnce, step by step.                               *)
(***************************************************************************)
LEMMA InitImplements == CallInit => Once!Init
  BY DEF CallInit, Once!Init, Told

LEMMA BeginImplements ==
  ASSUME CallInv, NEW c \in Calls, Begin(c)
  PROVE  \E k \in Keys : Once!Name(c, k)
<1>1. PICK k \in KeyOf(c, 0), sends \in BOOLEAN : Transmit(c, 0, k, sends)
  BY DEF Begin, CallInv, CallTypeOK
<1>2. key[c] = <<>> /\ key' = [key EXCEPT ![c] = k] /\ UNCHANGED <<result, settled, effects>>
  BY <1>1 DEF Begin, Transmit, server, CallInv, CallsFit
<1>3. k \in Keys
  <2>1. 0 \in Tries
    BY DEF Tries, Attempts
  <2>2. k \in {Shared, <<c, 0>>}
    BY <1>1 DEF KeyOf
  <2> QED
    BY <2>1, <2>2, SharedKey
<1>4. Once!Name(c, k)
  BY <1>2 DEF Once!Name, Told
<1> QED
  BY <1>3, <1>4

LEMMA OverImplements ==
  ASSUME CallInv, NEW c \in Calls, AttemptOver(c)
  PROVE  \/ UNCHANGED Once!vars
         \/ \E what \in {"ok", "refused", "unknown"} : Once!Tell(c, what)
<1>1. phase[c] = "sent" /\ UNCHANGED <<key, settled, effects>>
  BY DEF AttemptOver, server
<1>2. CASE UNCHANGED result
  BY <1>1, <1>2 DEF Once!vars, Told
<1>3. ASSUME NEW how \in {"ok", "refused", "busy", "timeout", "network", "raw"}, EndsSo(c, how)
      PROVE  \E what \in {"ok", "refused", "unknown"} : Once!Tell(c, what)
  <2> DEFINE what == IF how \in {"ok", "refused"} THEN how ELSE "unknown"
  <2>1. result' = [result EXCEPT ![c] = how] /\ (how \in {"ok", "refused"} => how = coming[c])
    BY <1>3 DEF EndsSo
  <2>2. result[c] = "none" /\ key[c] # <<>> /\ DOMAIN result = Calls
        /\ (coming[c] \in {"ok", "refused"} => settled[key[c]] = coming[c])
    BY <1>1 DEF CallInv, CallTypeOK, CallsFit
  <2>3. Told(c) = "nothing" /\ [d \in Calls |-> Told(d)]' = [[d \in Calls |-> Told(d)] EXCEPT ![c] = what]
    BY <2>1, <2>2 DEF Told
  <2>4. what \in {settled[key[c]], "unknown"} \ {"no"} /\ what \in {"ok", "refused", "unknown"}
    BY <2>1, <2>2
  <2> HIDE DEF what
  <2>5. Once!Tell(c, what)
    BY <1>1, <2>2, <2>3, <2>4 DEF Once!Tell
  <2> QED
    BY <2>4, <2>5
<1> QED
  BY <1>2, <1>3 DEF AttemptOver, SleepsSo, HangsSo

LEMMA HandleImplements ==
  ASSUME CallInv, NEW r \in wire, Handle(r)
  PROVE  \/ UNCHANGED Once!vars
         \/ \E k \in Keys : Once!CarryOut(k) \/ Once!Refuse(k)
<1>1. /\ HandledSo(r[1], r[3]) /\ r[3] \in Keys /\ UNCHANGED <<key, result>>
  BY HandleSo
<1>2. CASE UNCHANGED <<settled, effects>>
  BY <1>1, <1>2 DEF Once!vars, Told
<1>3. CASE SettlesSo(r[3], "ok")
  <2>1. Once!CarryOut(r[3])
    BY <1>1, <1>3 DEF SettlesSo, Once!CarryOut, Told
  <2> QED
    BY <1>1, <2>1
<1>4. CASE SettlesSo(r[3], "refused")
  <2>1. Once!Refuse(r[3])
    BY <1>1, <1>4 DEF SettlesSo, Once!Refuse, Told
  <2> QED
    BY <1>1, <2>1
<1> QED
  BY <1>1, <1>2, <1>3, <1>4 DEF HandledSo

LEMMA CallStepImplements == CallInv /\ [CallNext]_callVars => [Once!Next]_(Once!vars)
<1> SUFFICES ASSUME CallInv, [CallNext]_callVars PROVE [Once!Next]_(Once!vars)
  OBVIOUS
<1>1. CASE UNCHANGED callVars
  BY <1>1 DEF callVars, setting, server, Once!vars, Told
<1>2. ASSUME NEW c \in Calls, Begin(c) PROVE Once!Next
  BY <1>2, BeginImplements DEF Once!Next
<1>3. ASSUME NEW c \in Calls, Retry(c) PROVE UNCHANGED Once!vars
  BY <1>3, RetryKeeps DEF Retry, Once!vars, Told
<1>4. ASSUME NEW c \in Calls, AttemptOver(c) PROVE [Once!Next]_(Once!vars)
  BY <1>4, OverImplements DEF Once!Next
<1>5. ASSUME NEW c \in Calls, NEW damage \in Damages, Receive(c, damage) PROVE [Once!Next]_(Once!vars)
  BY <1>4, <1>5, ReceiveOver
<1>6. ASSUME NEW c \in Calls, NEW cause \in {"late", "lost"}, NoAnswer(c, cause)
      PROVE  [Once!Next]_(Once!vars)
  BY <1>4, <1>6, NoAnswerOver
<1>7. ASSUME NEW r \in wire, Handle(r) PROVE [Once!Next]_(Once!vars)
  BY <1>7, HandleImplements DEF Once!Next
<1> QED
  BY <1>1, <1>2, <1>3, <1>5, <1>6, <1>7 DEF CallNext

\* Whatever is retried, lost, damaged or late, a client of the pool and its
\* server do what CallOnce says: an operation is carried out at most once, and a
\* caller is told that it succeeded or was refused only if it was.
THEOREM CallsOnce == CallSpec => CallOnceSpec
  BY InitImplements, CallStepImplements, CallInvHolds, PTL DEF CallSpec, CallOnceSpec, Once!Spec

(***************************************************************************)
(* The requests of an operation.  The inductive invariant: what a client   *)
(* was generated with is the operation's security, and its request is made *)
(* of that and of the call.                                                *)
(***************************************************************************)
Composed ==
  [credentials |-> Headers,
   path |-> Stated(DOMAIN args \cap {"id"}, "path"),
   query |-> IF InQuery THEN Stated(Rest, "query") ELSE {},
   body |-> IF InQuery THEN {} ELSE Rest]

RequestInv ==
  /\ maker \in Clients
  /\ asked \in {Absent, OpSecurity}
  /\ request # <<>> => asked = OpSecurity /\ request = Composed

LEMMA RequestInvInit == RequestInit => RequestInv
  BY DEF RequestInit, RequestInv

LEMMA RequestInvStep == RequestInv /\ [RequestNext]_requestVars => RequestInv'
<1> SUFFICES ASSUME RequestInv, [RequestNext]_requestVars PROVE RequestInv'
  OBVIOUS
<1>1. OpSecurity' = OpSecurity
  BY DEF RequestNext, Generate, Call, requestVars, setup, OpSecurity
<1>2. CASE UNCHANGED requestVars
  <2>1. Composed' = Composed
    BY <1>2 DEF requestVars, setup, Composed, Headers, Attached, Has, InQuery, Rest, Stated, Shows, Segments
  <2> QED
    BY <1>1, <1>2, <2>1 DEF requestVars, setup, RequestInv
<1>3. CASE Generate
  <2>1. asked = OpSecurity => Composed' = Composed
    BY <1>3 DEF Generate, setup, Composed, Headers, Attached, Has, InQuery, Rest, Stated, Shows, Segments
  <2> QED
    BY <1>1, <1>3, <2>1 DEF Generate, setup, RequestInv
<1>4. CASE Call
  <2>1. Composed' = Composed
    <3>1. UNCHANGED <<maker, option, env, verb, args, asked>>
      BY <1>4 DEF Call, setup
    <3>2. Rest' = Rest /\ InQuery' = InQuery
      BY <3>1 DEF InQuery, Rest, Shows, Segments
    <3>3. Headers' = Headers
      BY <3>1 DEF Headers, Attached, Has
    <3> QED
      BY <3>1, <3>2, <3>3 DEF Composed, Stated
  <2>2. request' = Composed /\ UNCHANGED <<setup, asked>> /\ asked # Absent
    BY <1>4 DEF Call, Composed
  <2> QED
    BY <1>1, <2>1, <2>2 DEF setup, RequestInv
<1> QED
  BY <1>2, <1>3, <1>4 DEF RequestNext

LEMMA RequestInvHolds == RequestSpec => []RequestInv
  BY RequestInvInit, RequestInvStep, PTL DEF RequestSpec

\* resolveOpSecurity: the supported schemes of the list that is in force.
LEMMA SecurityInForce == OpSecurity = (UNION Effective) \cap Supported
  BY DEF OpSecurity, Effective

LEMMA WaysOfTwo == \A l \in Clients : Twice[l] \in {"key", "joined", "both"}
  BY DEF Clients, Langs, Twice, TsTwice, PyTwice, GoTwice, JavaTwice, KotlinTwice, RustTwice,
         CsharpTwice, SwiftTwice, RubyTwice, PhpTwice, McpJsTwice, McpPyTwice, McpGoTwice

\* Only what the operation's security names is sent, and every alternative of
\* it that can be met is, for every document and every client.
THEOREM CredentialsAlwaysFit == RequestSpec => []CredentialsFit
<1>1. RequestInv => CredentialsFit
  <2> SUFFICES ASSUME RequestInv, request # <<>> PROVE CredentialsFit
    BY DEF CredentialsFit
  <2>1. request.credentials = Headers /\ asked = (UNION Effective) \cap Supported
    BY SecurityInForce DEF RequestInv, Composed
  <2>2. Headers \subseteq Attached /\ Attached \subseteq asked
    <3>1. Attached \subseteq asked
      BY DEF Attached
    <3>2. Twice[maker] \in {"key", "joined", "both"}
      BY WaysOfTwo DEF RequestInv
    <3> HIDE DEF Attached
    <3> QED
      BY <3>1, <3>2 DEF Headers
  <2>3. ASSUME NEW alternative \in Effective, alternative \subseteq Supported,
               \A s \in alternative : Has(Credential(s)),
               ~({"bearer", "named"} \subseteq UNION Effective)
        PROVE  alternative \subseteq Headers
    <3>1. alternative \subseteq Attached
      <4>1. alternative \subseteq asked
        BY <2>1, <2>3
      <4> QED
        BY <2>3, <4>1, Zenon DEF Attached
    <3>2. ~({"bearer", "named"} \subseteq Attached)
      BY <2>1, <2>2, <2>3
    <3> QED
      BY <3>1, <3>2 DEF Headers
  <2> QED
    BY <2>1, <2>2, <2>3 DEF CredentialsFit
<1> QED
  BY <1>1, RequestInvHolds, PTL

LEMMA SplitByValue ==
  /\ \A l \in Clients : Splits[l] = IF l = "ts" THEN "value" ELSE "name"
  BY DEF Clients, Langs, Splits, TsArgs, PyArgs, GoArgs, JavaArgs, KotlinArgs, RustArgs,
         CsharpArgs, SwiftArgs, RubyArgs, PhpArgs, McpJsArgs, McpPyArgs, McpGoArgs

\* Every argument with a value is in exactly one place of the request, but for
\* what the TypeScript client loses from queries and repeats in bodies as it
\* goes by values: of a query's arguments it never says one twice, and that of
\* the path is always there.
THEOREM ArgumentsAlwaysArrive == RequestSpec => []ArgumentsArrive
<1>1. RequestInv => ArgumentsArrive
  <2> SUFFICES ASSUME RequestInv, request # <<>>,
                      NEW n \in DOMAIN args, args[n] # Null
               PROVE  LET places == {p \in {"path", "query", "body"} : n \in request[p]}
                      IN /\ places # {} \/ Swallowed(n)
                         /\ (\A p, q \in places : p = q) \/ Repeated(n)
    BY DEF ArgumentsArrive
  <2> DEFINE places == {p \in {"path", "query", "body"} : n \in request[p]}
  <2>1. /\ request["path"] = Stated(DOMAIN args \cap {"id"}, "path")
        /\ request["query"] = IF InQuery THEN Stated(Rest, "query") ELSE {}
        /\ request["body"] = IF InQuery THEN {} ELSE Rest
    BY DEF RequestInv, Composed
  <2>2. /\ n \in request["path"] <=> n = "id"
        /\ n \in request["query"] <=> InQuery /\ n \in Rest
        /\ n \in request["body"] <=> ~InQuery /\ n \in Rest
    BY <2>1 DEF Stated
  <2>3. /\ "path" \in places <=> n = "id"
        /\ "query" \in places <=> InQuery /\ n \in Rest
        /\ "body" \in places <=> ~InQuery /\ n \in Rest
        /\ places \subseteq {"path", "query", "body"}
    BY <2>2
  <2> HIDE DEF places
  <2>4. maker # "ts" => (n \in Rest <=> n # "id")
    BY SplitByValue DEF RequestInv, Rest
  <2>5. maker = "ts" /\ ~InQuery => n \in Rest
    BY SplitByValue DEF RequestInv, Rest
  <2>6. maker = "ts" /\ InQuery => (n \in Rest <=> ~Shows(args[n]))
    BY SplitByValue DEF RequestInv, Rest
  <2>7. n = "id" => Shows(args[n])
    <3>1. n = "id" => args[n] \in Segments
      BY DEF Segments
    <3> QED
      BY <3>1 DEF Shows, Begins
  <2>8. places # {} \/ Swallowed(n)
    BY <2>3, <2>4, <2>5, <2>6 DEF Swallowed
  <2>9. Repeated(n) \/ ~(n = "id" /\ n \in Rest)
    BY <2>4, <2>6, <2>7 DEF Repeated
  <2>10. Repeated(n) \/ \A p, q \in places : p = q
    <3>1. CASE n = "id" /\ n \notin Rest
      <4>1. places \subseteq {"path"}
        BY <2>3, <3>1
      <4> QED
        BY <4>1
    <3>2. CASE n # "id" /\ InQuery
      <4>1. places \subseteq {"query"}
        BY <2>3, <3>2
      <4> QED
        BY <4>1
    <3>3. CASE n # "id" /\ ~InQuery
      <4>1. places \subseteq {"body"}
        BY <2>3, <3>3
      <4> QED
        BY <4>1
    <3> QED
      BY <2>9, <3>1, <3>2, <3>3
  <2> QED
    BY <2>8, <2>10 DEF places
<1> QED
  BY <1>1, RequestInvHolds, PTL

\* A request is made of what the generator foresaw and of arguments of the call.
THEOREM RequestTypes == RequestSpec => []RequestTypeOK
<1> DEFINE Named == DOMAIN args \subseteq ArgNames
<1>1. RequestInit => Named
  <2>1. ASSUME NEW names \in SUBSET ArgNames, args \in [names -> Values] PROVE Named
    BY <2>1
  <2> QED
    BY <2>1 DEF RequestInit
<1>2. Named /\ [RequestNext]_requestVars => Named'
  BY DEF RequestNext, Generate, Call, setup, requestVars
<1>3. ASSUME RequestInv, Named PROVE RequestTypeOK
  <2>1. asked = Absent \/ asked \subseteq Supported
    BY <1>3, SecurityInForce DEF RequestInv
  <2>2. ASSUME request # <<>>
        PROVE  request.credentials \subseteq asked /\ request.path \cup request.query \cup request.body \subseteq ArgNames
    <3>1. Headers \subseteq asked
      BY <1>3, WaysOfTwo DEF RequestInv, Headers, Attached
    <3>2. /\ request.credentials = Headers
          /\ request.path = Stated(DOMAIN args \cap {"id"}, "path")
          /\ request.query = IF InQuery THEN Stated(Rest, "query") ELSE {}
          /\ request.body = IF InQuery THEN {} ELSE Rest
      BY <1>3, <2>2 DEF RequestInv, Composed
    <3>3. Rest \subseteq DOMAIN args /\ \A names, place : Stated(names, place) \subseteq names
      BY DEF Rest, Stated
    <3>4. request.path \cup request.query \cup request.body \subseteq DOMAIN args
      BY <3>2, <3>3
    <3> QED
      BY <1>3, <3>1, <3>2, <3>4
  <2> QED
    BY <2>1, <2>2 DEF RequestTypeOK
<1> HIDE DEF Named
<1> QED
  BY <1>1, <1>2, <1>3, RequestInvHolds, PTL DEF RequestSpec

(***************************************************************************)
(* The pages.  The inductive invariant, from a server that suits the       *)
(* client: what the caller has are the items from the first on, and the    *)
(* next page begins with the next item - or behind the end of the list,    *)
(* once the caller has them all.                                           *)
(***************************************************************************)
Wanted == Max({0, total - Skipped})

OnTrack ==
  /\ \A i \in DOMAIN got : got[i] = Skipped + i
  /\ Len(got) <= Wanted
  /\ mode # "cursor" => cursor = 0
  /\ run = "on" => \/ Before = Skipped + Len(got)
                   \/ Before >= total /\ Len(got) = Wanted
  /\ run = "done" => Len(got) = Wanted

PageTypes ==
  /\ lang \in Langs /\ mode \in Modes /\ kind \in Kinds
  /\ size \in Nat /\ total \in Nat /\ number \in Nat
  /\ start \in Int /\ (mode # "page" => start \in Nat) /\ (mode = "cursor" => start = 0)
  /\ page \in Int /\ offset \in Nat /\ cursor \in Nat /\ next \in Nat
  /\ rounds \in 0 .. PageCap /\ got \in Seq(1 .. total)
  /\ run \in {"on", "done", "cap", "failed", "odd"}

PageInv == PageTypes /\ (Suits => OnTrack)

LEMMA MaxOfTwo ==
  ASSUME NEW a \in Int, NEW b \in Int
  PROVE  Max({a, b}) = IF a >= b THEN a ELSE b
  BY DEF Max

LEMMA MinOfTwo ==
  ASSUME NEW a \in Int, NEW b \in Int
  PROVE  Min({a, b}) = IF a <= b THEN a ELSE b
  BY DEF Min

LEMMA PageSizes ==
  ASSUME size \in Nat
  PROVE  /\ PageSize \in 1 .. Largest /\ PageSize \in Nat
         /\ Suits /\ size > 0 => PageSize = size
  BY PageAssumption DEF PageSize, Suits

\* What the server gives, and how much.
Given(b) == IF b >= total THEN 0 ELSE IF total - b >= PageSize THEN PageSize ELSE total - b

LEMMA ItemsGiven ==
  ASSUME PageTypes, NEW b \in Nat
  PROVE  /\ Items(b) \in Seq(1 .. total)
         /\ Len(Items(b)) = Given(b)
         /\ \A i \in 1 .. Len(Items(b)) : Items(b)[i] = b + i
<1> DEFINE n == Given(b)
<1> USE DEF Given
<1>1. PageSize \in Nat /\ PageSize > 0 /\ total \in Nat
  BY PageSizes DEF PageTypes
<1>2. Min({PageSize, total - b}) = IF PageSize <= total - b THEN PageSize ELSE total - b
  BY <1>1, MinOfTwo
<1>3. Max({0, Min({PageSize, total - b})}) = n /\ n \in Nat
  <2> DEFINE m == Min({PageSize, total - b})
  <2>1. m \in Int
    BY <1>1, <1>2
  <2>2. Max({0, m}) = IF 0 >= m THEN 0 ELSE m
    <3> HIDE DEF m
    <3> QED
      BY <2>1, MaxOfTwo
  <2> QED
    BY <1>1, <1>2, <2>2
<1>4. Items(b) = [i \in 1 .. n |-> b + i]
  BY <1>3 DEF Items
<1>5. \A i \in 1 .. n : b + i \in 1 .. total
  BY <1>1
<1> HIDE DEF n
<1>6. Items(b) \in [1 .. n -> 1 .. total]
  BY <1>4, <1>5
<1>7. Items(b) \in Seq(1 .. total)
  BY <1>3, <1>6, SeqDef
<1>8. Len(Items(b)) = n
  BY <1>3, <1>6, <1>7, LenProperties
<1> QED
  BY <1>4, <1>7, <1>8 DEF n

LEMMA FirstPages == \A l \in Langs : Iterates[l].first \in Int
<1>1. Iterates["ts"].first = -1
  BY DEF Iterates, TsIterate, Iterate
<1>2. \A l \in {"py", "go", "java", "kotlin", "rust", "csharp", "swift", "ruby", "php"} :
        Iterates[l].first = 1
  <2>1. \A gives : Iterate(gives).first = 1
    BY DEF Iterate
  <2>2. /\ Iterates["py"] = Iterate("each") /\ Iterates["go"] = Iterate("all so far")
        /\ \A l \in {"java", "kotlin", "rust", "csharp", "swift", "ruby", "php"} :
             Iterates[l] = Iterate("nothing")
    BY DEF Iterates, PyIterate, GoIterate, JavaIterate, KotlinIterate, RustIterate,
           CsharpIterate, SwiftIterate, RubyIterate, PhpIterate
  <2> QED
    BY <2>1, <2>2
<1> QED
  BY <1>1, <1>2 DEF Langs

LEMMA PageInvInit == PagesInit => PageInv
<1> SUFFICES ASSUME PagesInit PROVE PageInv
  OBVIOUS
<1>1. PageTypes
  <2>1. FirstPage \in Int
    <3>1. start \in Int
      BY DEF PagesInit
    <3> QED
      BY <3>1, FirstPages DEF PagesInit, FirstPage
  <2>2. mode \in Modes
    BY DEF PagesInit, Mode, Modes
  <2> QED
    BY <2>1, <2>2, PageAssumption DEF PagesInit, PageTypes
<1>2. ASSUME Suits PROVE OnTrack
  <2>1. /\ got = <<>> /\ cursor = 0 /\ run = "on"
        /\ page = (IF mode = "page" THEN FirstPage ELSE 1)
        /\ offset = (IF mode = "offset" THEN start ELSE 0)
    BY DEF PagesInit
  <2>2. Before = Skipped
    BY <1>1, <1>2, <2>1 DEF Before, Skipped, Sent, Suits, PageTypes, Modes
  <2>3. FirstPage >= 1 /\ FirstPage \in Int
    BY <1>1, <1>2 DEF FirstPage, Suits, PageTypes
  <2>4. Skipped \in Int
    BY <1>1, <2>3, PageSizes DEF Skipped, PageTypes
  <2>5. Wanted = IF 0 >= total - Skipped THEN 0 ELSE total - Skipped
    BY <1>1, <2>4, MaxOfTwo DEF Wanted, PageTypes
  <2> QED
    BY <1>1, <2>1, <2>2, <2>4, <2>5 DEF OnTrack, PageTypes
<1> QED
  BY <1>1, <1>2 DEF PageInv

(***************************************************************************)
(* A round.                                                                *)
(***************************************************************************)
LEMMA Distributes ==
  ASSUME NEW a \in Int, NEW b \in Int
  PROVE  (a + 1 - 1) * b = (a - 1) * b + b /\ (a - 1) * b \in Int
  OBVIOUS

\* Where a round begins, and what it gives.
LEMMA RoundTypes ==
  ASSUME PageTypes, Round \/ PageUnmeasured
  PROVE  /\ PageTypes'
         /\ Before \in Nat /\ NextOf(Before) \in Nat
         /\ Items(Before) \in Seq(1 .. total) /\ got' = got \o Items(Before)
<1> DEFINE b == Before
           n == Len(Items(b))
           cur == NextOf(b)
<1>1. PageSize \in Nat
  BY PageSizes DEF PageTypes
<1>2. b \in Nat
  <2>1. b >= 0
    BY DEF Round, PageUnmeasured
  <2>2. Sent(offset, 0) \in Int /\ Sent(page, 1) \in Int
    BY DEF Sent, PageTypes
  <2>3. b \in Int
    BY <1>1, <2>2 DEF Before, PageTypes
  <2> QED
    BY <2>1, <2>3
<1>3. Items(b) \in Seq(1 .. total) /\ n \in Nat
  BY <1>2, ItemsGiven
<1>4. cur \in Nat
  BY <1>1, <1>2 DEF NextOf, PageTypes, Kinds
<1>5. /\ got' = got \o Items(b) /\ next' = cur /\ UNCHANGED choice
      /\ rounds < PageCap /\ rounds' = rounds + 1
      /\ \/ run' = "done" /\ UNCHANGED <<page, offset, cursor>>
         \/ Moves(n, cur)
  BY DEF Round, PageUnmeasured
<1>6. got' \in Seq(1 .. total)
  BY <1>3, <1>5, ConcatProperties DEF PageTypes
<1> HIDE DEF b, n, cur
<1>7. page' \in Int /\ offset' \in Nat /\ cursor' \in Nat /\ run' \in {"on", "done"}
  <2>1. CASE UNCHANGED <<page, offset, cursor>> /\ run' = "done"
    BY <2>1 DEF PageTypes
  <2>2. CASE Moves(n, cur)
    BY <1>3, <1>4, <2>2 DEF Moves, PageTypes
  <2> QED
    BY <1>5, <2>1, <2>2
<1>8. PageTypes'
  BY <1>4, <1>5, <1>6, <1>7, PageAssumption DEF PageTypes, choice
<1> QED
  BY <1>2, <1>3, <1>4, <1>5, <1>8 DEF b, n, cur

\* From a server that suits the client, a page that names a next one is full:
\* the size, had it been looked at, would not have stopped the loop.
LEMMA UnmeasuredIsRound ==
  ASSUME PageTypes, Suits, PageUnmeasured
  PROVE  Round
<1> DEFINE b == Before
           n == Len(Items(b))
<1>1. b \in Nat
  BY RoundTypes
<1>2. PageSize \in Nat /\ PageSize > 0 /\ (size > 0 => PageSize = size) /\ total \in Nat
  BY PageSizes DEF PageTypes
<1>3. NextOf(b) # 0
  BY DEF PageUnmeasured
<1>4. b + PageSize < total
  BY <1>3 DEF NextOf, Suits, PageTypes, Kinds
<1>5. n = Given(b)
  BY <1>1, ItemsGiven
<1> HIDE DEF n, b
<1>6. n = PageSize
  BY <1>1, <1>2, <1>4, <1>5 DEF Given
<1>7. ~Stops(n)
  BY <1>2, <1>6 DEF Stops
<1> QED
  BY <1>7 DEF PageUnmeasured, Round, n, b

\* A page that is neither empty nor short is followed by the next item's, or
\* was the last: what Moves does to the place of the next page.
LEMMA NextPage ==
  ASSUME PageTypes, Suits, Round, Before \in Nat, run' = "on",
         mode # "cursor" => cursor = 0
  PROVE  LET n == Len(Items(Before))
         IN /\ n > 0 /\ (size > 0 => n = size)
            /\ mode # "cursor" => cursor' = 0
            /\ Before' = Before + (IF mode = "offset" THEN n ELSE PageSize)
            /\ mode = "cursor" => Before + PageSize < total
<1> DEFINE b == Before
           n == Len(Items(b))
           cur == NextOf(b)
<1>1. PageSize \in Nat /\ PageSize > 0 /\ (size > 0 => PageSize = size)
  BY PageSizes DEF PageTypes
<1>2. n \in 0 .. PageSize
  <2>1. n = Given(b) /\ b \in Nat /\ total \in Nat
    BY ItemsGiven DEF PageTypes
  <2> HIDE DEF b, n
  <2> QED
    BY <1>1, <2>1 DEF Given
<1>3. UNCHANGED choice /\ Moves(n, cur) /\ ~Stops(n)
  BY DEF Round
<1>4. n > 0 /\ (size > 0 => n = size)
  BY <1>1, <1>2, <1>3 DEF Stops, PageTypes
<1>5. \A v, d : Sent(v, d) = v
  BY DEF Sent, Suits
<1>6. \A v, d : Sent(v, d)' = v'
  BY <1>3 DEF Sent, Suits, choice
<1>7. PageSize' = PageSize
  BY <1>3 DEF PageSize, choice
<1>8. CASE mode = "cursor"
  <2>1. kind = "token"
    BY <1>8 DEF Suits
  <2>2. cur = IF b + PageSize < total THEN b + PageSize ELSE 0
    BY <2>1 DEF NextOf
  <2>3. cur \notin {0, cursor} /\ cursor' = cur
    BY <1>3, <1>8 DEF Moves
  <2>4. cursor' = b + PageSize /\ b + PageSize < total /\ cursor' # 0
    BY <2>2, <2>3
  <2>5. Before' = b + PageSize
    BY <1>3, <1>8, <2>1, <2>4 DEF Before, choice
  <2> QED
    BY <1>4, <1>8, <2>4, <2>5
<1>9. CASE mode # "cursor"
  <2>1. cur = 0 /\ kind # "token"
    BY <1>9 DEF Suits, NextOf
  <2>2. /\ cursor' = cursor
        /\ page' = IF mode = "page" THEN page + 1 ELSE page
        /\ offset' = IF mode = "offset" THEN offset + (IF size > 0 THEN size ELSE n) ELSE offset
    BY <1>3, <2>1 DEF Moves
  <2>3. CASE mode = "offset"
    <3>1. b = offset /\ Before' = offset'
      BY <1>3, <1>5, <1>6, <2>1, <2>3 DEF Before, choice
    <3>2. offset' = offset + n
      BY <1>4, <2>2, <2>3 DEF PageTypes
    <3> QED
      BY <1>4, <1>9, <2>2, <2>3, <3>1, <3>2
  <2>4. CASE mode = "page"
    <3>1. b = (page - 1) * PageSize /\ Before' = (page' - 1) * PageSize
      BY <1>3, <1>5, <1>6, <1>7, <2>1, <2>4 DEF Before, choice
    <3>2. page' = page + 1 /\ page \in Int
      BY <2>2, <2>4 DEF PageTypes
    <3>3. (page + 1 - 1) * PageSize = (page - 1) * PageSize + PageSize
      BY <1>1, <3>2, Distributes
    <3>4. Before' = b + PageSize
      BY <3>1, <3>2, <3>3
    <3> QED
      BY <1>4, <1>9, <2>2, <2>4, <3>4
  <2> QED
    BY <1>9, <2>3, <2>4 DEF PageTypes, Modes
<1> QED
  BY <1>8, <1>9

LEMMA RoundOnTrack ==
  ASSUME PageTypes, Suits, OnTrack, Round
  PROVE  OnTrack'
<1> DEFINE b == Before
           n == Len(Items(b))
           s == Skipped
           w == Wanted
           len == Len(got)
<1>1. /\ PageTypes' /\ b \in Nat /\ got' = got \o Items(b) /\ run = "on"
      /\ Items(b) \in Seq(1 .. total) /\ got \in Seq(1 .. total)
  BY RoundTypes DEF Round, PageTypes
<1>2. /\ PageSize \in Nat /\ PageSize > 0 /\ (size > 0 => PageSize = size)
      /\ total \in Nat /\ size \in Nat
  BY PageSizes DEF PageTypes
<1>3. n = Given(b) /\ \A i \in 1 .. n : Items(b)[i] = b + i
  BY <1>1, ItemsGiven
<1>4. s \in Int
  <2>1. start > 0 \/ start = 0
    BY DEF Suits, PageTypes
  <2>2. FirstPage \in Int
    BY <2>1 DEF FirstPage, PageTypes
  <2> QED
    BY <1>2, <2>2 DEF Skipped, PageTypes
<1>5. w = (IF 0 >= total - s THEN 0 ELSE total - s)
  BY <1>2, <1>4, MaxOfTwo DEF Wanted
<1>6. UNCHANGED <<choice, PageSize, Skipped, Wanted>>
  BY DEF Round, choice, PageSize, Skipped, FirstPage, Wanted
<1>7. /\ len \in Nat /\ n \in Nat /\ Len(got') = len + n
      /\ \A i \in 1 .. len + n : got'[i] = IF i <= len THEN got[i] ELSE Items(b)[i - len]
      /\ DOMAIN got' = 1 .. Len(got') /\ DOMAIN got = 1 .. len
  <2>1. len \in Nat /\ n \in Nat /\ DOMAIN got = 1 .. len
    BY <1>1
  <2>2. /\ Len(got') = len + n
        /\ \A i \in 1 .. len + n : got'[i] = IF i <= len THEN got[i] ELSE Items(b)[i - len]
    BY <1>1, ConcatProperties
  <2>3. DOMAIN got' = 1 .. Len(got')
    BY <1>1 DEF PageTypes
  <2> QED
    BY <2>1, <2>2, <2>3
<1>8. \/ b = s + len
      \/ b >= total /\ len = w
  BY <1>1 DEF OnTrack
<1>9. len <= w
  BY DEF OnTrack
<1>10. /\ b \in Nat /\ n \in Nat /\ s \in Int /\ len \in Nat
       /\ n = (IF b >= total THEN 0 ELSE IF total - b >= PageSize THEN PageSize ELSE total - b)
  BY <1>1, <1>3, <1>4, <1>7 DEF Given
<1>11. \A i \in 1 .. len : got[i] = s + i
  BY <1>7 DEF OnTrack
<1> HIDE DEF b, n, s, w, len
<1>12. \A i \in DOMAIN got' : got'[i] = s + i
  <2> SUFFICES ASSUME NEW i \in 1 .. len + n PROVE got'[i] = s + i
    BY <1>7
  <2>1. CASE i <= len
    BY <1>7, <1>11, <2>1
  <2>2. CASE i > len
    <3>1. i - len \in 1 .. n
      BY <1>10, <2>2
    <3>2. got'[i] = b + (i - len)
      BY <1>3, <1>7, <1>10, <2>2, <3>1
    <3>3. b = s + len
      BY <1>2, <1>8, <1>10, <3>1
    <3> QED
      BY <1>10, <3>2, <3>3
  <2> QED
    BY <1>10, <2>1, <2>2
<1>13. len + n <= w
  BY <1>2, <1>5, <1>8, <1>9, <1>10
<1>14. run' = "done" => len + n = w
  <2> SUFFICES ASSUME run' = "done" PROVE len + n = w
    OBVIOUS
  <2>1. Stops(n) \/ (mode = "cursor" /\ NextOf(b) \in {0, cursor})
    BY DEF Round, Moves, b, n
  <2>2. CASE Stops(n)
    <3>1. n = 0 \/ (size > 0 /\ n < size)
      BY <2>2 DEF Stops
    <3>2. total <= b + n
      BY <1>2, <1>10, <3>1
    <3> QED
      BY <1>2, <1>5, <1>8, <1>9, <1>10, <1>13, <3>2
  <2>3. CASE mode = "cursor" /\ NextOf(b) \in {0, cursor}
    <3>1. kind = "token" /\ start = 0
      BY <2>3 DEF Suits, PageTypes
    <3>2. b = cursor
      BY <2>3, <3>1 DEF Before, b
    <3>3. NextOf(b) = IF b + PageSize < total THEN b + PageSize ELSE 0
      BY <3>1 DEF NextOf
    <3>4. b + PageSize >= total
      BY <1>2, <1>10, <2>3, <3>2, <3>3
    <3>5. total <= b + n
      BY <1>2, <1>10, <3>4
    <3> QED
      BY <1>2, <1>5, <1>8, <1>9, <1>10, <1>13, <3>5
  <2> QED
    BY <2>1, <2>2, <2>3
<1>15. ASSUME run' = "on"
       PROVE  /\ mode # "cursor" => cursor' = 0
              /\ \/ Before' = s + (len + n)
                 \/ Before' >= total /\ len + n = w
  <2>1. /\ n > 0 /\ (size > 0 => n = size)
        /\ mode # "cursor" => cursor' = 0
        /\ Before' = b + (IF mode = "offset" THEN n ELSE PageSize)
        /\ mode = "cursor" => b + PageSize < total
    BY <1>1, <1>15, NextPage DEF OnTrack, b, n
  <2>2. b = s + len
    BY <1>2, <1>8, <1>10, <2>1
  <2>3. CASE n = PageSize
    <3>1. Before' = s + (len + n)
      BY <1>2, <1>10, <2>1, <2>2, <2>3
    <3> QED
      BY <2>1, <3>1
  <2>4. CASE n # PageSize
    <3>1. n = total - b
      BY <1>2, <1>10, <2>1, <2>4
    <3>2. len + n = w
      BY <1>2, <1>5, <1>10, <2>1, <2>2, <3>1
    <3>3. Before' >= total
      BY <1>2, <1>10, <2>1, <2>4, <3>1
    <3> QED
      BY <2>1, <3>2, <3>3
  <2> QED
    BY <2>3, <2>4
<1>16. run' = "done" /\ mode # "cursor" => cursor' = 0
  <2> SUFFICES ASSUME run' = "done", mode # "cursor" PROVE cursor' = 0
    OBVIOUS
  <2>1. cursor = 0
    BY DEF OnTrack
  <2> QED
    BY <2>1 DEF Round, Moves
<1>17. run' \in {"on", "done"}
  BY DEF Round, Moves
<1> QED
  BY <1>6, <1>7, <1>12, <1>13, <1>14, <1>15, <1>16, <1>17 DEF OnTrack, choice, s, w

LEMMA PageInvStep == PageInv /\ [PagesNext]_pageVars => PageInv'
<1> SUFFICES ASSUME PageInv, [PagesNext]_pageVars PROVE PageInv'
  OBVIOUS
<1>1. UNCHANGED <<choice, Suits>> /\ UNCHANGED <<PageSize, Skipped, Wanted>>
  BY DEF PagesNext, Round, Capped, PageFails, PageUnmeasured, PageOdd, pageVars, choice, Suits, PageSize,
         Skipped, FirstPage, Wanted
<1>2. CASE UNCHANGED pageVars
  <2>1. Before' = Before
    BY <1>1, <1>2 DEF pageVars, choice, Before, Sent
  <2> QED
    BY <1>1, <1>2, <2>1 DEF pageVars, choice, PageInv, PageTypes, OnTrack
<1>3. CASE Round
  BY <1>1, <1>3, RoundTypes, RoundOnTrack DEF PageInv
<1>4. CASE Capped
  BY <1>1, <1>4 DEF Capped, choice, PageInv, PageTypes, OnTrack
<1>5. CASE PageFails
  <2>1. PageTypes'
    <3>1. got' \in Seq(1 .. total)
      <4>1. got' \in {<<>>, got} /\ got \in Seq(1 .. total)
        BY <1>5 DEF PageFails, PageInv, PageTypes
      <4> QED
        BY <4>1, EmptySeq
    <3> QED
      BY <1>5, <3>1 DEF PageFails, choice, PageInv, PageTypes
  <2>2. ASSUME Suits PROVE OnTrack'
    <3>1. CASE got' = <<>>
      <4>1. Wanted >= 0
        <5>1. PageSize \in Nat /\ FirstPage \in Int
          BY <2>2, PageSizes DEF PageInv, PageTypes, FirstPage, Suits
        <5>2. Skipped \in Int
          BY <5>1 DEF Skipped, PageInv, PageTypes
        <5> QED
          BY <5>2, MaxOfTwo DEF Wanted, PageInv, PageTypes
      <4> QED
        BY <1>1, <1>5, <2>2, <3>1, <4>1 DEF PageFails, choice, PageInv, OnTrack
    <3>2. CASE got' = got
      BY <1>1, <1>5, <2>2, <3>2 DEF PageFails, choice, PageInv, OnTrack
    <3> QED
      BY <1>5, <3>1, <3>2 DEF PageFails
  <2> QED
    BY <1>1, <2>1, <2>2 DEF PageInv
<1>6. CASE PageOdd
  BY <1>1, <1>6, PageAssumption DEF PageOdd, choice, PageInv, PageTypes, OnTrack
<1>7. CASE PageUnmeasured
  BY <1>1, <1>7, RoundTypes, UnmeasuredIsRound, RoundOnTrack DEF PageInv
<1> QED
  BY <1>2, <1>3, <1>4, <1>5, <1>6, <1>7 DEF PagesNext

LEMMA PageInvHolds == PagesSpec => []PageInv
  BY PageInvInit, PageInvStep, PTL DEF PagesSpec

\* Every variable of an iterator keeps to its values, however the server answers.
THEOREM PagesTyped == PagesSpec => []PagesTypeOK
<1>1. PageInv => PagesTypeOK
  BY DEF PageInv, PageTypes, PagesTypeOK
<1> QED
  BY <1>1, PageInvHolds, PTL

\* Whatever the length of the list, the largest page, the size asked for and the
\* page or offset to start from, an iterator gives every item from there on once
\* and in order, from a server that suits it.
THEOREM EveryItemOnce == PagesSpec => []EachItemOnce
<1>1. PageInv => EachItemOnce
  BY DEF PageInv, OnTrack, EachItemOnce, Wanted
<1> QED
  BY <1>1, PageInvHolds, PTL
=============================================================================
