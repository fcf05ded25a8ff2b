-------------------------------- MODULE CallOnce --------------------------------
(***************************************************************************)
(* What Idempotency-Key promises to the caller of a writing operation: the *)
(* server settles a key once, carrying it out at most once, and a call is  *)
(* told that it succeeded or was refused only if its key was settled so.   *)
(* Otherwise it is told nothing of the kind: it may have been carried out. *)
(***************************************************************************)
EXTENDS Integers

CONSTANTS Calls, Keys

VARIABLES
  key,      \* the key of a call, or <<>>
  settled,  \* what became of a key
  effects,  \* how often a key was carried out
  told      \* what a call was told

vars == <<key, settled, effects, told>>

Init ==
  /\ key = [c \in Calls |-> <<>>]
  /\ settled = [k \in Keys |-> "no"]
  /\ effects = [k \in Keys |-> 0]
  /\ told = [c \in Calls |-> "nothing"]

Name(c, k) ==
  /\ key[c] = <<>> /\ key' = [key EXCEPT ![c] = k]
  /\ UNCHANGED <<settled, effects, told>>

CarryOut(k) ==
  /\ settled[k] = "no"
  /\ settled' = [settled EXCEPT ![k] = "ok"]
  /\ effects' = [effects EXCEPT ![k] = 1]
  /\ UNCHANGED <<key, told>>

Refuse(k) ==
  /\ settled[k] = "no" /\ settled' = [settled EXCEPT ![k] = "refused"]
  /\ UNCHANGED <<key, effects, told>>

Tell(c, what) ==
  /\ told[c] = "nothing" /\ key[c] # <<>>
  /\ what \in {settled[key[c]], "unknown"} \ {"no"}
  /\ told' = [told EXCEPT ![c] = what]
  /\ UNCHANGED <<key, settled, effects>>

Next ==
  \/ \E c \in Calls, k \in Keys : Name(c, k)
  \/ \E k \in Keys : CarryOut(k) \/ Refuse(k)
  \/ \E c \in Calls, what \in {"ok", "refused", "unknown"} : Tell(c, what)

Spec == Init /\ [][Next]_vars
=============================================================================
