---------------------------- MODULE ApprovalLedger ----------------------------
(***************************************************************************)
(* What the approval store promises its clients: approvals are created     *)
(* pending, each is decided once, all at once with the others that expire  *)
(* in the same moment, and only the Cap newest decided ones are kept.      *)
(***************************************************************************)
EXTENDS Integers, FiniteSets

CONSTANTS
  Ids,        \* the approvals
  Cap,        \* decided approvals kept; 0 is unlimited
  Decisions   \* what an approval can be decided to be

VARIABLES
  life,       \* "new", "pending" or the decision
  kept,       \* the approvals that can be read
  born        \* when each was created

ledger == <<life, kept, born>>

Init == life = [i \in Ids |-> "new"] /\ kept = {} /\ born = [i \in Ids |-> 0]

Create(i) ==
  /\ life[i] = "new"
  /\ life' = [life EXCEPT ![i] = "pending"]
  /\ kept' = kept \cup {i}
  /\ born' \in [Ids -> Nat] /\ \A j \in Ids \ {i} : born'[j] = born[j]

Decide(S, d) ==
  /\ S # {} /\ S \subseteq kept /\ \A i \in S : life[i] = "pending"
  /\ life' = [i \in Ids |-> IF i \in S THEN d ELSE life[i]]
  /\ kept' = {i \in kept :
                \/ life'[i] = "pending" \/ Cap = 0
                \/ Cardinality({j \in kept : life'[j] # "pending" /\ born[j] > born[i]}) < Cap}
  /\ UNCHANGED born

Next == (\E i \in Ids : Create(i)) \/ (\E S \in SUBSET Ids, d \in Decisions : Decide(S, d))

Spec == Init /\ [][Next]_ledger
=============================================================================
