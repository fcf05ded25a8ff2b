------------------------------ MODULE MCGateway ------------------------------
(***************************************************************************)
(* The gateway for TLC: the policy with its upstream connection, and the   *)
(* tool calls.  The two models share no state, so focus says which of them *)
(* moves: the calls come to a gateway that is up and is then left alone.   *)
(***************************************************************************)
EXTENDS ToolCall, Gateway, TLC

VARIABLE focus

\* The reload raises the limit and denies the built-in tools.
Limits_MC == 0 :> 1 @@ 1 :> 2
Denied_MC == 0 :> {} @@ 1 :> {"builtin"}

gatewayVars == <<focus, toolVars, policyVars>>

GatewayInit == focus = "policy" /\ ToolInit /\ PolicyInit

\* Only its boot connection and listen have happened.
JustUp ==
  /\ listens /\ listed = 1 /\ listing = [l \in Lists |-> 0]
  /\ mtime = 0 /\ keys = 0 /\ forced = 0 /\ ~draining

GatewayNext ==
  \/ focus = "policy" /\ PolicyNext /\ UNCHANGED <<focus, toolVars>>
  \/ focus = "policy" /\ JustUp /\ focus' = "calls" /\ UNCHANGED <<toolVars, policyVars>>
  \/ focus = "calls" /\ ToolNext /\ UNCHANGED <<focus, policyVars>>

\* What does not move owes nothing: no call is under way, or nothing is to read.
GatewaySpec == GatewayInit /\ [][GatewayNext]_gatewayVars /\ ToolFairness /\ PolicyFairness
=============================================================================
