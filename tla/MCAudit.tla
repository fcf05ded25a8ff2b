------------------------------- MODULE MCAudit -------------------------------
(***************************************************************************)
(* AuditLog for two tenants, with and without keys and an admin token.     *)
(***************************************************************************)
EXTENDS AuditLog

P(tenants, token, walks, onWrite, byDefault) ==
  [tenants |-> tenants, token |-> token, walks |-> walks, onWrite |-> onWrite, byDefault |-> byDefault]

Closed_MC == P({}, TRUE, {}, FALSE, FALSE)

\* The default policy, one of a single tenant that takes out all it can, and one
\* without tenants that takes out nothing.
Policies_MC ==
  {P(TenantIds, TRUE, Fields, FALSE, FALSE), P({"acme"}, FALSE, {"arguments"}, TRUE, TRUE),
   Closed_MC}

\* A call of one tenant, one with a list of the other, and an event without a tool.
EventKinds_MC ==
  {[tenant |-> "acme", tool |-> TRUE, named |-> TRUE], [tenant |-> "beta", tool |-> TRUE, named |-> FALSE],
   [tenant |-> Nobody, tool |-> FALSE, named |-> FALSE]}

\* Every place, format, reader and filter, not all of them together.
R(place, format, who, tenant) ==
  {[place |-> place, format |-> format, who |-> who, inside |-> TRUE, tenant |-> tenant, tool |-> q[1],
    since |-> IF q[1] THEN 2 ELSE 0, until |-> IF q[2] = 0 THEN 2 ELSE MaxEvents, limit |-> q[2], redact |-> q[3],
    config |-> P(TenantIds, TRUE, Fields, FALSE, FALSE)] :
      q \in {<<FALSE, 0, "unset">>, <<FALSE, 1, "no">>, <<TRUE, 1, "unset">>}}
Reads_MC ==
  UNION {R("/audit", "json", who, t) : who \in {"acme", "admin", "nobody"}, t \in {Nobody, "acme"}}
  \cup R("/audit/export", "csv", "acme", Nobody)
  \cup R("/audit/export", "json", "admin", "beta")
  \cup UNION {R("/admin/audit", f, "admin", "acme") : f \in {"json", "html"}}
  \cup UNION {R("export-audit", f, "nobody", t) : f \in {"csv", "md"}, t \in {Nobody, "acme"}}
  \cup {[r EXCEPT !.inside = FALSE] : r \in R("/audit/export", "csv", "acme", Nobody)}
  \cup {[r EXCEPT !.redact = "yes"] : r \in R("/audit", "json", "acme", Nobody)}
=============================================================================
