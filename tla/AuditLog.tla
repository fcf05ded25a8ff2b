------------------------------- MODULE AuditLog -------------------------------
(***************************************************************************)
(* What the gateway keeps of its tool calls, and whom it shows what: the   *)
(* ring in memory and audit.jsonl, written by appendAudit (server.js) with *)
(* the redaction of redact.js, and read by GET /audit, /audit/export and   *)
(* /admin/audit and by the command export-audit (audit-export.js).         *)
(*                                                                         *)
(* Recording an event is one synchronous step of node, in the order of the *)
(* numbers of the events; so a ring or a file is the set of its events,    *)
(* and their order is that of the numbers, which stand for their times     *)
(* too.  A read changes nothing: it is an operator on the state.  What is  *)
(* refused for its form (400) shows nothing and is left out.               *)
(***************************************************************************)
EXTENDS Integers, FiniteSets

CONSTANTS
  TenantIds,   \* ids of tenants
  Nobody,      \* no tenantId, no ?tenant=
  Policies,    \* what a policy file may say of audit, redact, export, tenants and adminToken
  EventKinds,  \* events to record, but for their numbers
  Reads,       \* what may be asked for, and by whom
  RingMax,     \* --audit-max; 0 is no cap
  MaxEvents,   \* bound: events recorded
  MaxFaults    \* bound: appends that go wrong

Fields == {"arguments", "result"}
Formats == {"json", "csv", "md", "html"}
Policy == [tenants : SUBSET TenantIds, token : BOOLEAN, walks : SUBSET Fields, onWrite : BOOLEAN, byDefault : BOOLEAN]

ASSUME AuditNobody == Nobody \notin TenantIds
ASSUME AuditPolicies == Policies \subseteq Policy
ASSUME AuditKinds == EventKinds \subseteq [tenant : TenantIds \cup {Nobody}, tool : BOOLEAN, named : BOOLEAN]
ASSUME AuditBounds == RingMax \in Nat /\ MaxEvents \in Nat /\ MaxFaults \in Nat
ASSUME AuditReads ==
  Reads \subseteq
    [place : {"/audit", "/audit/export", "/admin/audit", "export-audit"}, format : Formats,
     who : TenantIds \cup {"admin", "nobody"}, inside : BOOLEAN,       \* the key sent, and whether the address is allowed
     tenant : TenantIds \cup {Nobody}, tool : BOOLEAN, since : Nat, until : Nat, limit : Nat,
     redact : {"unset", "yes", "no"}, config : Policies]            \* of the command

VARIABLES
  policy,    \* state.policy
  ring,      \* state.auditEvents
  file,      \* the events of the lines that parse
  cut,       \* the file does not end with the end of a line
  log,       \* history: the events, as appendAudit was to write them
  unsaved,   \* history: numbers of events without a line of their own
  gone,      \* history: those of them that a restart has taken from the ring
  faults     \* appends that went wrong

auditVars == <<policy, ring, file, cut, log, unsaved, gone, faults>>

(***************************************************************************)
(* Redaction.  A field is as the call had it, or without what looks like a *)
(* secret ("masked"), or replaced as a whole ("redacted").                 *)
(***************************************************************************)
\* auditEvent: a tool call, whose arguments have names unless they are a list or a
\* string.  tokenRotatedAuditEvent and session_deleted have no payload.
Payload(kind) == IF kind.tool THEN "clear" ELSE "absent"
Event(id, kind) ==
  [id |-> id, tenant |-> kind.tenant, tool |-> kind.tool, named |-> kind.named,
   arguments |-> Payload(kind), result |-> Payload(kind), hash |-> FALSE]

\* redactAuditEvent and redactValue.
MaskedField(level) == IF level = "clear" THEN "masked" ELSE level
MaskedEvent(e, p) ==
  [e EXCEPT !.arguments = IF "arguments" \in p.walks THEN MaskedField(@) ELSE @,
            !.result = IF "result" \in p.walks THEN MaskedField(@) ELSE @]

\* redactEvent: hashArgumentKeys has no answer for what is already replaced.
RedactedField(level) == IF level = "absent" THEN level ELSE "redacted"
\* Mutant: the hash is assigned whatever it is.
Redacted_Rehashed(e) ==
  [e EXCEPT !.hash = e.named /\ e.arguments \in {"clear", "masked"},
            !.arguments = RedactedField(@), !.result = RedactedField(@)]
Redacted(e) ==
  [e EXCEPT !.hash = @ \/ (e.named /\ e.arguments \in {"clear", "masked"}),
            !.arguments = RedactedField(@), !.result = RedactedField(@)]

\* ADMIN_CSV_COLUMNS: no payload.
Columns(e) == [e EXCEPT !.arguments = "absent", !.result = "absent", !.hash = FALSE]

(***************************************************************************)
(* Recording.                                                              *)
(***************************************************************************)
\* The last n, as pushAuditEvent, loadAuditRing and ?limit= keep them; 0 is all.
\* Mutant: the first n.
Latest_First(S, n) == IF n = 0 THEN S ELSE {e \in S : Cardinality({f \in S : f.id <= e.id}) <= n}
Latest(S, n) == IF n = 0 THEN S ELSE {e \in S : Cardinality({f \in S : f.id >= e.id}) <= n}

\* What appendAudit writes.
ToWrite(e) == IF policy.onWrite THEN Redacted(MaskedEvent(e, policy)) ELSE MaskedEvent(e, policy)

AuditInit ==
  /\ policy \in Policies
  /\ ring = {} /\ file = {} /\ cut = FALSE
  /\ log = {} /\ unsaved = {} /\ gone = {} /\ faults = 0

\* The lines that end: what is written next goes to the rest of a cut one.
Ended == {f \in file : f.id \notin unsaved}

\* appendFileSync writes the line; or, on a full disk, nothing, a part of it, or
\* all but its end, which parses until the next is written.
Appended(e) ==
  LET joined == IF cut THEN Ended ELSE file \cup {e}
  IN \/ /\ file' = joined /\ cut' = FALSE /\ UNCHANGED faults
        /\ unsaved' = (IF cut THEN unsaved \cup {e.id} ELSE unsaved)
     \/ /\ faults < MaxFaults /\ faults' = faults + 1 /\ unsaved' = unsaved \cup {e.id}
        /\ \/ UNCHANGED <<file, cut>>
           \/ file' \in {Ended, joined} /\ cut' = TRUE

\* appendAudit: the ring, then the file.
\* Mutant: what is kept in memory is the event itself.
Record_RawRing(e) ==
  /\ ring' = Latest(ring \cup {e}, RingMax)
  /\ Appended(ToWrite(e))
  /\ log' = log \cup {ToWrite(e)}
  /\ UNCHANGED <<policy, gone>>
Record(e) ==
  /\ ring' = Latest(ring \cup {ToWrite(e)}, RingMax)
  /\ Appended(ToWrite(e))
  /\ log' = log \cup {ToWrite(e)}
  /\ UNCHANGED <<policy, gone>>

\* The result of a call that was admitted under an earlier policy is recorded
\* under this one, with the tenant it was admitted for.
RecordNext ==
  LET id == Cardinality(log) + 1
  IN id <= MaxEvents /\ \E kind \in EventKinds : Record(Event(id, kind))

\* reloadPolicy.
ReloadPolicy ==
  /\ policy' \in Policies \ {policy}
  /\ UNCHANGED <<ring, file, cut, log, unsaved, gone, faults>>

\* A new process: loadAuditRing.
Restart ==
  /\ ring' = Latest(file, RingMax) /\ gone' = unsaved
  /\ policy' \in Policies
  /\ UNCHANGED <<file, cut, log, unsaved, faults>>

AuditNext == RecordNext \/ ReloadPolicy \/ Restart

AuditSpec == AuditInit /\ [][AuditNext]_auditVars

(***************************************************************************)
(* Reading.                                                                *)
(***************************************************************************)
Offline(r) == r.place = "export-audit"

\* isAdmin and resolveTenant.
IsAdmin(r) == policy.token /\ r.who = "admin"
HasTenant(r) == r.who \in policy.tenants /\ r.inside
Scoped(r) == r.place \in {"/audit", "/audit/export"} /\ policy.tenants # {} /\ ~IsAdmin(r)

\* 401 and 403 otherwise.
Admitted(r) ==
  \/ Offline(r)
  \/ r.place = "/admin/audit" /\ IsAdmin(r)
  \/ Scoped(r) /\ HasTenant(r) /\ r.tenant \in {Nobody, r.who}
  \/ r.place = "/audit/export" /\ ~Scoped(r) /\ (policy.token => IsAdmin(r))
  \/ r.place = "/audit" /\ ~Scoped(r)

\* filterTenant.
\* Mutant: ?tenant= is asked as it was sent.
TenantOf_AsSent(r) == r.tenant
TenantOf(r) == IF Scoped(r) THEN r.who ELSE r.tenant

\* filterAuditEvents.
Matches(e, r) ==
  /\ TenantOf(r) = Nobody \/ e.tenant = TenantOf(r)
  /\ r.tool => e.tool
  /\ r.since <= e.id /\ e.id <= r.until
Found(r) == Latest({e \in (IF Offline(r) THEN file ELSE ring) : Matches(e, r)}, r.limit)

\* resolveRedact.
PolicyOf(r) == IF Offline(r) THEN r.config ELSE policy
Redacts(r) == r.redact = "yes" \/ (r.redact = "unset" /\ PolicyOf(r).byDefault)

\* eventsToAdminCsv, Md and Html, or the payload as the policy and the request have it.
Tabular(r) == r.format \in {"md", "html"} \/ (r.place = "/admin/audit" /\ r.format = "csv")
Shown(e, r) ==
  IF Tabular(r) THEN Columns(e)
  ELSE IF Redacts(r) THEN Redacted(MaskedEvent(e, PolicyOf(r))) ELSE MaskedEvent(e, PolicyOf(r))

\* What the answer has; nothing for who is refused.
View(r) == IF Admitted(r) THEN {Shown(e, r) : e \in Found(r)} ELSE {}

-----------------------------------------------------------------------------
(***************************************************************************)
(* Properties.                                                             *)
(***************************************************************************)
Newer(e) == {f \in log : f.id > e.id}

\* Which events a reader can count on: the file has all that were written, the
\* ring the last RingMax of all tenants, but for those lost with a process.
Due(e, r) ==
  /\ IF Offline(r) THEN e.id \notin unsaved
     ELSE e.id \notin gone /\ (RingMax = 0 \/ Cardinality(Newer(e)) < RingMax)
  /\ Matches(e, r)
  /\ r.limit = 0 \/ Cardinality({f \in Newer(e) : Matches(f, r)}) < r.limit

\* No answer has a gap: across the cap, the limit, the filters, restarts and
\* damaged lines, who is admitted is shown every event that is due.
NoGaps ==
  \A e \in log, r \in Reads : Admitted(r) /\ Due(e, r) => \E s \in View(r) : s.id = e.id

\* The key of a tenant shows events that were recorded for that tenant and no
\* others, whatever it asks for and however the policy changed since.
OwnOnly ==
  \A e \in log, r \in Reads :
    Scoped(r) /\ (\E s \in View(r) : s.id = e.id) => r.inside /\ e.tenant = r.who

\* What was taken out of an event when it was recorded comes back in no answer
\* after a reload or a restart, and what today's policy or the request wants
\* out - the patterns of the one, the whole field for the other or by default - is
\* out of the events recorded before.  However often an event is redacted
\* - on writing and on reading - the hash of the names of its arguments, when
\* they have names, stays with it.
RedactionKept ==
  \A e \in log, r \in Reads : \A s \in View(r) : s.id = e.id =>
    /\ s.arguments = "redacted" => s.hash = s.named
    /\ \A f \in Fields :
         /\ s[f] = "clear" => e[f] = "clear" /\ f \notin PolicyOf(r).walks
         /\ s[f] \in {"clear", "masked"} =>
              r.redact # "yes" /\ (r.redact = "no" \/ ~PolicyOf(r).byDefault)
         /\ e[f] = "redacted" => s[f] \in {"redacted", "absent"}
=============================================================================
