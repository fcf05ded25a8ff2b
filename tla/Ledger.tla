-------------------------------- MODULE Ledger --------------------------------
(***************************************************************************)
(* The span store of the cost server (serve.js) and the budgets that its   *)
(* ingest is held to (cost.js).                                            *)
(*                                                                         *)
(* An ingest or a reload is one synchronous step of node.  Costs are whole *)
(* units.  A span without a timestamp of its own is stamped on arrival, so *)
(* every stored span has its day.  What /metrics and / show is not         *)
(* computed when it is read but when the store last changed: snap.         *)
(***************************************************************************)
EXTENDS Integers, Sequences, FiniteSets, SequencesExt

CONSTANTS
  Spenders,    \* tenants of spans
  Budgets,     \* tenantBudgets, of some of them
  Prices,      \* the costs of spans: nothing checks the token counts they are computed from
  NaN,         \* the cost of a span whose token counts are no numbers
  Skews,       \* bound: how many days a span's timestamp is from its arrival
  SpanMax,     \* spanMax; 0 is no cap
  BatchMax,    \* bound: spans in a request or in the watched file
  LastDay,     \* bound: days
  MaxIngests   \* bound: requests in which spans are denied

ASSUME BudgetsAssumption == DOMAIN Budgets \subseteq Spenders /\ \A t \in DOMAIN Budgets : Budgets[t] \in Nat
ASSUME PricesAssumption == Prices \subseteq Int \cup {NaN} /\ NaN \notin Int /\ Skews \subseteq Int
ASSUME LedgerBoundsAssumption == SpanMax \in Nat /\ BatchMax \in Nat /\ LastDay \in Nat \ {0} /\ MaxIngests \in Nat

VARIABLES
  daily,       \* resolvedBudgetPeriod is "day"
  foresees,    \* resolvedDenyOnWouldExceed
  store,       \* spans, oldest first
  day,         \* utcToday()
  denyEvents,  \* of each tenant and day
  snap,        \* the spend and the denials shown, and the day they were computed
  ingests,     \* requests with denied spans
  added,       \* history: what the last request that a tenant got spans through with cost
  foreign      \* history: tenants with spans that were not held to today's budget

ledgerVars == <<daily, foresees, store, day, denyEvents, snap, ingests, added, foreign>>

Day == 0 .. LastDay + 1
Spans == [tenant : Spenders, usd : Prices, day : Day]

Batches == UNION {[1 .. n -> {s \in Spans : s.day - day \in Skews}] : n \in 1 .. BatchMax}

(***************************************************************************)
(* cost.js.                                                                *)
(***************************************************************************)
\* spansInBudgetPeriod.
InPeriod(s, today) == daily => s.day = today

SumOf(amounts) ==
  LET sum[i \in 0 .. Len(amounts)] == IF i = 0 THEN 0 ELSE sum[i - 1] + amounts[i]
  IN sum[Len(amounts)]

\* Number(usd) || 0.
Amount(usd) == IF usd = NaN THEN 0 ELSE usd

\* tenantSpendMap adds the amounts that are numbers,
Counts(s, t, today) == s.tenant = t /\ InPeriod(s, today)
Cost(s, t, today) == IF Counts(s, t, today) THEN Amount(s.usd) ELSE 0
Costs(spans, t, today) == [i \in DOMAIN spans |-> Cost(spans[i], t, today)]
Spend(spans, t, today) == SumOf(Costs(spans, t, today))
\* report().byTenant all of them, so that one that is none leaves no number.
Reported(spans, t, today) ==
  IF \E i \in DOMAIN spans : Counts(spans[i], t, today) /\ spans[i].usd = NaN THEN NaN
  ELSE Spend(spans, t, today)

\* spendMapFromReport: by day from the stored spans, otherwise from the report.
Current(t) == IF daily THEN Spend(store, t, day) ELSE Amount(Reported(store, t, day))

\* tenantBudgetBreaches and wouldExceedBudget.
Exceeds(usd, t) == t \in DOMAIN Budgets /\ usd > Budgets[t]

\* applyBudgetDeny: tenants of which nothing that counts today gets in.
\* Mutant: each span of the batch is held against the budget alone.
BlockedTenants_PerSpan(batch) ==
  {t \in Spenders :
     LET spent == Current(t)
     IN Exceeds(spent, t) \/ (foresees /\ \E s \in ToSet(batch) : Exceeds(spent + Spend(<<s>>, t, day), t))}
BlockedTenants(batch) ==
  {t \in Spenders :
     LET spent == Current(t)
     IN Exceeds(spent, t) \/ (foresees /\ Exceeds(spent + Spend(batch, t, day), t))}

\* The spans of the batch that are not stored, by their places, and those that are.
Denied(batch) ==
  LET blocked == BlockedTenants(batch)
  IN {i \in DOMAIN batch : batch[i].tenant \in blocked /\ InPeriod(batch[i], day)}
Picked(spans, places) ==
  LET picked[i \in 0 .. Len(spans)] ==
        IF i = 0 THEN <<>>
        ELSE IF i \in places THEN Append(picked[i - 1], spans[i]) ELSE picked[i - 1]
  IN picked[Len(spans)]
KeptSpans(batch) == Picked(batch, DOMAIN batch \ Denied(batch))

(***************************************************************************)
(* serve.js.                                                               *)
(***************************************************************************)
\* capSpans.
CapSpans(spans) ==
  IF SpanMax = 0 \/ Len(spans) <= SpanMax THEN spans
  ELSE SubSeq(spans, Len(spans) - SpanMax + 1, Len(spans))

\* denyByTenantAt.
DenyCount(events, t, today) ==
  SumOf([d \in 1 .. LastDay |-> IF daily => d = today THEN events[t][d] ELSE 0])

\* snapshotFromSpans: budget_remaining, denied_total and the table of /.
Snapshot(spans, events, today) ==
  [day |-> today,
   spend |-> [t \in Spenders |-> Amount(Reported(spans, t, today))],
   denied |-> [t \in Spenders |-> DenyCount(events, t, today)]]

LedgerInit ==
  /\ daily \in BOOLEAN /\ foresees \in BOOLEAN
  /\ store = <<>> /\ day = 1
  /\ denyEvents = [t \in Spenders |-> [d \in 1 .. LastDay |-> 0]]
  /\ snap = Snapshot(store, denyEvents, day)
  /\ ingests = 0
  /\ added = [t \in Spenders |-> 0] /\ foreign = {}

Counted(batch) ==
  [t \in Spenders |->
    [denyEvents[t] EXCEPT ![day] = @ + Cardinality({i \in Denied(batch) : batch[i].tenant = t})]]

\* A span that today's budget does not hold: it is tomorrow's, or it takes off
\* what others cost, or its cost is no number.
Unheld(s) == s.usd \notin Nat \/ (daily /\ s.day > day)

\* ingest().
\* Mutant: nothing is rebuilt when nothing was stored.
Ingest_KeepsSnap(batch) ==
  LET kept == KeptSpans(batch)
  IN /\ Denied(batch) # {} /\ ingests < MaxIngests /\ ingests' = ingests + 1
     /\ denyEvents' = Counted(batch)
     /\ store' = CapSpans(store \o kept)
     /\ snap' = IF kept = <<>> THEN snap ELSE Snapshot(store', denyEvents', day)
     /\ UNCHANGED <<daily, foresees, day, added, foreign>>
Ingest(batch) ==
  LET kept == KeptSpans(batch)
  IN /\ IF Denied(batch) = {} THEN UNCHANGED <<ingests, denyEvents>>
        ELSE /\ ingests < MaxIngests /\ ingests' = ingests + 1
             /\ denyEvents' = Counted(batch)
     /\ store' = CapSpans(store \o kept)
     /\ snap' = Snapshot(store', denyEvents', day)
     /\ added' = [t \in Spenders |->
          LET usd == Spend(kept, t, day) IN IF foresees \/ usd = 0 THEN added[t] ELSE usd]
     /\ foreign' = foreign \cup {batch[i].tenant : i \in {i \in DOMAIN batch \ Denied(batch) : Unheld(batch[i])}}
     /\ UNCHANGED <<daily, foresees, day>>

\* reload(): the watched file replaces the store, and no budget is asked.
WatchedReload(batch) ==
  /\ store' = CapSpans(batch)
  /\ snap' = Snapshot(store', denyEvents, day)
  /\ foreign' = foreign \cup {s.tenant : s \in ToSet(batch)}
  /\ UNCHANGED <<daily, foresees, day, denyEvents, ingests, added>>

\* Midnight in UTC.
Midnight ==
  /\ day < LastDay /\ day' = day + 1
  /\ added' = IF daily THEN [t \in Spenders |-> 0] ELSE added
  /\ UNCHANGED <<daily, foresees, store, denyEvents, snap, ingests, foreign>>

LedgerNext == (\E batch \in Batches : Ingest(batch) \/ WatchedReload(batch)) \/ Midnight

LedgerSpec == LedgerInit /\ [][LedgerNext]_ledgerVars

-----------------------------------------------------------------------------
(***************************************************************************)
(* Properties.                                                             *)
(***************************************************************************)
\* The type invariant.
LedgerTypeOK ==
  /\ daily \in BOOLEAN /\ foresees \in BOOLEAN
  /\ store \in Seq(Spans) /\ day \in 1 .. LastDay
  /\ denyEvents \in [Spenders -> [1 .. LastDay -> Nat]]
  /\ snap \in [day : 1 .. LastDay, spend : [Spenders -> Int], denied : [Spenders -> Nat]]
  /\ ingests \in 0 .. MaxIngests /\ added \in [Spenders -> Int] /\ foreign \subseteq Spenders

\* However a tenant splits its spans over requests and days, the spend stored
\* for the period never exceeds its budget - by more than one request when
\* would-exceed is off - as long as no span of it came from the file or from
\* tomorrow, or cost less than nothing or no number of dollars: spanCost takes
\* token counts as they come, and with such a span stored the gate lets the
\* tenant past its budget.
WithinBudget ==
  \A t \in DOMAIN Budgets \ foreign :
    Spend(store, t, day) <= Budgets[t] + IF foresees THEN 0 ELSE added[t]

\* What is shown is the store and the denials as they are, up to the day on
\* which it was computed: no ingest, cap or reload leaves it behind.
SnapshotExact == snap = Snapshot(store, denyEvents, snap.day)
=============================================================================
