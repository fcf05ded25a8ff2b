# A TLA+ verification of the open AI-infrastructure bets

The repository holds six independent programs (`bets/a-` to `bets/f-`), written
in JavaScript (A, B, E) and Python (C, D, F) without dependencies. Four of them
are servers that keep state in memory and in files while requests, timers and
signals arrive in any order. This directory models that state and those orders.
It does not model what the programs print, parse or generate.

Paths below are relative to the root of the repository.

## 1. Inventory

| part | state it keeps | operations that change it | what is hard |
|---|---|---|---|
| **A** SDK generator (`a-sdk-mcp-gen`) | none while generating; two watch loops keep an mtime, or the last response; **the code it emits** keeps the attempts and the key of a call, the position of an iterator, and what an MCP server works at | generate, poll; in what it emits: call, retry, next page, parse, a line on stdin | a retry of what was already done, bodies that end early, servers that page in ways of their own, twelve implementations of each idea in ten languages |
| **B** MCP gateway (`b-mcp-gateway`), one Node event loop | policy in a file and in memory, keys with their grace; the upstream client and its tools; circuit breaker; rate windows per tenant; sessions and tombstones; ring and file of audit events | tool call, tools/list, reload (SIGHUP, `/admin/reload`, mtime poll), token rotation, session open/drop, drain | everything that happens during an `await`: overlapping reloads, outcomes that arrive in another era of the breaker, replies out of order |
| **C** agent CI runner (`c-agent-ci`), one thread per request and a worker pool | FIFO, counters, history of runs in memory, one result file per run; generation of the fixtures watch | POST a run, execute, fail, trim, SIGTERM, shutdown, restart | slots counted in one lock section and freed in another, a flag read without the lock, files that fail to be written |
| **D** AI BOM (`d-ai-bom`) | one snapshot, swapped by a watch thread | rescan | a file that is read while it is written |
| **E** cost ledger (`e-otel-ai-cost`), one Node event loop | span store with a cap, deny events, last snapshot | ingest with budget gate, reload, day roll | spend that shrinks, a day that rolls under a snapshot |
| **F** approval agent (`f-cn-work-agent`), one thread per request and an expiry loop | approvals in a JSONL file; settings changed by a config watch | create, list/get, decide, expire, cap; CLI commands on the same file | read-modify-write of a whole file by threads and by other processes, expiry racing decisions, crashes |

How they interact: an MCP server that A emitted is a stdio upstream of B
(`StdioLink` composes the two ends, `SdkCall` is what the server then does), and
B's audit or C's runs can be shown to E, but only through files and HTTP calls
that a user wires up (`docs/stack-demo.md`). Within a program the parts share
memory: in B a reload replaces the breaker under calls in flight and clears the
rate windows (`ToolCall` composes them); in F every request first runs the
expiry that the loop runs too; in C HTTP threads and workers share the FIFO and
the counters. Webhooks go out of B, C, D, E and F, with one retry.

What makes each part correct:

* run queue (C): a run is begun once; the counters are the runs that hold a
  slot; a run that was accepted is completed, unless the process ends first, and
  no answer about it goes back.
* breaker (B): count and state agree; one probe; nothing stays open or blocked
  for ever; Retry-After is enough.
* policy and upstream (B): the policy in memory and the upstream are of one version
  of the file; no edit is missed; no rotated key comes back; no client is left open.
* tool calls (B): the rate window bounds what a tenant is let through under one
  policy and blames nobody else; the breaker fits the outcomes it hears. Audit (B):
  who may read misses nothing and sees nobody else's; what was taken out of an event
  stays out.
* keys (B): a key is taken as long as was announced, and no longer. Sessions (B): an ended id is
  refused, a live one is not. Stdio upstream (B): a request gets its own answer.
* approvals (F): decided once and for ever; none lost; each decision notified
  once; the history cap drops the oldest only; expiry happens.
* budgets (E): the spend that is stored stays within the budget, and what is
  shown is what is stored.
* webhooks and watches (all): a notification ends, a write is loaded.
* emitted clients (A): an operation is carried out once; a call ends; pages are
  neither skipped nor repeated; arguments and credentials arrive where the
  document says; a page that was cut is not taken for a whole one.

`PROJECT.json` lists every component, modelled or not, and the hazards that weigh
most, with their lines and the properties that cover them. Section 8 lists what
was met beside them.

## 2. Modules

| module | models | of |
|---|---|---|
| `RunQueue` | class `RunQueue` with its HTTP and worker threads, the result files, restarts; `ServiceSpec`: it implements `RunService` | `c-agent-ci/src/agent_ci/serve.py` |
| `RunService` | abstract: what a client that polls a run is promised | the README of C, lines 103-104 |
| `MCRunQueue` | TLC definitions | |
| `Breaker`, `MCBreaker` | the circuit breaker and the outcomes of calls in flight around it | `b-mcp-gateway/src/breaker.js`, `server.js` |
| `ToolCall` | `executeToolCall`: policy, rate window, breaker, upstream, audit, under reloads, a drain and time; it takes the actions of `Breaker` | `b-mcp-gateway/src/server.js`, `policy.js`, `audit-export.js` |
| `Gateway` | the policy file, its copy, reloads, the upstream client | `b-mcp-gateway/src/server.js`, `policy.js`, `cli.js` |
| `MCGateway` | `Gateway` and `ToolCall`, which share no state, one of them moving at a time | |
| `TenantKeys` | one tenant's key, the grace of the one before, rotation, reload, edit | `b-mcp-gateway/src/policy.js`, `server.js` |
| `Sessions` | the session store and the requests that ask it | `b-mcp-gateway/src/mcp-http.js`, `server.js` |
| `AuditLog`, `MCAudit` | the ring and the file of events, their redaction, and who is shown what | `b-mcp-gateway/src/audit-export.js`, `redact.js`, `server.js`, `cli.js` |
| `StdioLink` | the stdio upstream with an emitted MCP server at the other end | `b-mcp-gateway/src/upstream.js`, `a-sdk-mcp-gen/src/openapi.js` |
| `Approvals` | the approval file and the threads and processes that rewrite it; `LedgerSpec`: it implements `ApprovalLedger` | `f-cn-work-agent/src/cn_work_agent/approvals.py`, `server.py`, `router.py`, `cli.py` |
| `ApprovalLedger` | abstract: create, decide once, keep the newest | |
| `MCApprovals` | TLC definitions | |
| `Ledger` | the span store, its cap and its budgets | `e-otel-ai-cost/src/serve.js`, `cost.js` |
| `Webhooks` | one notification and its retry | `webhooks.js` of B, `webhook.js` of E, `webhook.py` of C, D, F |
| `Watches` | the loops that load a file or a URL again when it changed | `cli.js`, `fetch-spec.js` of A; `serve.js` of E; `serve.py` of C, D; `server.py` of F |
| `SdkClients` | tables of how the emitted clients differ | `a-sdk-mcp-gen/src/openapi.js` |
| `CallOnce` | abstract: what an Idempotency-Key promises to a caller | |
| `SdkCall` | a writing call: three attempts, timeouts, Retry-After, one key; `CallOnceSpec`: it implements `CallOnce` | `openapi.js` |
| `SdkRequest` | credentials and arguments that go into a request | `openapi.js` |
| `SdkPages` | the `iterate*` helpers against four kinds of servers | `openapi.js` |
| `SdkJson` | the JSON readers and writers that are emitted by hand | `openapi.js` |
| `MCParts` | the eleven parts that share no state, one of them moving at a time | |
| `RunQueue_proofs`, `Breaker_proofs`, `Gateway_proofs`, `Approvals_proofs`, `ToolCall_proofs` | theorems about the module of that name | |
| `GatewayParts_proofs` | theorems about `TenantKeys`, `Sessions`, `StdioLink` and `AuditLog` | |
| `Sdk_proofs` | theorems about `SdkCall`, `SdkRequest` and `SdkPages` | |
| `Stores_proofs` | theorems about `Watches`, `Ledger` and `Webhooks` | |

`PROJECT.json` maps each definition to its lines. Operators whose name has an
underscore (`Put_Twice`, `Opens_OffByOne`) are not part of the models: each is a
plausible bug that replaces the definition after it, to show that a property
notices it. (In MC modules, `_MC` is a constant's value.)

### RunQueue

One action is what no other thread can split: a lock section, a read of `_stop`
without the lock, one `put`, or execute_run's write of the result. A run is a
token; `stage[r]` says where the thread that holds it stands, so no program
counters are needed. `CheckStop`, `AdmitRunning`/`AdmitQueued`/`RefuseFull` and
`Put` are `submit`; `Take` to `Release` are `_worker_loop` and `_fail`;
`MarkStop` is SIGTERM; each `Shutdown` is one sentinel put after the drain, which is
a fixed sleep (serve.py:1893) and may end with any work under way; `Exit` is the
return of `main()`: the workers are daemon threads and nobody joins them, so what
they hold is left where it is. `Restart` is a process that starts again on the same
`runs_dir`, after an exit or a kill. Both leave what `EndProcess` says: nothing in
memory, and files that a write in progress may have left torn, or complete before
memory knew. `disk[r]` holds the status in the file, or
`torn`. A write may raise (`MaxFaults` times): in `submit` it leaks the slot, in
`Begin` it kills the worker too, in `_fail` it kills the worker after the slot
is freed. `BadSeed` is the body whose `seed` `int()` refuses. A request that was
answered is a client's business no more, so the 202 is not a step.

### Breaker

`executeToolCall` asks `allow()` and records the outcome around one `await`;
node interrupts neither half. `openAge` is the time since the circuit opened, up
to `OpenTime`, since the code compares nothing else. Every reader (`/health`,
`/ready`, a refused call, Retry-After) moves the state as `Observe` does. A
reload puts a new breaker under the calls in flight.

### Gateway

`reloadPolicyAndUpstream` awaits `close()`, which does no I/O, and node runs the
rest of it before anything else that waits; so reading the file, closing, and
creating the next client are one action (`ReadPolicy`, `Connect`), and waiting for its
tools is the other (`Connected`, `ConnectFailed`). Clients are numbered as they
are created; `of[c]` is the version of the policy that `c` was created for.
`mtime` counts the writes, so two writes never have the same time. Tool calls
go to `state.upstream` by the names in `state.upstreamTools`; they change
neither and are in `ToolCall`. `Listen` and `BeginDrain` are `serve()` of the
CLI; the file may be edited between the load of the policy and the first look
at its mtime, and that edit is missed by the poll (`last' = mtime`).

### Approvals

Every operation is a list of sections (`DecidePlan`, `ReadPlan`, ...). A section
reads all rows and computes (`Enter`), then writes them all (`Leave`); `_lock`
excludes other threads of the server in between, and no other process. A process
that reads while another writes can find any prefix of the rows (`Contents`).
The moment that `expire_due` compares with is taken before the lock, so it may
be any between the start of the section and now. Ids are numbered in the order
of their rows, which need not be that of their creation stamps, since the stamp
is taken before the lock; stamps are distinct (two requests never take the same
microsecond). "expired" stands for a rejected row whose reason is expired. `Notify`
stands for the webhook, the forward and the metric counter, which start together.
`Crash` kills the server between two steps, `Tear` cuts a write - the server dies
in it, or the disk is full - after any row and perhaps inside a character
(`garbled`: then every later read raises, `ReadFails`, until a whole file is
written). Between a decision and its notification the server appends an audit line
(`server.py:588`), which may fail: nobody is told (`AuditFails`, `unaudited`). The TTL and
the cap do not change while serving; when the config watch reads them is in
`Watches`, what a change does to a request under way is not modelled.

### ToolCall

A request finds its tenant (`Arrive`), awaits its body, runs `executeToolCall`
up to the upstream without interruption (`Execute`: one disjunct for each way
out), and ends with `Told` or `Thrown`. The tenant object that was found is that
of the policy then in force, `reading[c][2]`; a tenant without lists of its own
is decided by the policy of the moment (`Version`). `hits` are ages in ticks, so
that the window is "at most `Window` old". The actions of `Breaker` are joined
with what the gateway does beside them, so that what holds of `Breaker` holds here.
`used` and `mixed` are history: the ages of a tenant's admissions by the version of
the policy that was in force, which no reload forgets, and where a limiter was
replaced by one of another limit. The audit line that cannot be appended is an
alternative of its own (`Unrecorded`).

### TenantKeys, Sessions, StdioLink

`TenantKeys` follows one tenant: keys are numbered as they are generated, a
write may fail and leaves memory ahead of a file that is as it was or is cut short
(`Unreadable`), a reload brings the file back, an edit may do anything. `promise` is
what the last rotation announced, `announced` what each of them did.
`Sessions` has the two maps as sequences in insertion order, because eviction
goes by it; a request is one synchronous step. `StdioLink` has one step per
callback of node (`Line`, `Exited`, timers), pipes as sequences of ids, and a
server that takes lines one by one (Python, Go) or overlapping (JavaScript). A
request is refused at once when the child was killed by the gateway or left an exit
code (`NotRunning`); one that died of a signal of somebody else's has none
(`upstream.js:244`) and is written to, so the request ends by its write or its timer.

### AuditLog

`appendAudit` is one synchronous step of node: the event is redacted as the policy
of the moment has it (`ToWrite`), goes into the ring and then to the file
(`Record`). An append may fail on a full disk and leave nothing, a part of the
line, or a line without its end; what is written next is glued to it (`Appended`).
Events are numbered as they are recorded, and the numbers are their times, so the
ring and the file are sets. A field of an event is as the call had it ("clear"),
without what looks like a secret ("masked"), or replaced ("redacted"). Reads are
operators on the state (`Admitted`, `Found`, `Shown`, `View`): GET `/audit` and
`/audit/export` with a tenant's key or the admin token, `/admin/audit`, and the
command `export-audit`, which reads the file under the policy of its own
`--config`. `Policies` are what a policy file may say of tenants, admin token and
redaction; a reload or a restart may put another in force between any two events.
What gzip, chunks and file names do to an export is left out.

### Ledger, Webhooks, Watches

`Ledger`: an ingest or a reload is one synchronous step; costs are whole units,
negative ones and `NaN` among them, since `spanCost` takes token counts as they come
(`cost.js:50-55`); infinite ones are left out. `snap` is what `/metrics` and `/`
show. `Webhooks`: `Senders` is the table of who
waits for the notification and who reads the body of its answer. `Watches`: the
writer truncates and fills a file (or publishes a document), the loop looks,
loads and stores in the order of its product: `generate --watch` takes the mtime
as seen before it reads, the others after. `excused` marks the writes that the
code cannot see (section 8).

### SdkClients, SdkCall, SdkRequest, SdkPages, SdkJson

The generator writes one client per language with the same control and different
details, so the details are tables in `SdkClients` (what a damaged body does,
which Retry-After is read, how keys are drawn, what can be sent at all) and the
control is written once. The server and the network are external: a request that
its client gave up may reach the server at any later time, answers may be lost,
late, damaged, or a proxy's. `CallOnce` says what the caller is owed. `SdkPages`
numbers the items `1 .. total`; a server pages by number, by a token, by a link
that no parameter takes, or has records with a field called `next`; `PageOdd` is a page that is no list, `PageUnmeasured`
one whose list is not found but whose cursor is. `SdkJson`
has texts as sequences of tokens without white space; `SdkRequest` has security
lists as sets of sets of schemes, and values that are segments of the path, begin
one, are empty or neither, which is what the TypeScript client tells apart
(`Shows`).

## 3. Runs

TLC, two workers. "violation" means that the run shows a statement of the
repository that the code does not keep.

| run | bounds | result | shows |
|---|---|---|---|
| `RunQueue_safety` | 4 runs, one with a bad seed; 2 workers; 1 place; history of 1; 1 failing write | holds, 183 000 states | `OneHolder`, `CountersExact`, `CapacityBound` |
| `RunQueue_service` | 3 runs, 1 worker, 1 place, history of 1, 1 restart | holds, 95 000 states | `ServiceSpec` (refinement), `AcceptedCompletes` |
| `RunQueue_badseed` | 2 runs, 1 worker | **violation** | `BadRequestsNeverOccupy` |
| `Breaker_oneprobe` | 3 calls, threshold 1 | **violation** | `ExactlyOneProbe` |
| `Gateway` | calls: 2 at a time, 4 in all; 2 tenants, one with lists of its own; threshold 2, 2 ticks open, a window of 1; 1 reload, 1 failing append. Policy: 2 forced reloads, the poll, the boot connection; 2 writes, 1 rotation, 1 tools/list at a time | holds, 588 000 states | `BreakerAgrees`, `WindowBound`, `LimitedByOwnUse`, `Reprobes`; `UpstreamOfPolicy`, `DisconnectedByFailure`, `OpenAccounted`, `WatchReads` |
| `Approvals_safety` | 2 request threads and the loop, 2 approvals, cap 1, TTL 1, 1 crash, 1 audit line that fails | holds, 592 000 states | `NothingLost`, `NotifiedOnce`, `LateNeverDecided`, `OutcomeFinal`, `LedgerSpec` (refinement) |
| `Approvals_live` | 1 request thread, the loop, 1 CLI command, 2 approvals, 1 torn write, 1 audit line that fails | holds, 154 000 states | `ExpiryHappens`, `DecisionNotified` |
| `Approvals_unnotified` | 1 request thread, 1 approval | **violation** | `ExpiredNotified` |
| `Approvals_twice` | 1 request thread, the loop and a CLI command | **violation** | `OutcomeFinal` |
| `Parts` | eleven parts, below | holds, 304 000 states | `WordKept`, `CallOnceSpec` (refinement), `CallEnds`, `EachItemOnce`, `CredentialsFit`, `ArgumentsArrive`, `PageRead`, `OwnAnswer`, `EndedRefused`, `ActiveServed`, `GraceHonoured`, `HookSettled`, `NoGaps`, `OwnOnly`, `RedactionKept`, `WithinBudget`, `SnapshotExact`, `NoWriteMissed` |
| `Pages_next` | the page iterators of `Parts` | **violation** | `NextFollowed` |
| `Keys_again` | the keys of `Parts` | **violation** | `EveryGraceKept` |

**Parts.** Eleven parts share no state, so `MCParts` lets one of them move
(`focus`) while the others keep one initial state; their state spaces add up
instead of multiplying.

| part | bounds |
|---|---|
| calls | 13 clients, 3 forms of Retry-After; a second call only where keys can be equal, which are those of Rust's clock |
| requests | 4 security lists, 2 arguments with 6 values, 2 ways to set a credential; security and arguments are varied apart (`Apart`), since no code looks at both |
| pages | lists of 0, 1, 3 and 5 items, pages of 2 and 3 or as the server likes, a server that gives 2 at most, and 7 rounds instead of 1000 |
| JSON | objects of two members, lists of two, every cut and every missing token |
| stdio link | 3 requests, so that one is given up, one waits and one follows |
| sessions | 3 ids against a cap of 2, TTL of 2 ticks |
| keys | 4 keys, a clock of 4 ticks, graces of 0 and 2 |
| webhook | the 5 senders, all answers |
| ledger | 1 spender with a budget of 1 (the gate reads a tenant's own spans; others only move the cap, which the proof has), spans of 1, -1 and NaN, cap of 2, batches of 2, 2 days, spans of today and tomorrow, 1 denied ingest |
| watches | 5 kinds, 3 versions |
| audit | 2 tenants, 3 policies, 3 events of three kinds, a ring of 2, 1 append that goes wrong, any restarts and reloads; 48 reads over the places, formats, readers, filters and limits |

**Why the bounds are enough.** Every hazard a property covers needs at most: two
workers, one run that waits and one that is refused (four POSTs), and one
finished run over the cap; three calls from three eras of a breaker; a call that
is let through, one that waits for its body and one after a reload; two reloads
that overlap and one that follows; two threads in a section each beside the
loop, and two approvals so that one is dropped for the other; one id more than
the cap; a second rotation within a grace; a page that is full, one that is
short, and one that is empty; an event that drops out of the ring, one that is
cut in the file and one that is glued to it. One fault, crash or restart per behaviour is taken
because each is independent of the next; where counts would add up, any number
is proved. The breaker's open time in `Breaker_oneprobe` is no multiple of a
second, so that rounding matters. `MaxRestarts`, `MaxFaults`, `MaxReloads`,
`MaxForced`, `MaxWrites`, `MaxKeys`, `MaxCalls`, `MaxNow`, `MaxCrashes`, `MaxTorn`, `MaxUnaudited`,
`MaxEvents`, `MaxGen`, `LastTick`, `LastDay`, `MaxIngests`, `BatchMax`, `MaxVer` and, in
`Approvals`, `MaxIds` bound behaviours and stand for nothing in the code (in
`Sessions`, `MaxIds` is the code's cap). `MaxNow` stops requests, not time, which
goes on for one TTL, so every approval falls due.

**Deadlock** is checked except where the system may really stop: a runner that
was shut down, the gateway when all bounded inputs are spent (`Gateway`), and parts
whose one call, page or notification is over.

**Symmetry** is used for runs without a bad seed, workers, request threads and
calls, in safety runs only.

**Type invariants.** No run lists one, since a run's list is kept for what a step
could break. Nearly all are theorems (section 5); the proofs about `AuditLog` keep the
types they need (`LogTypes`). `JsonTypeOK` and what `SessionsTypeOK` says of the
ids that are served hold under the configurations above.

**Violations.** Each quotes a line in `PROJECT.json`.

* `BadRequestsNeverOccupy`: `submit` counts the slot and then evaluates
  `int(body.get("seed", 42))`, which may raise. The comment above the check of
  the body says "bad requests never occupy the queue".
* `ExactlyOneProbe`: a call that started before the circuit opened ends during
  the probe and clears its flag; after the next opening a second probe joins the
  first.
* `ExpiredNotified`: `get`, `list` and `decide` run an `expire_due` of their own
  and ignore what it returns; an approval that falls due between the caller's
  expiry and this one is expired, and no one is told, then or later.
* `OutcomeFinal` with a CLI command beside the server: the command writes back
  rows that it read before a decision; the approval is pending again and is
  decided again. Within one server the property holds, and is proved.
* `NextFollowed`: every iterator leaves its loop on a page that is shorter than
  the size asked for, before it looks at the cursor the page names; from a server
  with a smaller limit of its own the rest of the list is never asked for.
* `EveryGraceKept`: a key is announced as valid until `previousTokenExpiresAt`; a
  second rotation before that time puts another in its place (`policy.js:256`), since
  a tenant has room for one previous key, and the announced key is refused.

**What is left weak on purpose**, because the code promises no more:
`AcceptedCompletes` has the end of the process as its other outcome: `main()` waits
a fixed time and returns, so a run that is in work or in the FIFO then is left.
`WindowBound` counts the admissions under each policy by themselves: a reload drops
the limiters (`server.js:404`), so across a reload the limits add up; and where a
request that was found under an older policy has its tenant's limiter replaced, it
says nothing of that policy. `UpstreamOfPolicy` speaks of the two in memory, not of
a call: one whose tenant was found before the reload is decided by that tenant's
own lists and goes to the newer upstream (`server.js:1208` to `1235`).
`DisconnectedByFailure` allows an older reload's failure to give up a newer
client. `OpenAccounted` allows one unclosed client per failed connection.
`WatchReads` speaks of writes after the poll's first look at the file.
`GraceHonoured` follows the last rotation only (`EveryGraceKept` shows what becomes
of the one before), and stops at a failed write or an edit. `WithinBudget` excepts
tenants of which a stored span came from the watched file or from tomorrow, cost less
than nothing or no number of dollars - once one of negative cost falls to the cap, or
one of `NaN` is in, the gate lets the tenant past its budget - and one request when
would-exceed is off. `ExpiryHappens` excepts a file that was cut inside a character,
which no pass can read, and `DecisionNotified` a write that was cut and an audit line
that could not be written. `NoGaps` allows what was lost with a line that the disk
cut, once a restart has taken it from the ring. `CallEnds` allows a client to hang in
the middle of a body whose peer drips or stalls, where its runtime has no timeout for
that. `NoWriteMissed` excepts `excused` writes. `CredentialsFit` excepts a bearer
token and a key that both want the Authorization header. `ArgumentsArrive` excepts,
in the TypeScript client, a query argument whose value the path shows (`Swallowed`),
and path arguments said again in a body (`Repeated`). `PageRead` allows Rust's
`page_len` the length of a whole list in a page that was cut behind it, and 0 for a
body of which nothing is left (`openapi.js:4976`), which ends an iteration.

## 4. Fairness

* `RunQueue`: the operating system runs every thread that can run, and
  `execute_run` returns or raises. A handler that has entered `submit` goes on;
  nobody has to POST. The main thread goes from the drain to the exit by itself, and
  no worker is given time before it: the exit may come first. Fairness is weak and
  per thread: a step inside a thread stays possible until it is taken, and when an idle worker loses the head of the
  FIFO to another, that one holds the run.
* `Gateway`, of the calls: time passes (`Pass`); `upstream.timeoutMs` ends every call
  (`Told`, `Thrown`); the readiness probe of the deployment
  (`deploy/k8s/b-mcp-gateway.yaml:46-48`) keeps reading `/ready`, which moves the
  breaker (`Read`). No client has to call.
* `Gateway`, of the policy: `setInterval` ticks, listen follows the boot connection,
  and the upstream timeout ends every wait. Once the calls move (`focus`), the policy
  has nothing left to read, and before that no call is under way.
* `Approvals_live`: threads of the server run, time passes, and the expiry loop
  goes round, since it catches what a pass raises. Nothing is assumed of CLI
  commands. Crashes are excluded there: a crash between the write of a decision
  and its notification loses the notification, which nothing in the repository
  excludes.
* `Parts`: a client's timers fire and an answer that came is read
  (`CallFairness`); a webhook's abort timer or socket timeout ends an attempt and
  a timer the 50 ms (`HookFairness`). Servers, networks and receivers owe nothing.

## 5. Proofs

All theorems are about every value of the constants that satisfies the named
assumptions (finite sets of threads, naturals for limits, special values outside
of the sets). No theorem is assumed.

**RunQueue.** `TypeCorrect` needs two facts beside the types: the file of a
stored run is a result (`StoredFile`, since `Finish` copies it to memory) and
only a run without a slot is failed for the shutdown (`ReservedFlag`).
`RunsHaveOneHolder` is inductive with these: FIFO and workers partition the runs
that are on their way, and each action moves one token. `CountersAreExact` adds
`CountInv` (the counters are the cardinalities of the two sets of holders, and
`Reserved` is bounded): an action moves at most one run in or out of a set
(`OneMoved`), so `max(0, ...)` never hides anything. `CapacityIsBounded`
(`CapacityBound`: at most `2 * concurrency` counted runs, since a slot is
reserved in `submit` while every worker may still hold another run) follows from
an injection of the active runs into the workers (`ActiveBound`), from
`Reserved <= concurrency`, and from `DroppedInv`: each run dropped by a dead
worker is one failed write.
`QueueImplementsService` is proved while no write fails (`NoFaults`: one that fails
leaves a torn file behind an answer that was given). Memory and file of a run agree
with its stage (`Fits`), and the history is within its cap with a number of its own
for each run (`Capped`). What a client is shown as the history is the finished runs
by `Rank`; ranks are those from 1 on, by counting (`Ranks`), a run that finishes has
the highest (`Appended`), and the one that the cap drops has the first
(`OldestOverdue`, `CutHistory`), so each lock section that finishes a run is one
`Complete` of the service.
What may stop at any step are the process and its files: `EndProcess`, which an exit
and a kill share, leaves a state from which the service goes on as after a restart
(`EndImplements`). The safety of `AcceptedCompletes` is `HoldersAreLive`: a run is
only with a thread that runs (`LiveInv`: `Finish` lets go of the run in the step in
which its write kills the thread).

**Breaker.** `Inv` is `TypeOK` with the two halves of `BreakerAgrees`, the
circuit that agrees with the count and the probe flag that belongs to a probe:
half_open is only reached from open, where the threshold has been counted, a
failure in half_open leaves the count, and a success resets both.
`RetryAfterIsEnough` is arithmetic on `Ceil`.

**ToolCall.** Its actions are written with those of `Breaker`, so that what was
proved of the breaker alone holds of the gateway (`CallsKeepAgreement`, by the lemma
`CallsKeepBreaker`).
`Windows` is the invariant of the rate windows: what a limiter holds are the last of
the admissions under the policy in force (`Recent`), all of them unless the limiter
was replaced under it (`Replaced`), and no more than its limit, which is that of a
version the tenant can be judged by (`JudgedLimits`). What was admitted under an
earlier policy was bounded when that policy ended and only grows older (`Past`), and
nothing is noted of a policy to come (`Future`). Dropping what is too old keeps that,
because the ages of a window grow one by one for both (`WindowsBound`); a refusal
then finds a limit's worth of the tenant's own admissions (`LimitedByOwn`).
The code filters the hits by their age where `Kept` takes the end of them. That
this is the same is a theorem, `LimitersFilter`: admissions stand oldest first
and within the window (`Ages`), the hits are the last of them (`HitsAges`), and
of such a sequence those that are young are its end, by counting both
(`WithinIsTheFilter`). With the counters (`Marks`) that gives the type invariant,
`ToolTypes`.

**Gateway.** `Inv` adds to the types: `ClientsCounted` (each client was created
for a reload or a write, so there are numbers left), `KeysOrdered` (neither the
key in the file nor the one in memory is older than the last that was saved),
`LinkAgrees` (`UpstreamOfPolicy` for a client that exists) and
`DisconnectedByFailure`. Three safety theorems follow. For
`FailuresAccountForOpen`, every step leaves `open \ {upstream}` as it is, but for
a failed connection, which adds one element and counts one failure
(`UnusedOnlyByFailure`).
`EditsStayPending` is the safety of `WatchReads`: a poll stores the time that it
saw before its reload, so what is written meanwhile is newer; and if it is not,
the version that was read is the one of the file (`PollReads`).

**TenantKeys.** `Promised` relates the tenant in memory and the one on disk to
what was announced while nothing was lost: both are what the last rotation made,
so a reload changes nothing (`KeysTypeCorrect`, `GraceIsHonoured`). Only the last
announcement can be invariant: the run `Keys_again` shows the one before it broken.
A write that fails may leave a file that no reload can read (`FileRecords`).
`KeyKept` of
`Gateway` says the same of overlapping reloads and is proved there (`KeysAreKept`).

**Sessions.** `Tombs`: behind the tombstone of an id stand no more ids than were
terminated since. Dropping the oldest beyond the cap keeps that
(`NewestKeeps`), so a tombstone is dropped only after `MaxIds` others were made,
and `check()` answers "ok" only where none stands (`OkMeansNoTomb`). In the other
direction (`LiveOnesAreServed`), only what was terminated has a tombstone
(`Graves`), so no one else's cap makes a session gone. `TombsCapped`: the sequence
that stands for the map of tombstones has a key once, so there is one place to
delete it from, and is never longer than the cap.

**StdioLink.** Ids grow, so one that is not used up has not run (`Unused`); an
id is in the pipe once and was not taken up before (`Unread`, `RanOnce`); a
reply in the pipe is of an id that ran (`Answers`); and the map holds the ids of
those that wait (`Waiters`). `OwnAnswer` is a part of that. `Sent` adds that each
request uses one id up and that no two have the same: so ids never run past the
number of requests, and the server's steps, which range over those, leave no call
out (`LinkTyped`); and what settles a promise - a line, the timer, the callback
of write, the exit - finds it by an id that is in the map, which no settled one
has (`PromisesSettleOnce`).

**AuditLog.** Ring and file are parts of one log (`LogTypes`) whose numbers name
its events (`Numbered`); a line that was saved is in the file (`Saved`), and the
ring has what is not older than its cap, but for what a restart lost (`Held`).
`AnswersHaveNoGaps` counts: of a part of the log there are no more events after
one than in the log, so neither the cap nor the limit takes one that is due.
`TenantsSeeTheirOwn` and `RedactionIsKept` follow from what redaction does to an
event (`MaskedStays`, `ShownEvent`): it never gives back a field, a field that is
shown at all was left in by the request or by default (`Unasked`), and an event has
its hash as soon as its arguments are replaced (`Hashed`).

**SdkCall, SdkRequest, SdkPages.** `CallsOnce` is the refinement of `CallOnce`. It
needs that a call has a key from its first attempt on, that every request carries
the key of its call, and that an answer on its way says what became of that key
(`CallsFit`, `WireFits`); the facts about the thirteen clients are read from their
tables (`NamesOfFailures`, `WholeIsKept`). `ServerWordKept` adds `WordFits`: whom
the server asked to wait sleeps for it or has waited. The request of a call is
composed from what the client was generated with (`RequestInv`), from which
`CredentialsAlwaysFit` and `ArgumentsAlwaysArrive` follow by cases over security and
languages; that the TypeScript client, which goes by values, splits the arguments as
the others do but for those whose value the path shows is `SplitByValue`. `EveryItemOnce` keeps `OnTrack`: the next page begins with the next
item, or behind the end of the list once the caller has them all; a page whose list
is not found gives nothing and goes where a round goes (`UnmeasuredIsRound`).
`CallsGoForward` is the safety of `CallEnds`: a call that moves is further by
`Progress`, which is bounded by twice the attempts. `PagesTyped` and
`RequestTypes` follow from the same invariants as the rest.

**Watches, Ledger, Webhooks.** `NoWriteIsMissed` keeps that no mtime is taken for seen before
it is there, and that the one that was stored belongs to what is shown
(`FileInv`); of a URL, that the validators belong to one version (`UrlInv`).
`BudgetsKept` is arithmetic on sums: the sum of a store with a batch is the sum of
both, and a part of the store has no more than the whole. Facts about sums of any
length are proved by well-founded induction on the natural numbers, for sets that
are spelled out (`WFMin`), since no rule with an operator parameter can be used.
`LedgerInv` adds that every stored span of a tenant that is held to its budget has
a natural cost (`Fit`) - then what is reported of it is what was spent, and the cap
takes nothing off (`CapCut`, `CapSpend`, `StoreFit`) - and that with a daily budget
none is of a day to come, so that midnight brings none in. With the counters beside the spans (`CountsTyped`) it
gives `LedgerTyped`. `HookInv` says that an attempt that is out was not taken and
that who sleeps has made one; from it come `HookTyped` and, as the safety of
`HookSettled`, `HooksAreTried`: what is over was heard or tried twice.

**Approvals.** `TypeCorrect` holds with other processes and torn writes. The
other theorems are proved for `ServerAlone` (no other process, no write cut
short), which the run `Approvals_twice` shows to be needed. The inductive
invariant: one thread is in a section at most (`OneWriter`, which is what
`_lock` gives); rows and outcomes agree (`RowsAgree`: a pending row has no
outcome, a decided or dropped one has the one it was given); and what a thread is
about to write is what the file holds with pending rows decided, or one row added
(`WorkFresh`). A step that leaves the file preserves all three; `Leave` uses the
third. `NoApprovalLost` and `DecisionsAreFinal` follow.
`StoreImplementsLedger` is the refinement of `ApprovalLedger`: it adds that the
file is capped already and that what a thread is about to write is the file with
decisions of its own, capped (`Exact`), so that every `Leave` is one step of the
ledger and everything else is none.
`NobodyToldTwice` adds `OwedOnce`: what a thread is about to notify was decided,
was told to nobody, and is owed by no other thread; a plan never notifies twice
in a row (`RemaindersShrink`). `LateComesTooLate` adds `LateSettled`: once a late
request has left the first section of its plan, its approval is not pending, and
while it is in it, it is about to write it so, because the moment it compares
with is not before its arrival (`SinceKept`, `LateExpires`).
`DecisionsAreAnnounced` is the safety of `DecisionNotified`: the section that
decides hands the decision to the step that notifies it, since only the section
of `decide_approval` writes one (`OnlyDecide`) and a plan goes from there to the
notification or fails at the audit line in between (`AnnouncedFails`); a server that
is killed there is why `crashes = 0` stands in it. `CapIsKept` (`CapKept`: at most `Cap` decided rows) needs that no two rows
have the same stamp (`Stamped`): of rows that are capped already the oldest
decided one has all the others above it, so there are no more than the cap.

**Model-checked only.**
Liveness (`AcceptedCompletes`, `Reprobes`, `WatchReads`,
`ExpiryHappens`, `DecisionNotified`, `CallEnds`, `HookSettled`) is out of the
prover's reach with fairness; a part of most of them that is safety is proved, as
said above. `PageRead` is about
`SdkJson`, whose readers are recursive operators, so nothing about it, or about
`MCParts`, can be proved. `ListSessions` selects by a predicate (`SelectSeq`, a
definition by recursion over the sequence), so the type of the ids that are served
is left to TLC.

## 6. Plan

What could be added next, in this order:

1. `TTL` and `Cap` of `Approvals` as variables that the config watch changes
   between two sections of a request.
2. The state of C's stored results beside `RunQueue`: baseline and gate, as pure
   operators against reference definitions; the same for policy evaluation and IP
   match (B) and the breaking-change check of A.
3. A gateway call through `StdioLink` into `SdkCall`: the call that the gateway
   has given up and the emitted server still carries out, in one behaviour.

## 7. Not modelled

Generation of text (names, types, packaging of A's output), scanning, exports,
cards, signatures, headers, logs and command-line parsing turn one
value into another and keep no state: what can go wrong in them is data. Listing
and paging of the servers only read. The limiters of C, D, E and F are the window
of B under a lock or in one event loop; C, D and F drop a hit that is exactly a
window old, where B keeps it. The `cli.js` files of A, B and E are mostly smoke
tests (about 10 300 lines) that drive the servers from outside. `forward.py` of F
posts a card once. Manifests, dashboards and scripts are not programs with a
state.

## 8. Met beside the properties

Behaviours of the code that were seen while modelling, that no run shows as a
violation, and that a maintainer may want to know of.

Documentation says otherwise, or says nothing:

* B: a session id that expired is answered 404 once and then forgotten, so the
  next request with it is served (`README.md:101`).
* B: the breaker counts every error that is thrown, a JSON-RPC error of a healthy
  upstream too, where `README.md:54` and `upstream.js:80` name timeouts, connect
  errors and 5xx; the shape in which A's emitted MCP servers report a failure is
  none that `upstream.js` recognises as a 5xx.
* E: the remaining budget and the denials shown keep yesterday's values after
  midnight until the store changes (`README.md:42`).
* A: the timeout of an attempt does not cover the reading of the body in
  TypeScript and others (`README.md:64`).
* A: the TypeScript client leaves out a query argument when `/` and its value stand
  anywhere in the path: when it is a literal segment, begins a segment, or is empty
  (`openapi.js:3124`); it repeats path arguments in a body; parameters that a POST declares
  for the query go to the body; all apiKey schemes share one value; a bearer
  token and an apiKey named Authorization overwrite each other.
* A: pages that are odd or cut and answered 200 end an iterator without an error;
  Rust sends a cursor with its JSON escapes, and takes an empty body for an empty page.

Faults without recovery:

* B: a reload clears every rate window (`server.js:404`); an upstream error that
  is thrown on leaves no audit line (`server.js:591`); a 503 while draining leaves
  none either, though its hit is counted; while the tools of a new upstream are
  unknown, the built-in tools answer in their place.
* B: a rotation whose write fails may leave a policy file that is cut short and that
  the next start cannot read (`server.js:909`). A request spanning a reload is
  decided by its tenant's old lists and sent to the new upstream.
* B: an `error` event of the child or of its stdin is handled by nobody; a child that
  was killed by a signal has no exit code and is still written to (`upstream.js:244`); a call
  that timed out still runs in a serial MCP server, and the caller's retry gets
  another Idempotency-Key.
* C: the drain is a fixed sleep (`serve.py:1893`) and the workers are daemon threads:
  runs in work or in the FIFO at the exit stay "running" or "queued" in their files.
  A write that fails in `finish` skips the trim of the history; a daemon
  thread's webhook is lost at exit (`webhook.py:301`).
* F: a file that was cut inside a character cannot be read by any request or pass until
  somebody mends it (`approvals.py:96`); an audit line that cannot be written leaves a
  decision that is stored and told to nobody (`server.py:588`).
* D: a receiver that drips its answer holds the command line.
* E: token counts are taken as they come (`cost.js:50-55`): negative ones, and `NaN`,
  let a tenant past its budget. `denyEvents` is never trimmed (`serve.js:364`); the webhook is awaited before
  the answer (`serve.js:634`), so a client may send again what was stored.
* A: keys that Rust draws from the clock can be equal; a pinned key is shared by
  different calls; Swift sends a POST again when its answer is garbled; PHP takes
  a cut body for a whole one; Rust speaks no https; PATCH is never sent by Java
  and Kotlin.

Watches miss: a write between the first load and the first look at the mtime
(`cli.js`, `serve.js`, `serve.py`, `server.py`; `server.js:266` of B); a document
whose generation failed, in A's watches, until it changes again (`cli.js:532`); a
second version within one second from a server without ETags; a file that is
restored with an older mtime.
