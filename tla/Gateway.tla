------------------------------- MODULE Gateway -------------------------------
(***************************************************************************)
(* The policy of the MCP gateway: its file, its copy in memory, and the    *)
(* upstream connection that every reload makes anew (server.js).           *)
(*                                                                         *)
(* reloadPolicyAndUpstream reads the file, closes the old client, creates  *)
(* a new one and asks it for its tools without letting another request in  *)
(* (closing awaits no I/O); then it waits for the answer, and SIGHUP,      *)
(* POST /admin/reload, the mtime poll of --watch, token rotation and       *)
(* tools/list requests run in between.  Clients are numbered as they are   *)
(* created, 0 is none; of a policy its version is kept, the key of one     *)
(* tenant, and whether it has an upstream that a client can be created     *)
(* for, none, or does not parse.                                           *)
(***************************************************************************)
EXTENDS Integers, FiniteSets

CONSTANTS
  Admins,      \* the SIGHUP and POST /admin/reload reloads that can overlap
  Lists,       \* the tools/list requests that can be in flight together
  Boot,        \* the connection made before listen
  Watch,       \* the reload of the mtime poll
  MaxWrites,   \* bound: writes of the file
  MaxKeys,     \* bound: rotations
  MaxForced    \* bound: reloads of Admins

ASSUME TasksAssumption == Boot \notin Admins /\ Watch \notin Admins \cup {Boot}
ASSUME BoundsAssumption == MaxWrites \in Nat /\ MaxKeys \in Nat /\ MaxForced \in Nat

Tasks == Admins \cup {Boot, Watch}
Clients == 1 .. 1 + MaxForced + MaxWrites
Kinds == {"upstream", "local", "broken"}
Policies == [ver : Nat, kind : Kinds, key : Nat]

VARIABLES
  file,        \* the policy in the config file
  mtime,       \* its modification time: the writes so far
  edits,       \* versions the operator has written
  policy,      \* state.policy
  keys,        \* keys generated
  upstream,    \* state.upstream
  listed,      \* the client whose tools are in state.upstreamTools
  made,        \* clients created
  open,        \* clients that were not closed
  of,          \* the version of the policy a client was created for
  connecting,  \* the client whose tools a reload waits for
  listing,     \* the client a tools/list request waits for
  listens,     \* server.listen: requests come in
  draining,    \* state.shuttingDown, after SIGTERM
  polls,       \* the interval of startPolicyWatch is set
  last,        \* lastMtimeMs of the poll
  seen,        \* st.mtimeMs of the poll whose reload is busy
  forced,      \* reloads of Admins
  saved,       \* history: the last key that was written to the file
  fails,       \* history: connections whose listTools failed
  failedAt     \* history: clients created when the last of them did

disk == <<file, mtime, edits>>
link == <<upstream, listed, made, open, of>>
process == <<listens, draining, polls>>
history == <<forced, saved, fails, failedAt>>
policyVars == <<disk, policy, keys, link, connecting, listing, process, last, seen, history>>

PolicyInit ==
  /\ file = [ver |-> 0, kind |-> "upstream", key |-> 0] /\ mtime = 0 /\ edits = 0
  /\ policy = file /\ keys = 0
  /\ upstream = 1 /\ listed = 0 /\ made = 1 /\ open = {1} /\ of = [c \in Clients |-> 0]
  /\ connecting = [t \in Tasks |-> IF t = Boot THEN 1 ELSE 0]
  /\ listing = [l \in Lists |-> 0]
  /\ listens = FALSE /\ draining = FALSE /\ polls = FALSE /\ last = 0 /\ seen = 0
  /\ forced = 0 /\ saved = 0 /\ fails = 0 /\ failedAt = 0

(***************************************************************************)
(* The file.                                                               *)
(***************************************************************************)
\* The operator saves another version, which may not parse.
Edit(kind) ==
  /\ mtime < MaxWrites /\ mtime' = mtime + 1
  /\ edits' = edits + 1
  /\ file' = [file EXCEPT !.ver = edits + 1, !.kind = kind]
  /\ UNCHANGED <<policy, keys, link, connecting, listing, process, last, seen, history>>

\* What rotateTenantApiKey makes of the policy.
Rotated == [policy EXCEPT !.key = keys + 1]

\* POST /admin/tenants/{id}/rotate: the whole policy in memory is written, or
\* the write fails, perhaps when it has emptied the file, and memory keeps the
\* key.
Rotate ==
  /\ listens /\ keys < MaxKeys
  /\ keys' = keys + 1 /\ policy' = Rotated
  /\ \/ /\ mtime < MaxWrites /\ mtime' = mtime + 1
        /\ \/ file' = Rotated /\ saved' = keys + 1
           \/ file' = [file EXCEPT !.kind = "broken"] /\ UNCHANGED saved
     \/ UNCHANGED <<file, mtime, saved>>
  /\ UNCHANGED <<edits, link, connecting, listing, process, last, seen, forced, fails, failedAt>>

(***************************************************************************)
(* Reloads.                                                                *)
(***************************************************************************)
\* connectUpstream up to its await of listTools.
\* Mutant: the old client is not closed.
Connect_KeepsOld(t) ==
  /\ listed' = 0
  /\ IF file.kind = "upstream"
     THEN /\ made' = made + 1 /\ upstream' = made + 1
          /\ open' = open \cup {made + 1}
          /\ of' = [of EXCEPT ![made + 1] = file.ver]
          /\ connecting' = [connecting EXCEPT ![t] = made + 1]
     ELSE upstream' = 0 /\ UNCHANGED <<made, open, of, connecting>>
Connect(t) ==
  /\ listed' = 0
  /\ IF file.kind = "upstream"
     THEN /\ made' = made + 1 /\ upstream' = made + 1
          /\ open' = (open \ {upstream}) \cup {made + 1}
          /\ of' = [of EXCEPT ![made + 1] = file.ver]
          /\ connecting' = [connecting EXCEPT ![t] = made + 1]
     ELSE upstream' = 0 /\ open' = open \ {upstream} /\ UNCHANGED <<made, of, connecting>>

\* reloadPolicyAndUpstream; a file that does not parse changes nothing.
ReadPolicy(t) ==
  /\ connecting[t] = 0 /\ file.kind # "broken"
  /\ policy' = file
  /\ Connect(t)
  /\ UNCHANGED <<disk, keys, listing, process, saved, fails, failedAt>>

ForcedReload(t) ==
  /\ t \in Admins /\ forced < MaxForced /\ forced' = forced + 1
  /\ ReadPolicy(t)
  /\ UNCHANGED <<last, seen>>

\* A tick of startPolicyWatch: busy while its last reload is.
Poll ==
  /\ polls /\ mtime > last
  /\ ReadPolicy(Watch)
  /\ seen' = mtime
  /\ last' = IF file.kind = "upstream" THEN last ELSE mtime
  /\ UNCHANGED forced

\* The end of a reload; the poll keeps the time it saw before.
\* Mutant: the poll looks at the file again.
Done_Restat(t) ==
  /\ connecting' = [connecting EXCEPT ![t] = 0]
  /\ last' = IF t = Watch THEN mtime ELSE last
  /\ UNCHANGED <<disk, policy, keys, made, open, of, listing, process, seen, forced, saved>>
Done(t) ==
  /\ connecting' = [connecting EXCEPT ![t] = 0]
  /\ last' = IF t = Watch THEN seen ELSE last
  /\ UNCHANGED <<disk, policy, keys, made, open, of, listing, process, seen, forced, saved>>

\* listTools answers, also of a client that was closed meanwhile.
\* Mutant: the client becomes the upstream only now.
Connected_Late(t) ==
  /\ connecting[t] # 0
  /\ listed' = connecting[t] /\ upstream' = connecting[t]
  /\ Done(t)
  /\ UNCHANGED <<fails, failedAt>>
Connected(t) ==
  /\ connecting[t] # 0
  /\ listed' = connecting[t]
  /\ Done(t)
  /\ UNCHANGED <<upstream, fails, failedAt>>

\* listTools fails: whatever client the gateway has is given up, unclosed.
ConnectFailed(t) ==
  /\ connecting[t] # 0
  /\ upstream' = 0 /\ listed' = 0
  /\ fails' = fails + 1 /\ failedAt' = made
  /\ Done(t)

\* server.listen, and startPolicyWatch looks at the file for the first time.
Listen ==
  /\ ~listens /\ connecting[Boot] = 0
  /\ listens' = TRUE /\ polls' = TRUE /\ last' = mtime
  /\ UNCHANGED <<disk, policy, keys, link, connecting, listing, draining, seen, history>>

\* SIGTERM: the interval is cleared, if it was set; requests are served until
\* the drain ends.
BeginDrain ==
  /\ ~draining /\ draining' = TRUE /\ polls' = FALSE
  /\ UNCHANGED <<disk, policy, keys, link, connecting, listing, listens, last, seen, history>>

(***************************************************************************)
(* listToolsForTenant.                                                     *)
(***************************************************************************)
ListStart(l) ==
  /\ listens /\ ~draining /\ upstream # 0 /\ listing[l] = 0
  /\ listing' = [listing EXCEPT ![l] = upstream]
  /\ UNCHANGED <<disk, policy, keys, link, connecting, process, last, seen, history>>

ListAnswered(l) ==
  /\ listing[l] # 0
  /\ listing' = [listing EXCEPT ![l] = 0]
  /\ listed' = listing[l]
  /\ UNCHANGED <<disk, policy, keys, upstream, made, open, of, connecting, process, last, seen, history>>

\* Mutant: a failure gives the upstream up.
ListFailed_Disconnects(l) ==
  /\ listing[l] # 0
  /\ listing' = [listing EXCEPT ![l] = 0]
  /\ upstream' = 0
  /\ UNCHANGED <<disk, policy, keys, listed, made, open, of, connecting, process, last, seen, history>>
ListFailed(l) ==
  /\ listing[l] # 0
  /\ listing' = [listing EXCEPT ![l] = 0]
  /\ UNCHANGED <<disk, policy, keys, link, connecting, process, last, seen, history>>

ConnectEnd(t) == Connected(t) \/ ConnectFailed(t)

PolicyNext ==
  \/ \E kind \in Kinds : Edit(kind)
  \/ \E t \in Tasks : ForcedReload(t) \/ ConnectEnd(t)
  \/ \E l \in Lists : ListStart(l) \/ ListAnswered(l) \/ ListFailed(l)
  \/ Rotate \/ Poll \/ Listen \/ BeginDrain

PolicySpec == PolicyInit /\ [][PolicyNext]_policyVars

\* setInterval ticks, and upstream.timeoutMs ends every wait.
PolicyFairness ==
  /\ WF_policyVars(Poll) /\ WF_policyVars(Listen)
  /\ \A t \in Tasks : WF_policyVars(ConnectEnd(t))

-----------------------------------------------------------------------------
(***************************************************************************)
(* Properties.                                                             *)
(***************************************************************************)
\* The type invariant.
PolicyTypeOK ==
  /\ file \in Policies /\ policy \in Policies
  /\ mtime \in 0 .. MaxWrites /\ edits \in Nat /\ keys \in 0 .. MaxKeys
  /\ upstream \in {0} \cup Clients /\ listed \in {0} \cup Clients
  /\ made \in Clients /\ open \subseteq Clients /\ of \in [Clients -> Nat]
  /\ connecting \in [Tasks -> {0} \cup Clients]
  /\ listing \in [Lists -> {0} \cup Clients]
  /\ listens \in BOOLEAN /\ draining \in BOOLEAN /\ polls \in BOOLEAN
  /\ last \in 0 .. mtime /\ seen \in 0 .. mtime
  /\ forced \in 0 .. MaxForced /\ saved \in Nat /\ fails \in Nat /\ failedAt \in Nat

\* In memory, policy and upstream are of the same version of the file, and the
\* upstream is the newest client and is not closed: whatever reloads overlap, and
\* in whatever order their answers come.  (It speaks of the two that a request
\* finds after its body.  The tenant it was found for before may carry lists of an
\* older version, which then decide for the newer upstream: ToolCall's Version.)
UpstreamOfPolicy ==
  upstream # 0 => upstream = made /\ upstream \in open /\ of[upstream] = policy.ver

\* A policy with an upstream is without a client only if a connection failed
\* after the newest client was created; a tools/list request never does that.
DisconnectedByFailure ==
  upstream = 0 /\ policy.kind = "upstream" => failedAt = made

\* A client that was not closed and is not used comes from a failed connection:
\* reloads that succeed leave no process of a stdio upstream behind.
OpenAccounted == Cardinality(open \ {upstream}) <= fails

\* A reload never takes back a key that rotation has written to the file.
KeyKept == policy.key >= saved

\* While the poll runs, a write of the file after its first look is read in the
\* end, unless it does not parse or a rotation overwrites it: no edit slips past
\* a busy reload.
WatchReads ==
  (polls /\ mtime > last) ~> (policy.ver = file.ver \/ file.kind = "broken" \/ ~polls)
=============================================================================
