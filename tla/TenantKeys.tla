------------------------------ MODULE TenantKeys ------------------------------
(***************************************************************************)
(* The key of a tenant of the gateway and the grace of the key before it:  *)
(* POST /admin/tenants/{id}/rotate, reloads of the policy file, and the    *)
(* requests that show a key (policy.js, server.js).  Keys are numbered as  *)
(* they are generated.                                                     *)
(***************************************************************************)
EXTENDS Integers

CONSTANTS
  Graces,   \* values of --rotate-grace-sec
  MaxGen,   \* bound: keys generated
  LastTick  \* bound: the clock

ASSUME GraceAssumption == Graces \subseteq Nat /\ MaxGen \in Nat \ {0} /\ LastTick \in Nat

\* A tenant: apiKey, previousApiKey (0 for none) and previousApiKeyExpiresAt.
Tenant(key, before, until) == [key |-> key, before |-> before, until |-> until]

VARIABLES
  grace,     \* state.rotateGraceSec
  clock,     \* Date.now()
  tenant,    \* the tenant in state.policy
  onDisk,    \* the tenant in the policy file, or Unreadable
  generated, \* keys generated
  promise,   \* history: the last rotation's [old, new, until]
  announced, \* history: a key's previousTokenExpiresAt, 0 without one
  lost       \* history: the last rotation did not reach the file, or was edited away

keyVars == <<grace, clock, tenant, onDisk, generated, promise, announced, lost>>

\* What a failed write can leave: a file cut short, which does not parse.
Unreadable == Tenant(0, 0, 0)

KeysInit ==
  /\ grace \in Graces /\ clock = 0
  /\ tenant = Tenant(1, 0, 0) /\ onDisk = tenant /\ generated = 1
  /\ promise = [old |-> 0, new |-> 1, until |-> 0] /\ lost = FALSE
  /\ announced = [key \in 1 .. MaxGen |-> 0]

\* rotateTenantApiKey.
\* Mutant: a key in its grace is kept for another.
Successor_KeepsOlder ==
  IF tenant.before # 0 /\ clock < tenant.until THEN [tenant EXCEPT !.key = generated + 1]
  ELSE IF grace > 0 THEN Tenant(generated + 1, tenant.key, clock + grace)
  ELSE Tenant(generated + 1, 0, 0)
Successor ==
  IF grace > 0 THEN Tenant(generated + 1, tenant.key, clock + grace)
  ELSE Tenant(generated + 1, 0, 0)

\* The route: memory first; the write of the file may fail before or after it
\* has emptied the file, and is not told.
RotateKey(written) ==
  /\ generated < MaxGen /\ generated' = generated + 1
  /\ tenant' = Successor
  /\ IF written THEN onDisk' = Successor ELSE onDisk' \in {onDisk, Unreadable}
  /\ promise' = [old |-> tenant.key, new |-> generated + 1, until |-> clock + grace]
  /\ announced' = [announced EXCEPT ![tenant.key] = IF grace > 0 THEN clock + grace ELSE 0]
  /\ lost' = ~written
  /\ UNCHANGED <<grace, clock>>

\* SIGHUP, POST /admin/reload, the poll, or a restart; a file that does not
\* parse is not taken, and no gateway starts with it.
ReloadKeys ==
  /\ onDisk \notin {tenant, Unreadable} /\ tenant' = onDisk
  /\ UNCHANGED <<grace, clock, onDisk, generated, promise, announced, lost>>

\* The operator saves the policy with another key for the tenant.
EditKey ==
  /\ generated < MaxGen /\ generated' = generated + 1
  /\ onDisk' = Tenant(generated + 1, 0, 0)
  /\ lost' = TRUE
  /\ UNCHANGED <<grace, clock, tenant, promise, announced>>

KeyTick == clock < LastTick /\ clock' = clock + 1
           /\ UNCHANGED <<grace, tenant, onDisk, generated, promise, announced, lost>>

KeysNext ==
  (\E written \in BOOLEAN : RotateKey(written)) \/ ReloadKeys \/ EditKey \/ KeyTick

KeysSpec == KeysInit /\ [][KeysNext]_keyVars

\* findTenantByApiKey and previousApiKeyValid.
Accepted(key) == key = tenant.key \/ (key = tenant.before /\ key # 0 /\ clock < tenant.until)

-----------------------------------------------------------------------------
(***************************************************************************)
(* Properties.                                                             *)
(***************************************************************************)
\* The type invariant.
KeysTypeOK ==
  /\ grace \in Graces /\ clock \in 0 .. LastTick /\ generated \in 1 .. MaxGen
  /\ \A t \in {tenant, onDisk} \ {Unreadable} :
       t.key \in 1 .. generated /\ t.before \in 0 .. generated /\ t.until \in Nat

\* Of the last rotation, through reloads and restarts, as long as its write did
\* not fail and nobody edited the file: the new key is taken, the old one until
\* previousTokenExpiresAt and no longer, and after that no other key is.  (Of
\* keys that earlier rotations announced it says nothing while that time lasts.)
GraceHonoured ==
  ~lost => /\ Accepted(promise.new)
           /\ promise.old # 0 => (Accepted(promise.old) <=> clock < promise.until)
           /\ clock >= promise.until =>
                \A key \in 1 .. generated : Accepted(key) => key = promise.new

\* README.md:264 "the previous key stays valid until previousTokenExpiresAt":
\* also when another rotation follows within the grace.  The tenant has room for
\* one previous key, and rotateTenantApiKey forgets the one before it.
EveryGraceKept ==
  ~lost => \A key \in 1 .. generated : clock < announced[key] => Accepted(key)
=============================================================================
