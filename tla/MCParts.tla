-------------------------------- MODULE MCParts --------------------------------
(***************************************************************************)
(* The parts of the system that share no state, in one model: focus says   *)
(* which of them moves, and the others stay as they are.                   *)
(***************************************************************************)
EXTENDS SdkCall, SdkRequest, SdkPages, SdkJson, StdioLink, Sessions, TenantKeys, Webhooks, Ledger, Watches,
        MCAudit

CONSTANTS
  Parts,  \* the parts considered
  Other   \* a call that begins only if it may have another's key

ASSUME Other \in Calls

VARIABLE focus

Prices_MC == {1, -1, NaN}
Budgets_MC == [t \in {"acme"} |-> 1]
Lists_MC == {{}, {{}}, {{"bearer"}, {"header", "query"}}, {{"oauth2", "bearer"}, {"named"}}}

\* Security and arguments are considered apart.
Apart ==
  \/ args = <<>> /\ verb = "GET"
  \/ ~(args = <<>> /\ verb = "GET") /\ root = Absent /\ own = Absent /\ env = {} /\ \A credential \in DOMAIN option : option[credential] = "unset"

partsVars == <<focus, callVars, requestVars, pageVars, jsonVars, linkVars, sessionsVars, keyVars,
               hookVars, ledgerVars, watchVars, auditVars>>

\* The parts that do not move keep one of their initial states.
PartsInit ==
  /\ focus \in Parts
  /\ focus = "call" \/ (focus # "call" /\ client = "ts" /\ form = "far" /\ pinned = FALSE)
  /\ CallInit
  /\ focus = "request" \/ (focus # "request" /\ maker = "ts"
                            /\ root = Absent /\ own = Absent /\ args = <<>> /\ verb = "GET"
                            /\ option = [c \in {"token", "key"} |-> "unset"] /\ env = {})
  /\ RequestInit /\ Apart
  /\ \/ focus = "pages"
     \/ /\ focus # "pages" /\ lang = "ts" /\ kind = "plain" /\ mode = "page" /\ size = 0 /\ total = 0
        /\ number = 0 /\ start = 0
  /\ PagesInit
  /\ focus = "json" \/ (focus # "json" /\ reader = "java" /\ way = "body" /\ doc = Object(<<>>))
  /\ JsonInit
  /\ focus = "link" \/ (focus # "link" /\ serial = FALSE)
  /\ LinkInit
  /\ SessionsInit
  /\ focus = "keys" \/ (focus # "keys" /\ grace = 0)
  /\ KeysInit
  /\ focus = "hook" \/ (focus # "hook" /\ hook = "gateway")
  /\ HookInit
  /\ focus = "ledger" \/ (focus # "ledger" /\ daily = FALSE /\ foresees = FALSE)
  /\ LedgerInit
  /\ WatchInit
  /\ focus = "watch" \/ (focus # "watch" /\ watched = "spec" /\ ~tagged /\ ~dated)
  /\ focus = "audit" \/ (focus # "audit" /\ policy = Closed_MC)
  /\ AuditInit

\* A second call matters where keys are equal: those drawn from a clock.
Alone ==
  \/ client = "rust" /\ form = "far" /\ ~pinned /\ key'[Other] = Shared
  \/ phase'[Other] = "idle"

PartsNext ==
  \/ /\ focus = "call" /\ CallNext /\ Alone
     /\ UNCHANGED <<focus, requestVars, pageVars, jsonVars, linkVars, sessionsVars,
                    keyVars, hookVars, ledgerVars, watchVars, auditVars>>
  \/ /\ focus = "request" /\ RequestNext
     /\ UNCHANGED <<focus, callVars, pageVars, jsonVars, linkVars, sessionsVars,
                    keyVars, hookVars, ledgerVars, watchVars, auditVars>>
  \/ /\ focus = "pages" /\ PagesNext
     /\ UNCHANGED <<focus, callVars, requestVars, jsonVars, linkVars, sessionsVars,
                    keyVars, hookVars, ledgerVars, watchVars, auditVars>>
  \/ /\ focus = "json" /\ JsonNext
     /\ UNCHANGED <<focus, callVars, requestVars, pageVars, linkVars, sessionsVars,
                    keyVars, hookVars, ledgerVars, watchVars, auditVars>>
  \/ /\ focus = "link" /\ LinkNext
     /\ UNCHANGED <<focus, callVars, requestVars, pageVars, jsonVars, sessionsVars,
                    keyVars, hookVars, ledgerVars, watchVars, auditVars>>
  \/ /\ focus = "sessions" /\ SessionsNext
     /\ UNCHANGED <<focus, callVars, requestVars, pageVars, jsonVars, linkVars,
                    keyVars, hookVars, ledgerVars, watchVars, auditVars>>
  \/ /\ focus = "keys" /\ KeysNext
     /\ UNCHANGED <<focus, callVars, requestVars, pageVars, jsonVars, linkVars,
                    sessionsVars, hookVars, ledgerVars, watchVars, auditVars>>
  \/ /\ focus = "hook" /\ HookNext
     /\ UNCHANGED <<focus, callVars, requestVars, pageVars, jsonVars, linkVars,
                    sessionsVars, keyVars, ledgerVars, watchVars, auditVars>>
  \/ /\ focus = "ledger" /\ LedgerNext
     /\ UNCHANGED <<focus, callVars, requestVars, pageVars, jsonVars, linkVars,
                    sessionsVars, keyVars, hookVars, watchVars, auditVars>>
  \/ /\ focus = "watch" /\ WatchNext
     /\ UNCHANGED <<focus, callVars, requestVars, pageVars, jsonVars, linkVars,
                    sessionsVars, keyVars, hookVars, ledgerVars, auditVars>>
  \/ /\ focus = "audit" /\ AuditNext
     /\ UNCHANGED <<focus, callVars, requestVars, pageVars, jsonVars, linkVars, sessionsVars,
                    keyVars, hookVars, ledgerVars, watchVars>>

PartsSpec == PartsInit /\ [][PartsNext]_partsVars /\ CallFairness /\ HookFairness
=============================================================================
