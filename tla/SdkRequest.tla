------------------------------ MODULE SdkRequest ------------------------------
(***************************************************************************)
(* What an emitted client puts into the requests of an operation: the      *)
(* credentials that the document's security asks for and the client holds, *)
(* and the arguments of the call in the path, the query or the body.       *)
(*                                                                         *)
(* A security list is a set of alternatives, an alternative a set of       *)
(* schemes; Absent is a document or operation without one.  All apiKey     *)
(* schemes get the one key; "named" is an apiKey header that is called     *)
(* Authorization, as the header of a bearer token is.                      *)
(***************************************************************************)
EXTENDS SdkClients

CONSTANTS
  Lists,    \* the security lists
  ArgNames  \* names of arguments; "id" is in the path template, /items/{id}

Schemes == {"bearer", "header", "query", "named", "oauth2"}
Absent == {{"absent"}}
Null == "null"
Values == {Null, "", "1", "12", "item", "other"}

ASSUME Lists \subseteq SUBSET SUBSET Schemes /\ "id" \in ArgNames

VARIABLES
  maker,           \* the client
  root, own,       \* the security of the document and of the operation
  option, env,     \* the credentials set by the caller, and in the environment
  verb, args,      \* the call
  asked,           \* the schemes the operation was generated with; Absent before
  request          \* the request of each of its attempts

setup == <<maker, root, own, option, env, verb, args>>
requestVars == <<setup, asked, request>>

(***************************************************************************)
(* Where the credentials are taken from.  "option": a blank one leaves the *)
(* word to the environment; "field": the constructor reads the environment *)
(* and what the caller assigns replaces it; "env": nothing can be set.     *)
(***************************************************************************)
TsHolds == "option"
PyHolds == "option"
GoHolds == "field"
JavaHolds == "field"
KotlinHolds == "field"
RustHolds == "field"
CsharpHolds == "field"
SwiftHolds == "field"
RubyHolds == "field"
PhpHolds == "field"
McpJsHolds == "env"
McpPyHolds == "env"
McpGoHolds == "env"

Holder == [ts |-> TsHolds, py |-> PyHolds, go |-> GoHolds, java |-> JavaHolds,
           kotlin |-> KotlinHolds, rust |-> RustHolds, csharp |-> CsharpHolds,
           swift |-> SwiftHolds, ruby |-> RubyHolds, php |-> PhpHolds, mcpJs |-> McpJsHolds,
           mcpPy |-> McpPyHolds, mcpGo |-> McpGoHolds]

(***************************************************************************)
(* Two Authorization headers: the key's replaces the bearer's, or they are *)
(* joined to one by a comma, or both are sent.                             *)
(***************************************************************************)
TsTwice == "joined"
PyTwice == "key"
GoTwice == "key"
JavaTwice == "key"
KotlinTwice == "key"
RustTwice == "both"
CsharpTwice == "joined"
SwiftTwice == "key"
RubyTwice == "key"
PhpTwice == "both"
McpJsTwice == "joined"
McpPyTwice == "key"
McpGoTwice == "key"

Twice == [ts |-> TsTwice, py |-> PyTwice, go |-> GoTwice, java |-> JavaTwice,
          kotlin |-> KotlinTwice, rust |-> RustTwice, csharp |-> CsharpTwice,
          swift |-> SwiftTwice, ruby |-> RubyTwice, php |-> PhpTwice, mcpJs |-> McpJsTwice,
          mcpPy |-> McpPyTwice, mcpGo |-> McpGoTwice]

Has(credential) ==
  CASE Holder[maker] = "option" -> option[credential] = "set" \/ credential \in env
    [] Holder[maker] = "field" -> option[credential] = "set"
                                  \/ (option[credential] = "unset" /\ credential \in env)
    [] Holder[maker] = "env" -> credential \in env

(***************************************************************************)
(* The generator.                                                          *)
(***************************************************************************)
\* parseSecurityScheme: no fake tokens for the others.
Supported == {"bearer", "header", "query", "named"}

\* resolveOpSecurity: the schemes of all alternatives.
\* Mutant: an empty list of the operation falls back to the document's.
OpSecurity_NonEmpty ==
  LET list == IF own \notin {Absent, {}} THEN own ELSE root
  IN IF list = Absent THEN {} ELSE (UNION list) \cap Supported
OpSecurity ==
  LET list == IF own # Absent THEN own ELSE root
  IN IF list = Absent THEN {} ELSE (UNION list) \cap Supported

RequestInit ==
  /\ maker \in Clients
  /\ root \in Lists \cup {Absent} /\ own \in Lists \cup {Absent}
  /\ option \in [{"token", "key"} -> {"unset", "blank", "set"}] /\ env \in SUBSET {"token", "key"}
  /\ verb \in {"GET", "DELETE", "POST", "PUT", "PATCH"}
  /\ args \in UNION {[names -> Values] : names \in SUBSET ArgNames}
  /\ maker = "rust" => \A n \in DOMAIN args : args[n] # Null
  /\ asked = Absent /\ request = <<>>

Generate == asked = Absent /\ asked' = OpSecurity /\ UNCHANGED <<setup, request>>

(***************************************************************************)
(* The call.                                                               *)
(***************************************************************************)
Credential(scheme) == IF scheme = "bearer" THEN "token" ELSE "key"
Attached == {s \in asked : Has(Credential(s))}

\* One Authorization header of the two is left, or neither is what it was.
Headers ==
  IF {"bearer", "named"} \subseteq Attached
  THEN CASE Twice[maker] = "key" -> Attached \ {"bearer"}
         [] Twice[maker] = "joined" -> Attached \ {"bearer", "named"}
         [] Twice[maker] = "both" -> Attached
  ELSE Attached

InQuery == verb \in Queries[maker]

\* The expanded path has "/" and the value in it: a segment begins with it, be
\* that the value of id, which is empty when there is none, or one of the template.
Begins(v, segment) == v \in {"", segment} \/ <<v, segment>> \in {<<"1", "12">>, <<"item", "items">>}
Segments == {"items", IF "id" \in DOMAIN args /\ args["id"] # Null THEN args["id"] ELSE ""}
Shows(v) == \E segment \in Segments : Begins(v, segment)

\* What is left for the query or the body when the path is expanded.
\* Mutant: the arguments in the path are not taken out.
Rest_All == DOMAIN args
Rest ==
  CASE Splits[maker] = "name" -> DOMAIN args \ {"id"}
    [] Splits[maker] = "value" /\ InQuery -> {n \in DOMAIN args : ~Shows(args[n])}
    [] OTHER -> DOMAIN args

Stated(names, place) == {n \in names : args[n] # Null \/ place \in NullWords[maker]}

Call ==
  /\ asked # Absent /\ request = <<>>
  /\ request' = [credentials |-> Headers,
                 path |-> Stated(DOMAIN args \cap {"id"}, "path"),
                 query |-> IF InQuery THEN Stated(Rest, "query") ELSE {},
                 body |-> IF InQuery THEN {} ELSE Rest]
  /\ UNCHANGED <<setup, asked>>

RequestNext == Generate \/ Call
RequestSpec == RequestInit /\ [][RequestNext]_requestVars

-----------------------------------------------------------------------------
(***************************************************************************)
(* Properties.                                                             *)
(***************************************************************************)
\* The type invariant.
RequestTypeOK ==
  /\ asked = Absent \/ asked \subseteq Supported
  /\ request = <<>> \/ (request.credentials \subseteq asked /\ request.path \cup request.query \cup request.body \subseteq ArgNames)

\* The operation's own list, an empty one too, hides the document's.
Effective == CASE own # Absent -> own [] own = Absent /\ root # Absent -> root [] OTHER -> {}

\* A request has only credentials that the security of its operation names -
\* README.md:65 "ops without security omit credentials" - and those of every
\* alternative that can be met with what is held.  Where a bearer token and a
\* key both want the Authorization header, one of the two may be lost.
CredentialsFit ==
  request # <<>> =>
    /\ request.credentials \subseteq UNION Effective
    /\ \A alternative \in Effective :
         /\ alternative \subseteq Supported
         /\ \A s \in alternative : Has(Credential(s))
         /\ ~({"bearer", "named"} \subseteq UNION Effective)
         => alternative \subseteq request.credentials

\* The TypeScript client goes by values and not by names.  In a query it leaves
\* out every argument whose value some segment of the path begins with, an empty
\* one always; in a body it repeats the arguments of the path.
Swallowed(n) == maker = "ts" /\ InQuery /\ n # "id" /\ Shows(args[n])
Repeated(n) == maker = "ts" /\ ~InQuery /\ n = "id"

\* An argument with a value is in one place of the request, whatever the values
\* of the others: no client drops it or says it twice, but for those two cases.
ArgumentsArrive ==
  request # <<>> =>
    \A n \in {n \in DOMAIN args : args[n] # Null} :
      LET places == {p \in {"path", "query", "body"} : n \in request[p]}
      IN /\ places # {} \/ Swallowed(n)
         /\ (\A p, q \in places : p = q) \/ Repeated(n)
=============================================================================
