------------------------------ MODULE SdkClients ------------------------------
(***************************************************************************)
(* The HTTP clients that openapi.js emits - ten languages, and the three   *)
(* stdio MCP servers' own - as tables of how they differ.  What they share *)
(* is in SdkCall and SdkPages.                                             *)
(*                                                                         *)
(* A response body is whole, or garbled (no JSON), reset by the peer,      *)
(* cut short by an early end, stalled in the middle, or dripping, each     *)
(* byte within the client's timeout.  To each a client reacts in one of    *)
(* these ways:                                                             *)
(*   kept   it goes on with the text it has                                *)
(*   again  a transport failure, retried like any other                    *)
(*   raw    an exception of the runtime leaves the call                    *)
(*   hang   it waits for as long as the peer likes                         *)
(***************************************************************************)
EXTENDS Integers

Damages == {"whole", "garbled", "reset", "short", "stalled", "drip"}
Kept == {"kept"} Again == {"again"} Raw == {"raw"} Hang == {"hang"}

Body(garbled, reset, short, stalled, drip) ==
  [whole |-> Kept, garbled |-> garbled, reset |-> reset, short |-> short,
   stalled |-> stalled, drip |-> drip]

Writing == {"POST", "PATCH"}  \* PUT and DELETE are treated as POST is

(***************************************************************************)
(* One attempt.  success, failure: the body of a 2xx, of another status;   *)
(* early: before a retry the body is not read; methods: those the runtime  *)
(* can send; tls: https can be spoken.                                     *)
(***************************************************************************)
Attempt(success, failure) ==
  [success |-> success, failure |-> failure, early |-> FALSE, methods |-> Writing, tls |-> TRUE]

\* The timer is cleared once the headers are there; text() is outside the try.
TsSend == [Attempt(Body(Raw, Raw, Raw, Hang, Hang), Body(Kept, Raw, Raw, Hang, Hang))
             EXCEPT !.early = TRUE]
\* IncompleteRead and ValueError are no OSError; the read of an error body may fail.
PySend == Attempt(Body(Raw, Again, Raw, Again, Hang), Body(Kept, Kept, Kept, Kept, Hang))
\* The context's deadline covers ReadAll, which precedes the look at the status.
GoSend == Attempt(Body(Raw, Again, Again, Again, Again), Body(Kept, Again, Again, Again, Again))
\* The text is returned; setRequestMethod("PATCH") throws a ProtocolException.
JavaSend == [Attempt(Body(Kept, Again, Again \cup Kept, Again, Hang),
                     Body(Kept, Again, Again \cup Kept, Again, Hang))
               EXCEPT !.methods = {"POST"}]
KotlinSend == [Attempt(Body(Kept, Again, Again \cup Kept, Again, Hang),
                       Body(Kept, Again, Again \cup Kept, Again, Hang))
                 EXCEPT !.methods = {"POST"}]
\* read_to_end asks for no Content-Length; a socket, so no https.
RustSend == [Attempt(Body(Kept, Again, Kept, Again, Hang), Body(Kept, Again, Kept, Again, Hang))
               EXCEPT !.tls = FALSE]
\* SendAsync reads the whole body under the cancellation token.
CsharpSend == Attempt(Body(Kept, Again, Again, Again, Again), Body(Kept, Again, Again, Again, Again))
\* The catch of the loop takes the JSON error of a 2xx too.
SwiftSend == Attempt(Body(Again, Again, Again, Again, Hang), Body(Kept, Again, Again, Again, Hang))
RubySend == Attempt(Body(Raw, Again, Again, Again, Hang), Body(Kept, Again, Again, Again, Hang))
\* stream_get_contents returns what it has when it fails or times out.
PhpSend == Attempt(Body(Kept, Kept, Kept, Kept, Hang), Body(Kept, Kept, Kept, Kept, Hang))
\* The timer is cleared in the finally, after text().
McpJsSend == Attempt(Body(Kept, Again, Again, Again, Again), Body(Kept, Again, Again, Again, Again))
\* Any exception, that of an error body's read or decoding too, is retried.
McpPySend == Attempt(Body(Kept, Again, Again, Again, Hang), Body(Kept, Again, Again, Again, Hang))
McpGoSend == Attempt(Body(Kept, Again, Again, Again, Again), Body(Kept, Again, Again, Again, Again))

Send == [ts |-> TsSend, py |-> PySend, go |-> GoSend, java |-> JavaSend, kotlin |-> KotlinSend,
         rust |-> RustSend, csharp |-> CsharpSend, swift |-> SwiftSend, ruby |-> RubySend,
         php |-> PhpSend, mcpJs |-> McpJsSend, mcpPy |-> McpPySend, mcpGo |-> McpGoSend]

Langs == {"ts", "py", "go", "java", "kotlin", "rust", "csharp", "swift", "ruby", "php"}
Clients == Langs \cup {"mcpJs", "mcpPy", "mcpGo"}

(***************************************************************************)
(* retryDelayMs: the forms of Retry-After that are waited for.  A delay of *)
(* 30 s or more, a past date, junk or nothing is "far": nobody waits.      *)
(***************************************************************************)
Forms == {"whole", "fraction", "date", "far"}

TsDelay == {"whole", "fraction", "date"}
PyDelay == {"whole", "fraction", "date"}
GoDelay == {"whole", "date"}
JavaDelay == {"whole", "fraction", "date"}
KotlinDelay == {"whole", "fraction", "date"}
RustDelay == {"whole", "fraction"}
CsharpDelay == {"whole", "date"}
SwiftDelay == {"whole", "fraction"}
RubyDelay == {"whole", "fraction", "date"}
PhpDelay == {"whole", "fraction", "date"}
McpJsDelay == {"whole", "fraction", "date"}
McpPyDelay == {"whole", "fraction", "date"}
McpGoDelay == {"whole", "date"}

Heeds == [ts |-> TsDelay, py |-> PyDelay, go |-> GoDelay, java |-> JavaDelay, kotlin |-> KotlinDelay,
          rust |-> RustDelay, csharp |-> CsharpDelay, swift |-> SwiftDelay, ruby |-> RubyDelay,
          php |-> PhpDelay, mcpJs |-> McpJsDelay, mcpPy |-> McpPyDelay, mcpGo |-> McpGoDelay]

(***************************************************************************)
(* The typed errors: what the error of a call is called whose last attempt *)
(* got no answer in time, or no answer.  The others are named by status.   *)
(***************************************************************************)
TsErrors == [late |-> "timeout", lost |-> "network"]
PyErrors == [late |-> "timeout", lost |-> "network"]
GoErrors == [late |-> "timeout", lost |-> "network"]
JavaErrors == [late |-> "timeout", lost |-> "network"]
KotlinErrors == [late |-> "timeout", lost |-> "network"]
\* A read that times out says "Resource temporarily unavailable".
RustErrors == [late |-> "network", lost |-> "network"]
CsharpErrors == [late |-> "timeout", lost |-> "network"]
SwiftErrors == [late |-> "timeout", lost |-> "network"]
RubyErrors == [late |-> "timeout", lost |-> "network"]
\* All that fopen tells is false: "open failed".
PhpErrors == [late |-> "network", lost |-> "network"]
McpJsErrors == [late |-> "timeout", lost |-> "network"]
McpPyErrors == [late |-> "timeout", lost |-> "network"]
McpGoErrors == [late |-> "timeout", lost |-> "network"]

Names == [ts |-> TsErrors, py |-> PyErrors, go |-> GoErrors, java |-> JavaErrors,
          kotlin |-> KotlinErrors, rust |-> RustErrors, csharp |-> CsharpErrors,
          swift |-> SwiftErrors, ruby |-> RubyErrors, php |-> PhpErrors,
          mcpJs |-> McpJsErrors, mcpPy |-> McpPyErrors, mcpGo |-> McpGoErrors]

(***************************************************************************)
(* Idempotency-Key of a call: what pins it, and else what it is drawn      *)
(* from: at random, or from the clock's nanoseconds.                       *)
(***************************************************************************)
Source(pins, drawn) == [pins |-> pins, drawn |-> drawn]
TsIds == Source({"constructor", "env"}, "random")
PyIds == Source({"constructor", "env"}, "random")
GoIds == Source({"constructor", "env"}, "random")
JavaIds == Source({"constructor", "env"}, "random")
KotlinIds == Source({"constructor", "env"}, "random")
RustIds == Source({"constructor", "env"}, "clock")
CsharpIds == Source({"constructor", "env"}, "random")
SwiftIds == Source({"constructor", "env"}, "random")
RubyIds == Source({"constructor", "env"}, "random")
PhpIds == Source({"constructor", "env"}, "random")
McpJsIds == Source({"env"}, "random")
McpPyIds == Source({"env"}, "random")
McpGoIds == Source({"env"}, "random")

Identity == [ts |-> TsIds, py |-> PyIds, go |-> GoIds, java |-> JavaIds, kotlin |-> KotlinIds,
             rust |-> RustIds, csharp |-> CsharpIds, swift |-> SwiftIds, ruby |-> RubyIds,
             php |-> PhpIds, mcpJs |-> McpJsIds, mcpPy |-> McpPyIds, mcpGo |-> McpGoIds]

(***************************************************************************)
(* The operations: how the arguments left for the query are told from      *)
(* those in the path - by name, or by whether the path shows their value.  *)
(***************************************************************************)
TsArgs == "value"
PyArgs == "name"
GoArgs == "name"
JavaArgs == "name"
KotlinArgs == "name"
RustArgs == "name"
CsharpArgs == "name"
SwiftArgs == "name"
RubyArgs == "name"
PhpArgs == "name"
McpJsArgs == "name"
McpPyArgs == "name"
McpGoArgs == "name"

Splits == [ts |-> TsArgs, py |-> PyArgs, go |-> GoArgs, java |-> JavaArgs, kotlin |-> KotlinArgs,
           rust |-> RustArgs, csharp |-> CsharpArgs, swift |-> SwiftArgs, ruby |-> RubyArgs,
           php |-> PhpArgs, mcpJs |-> McpJsArgs, mcpPy |-> McpPyArgs, mcpGo |-> McpGoArgs]

(***************************************************************************)
(* The methods whose arguments go into the query, not into a JSON body.    *)
(***************************************************************************)
TsQueries == {"GET", "DELETE"}
PyQueries == {"GET", "DELETE"}
GoQueries == {"GET", "DELETE"}
JavaQueries == {"GET", "DELETE"}
KotlinQueries == {"GET", "DELETE"}
RustQueries == {"GET", "DELETE"}
CsharpQueries == {"GET", "DELETE"}
SwiftQueries == {"GET", "DELETE"}
RubyQueries == {"GET", "DELETE"}
PhpQueries == {"GET", "DELETE"}
McpJsQueries == {"GET", "DELETE"}
McpPyQueries == {"GET", "DELETE"}
McpGoQueries == {"GET", "DELETE"}

Queries == [ts |-> TsQueries, py |-> PyQueries, go |-> GoQueries, java |-> JavaQueries,
            kotlin |-> KotlinQueries, rust |-> RustQueries, csharp |-> CsharpQueries,
            swift |-> SwiftQueries, ruby |-> RubyQueries, php |-> PhpQueries,
            mcpJs |-> McpJsQueries, mcpPy |-> McpPyQueries, mcpGo |-> McpGoQueries]

(***************************************************************************)
(* Where an argument that is null is written as a word.                    *)
(***************************************************************************)
TsWords == {}
PyWords == {"path"}             \* quote(str(None))
GoWords == {}
JavaWords == {}
KotlinWords == {}
RustWords == {}                 \* its map of strings holds no null
CsharpWords == {}
SwiftWords == {"path", "query"} \* NSNull is described
RubyWords == {}
PhpWords == {}
McpJsWords == {}
McpPyWords == {}
McpGoWords == {}

NullWords == [ts |-> TsWords, py |-> PyWords, go |-> GoWords, java |-> JavaWords,
              kotlin |-> KotlinWords, rust |-> RustWords, csharp |-> CsharpWords,
              swift |-> SwiftWords, ruby |-> RubyWords, php |-> PhpWords,
              mcpJs |-> McpJsWords, mcpPy |-> McpPyWords, mcpGo |-> McpGoWords]

(***************************************************************************)
(* The page runtime: where the next cursor is looked for.                  *)
(***************************************************************************)
TsPage == "top"
PyPage == "top"
GoPage == "top"
JavaPage == "top"
KotlinPage == "top"
\* The text is searched, so a field of a record is found as well.
RustPage == "anywhere"
CsharpPage == "top"
SwiftPage == "top"
RubyPage == "top"
PhpPage == "top"

Looks == [ts |-> TsPage, py |-> PyPage, go |-> GoPage, java |-> JavaPage, kotlin |-> KotlinPage,
          rust |-> RustPage, csharp |-> CsharpPage, swift |-> SwiftPage, ruby |-> RubyPage,
          php |-> PhpPage]

(***************************************************************************)
(* iterate*: what a caller has of the pages when a later one fails, and    *)
(* the page it starts from (TypeScript keeps a negative one).              *)
(***************************************************************************)
Iterate(gives) == [gives |-> gives, first |-> 1]
TsIterate == [Iterate("each") EXCEPT !.first = -1]
PyIterate == Iterate("each")
GoIterate == Iterate("all so far")
JavaIterate == Iterate("nothing")
KotlinIterate == Iterate("nothing")
RustIterate == Iterate("nothing")
CsharpIterate == Iterate("nothing")
SwiftIterate == Iterate("nothing")
RubyIterate == Iterate("nothing")
PhpIterate == Iterate("nothing")

Iterates == [ts |-> TsIterate, py |-> PyIterate, go |-> GoIterate, java |-> JavaIterate,
             kotlin |-> KotlinIterate, rust |-> RustIterate, csharp |-> CsharpIterate,
             swift |-> SwiftIterate, ruby |-> RubyIterate, php |-> PhpIterate]
=============================================================================
