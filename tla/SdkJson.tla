-------------------------------- MODULE SdkJson --------------------------------
(***************************************************************************)
(* How the emitted clients without a JSON library read a page and write a  *)
(* body: Java, Kotlin and C# by a reader of recursive descent, Rust by a   *)
(* search of the text.  Documents are trees, texts are sequences of tokens *)
(* (white space, and the characters of strings and numbers, are left out). *)
(* The body that arrives may be cut short, go on after its end, or lack a  *)
(* token.                                                                  *)
(***************************************************************************)
EXTENDS Integers, SequencesExt, FiniteSetsExt

Leaf(v) == [leaf |-> v]
List(s) == [list |-> s]
Object(s) == [object |-> s]  \* a sequence of <<key, document>>; keys may repeat

\* Leaves: a number, null, a string, and a string that is written with escapes.
LeafDocs == {Leaf(v) : v \in {"1", "null", "x", "url"}}
ListDocs == {List(<<>>), List(<<Leaf("1")>>), List(<<Object(<<<<"next", Leaf("x")>>>>), Leaf("1")>>)}
ObjectDocs ==
  {Object(s) : s \in BoundedSeq({"items", "next"} \X (LeafDocs \cup ListDocs), 2)}
FlatDocs == {Object(s) : s \in BoundedSeq({"items", "next"} \X {Leaf("x"), Leaf("url")}, 2)}

Readers == {"java", "kotlin", "csharp", "rust"}

VARIABLES
  reader,
  way,     \* "page" is read, "body" is written
  doc,
  damage,  \* of the text of a page: [kind, at], or <<>> before
  seenPage \* what the client has of it: [len, cursor, parsed], or <<>>

jsonVars == <<reader, way, doc, damage, seenPage>>

(***************************************************************************)
(* Writing.                                                                *)
(***************************************************************************)
\* The escapes of a string, and their undoing.
JavaEscapes == [url |-> "esc"]
KotlinEscapes == [url |-> "esc"]
CsharpEscapes == [url |-> "esc"]
RustEscapes == [url |-> "esc"]
Escapes == [java |-> JavaEscapes, kotlin |-> KotlinEscapes, csharp |-> CsharpEscapes, rust |-> RustEscapes]

Written(v) == IF v \in DOMAIN Escapes[reader] THEN Escapes[reader][v] ELSE v
Denoted(token) == IF token = "esc" THEN "url" ELSE token

Joined(texts) ==
  FlattenSeq([i \in 1 .. Max({0, 2 * Len(texts) - 1}) |->
                IF i % 2 = 1 THEN texts[(i + 1) \div 2] ELSE <<",">>])

\* jsonStringify.
RECURSIVE Text(_)
Text(d) ==
  CASE "leaf" \in DOMAIN d -> <<Written(d.leaf)>>
    [] "list" \in DOMAIN d -> <<"[">> \o Joined([i \in DOMAIN d.list |-> Text(d.list[i])]) \o <<"]">>
    [] "object" \in DOMAIN d ->
         <<"{">> \o Joined([i \in DOMAIN d.object |->
                              <<Written(d.object[i][1]), ":">> \o Text(d.object[i][2])]) \o <<"}">>

(***************************************************************************)
(* Reading.  A result is a document and the place after it, or an error.   *)
(***************************************************************************)
Error == [ok |-> FALSE, doc |-> Leaf("null"), at |-> 0]
Read(d, at) == [ok |-> TRUE, doc |-> d, at |-> at]

At(t, p) == IF p \in DOMAIN t THEN t[p] ELSE "end"

\* What a reader puts up with: a comma before the end, the end of the text as
\* that of a container, and text after the document.
Reader(comma, end, after) == [comma |-> comma, end |-> end, after |-> after]
\* Mutant: it takes the second.
JavaReader_End == Reader(FALSE, TRUE, TRUE)
JavaReader == Reader(FALSE, FALSE, TRUE)
KotlinReader == Reader(FALSE, FALSE, TRUE)
CsharpReader == Reader(FALSE, FALSE, TRUE)
Rules == [java |-> JavaReader, kotlin |-> KotlinReader, csharp |-> CsharpReader, rust |-> JavaReader]  \* Rust reads no tree

\* What is a string, and what else is a leaf.
JavaStrings == {"x", "esc", "items", "next"}
KotlinStrings == {"x", "esc", "items", "next"}
CsharpStrings == {"x", "esc", "items", "next"}
Strings == JavaStrings \cap KotlinStrings \cap CsharpStrings
Others == {"1", "null"}

RECURSIVE JsonValue(_, _), Pairs(_, _, _), Elements(_, _, _)

\* After a member or an element: the container ends or goes on.
Follows(t, p, close) ==
  CASE \/ At(t, p) = close
       \/ Rules[reader].end /\ At(t, p) = "end"
       \/ Rules[reader].comma /\ At(t, p) = "," /\ At(t, p + 1) = close -> "ends"
    [] At(t, p) = "," /\ ~(Rules[reader].comma /\ At(t, p + 1) = close) -> "goes on"
    [] OTHER -> "error"

Pairs(t, p, got) ==
  IF At(t, p) \notin Strings \/ At(t, p + 1) # ":" THEN Error
  ELSE LET v == JsonValue(t, p + 2)
           all == Append(got, <<Denoted(t[p]), v.doc>>)
       IN IF ~v.ok THEN Error
          ELSE CASE Follows(t, v.at, "}") = "ends" -> Read(Object(all), v.at + 1)
                 [] Follows(t, v.at, "}") = "goes on" -> Pairs(t, v.at + 1, all)
                 [] OTHER -> Error

Elements(t, p, got) ==
  LET v == JsonValue(t, p)
      all == Append(got, v.doc)
  IN IF ~v.ok THEN Error
     ELSE CASE Follows(t, v.at, "]") = "ends" -> Read(List(all), v.at + 1)
            [] Follows(t, v.at, "]") = "goes on" -> Elements(t, v.at + 1, all)
            [] OTHER -> Error

JsonValue(t, p) ==
  CASE At(t, p) = "{" -> IF At(t, p + 1) = "}" THEN Read(Object(<<>>), p + 2) ELSE Pairs(t, p + 1, <<>>)
    [] At(t, p) = "[" -> IF At(t, p + 1) = "]" THEN Read(List(<<>>), p + 2) ELSE Elements(t, p + 1, <<>>)
    [] At(t, p) \in Strings \cup Others -> Read(Leaf(Denoted(t[p])), p + 1)
    [] OTHER -> Error

\* m.get(key) after the puts: the last one.
Get(d, key) ==
  LET places == {i \in DOMAIN d.object : d.object[i][1] = key}
  IN IF places = {} THEN Leaf("null") ELSE d.object[Max(places)][2]

\* pageLen and nextCursorOf.
PageLen(d) ==
  CASE "list" \in DOMAIN d -> Len(d.list)
    [] "object" \in DOMAIN d -> LET a == Get(d, "items")
                                IN IF "list" \in DOMAIN a THEN Len(a.list) ELSE -1
    [] OTHER -> -1
Cursor(d) ==
  IF "object" \in DOMAIN d /\ Get(d, "next") \in {Leaf("x"), Leaf("url")} THEN Get(d, "next").leaf ELSE "none"

(***************************************************************************)
(* Rust's search: page_len and next_cursor_of.                            *)
(***************************************************************************)
Keyed(t, key) == {p \in DOMAIN t : t[p] = key /\ At(t, p + 1) = ":"}

\* json_array_len_at: commas outside of inner brackets.
LenAt(t, p) ==
  LET depth(q) == Cardinality({r \in p + 1 .. q : t[r] \in {"{", "["}})
                  - Cardinality({r \in p + 1 .. q : t[r] \in {"}", "]"}})
      closes == {q \in p + 1 .. Len(t) : depth(q) < 0}
  IN CASE At(t, p + 1) = "]" -> 0
       [] closes # {} /\ At(t, p + 1) # "]" /\ t[Min(closes)] = "]" ->
            1 + Cardinality({q \in p + 1 .. Min(closes) : t[q] = "," /\ depth(q) = 0})
       [] OTHER -> -1

SearchLen(t) ==
  LET lists == {p \in Keyed(t, "items") : At(t, p + 2) = "["}
  IN CASE t \in {<<>>, <<"null">>} -> 0
       [] At(t, 1) = "[" -> LenAt(t, 1)
       [] At(t, 1) # "[" /\ lists # {} -> LenAt(t, Min(lists) + 2)
       [] OTHER -> -1
SearchCursor(t) ==
  LET places == Keyed(t, "next")
      token == At(t, Min(places) + 2)
  IN IF places # {} /\ token \in Strings THEN token ELSE "none"

(***************************************************************************)
(* The program.                                                            *)
(***************************************************************************)
JsonInit ==
  /\ reader \in Readers /\ damage = <<>> /\ seenPage = <<>>
  /\ \/ way = "page" /\ doc \in ObjectDocs \cup ListDocs
     \/ way = "body" /\ doc \in (IF reader = "rust" THEN FlatDocs ELSE ObjectDocs)

Damaged(kind, at) ==
  CASE kind = "whole" -> Text(doc)
    [] kind = "cut" -> SubSeq(Text(doc), 1, at - 1)
    [] kind = "drop" -> RemoveAt(Text(doc), at)
    [] kind = "junk" -> Append(Text(doc), "]")

\* asPageData: what does not parse stays a string, which is no page.
PageOf(t) ==
  LET v == JsonValue(t, 1)
      parsed == IF Rules[reader].after \/ v.at = Len(t) + 1 THEN v ELSE Error
  IN CASE reader = "rust" -> [len |-> SearchLen(t), cursor |-> SearchCursor(t), parsed |-> Error]
       [] reader # "rust" /\ parsed.ok ->
            [len |-> PageLen(parsed.doc), cursor |-> Cursor(parsed.doc), parsed |-> parsed]
       [] OTHER -> [len |-> -1, cursor |-> "none", parsed |-> Error]

ReadPage ==
  /\ way = "page" /\ seenPage = <<>>
  /\ \E kind \in {"whole", "cut", "drop", "junk"}, at \in 1 .. Len(Text(doc)) :
       /\ kind \in {"whole", "junk"} => at = 1
       /\ damage' = [kind |-> kind, at |-> at]
       /\ seenPage' = PageOf(Damaged(kind, at))
  /\ UNCHANGED <<reader, way, doc>>

\* The API server reads the body.
WriteBody ==
  /\ way = "body" /\ seenPage = <<>>
  /\ seenPage' = [len |-> -1, cursor |-> "none", parsed |-> JsonValue(Text(doc), 1)]
  /\ UNCHANGED <<reader, way, doc, damage>>

JsonNext == ReadPage \/ WriteBody
JsonSpec == JsonInit /\ [][JsonNext]_jsonVars

-----------------------------------------------------------------------------
(***************************************************************************)
(* Properties.                                                             *)
(***************************************************************************)
\* The type invariant.
JsonTypeOK == seenPage = <<>> \/ (seenPage.len \in Int /\ seenPage.parsed.ok \in BOOLEAN)

\* The keys of a page are in it once, not in its records, and the cursor needs
\* no escapes: then the text can be searched.
Searchable ==
  /\ "object" \in DOMAIN doc
  /\ \A key \in {"items", "next"} : Cardinality(Keyed(Text(doc), key)) <= 1
  /\ Cardinality(Keyed(Text(doc), "next")) = 1 => Get(doc, "next") # Leaf("null")
  /\ Cursor(doc) # "url"

\* A page is read as it was written, by every client; a page that was cut short
\* is no page, so none of its items is taken for all of them; what lacks a token
\* is read only up to a document's end; and a body says what the caller gave.
\* The search finds the length of a page that was cut, if the list was whole,
\* and takes a page of which nothing is left for an empty one: page_len gives 0.
PageRead ==
  seenPage # <<>> =>
    CASE way = "body" -> seenPage.parsed = Read(doc, Len(Text(doc)) + 1)
      [] way = "page" /\ reader # "rust" ->
           /\ damage.kind \in {"whole", "junk"} => seenPage.parsed.doc = doc /\ seenPage.parsed.ok
           /\ damage.kind = "cut" => seenPage.len = -1 /\ seenPage.cursor = "none"
           /\ seenPage.parsed.ok => IsPrefix(Text(seenPage.parsed.doc), Damaged(damage.kind, damage.at))
      [] way = "page" /\ reader = "rust" ->
           Searchable =>
             /\ damage.kind \in {"whole", "junk"} => seenPage.len = PageLen(doc) /\ seenPage.cursor = Cursor(doc)
             /\ damage.kind = "cut" =>
                  /\ seenPage.len \in (IF damage.at = 1 THEN {0} ELSE {-1, PageLen(doc)})
                  /\ seenPage.cursor \in {"none", Cursor(doc)}
=============================================================================
