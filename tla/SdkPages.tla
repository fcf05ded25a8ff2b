-------------------------------- MODULE SdkPages --------------------------------
(***************************************************************************)
(* The iterate* helpers of the emitted clients: the loop that asks for one *)
(* page after the other, against servers of several kinds (external).      *)
(*                                                                         *)
(* A list holds the items 1 .. total.  A server is                         *)
(*   plain   it pages by page or offset and names no next page             *)
(*   token   it names the next page by a token and goes by a token it gets *)
(*   link    it names it by a link, and knows no cursor parameter          *)
(*   inner   it is plain, and its records have a field called next         *)
(* A cursor is the number of items before the page it names, 0 for none.   *)
(***************************************************************************)
EXTENDS SdkClients, Sequences, FiniteSetsExt

CONSTANTS
  Totals,    \* lengths of the list
  Sizes,     \* values of the size parameter, 0 when it is not given
  Largest,   \* the largest page the server gives; its page when none is asked
  PageCap    \* the 1000 rounds of the loop

ASSUME PageAssumption ==
  Totals \subseteq Nat /\ Sizes \subseteq Nat /\ Largest \in Nat \ {0} /\ PageCap \in Nat

Kinds == {"plain", "token", "link", "inner"}
Modes == {"page", "offset", "cursor"}

VARIABLES
  lang, mode, kind, size, total,
  number,  \* a number in the path of the operation, or 0
  start,   \* the caller's page or offset argument
  page, offset,
  cursor,  \* state[cursorKey], 0 for none
  rounds,  \* n
  got,     \* the items of the pages the caller has
  next,    \* the cursor the last page named, 0 for none
  run      \* "on", "done", "cap", "failed", or "odd": an answer was no page

choice == <<lang, mode, kind, size, total, number, start>>
pageVars == <<choice, page, offset, cursor, rounds, got, next, run>>

\* paginationInfo: cursor only without page and offset, page before offset.
Mode(params) ==
  IF "page" \in params THEN "page"
  ELSE IF "offset" \in params THEN "offset"
  ELSE IF "cursor" \in params THEN "cursor" ELSE "page"

\* The page to start from: none or 0 is 1, and a negative one is 1 too, but in
\* TypeScript.
FirstPage == IF start > 0 THEN start
             ELSE IF start < 0 THEN Iterates[lang].first ELSE 1

PagesInit ==
  /\ lang \in Langs /\ kind \in Kinds /\ size \in Sizes /\ total \in Totals
  /\ mode \in {Mode(params) : params \in SUBSET Modes}
  /\ number \in {0, 2}
  /\ start \in (IF mode = "cursor" THEN {0} ELSE IF mode = "page" THEN {-1, 0, 2} ELSE {0, 1})
  /\ page = (IF mode = "page" THEN FirstPage ELSE 1)
  /\ offset = (IF mode = "offset" THEN start ELSE 0)
  /\ cursor = 0 /\ rounds = 0 /\ got = <<>> /\ next = 0 /\ run = "on"

(***************************************************************************)
(* The server.                                                             *)
(***************************************************************************)
PageSize == IF size = 0 \/ size > Largest THEN Largest ELSE size

\* The value of page or offset as it is sent: not at all if the path shows it.
Sent(value, default) ==
  IF Splits[lang] = "value" /\ number # 0 /\ value = number THEN default ELSE value

Before ==
  IF kind = "token" /\ cursor # 0 THEN cursor
  ELSE IF mode = "offset" THEN Sent(offset, 0)
  ELSE IF mode = "page" THEN (Sent(page, 1) - 1) * PageSize ELSE 0

Items(before) == [i \in 1 .. Max({0, Min({PageSize, total - before})}) |-> before + i]

\* nextCursorOf: what the client takes for the next cursor.
NextOf(before) ==
  LET after == before + PageSize
  IN CASE kind \in {"token", "link"} -> IF after < total THEN after ELSE 0
       [] kind = "inner" -> IF Looks[lang] = "anywhere" /\ before < total THEN before + 1 ELSE 0
       [] kind = "plain" -> 0

(***************************************************************************)
(* One round of the loop.                                                  *)
(***************************************************************************)
Stops(len) == len = 0 \/ (size > 0 /\ len < size)

\* A cursor that is new is kept, and neither page nor offset moves; otherwise
\* they do.
\* Mutant: the page moves with a new cursor too.
Moves_Both(len, cur) ==
  /\ run' = IF mode = "cursor" /\ cur \in {0, cursor} THEN "done" ELSE "on"
  /\ cursor' = IF cur # 0 THEN cur ELSE cursor
  /\ page' = IF mode = "page" THEN page + 1 ELSE page
  /\ offset' = IF mode = "offset" THEN offset + size ELSE offset
Moves(len, cur) ==
  IF cur \notin {0, cursor}
  THEN run' = "on" /\ cursor' = cur /\ UNCHANGED <<page, offset>>
  ELSE /\ run' = IF mode = "cursor" THEN "done" ELSE "on"
       /\ page' = IF mode = "page" THEN page + 1 ELSE page
       /\ offset' = IF mode = "offset" THEN offset + (IF size > 0 THEN size ELSE len) ELSE offset
       /\ UNCHANGED cursor

Round ==
  /\ run = "on" /\ rounds < PageCap /\ Before >= 0
  /\ rounds' = rounds + 1
  /\ LET items == Items(Before)  cur == NextOf(Before)
     IN /\ got' = got \o items
        /\ next' = cur
        /\ IF Stops(Len(items)) THEN run' = "done" /\ UNCHANGED <<page, offset, cursor>>
           ELSE Moves(Len(items), cur)
  /\ UNCHANGED choice

Capped ==
  /\ run = "on" /\ rounds = PageCap
  /\ run' = "cap"
  /\ UNCHANGED <<choice, page, offset, cursor, rounds, got, next>>

\* A page cannot be had: what the caller is left with.
PageFails ==
  /\ run = "on" /\ rounds < PageCap
  /\ run' = "failed"
  /\ got' = IF Iterates[lang].gives = "nothing" THEN <<>> ELSE got
  /\ UNCHANGED <<choice, page, offset, cursor, rounds, next>>

\* A body with status 200 whose length nobody can tell: the caller is given it
\* among the pages.  If it names a new next page - the items are under a key that
\* pageLen does not know - that is asked for, and the size is not looked at;
PageUnmeasured ==
  /\ run = "on" /\ rounds < PageCap /\ Before >= 0
  /\ NextOf(Before) \notin {0, cursor}
  /\ rounds' = rounds + 1
  /\ got' = got \o Items(Before) /\ next' = NextOf(Before)
  /\ Moves(Len(Items(Before)), NextOf(Before))
  /\ UNCHANGED choice

\* otherwise the loop breaks, as if it were the last.
PageOdd ==
  /\ run = "on" /\ rounds < PageCap
  /\ run' = "odd" /\ rounds' = rounds + 1 /\ next' \in {0, cursor}
  /\ UNCHANGED <<choice, page, offset, cursor, got>>

PagesNext == Round \/ Capped \/ PageFails \/ PageUnmeasured \/ PageOdd

PagesSpec == PagesInit /\ [][PagesNext]_pageVars

-----------------------------------------------------------------------------
(***************************************************************************)
(* Properties.                                                             *)
(***************************************************************************)
\* The type invariant.
PagesTypeOK ==
  /\ lang \in Langs /\ mode \in Modes /\ kind \in Kinds
  /\ page \in Int /\ offset \in Nat /\ cursor \in Nat /\ next \in Nat
  /\ rounds \in 0 .. PageCap /\ got \in Seq(1 .. total)
  /\ run \in {"on", "done", "cap", "failed", "odd"}

\* The server gives pages as they are asked for, in a way the mode goes by.
Suits ==
  /\ size <= Largest
  /\ \/ mode = "cursor" /\ kind = "token"
     \/ mode # "cursor" /\ kind = "plain"
     \/ mode # "cursor" /\ kind = "inner" /\ Looks[lang] = "top"
  /\ Splits[lang] = "value" => number = 0
  /\ start >= 0

\* The items before the one that the caller asks for first.
Skipped == IF mode = "page" THEN (FirstPage - 1) * PageSize ELSE start

\* From a server that suits it, an iterator gives every item from its start on
\* exactly once and in order, whatever the length of the list and the size of
\* the pages: a full last page costs one more request and no item is repeated.
EachItemOnce ==
  Suits => /\ \A i \in DOMAIN got : got[i] = Skipped + i
           /\ run = "done" => Len(got) = Max({0, total - Skipped})

\* README.md:140 "follows a JSON next cursor (next / next_cursor /
\* nextPageToken) or increments page until an empty or short page".
NextFollowed == run = "done" => next \in {0, cursor}
=============================================================================
